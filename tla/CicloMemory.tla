------------------------------ MODULE CicloMemory ------------------------------
(***************************************************************************)
(* The project memory (class CicloMemoryStore, src/src/ciclo-memory.ts).    *)
(*                                                                          *)
(* Every process holds all entries in memory and appends each new version    *)
(* of an entry to .ciclo/memory.jsonl.  A process reads the file only when   *)
(* it starts, and then the last line of an id wins: the file is therefore    *)
(* the map disk.  The store is synchronous, so within a process nothing      *)
(* interrupts compact(); but other processes append and compact meanwhile,   *)
(* an append may fail or be cut short, and the process may die between two    *)
(* appends.  Each append is a step.                                          *)
(***************************************************************************)
EXTENDS Naturals, FiniteSets

CONSTANTS
    Process,      \* processes with a memory store
    Compactor,    \* those that ever call compact()
    Id,           \* ids of entries; each is drawn at most once (randomUUID)
    NoId,
    Group,        \* [Id -> scope and tags of the entry with that id]
    Remembered,   \* what callers record: records [kind, high]
    MinCompound,  \* entries of a group worth a summary
    CompactAfter, ArchiveAfter,   \* in days
    MaxDay,       \* bound on the calendar
    MaxFaults     \* bound on the appends that fail and the processes that die

ASSUME MemoryAssumption ==
    /\ Compactor \subseteq Process
    /\ NoId \notin Id
    /\ Remembered \subseteq [kind : {"detail", "summary"}, high : BOOLEAN]
    /\ MinCompound \in Nat \ {0} /\ CompactAfter \in Nat /\ ArchiveAfter \in Nat
    /\ MaxDay \in Nat /\ MaxFaults \in Nat

VARIABLES
    mem,    \* the entries each process holds
    disk,   \* the last line of each id that a load of the file finds
    tail,   \* how the file ends: with a whole line, a torn one, or one that lacks
            \* only its newline, and then what was there of its id before it
    drawn,  \* ids drawn so far
    work,   \* what each process is doing
    day, faults,
    behind,    \* history: ids of which a process has not seen the last line
    reverted,  \* history: ids with a line glued to another, or written by a process
               \* behind
    unnamed    \* history: entries that no summary names since the line that did was
               \* glued to another, or written over by a process behind

vars == <<mem, disk, tail, drawn, work, day, faults, behind, reverted, unnamed>>
history == <<behind, reverted, unnamed>>

Day == 0..MaxDay

Entry ==
    [kind : {"detail", "summary"}, high : BOOLEAN,     \* importance
     state : {"none", "active", "compacted", "archived"},
     seen : Day, age : Day, sources : SUBSET Id]

NoEntry ==
    [kind |-> "detail", high |-> FALSE, state |-> "none", seen |-> 0, age |-> 0, sources |-> {}]

Work ==
    [pc : {"idle", "age", "group", "link", "mark", "archive"},
     at : Day,               \* the time compact() was called with
     todo : SUBSET Id,       \* entries the current loop has yet to visit
     summary : Id \cup {NoId}]

Ended == [kind |-> "ended", id |-> NoId, before |-> NoEntry]
Torn == [Ended EXCEPT !.kind = "torn"]

Rest(step) == [pc |-> step, at |-> 0, todo |-> {}, summary |-> NoId]
Nothing == [i \in Id |-> NoEntry]

TypeOK ==
    /\ mem \in [Process -> [Id -> Entry]]
    /\ disk \in [Id -> Entry]
    /\ tail \in {Ended, Torn} \cup [kind : {"unended"}, id : Id, before : Entry]
    /\ drawn \subseteq Id
    /\ work \in [Process -> Work]
    /\ \A p \in Process : work[p].pc = "link" => work[p].summary \in Id
    /\ day \in Day /\ faults \in Nat
    /\ behind \in [Process -> SUBSET Id] /\ reverted \subseteq Id /\ unnamed \subseteq Id

Init ==
    /\ mem = [p \in Process |-> Nothing]
    /\ disk = Nothing /\ tail = Ended
    /\ drawn = {}
    /\ work = [p \in Process |-> Rest("idle")]
    /\ day = 0 /\ faults = 0
    /\ behind = [p \in Process |-> {}] /\ reverted = {} /\ unnamed = {}

Kept(p, i) == mem[p][i].state # "none"
-----------------------------------------------------------------------------
(* What becomes of an append: it is written, nothing of it is, or it is cut    *)
(* short, in the line or before its newline; only the first does not throw.    *)
Outcome == {"written", "refused", "torn", "unended"}

(* The line can be read: it is whole and begins a line of the file.           *)
Readable(outcome) == tail.kind = "ended" /\ outcome \in {"written", "unended"}

(* What is appended after a torn line is glued to it, and the two are one that *)
(* does not parse; a line that lacked its newline can be read until then.      *)
Glued(outcome) == tail.kind # "ended" /\ outcome # "refused"
Undone(outcome) == tail.kind = "unended" /\ outcome # "refused"

Persist(i, entry, outcome) ==
    /\ disk' = IF Readable(outcome) THEN [disk EXCEPT ![i] = entry]
               ELSE IF Undone(outcome) THEN [disk EXCEPT ![tail.id] = tail.before] ELSE disk
    /\ tail' = CASE outcome = "refused" -> tail
                 [] outcome = "written" -> Ended
                 [] outcome = "unended" /\ tail.kind = "ended" ->
                        [kind |-> "unended", id |-> i, before |-> disk[i]]
                 [] OTHER -> Torn

(* A summary in the file names the entry. *)
Summarised(i) == \E m \in Id : disk[m].kind = "summary" /\ i \in disk[m].sources

(* The entries that lose the line that names them, and the ids whose lines are *)
(* lost or written over.                                                     *)
Unnamed(p, i, entry, outcome) ==
    (IF Glued(outcome) THEN entry.sources ELSE {})
    \cup (IF Undone(outcome) THEN disk[tail.id].sources ELSE {})
    \cup (IF Readable(outcome) /\ i \in behind[p] THEN disk[i].sources ELSE {})

Reverted(p, i, outcome) ==
    (IF Undone(outcome) THEN {tail.id} ELSE {})
    \cup (IF Readable(outcome) /\ i \in behind[p] THEN {i} ELSE {})

Behind(p, i, outcome) ==
    LET changed == IF Undone(outcome) THEN {tail.id} ELSE IF Readable(outcome) THEN {i} ELSE {}
        own(q) == IF q = p /\ Readable(outcome) THEN {i} ELSE {}
    IN  [q \in Process |-> (behind[q] \cup {j \in changed : Kept(q, j)}) \ own(q)]

(* upsert: the map first, then the file.  When the append throws, the         *)
(* operation under way ends there and the map is ahead of the file.           *)
Upsert(p, i, entry, outcome, next) ==
    /\ mem' = [mem EXCEPT ![p][i] = entry]
    /\ Persist(i, entry, outcome)
    /\ outcome # "written" => faults < MaxFaults
    /\ faults' = IF outcome = "written" THEN faults ELSE faults + 1
    /\ work' = [work EXCEPT ![p] = IF outcome = "written" THEN next ELSE Rest("idle")]
    /\ unnamed' = {j \in unnamed \cup Unnamed(p, i, entry, outcome) : ~Summarised(j)'}
    /\ reverted' = reverted \cup Reverted(p, i, outcome)
    /\ behind' = Behind(p, i, outcome)

NewEntry(kind, high, sources) ==
    [kind |-> kind, high |-> high, state |-> "active", seen |-> day, age |-> 0, sources |-> sources]

Record(p, i, kind, high, outcome) ==
    /\ work[p].pc = "idle" /\ i \notin drawn
    /\ drawn' = drawn \cup {i}
    /\ Upsert(p, i, NewEntry(kind, high, {}), outcome, work[p])
    /\ UNCHANGED day

(* The operators named Bug... are the definition after them with a defect,    *)
(* used only to show that the properties notice it.                           *)

(* Days since the entry was seen, as of the time compact() was given: the     *)
(* heartbeat gives the start of its tick.                                     *)
Age(entry, at) == IF at > entry.seen THEN at - entry.seen ELSE 0

(* compact(): first every entry whose age changed gets its new age. *)
StartCompaction(p, at) ==
    /\ p \in Compactor /\ work[p].pc = "idle" /\ at <= day
    /\ work' = [work EXCEPT ![p] = [Rest("age") EXCEPT
          !.at = at,
          !.todo = {i \in Id : Kept(p, i) /\ mem[p][i].age # Age(mem[p][i], at)}]]
    /\ UNCHANGED <<mem, disk, tail, drawn, day, faults, history>>

AgeEntry(p, i, outcome) ==
    /\ work[p].pc = "age" /\ i \in work[p].todo
    /\ Upsert(p, i, [mem[p][i] EXCEPT !.age = Age(mem[p][i], work[p].at)], outcome,
              [work[p] EXCEPT !.todo = @ \ {i}])
    /\ UNCHANGED <<drawn, day>>

AllAged(p) ==
    /\ work[p].pc = "age" /\ work[p].todo = {}
    /\ work' = [work EXCEPT ![p].pc = "group"]
    /\ UNCHANGED <<mem, disk, tail, drawn, day, faults, history>>

(* The active details of a group; important ones only when old enough. *)
Members(p, g) ==
    {i \in Id : /\ Group[i] = g
                /\ mem[p][i].state = "active" /\ mem[p][i].kind = "detail"
                /\ mem[p][i].high => mem[p][i].age >= CompactAfter}

Compounds(p, g) == Cardinality(Members(p, g)) >= MinCompound

BugUnlinked(p, g, m, outcome) ==
    /\ work[p].pc = "group" /\ Compounds(p, g) /\ m \notin drawn
    /\ drawn' = drawn \cup {m}
    /\ Upsert(p, m, NewEntry("summary", \E i \in Members(p, g) : mem[p][i].high, {}), outcome,
              [work[p] EXCEPT !.pc = "mark", !.todo = Members(p, g), !.summary = m])
    /\ UNCHANGED day

(* The summary of a group is recorded like any entry, without its sources ... *)
WriteSummary(p, g, m, outcome) ==
    /\ work[p].pc = "group" /\ Compounds(p, g) /\ m \notin drawn
    /\ drawn' = drawn \cup {m}
    /\ Upsert(p, m, NewEntry("summary", \E i \in Members(p, g) : mem[p][i].high, {}), outcome,
              [work[p] EXCEPT !.pc = "link", !.todo = Members(p, g), !.summary = m])
    /\ UNCHANGED day

(* ... then written again with them ... *)
LinkSummary(p, outcome) ==
    /\ work[p].pc = "link"
    /\ Upsert(p, work[p].summary, [mem[p][work[p].summary] EXCEPT !.sources = work[p].todo],
              outcome, [work[p] EXCEPT !.pc = "mark", !.summary = NoId])
    /\ UNCHANGED <<drawn, day>>

AfterMark(p, i) ==
    [work[p] EXCEPT !.todo = @ \ {i}, !.pc = IF work[p].todo = {i} THEN "group" ELSE "mark"]

BugMarkedOnFileOnly(p, i, outcome) ==
    /\ work[p].pc = "mark" /\ i \in work[p].todo /\ outcome = "written"
    /\ Persist(i, [mem[p][i] EXCEPT !.state = "compacted"], outcome)
    /\ behind' = Behind(p, i, outcome)
    /\ work' = [work EXCEPT ![p] = [AfterMark(p, i) EXCEPT !.pc =
                  IF work[p].todo = {i} THEN "archive" ELSE "mark"]]
    /\ UNCHANGED <<mem, drawn, day, faults, reverted, unnamed>>

(* ... and then its sources are marked. *)
MarkSource(p, i, outcome) ==
    /\ work[p].pc = "mark" /\ i \in work[p].todo
    /\ Upsert(p, i, [mem[p][i] EXCEPT !.state = "compacted"], outcome, AfterMark(p, i))
    /\ UNCHANGED <<drawn, day>>

(* Old entries are archived, but for important summaries. *)
Archivable(entry) ==
    /\ entry.state \in {"active", "compacted"} /\ entry.age >= ArchiveAfter
    /\ ~(entry.high /\ entry.kind = "summary")

StartArchiving(p) ==
    /\ work[p].pc = "group" /\ \A g \in {Group[i] : i \in Id} : ~Compounds(p, g)
    /\ work' = [work EXCEPT ![p].pc = "archive", ![p].todo = {i \in Id : Archivable(mem[p][i])}]
    /\ UNCHANGED <<mem, disk, tail, drawn, day, faults, history>>

Archive(p, i, outcome) ==
    /\ work[p].pc = "archive" /\ i \in work[p].todo
    /\ Upsert(p, i, [mem[p][i] EXCEPT !.state = "archived"], outcome,
              [work[p] EXCEPT !.todo = @ \ {i}])
    /\ UNCHANGED <<drawn, day>>

EndCompaction(p) ==
    /\ work[p].pc = "archive" /\ work[p].todo = {}
    /\ work' = [work EXCEPT ![p] = Rest("idle")]
    /\ UNCHANGED <<mem, disk, tail, drawn, day, faults, history>>

(* The process dies at some moment, and when another one takes its place, it    *)
(* reads the file; nothing is heard of it in between.                         *)
Restart(p) ==
    /\ faults < MaxFaults
    /\ faults' = faults + 1
    /\ work' = [work EXCEPT ![p] = Rest("idle")]
    /\ mem' = [mem EXCEPT ![p] = disk]
    /\ behind' = [behind EXCEPT ![p] = {}]
    /\ UNCHANGED <<disk, tail, drawn, day, reverted, unnamed>>

NextDay == day < MaxDay /\ day' = day + 1 /\ UNCHANGED <<mem, disk, tail, drawn, work, faults, history>>

Next ==
    \/ NextDay
    \/ \E p \in Process :
         \/ AllAged(p) \/ StartArchiving(p) \/ EndCompaction(p) \/ Restart(p)
         \/ \E at \in Day : StartCompaction(p, at)
         \/ \E outcome \in Outcome : LinkSummary(p, outcome)
         \/ \E i \in Id, outcome \in Outcome :
              \/ AgeEntry(p, i, outcome) \/ MarkSource(p, i, outcome) \/ Archive(p, i, outcome)
              \/ \E g \in {Group[j] : j \in Id} : WriteSummary(p, g, i, outcome)
              \/ \E r \in Remembered : Record(p, i, r.kind, r.high, outcome)

Spec == Init /\ [][Next]_vars
-----------------------------------------------------------------------------
(* "compounds related memories into higher-generation summaries" (README.md): *)
(* an entry marked compacted in the file is named by a summary in the file,   *)
(* wherever a compaction failed or its process died, whoever records and       *)
(* whoever compacts meanwhile, but for the entries whose naming was glued to a *)
(* torn line, or written over by a process that had not seen it.              *)
DetailsSurvive ==
    \A i \in Id : disk[i].state = "compacted" => Summarised(i) \/ i \in unnamed

Rank(state) ==
    CASE state = "none" -> 0 [] state = "active" -> 1 [] state = "compacted" -> 2 [] OTHER -> 3

TakesNothingBack ==
    \A i \in Id : Rank(disk[i].state) <= Rank(disk'[i].state) \/ i \in reverted'

(* "append-only so sessions can recover after MCP restarts" (README.md): what *)
(* a later line says of an entry never takes back what an earlier one said:   *)
(* no lost entry, and no compacted or archived entry active again, but for    *)
(* those of which a line was lost in a torn one or written by a process that   *)
(* had not seen the last.                                                    *)
NeverTakenBack == [][TakesNothingBack]_vars
================================================================================
