--------------------------- MODULE ProjectLogProofs ----------------------------
(***************************************************************************)
(* Theorems about the two append-only files of a project: its memory, for    *)
(* any processes, entries, groups and limits, and its events, for any        *)
(* processes, readers, limits and numbers of events.                        *)
(***************************************************************************)
EXTENDS CicloMemory, CicloEvents, FiniteSetTheorems, WellFoundedInduction, SequenceTheorems, TLAPS

(* The ages an entry gets are days of the calendar. *)
LEMMA AgeIsDay ==
    ASSUME NEW e \in Entry, NEW at \in Day
    PROVE  Age(e, at) \in Day
  BY MemoryAssumption DEF Age, Entry, Day

(* How a file may end. *)
LEMMA TailsAreDistinct ==
    ASSUME TypeOK
    PROVE  /\ Ended.kind = "ended" /\ Torn.kind = "torn"
           /\ tail.kind = "unended" => tail.id \in Id /\ tail.before \in Entry
  BY DEF TypeOK, Ended, Torn

(* What an upsert does to the file: its line is read, or undoes the one before *)
(* it, or leaves what is read as it is.                                      *)
LEMMA UpsertOnFile ==
    ASSUME TypeOK, NEW p \in Process, NEW i \in Id, NEW e \in Entry, NEW outcome \in Outcome,
           NEW next, Upsert(p, i, e, outcome, next)
    PROVE  \/ /\ Readable(outcome) /\ ~Undone(outcome)
              /\ \A j \in Id : disk'[j] = IF j = i THEN e ELSE disk[j]
           \/ /\ Undone(outcome) /\ ~Readable(outcome) /\ tail.id \in Id /\ tail.before \in Entry
              /\ \A j \in Id : disk'[j] = IF j = tail.id THEN tail.before ELSE disk[j]
           \/ ~Readable(outcome) /\ ~Undone(outcome) /\ disk' = disk
  <1>1. disk' = IF Readable(outcome) THEN [disk EXCEPT ![i] = e]
                ELSE IF Undone(outcome) THEN [disk EXCEPT ![tail.id] = tail.before] ELSE disk
    BY DEF Upsert, Persist
  <1>2. disk \in [Id -> Entry]
    BY DEF TypeOK
  <1>3. CASE Readable(outcome)
    <2>1. ~Undone(outcome)
      BY <1>3 DEF Readable, Undone
    <2> QED BY <1>1, <1>2, <1>3, <2>1
  <1>4. CASE Undone(outcome) /\ ~Readable(outcome)
    <2>1. tail.id \in Id /\ tail.before \in Entry
      BY <1>4, TailsAreDistinct DEF Undone
    <2> QED BY <1>1, <1>2, <1>4, <2>1
  <1>5. CASE ~Readable(outcome) /\ ~Undone(outcome)
    BY <1>1, <1>5
  <1> QED BY <1>3, <1>4, <1>5

(* An upsert of a typed entry by a typed continuation keeps the types. *)
LEMMA UpsertIsTyped ==
    ASSUME TypeOK, NEW p \in Process, NEW i \in Id, NEW e \in Entry, NEW outcome \in Outcome,
           NEW next \in Work, next.pc = "link" => next.summary \in Id,
           drawn' \subseteq Id, day' \in Day, Upsert(p, i, e, outcome, next)
    PROVE  TypeOK'
  <1>1. Rest("idle") \in Work /\ Rest("idle").pc = "idle"
    BY MemoryAssumption DEF Rest, Work, Day
  <1>2. mem' \in [Process -> [Id -> Entry]]
    BY DEF TypeOK, Upsert
  <1>3. disk' \in [Id -> Entry]
    <2>1. disk' \in {[disk EXCEPT ![i] = e], [disk EXCEPT ![tail.id] = tail.before], disk}
      BY DEF Upsert, Persist
    <2>2. \A j \in Id : disk'[j] \in Entry
      BY UpsertOnFile DEF TypeOK
    <2>3. disk \in [Id -> Entry]
      BY DEF TypeOK
    <2> QED BY <2>1, <2>2, <2>3
  <1>4. /\ work' \in [Process -> Work]
        /\ \A q \in Process : work'[q].pc = "link" => work'[q].summary \in Id
    <2>1. \A q \in Process : work'[q] = IF q # p THEN work[q]
                                        ELSE IF outcome = "written" THEN next ELSE Rest("idle")
      BY DEF TypeOK, Upsert
    <2>2. work' \in [Process -> Work]
      BY <1>1 DEF TypeOK, Upsert
    <2> QED BY <1>1, <2>1, <2>2 DEF TypeOK
  <1>5. tail' \in {Ended, Torn} \cup [kind : {"unended"}, id : Id, before : Entry]
    <2>1. disk[i] \in Entry
      BY DEF TypeOK
    <2>2. tail' \in {tail, Ended, Torn, [kind |-> "unended", id |-> i, before |-> disk[i]]}
      BY Zenon DEF Upsert, Persist, Outcome
    <2> QED BY <2>1, <2>2 DEF TypeOK
  <1>6. faults' \in Nat
    BY DEF TypeOK, Upsert
  <1>7. behind' \in [Process -> SUBSET Id]
    <2>1. Undone(outcome) => tail.id \in Id
      BY TailsAreDistinct DEF Undone
    <2> QED BY <2>1 DEF TypeOK, Upsert, Behind
  <1>8. reverted' \subseteq Id
    <2>1. Undone(outcome) => tail.id \in Id
      BY TailsAreDistinct DEF Undone
    <2> QED BY <2>1 DEF TypeOK, Upsert, Reverted
  <1>9. unnamed' \subseteq Id
    <2>1. Undone(outcome) => disk[tail.id] \in Entry
      BY TailsAreDistinct DEF Undone, TypeOK
    <2>2. disk[i] \in Entry
      BY DEF TypeOK
    <2>3. Unnamed(p, i, e, outcome) \subseteq Id
      BY <2>1, <2>2 DEF Unnamed, Entry
    <2>4. unnamed' \subseteq unnamed \cup Unnamed(p, i, e, outcome)
      BY DEF Upsert
    <2> QED BY <2>3, <2>4 DEF TypeOK
  <1> QED BY <1>2, <1>3, <1>4, <1>5, <1>6, <1>7, <1>8, <1>9 DEF TypeOK

(* What the steps write and where they go next is typed. *)
LEMMA RecordsAreTyped ==
    ASSUME TypeOK
    PROVE  /\ NoEntry \in Entry
           /\ \A pc \in {"idle", "age"} : Rest(pc) \in Work /\ Rest(pc).pc = pc
           /\ \A kind \in {"detail", "summary"}, high \in BOOLEAN, S \in SUBSET Id :
                 NewEntry(kind, high, S) \in Entry
  BY MemoryAssumption DEF TypeOK, NoEntry, Entry, Rest, Work, NewEntry, Day

(* A step of one process that writes nothing. *)
LEMMA QuietIsTyped ==
    ASSUME TypeOK, NEW p \in Process, NEW next \in Work, next.pc # "link",
           work' = [work EXCEPT ![p] = next],
           mem' = mem \/ mem' = [mem EXCEPT ![p] = disk],
           behind' = behind \/ behind' = [behind EXCEPT ![p] = {}],
           faults' \in Nat, UNCHANGED <<disk, tail, drawn, day, reverted, unnamed>>
    PROVE  TypeOK'
  <1>1. mem' \in [Process -> [Id -> Entry]] /\ behind' \in [Process -> SUBSET Id]
    BY DEF TypeOK
  <1>2. /\ work' \in [Process -> Work]
        /\ \A q \in Process : work'[q].pc = "link" => work'[q].summary \in Id
    BY DEF TypeOK
  <1> QED BY <1>1, <1>2 DEF TypeOK

LEMMA TypeStep == TypeOK /\ [Next]_vars => TypeOK'
  <1> SUFFICES ASSUME TypeOK, [Next]_vars PROVE TypeOK'
    OBVIOUS
  <1>0. CASE UNCHANGED vars
    BY <1>0 DEF TypeOK, vars
  <1>1. CASE NextDay
    <2>1. day' \in Day
      BY <1>1, MemoryAssumption DEF TypeOK, NextDay, Day
    <2> QED BY <1>1, <2>1 DEF TypeOK, NextDay, history
  <1>2. ASSUME NEW p \in Process,
               AllAged(p) \/ StartArchiving(p) \/ EndCompaction(p) \/ Restart(p)
        PROVE  TypeOK'
    <2>0. work[p] \in Work /\ faults \in Nat
      BY DEF TypeOK
    <2>1. CASE AllAged(p)
      <3> DEFINE next == [work[p] EXCEPT !.pc = "group"]
      <3>1. next \in Work /\ next.pc = "group"
        BY <2>0 DEF Work
      <3>2. work' = [work EXCEPT ![p] = next]
        BY <2>1 DEF AllAged, TypeOK
      <3> HIDE DEF next
      <3> QED BY <2>0, <2>1, <3>1, <3>2, QuietIsTyped DEF AllAged, history
    <2>2. CASE StartArchiving(p)
      <3> DEFINE next == [work[p] EXCEPT !.pc = "archive", !.todo = {i \in Id : Archivable(mem[p][i])}]
      <3>1. next \in Work /\ next.pc = "archive"
        BY <2>0 DEF Work
      <3>2. work' = [work EXCEPT ![p] = next]
        BY <2>2 DEF StartArchiving, TypeOK
      <3> HIDE DEF next
      <3> QED BY <2>0, <2>2, <3>1, <3>2, QuietIsTyped DEF StartArchiving, history
    <2>3. CASE EndCompaction(p)
      BY <2>0, <2>3, RecordsAreTyped, QuietIsTyped DEF EndCompaction, history
    <2>4. CASE Restart(p)
      <3>1. /\ work' = [work EXCEPT ![p] = Rest("idle")] /\ faults' \in Nat
            /\ mem' = [mem EXCEPT ![p] = disk] /\ behind' = [behind EXCEPT ![p] = {}]
            /\ UNCHANGED <<disk, tail, drawn, day, reverted, unnamed>>
        BY <2>0, <2>4 DEF Restart
      <3>2. Rest("idle") \in Work /\ Rest("idle").pc # "link"
        BY RecordsAreTyped
      <3> QED BY <3>1, <3>2, QuietIsTyped
    <2> QED BY <1>2, <2>1, <2>2, <2>3, <2>4
  <1>3. ASSUME NEW p \in Process, NEW at \in Day, StartCompaction(p, at)
        PROVE  TypeOK'
    <2> DEFINE next == [Rest("age") EXCEPT !.at = at,
                          !.todo = {i \in Id : Kept(p, i) /\ mem[p][i].age # Age(mem[p][i], at)}]
    <2>1. next \in Work /\ next.pc = "age"
      BY MemoryAssumption DEF Rest, Work
    <2>2. work' = [work EXCEPT ![p] = next] /\ faults \in Nat
      BY <1>3 DEF StartCompaction, TypeOK
    <2> HIDE DEF next
    <2> QED BY <1>3, <2>1, <2>2, QuietIsTyped DEF StartCompaction, history
  <1>4. ASSUME NEW p \in Process, NEW outcome \in Outcome, LinkSummary(p, outcome)
        PROVE  TypeOK'
    <2> DEFINE e == [mem[p][work[p].summary] EXCEPT !.sources = work[p].todo]
               next == [work[p] EXCEPT !.pc = "mark", !.summary = NoId]
    <2>1. work[p] \in Work /\ work[p].summary \in Id
      BY <1>4 DEF TypeOK, LinkSummary
    <2>2. e \in Entry
      <3>1. mem[p][work[p].summary] \in Entry /\ work[p].todo \in SUBSET Id
        BY <2>1 DEF TypeOK, Work
      <3> QED BY <3>1 DEF Entry
    <2>3. next \in Work /\ next.pc = "mark"
      BY <2>1 DEF Work
    <2>4. Upsert(p, work[p].summary, e, outcome, next) /\ drawn' \subseteq Id /\ day' \in Day
      BY <1>4 DEF LinkSummary, TypeOK
    <2> HIDE DEF e, next
    <2> QED BY <2>1, <2>2, <2>3, <2>4, UpsertIsTyped
  <1>5. ASSUME NEW p \in Process, NEW i \in Id, NEW outcome \in Outcome,
               AgeEntry(p, i, outcome) \/ MarkSource(p, i, outcome) \/ Archive(p, i, outcome)
        PROVE  TypeOK'
    <2>1. work[p] \in Work /\ mem[p][i] \in Entry /\ work[p].pc \in {"age", "mark", "archive"}
      BY <1>5 DEF TypeOK, AgeEntry, MarkSource, Archive
    <2>2. drawn' \subseteq Id /\ day' \in Day
      BY <1>5 DEF TypeOK, AgeEntry, MarkSource, Archive
    <2>3. [work[p] EXCEPT !.todo = @ \ {i}] \in Work /\ [work[p] EXCEPT !.todo = @ \ {i}].pc # "link"
      BY <2>1 DEF Work
    <2>4. CASE AgeEntry(p, i, outcome)
      <3>1. [mem[p][i] EXCEPT !.age = Age(mem[p][i], work[p].at)] \in Entry
        BY <2>1, AgeIsDay DEF Entry, Work
      <3> QED BY <2>2, <2>3, <2>4, <3>1, UpsertIsTyped DEF AgeEntry
    <2>5. CASE MarkSource(p, i, outcome)
      <3>1. [mem[p][i] EXCEPT !.state = "compacted"] \in Entry
        BY <2>1 DEF Entry
      <3>2. AfterMark(p, i) \in Work /\ AfterMark(p, i).pc # "link"
        BY <2>1 DEF AfterMark, Work
      <3> QED BY <2>2, <2>5, <3>1, <3>2, UpsertIsTyped DEF MarkSource
    <2>6. CASE Archive(p, i, outcome)
      <3>1. [mem[p][i] EXCEPT !.state = "archived"] \in Entry
        BY <2>1 DEF Entry
      <3> QED BY <2>2, <2>3, <2>6, <3>1, UpsertIsTyped DEF Archive
    <2> QED BY <1>5, <2>4, <2>5, <2>6
  <1>6. ASSUME NEW p \in Process, NEW i \in Id, NEW outcome \in Outcome, NEW g,
               WriteSummary(p, g, i, outcome)
        PROVE  TypeOK'
    <2> DEFINE high == \E j \in Members(p, g) : mem[p][j].high
               entry == NewEntry("summary", high, {})
               next == [work[p] EXCEPT !.pc = "link", !.todo = Members(p, g), !.summary = i]
    <2>1. work[p] \in Work
      BY DEF TypeOK
    <2>2. entry \in Entry
      <3>1. high \in BOOLEAN
        OBVIOUS
      <3> QED BY <3>1, RecordsAreTyped
    <2>3. Members(p, g) \in SUBSET Id
      BY DEF Members
    <2>4. next \in Work /\ next.summary = i
      BY <2>1, <2>3 DEF Work
    <2>5. Upsert(p, i, entry, outcome, next) /\ drawn' \subseteq Id /\ day' \in Day
      BY <1>6 DEF WriteSummary, TypeOK
    <2> HIDE DEF entry, next
    <2> QED BY <2>2, <2>4, <2>5, UpsertIsTyped
  <1>7. ASSUME NEW p \in Process, NEW i \in Id, NEW outcome \in Outcome, NEW r \in Remembered,
               Record(p, i, r.kind, r.high, outcome)
        PROVE  TypeOK'
    <2>1. r.kind \in {"detail", "summary"} /\ r.high \in BOOLEAN
      BY MemoryAssumption
    <2>2. NewEntry(r.kind, r.high, {}) \in Entry /\ work[p] \in Work /\ work[p].pc = "idle"
      BY <1>7, <2>1, RecordsAreTyped DEF TypeOK, Record
    <2>3. drawn' \subseteq Id /\ day' \in Day
      BY <1>7 DEF Record, TypeOK
    <2> QED BY <1>7, <2>2, <2>3, UpsertIsTyped DEF Record
  <1> QED BY <1>0, <1>1, <1>2, <1>3, <1>4, <1>5, <1>6, <1>7 DEF Next

(* The types of the project memory: ages and days stay on the calendar, and    *)
(* every compaction is at one of its steps.                                   *)
THEOREM TypeCorrect == Spec => []TypeOK
  <1>1. Init => TypeOK
    BY MemoryAssumption DEF Init, TypeOK, Nothing, NoEntry, Entry, Rest, Work, Day
  <1> QED BY <1>1, TypeStep, PTL DEF Spec
-----------------------------------------------------------------------------
(* What the file says of an entry is still said by this version of it. *)
Extends(old, new) ==
    /\ Rank(old.state) <= Rank(new.state)
    /\ old.sources \subseteq new.sources
    /\ old.kind = "summary" => new.kind = "summary"

(* Some summary in the file names the entry, or the line that did is lost. *)
Named(i) == Summarised(i) \/ i \in unnamed

(* Ids in use were drawn, and a missing entry is empty. *)
DrawnInv ==
    /\ \A i \in Id \ drawn : disk[i] = NoEntry /\ \A p \in Process : mem[p][i] = NoEntry
    /\ tail.kind = "unended" => tail.id \in drawn

(* A process knows at least what the last line it has seen of an entry says,   *)
(* and holds as compacted only what a summary named.                          *)
KnowsInv ==
    \A p \in Process, i \in Id :
        /\ Kept(p, i) /\ i \notin behind[p] => Extends(disk[i], mem[p][i])
        /\ mem[p][i].state = "compacted" => Named(i)

(* The details survive, as well when a line without its newline is undone. *)
SurvivalInv ==
    /\ DetailsSurvive
    /\ tail.kind = "unended" /\ tail.before.state = "compacted" => Named(tail.id)

(* What the steps of a compaction rely on. *)
StepOf(p) ==
    /\ \A i \in work[p].todo : Kept(p, i)
    /\ work[p].pc = "link" =>
          /\ work[p].summary \in Id
          /\ mem[p][work[p].summary].kind = "summary"
          /\ mem[p][work[p].summary].state = "active"
          /\ mem[p][work[p].summary].sources = {}
    /\ work[p].pc \in {"link", "mark"} =>
          \A i \in work[p].todo : mem[p][i].state = "active" /\ mem[p][i].kind = "detail"
    /\ work[p].pc = "mark" => \A i \in work[p].todo : Named(i)

StepInv == \A p \in Process : StepOf(p)

RecoveryInv == TypeOK /\ DrawnInv /\ KnowsInv /\ StepInv /\ SurvivalInv

(* What every step keeps: what the file says, unless a line of the id is lost,  *)
(* and what is named.                                                        *)
DiskGrows == \A i \in Id : Extends(disk[i], disk'[i]) \/ i \in reverted'
NamesStay == \A i \in Id : Named(i) => Named(i)'

LEMMA RankOfStates ==
    /\ Rank("none") = 0 /\ Rank("active") = 1 /\ Rank("compacted") = 2 /\ Rank("archived") = 3
    /\ \A e \in Entry : Rank(e.state) \in 0..3
  BY DEF Rank, Entry

(* Every version of an entry says at least what it says itself. *)
LEMMA ExtendsItself ==
    ASSUME NEW e \in Entry
    PROVE  Extends(e, e)
  BY RankOfStates DEF Extends

LEMMA ExtendsNothing ==
    ASSUME NEW e \in Entry
    PROVE  Extends(NoEntry, e)
  BY RankOfStates DEF Extends, NoEntry

(* Where the file and what is unnamed stay as they are, so does all of it. *)
LEMMA SameFile ==
    ASSUME TypeOK, disk' = disk, unnamed' = unnamed
    PROVE  DiskGrows /\ NamesStay /\ \A i \in Id : Named(i)' <=> Named(i)
  <1>1. \A i \in Id : disk[i] \in Entry
    BY DEF TypeOK
  <1> QED BY <1>1, ExtendsItself DEF DiskGrows, NamesStay, Named, Summarised

(* A new version that extends what the file says, unless its writer is behind,  *)
(* makes the file grow.                                                      *)
LEMMA UpsertGrows ==
    ASSUME TypeOK, NEW p \in Process, NEW i \in Id, NEW e \in Entry, NEW outcome \in Outcome,
           NEW next, Upsert(p, i, e, outcome, next), i \in behind[p] \/ Extends(disk[i], e)
    PROVE  DiskGrows
  <1> SUFFICES ASSUME NEW j \in Id PROVE Extends(disk[j], disk'[j]) \/ j \in reverted'
    BY DEF DiskGrows
  <1>1. Extends(disk[j], disk[j])
    BY ExtendsItself DEF TypeOK
  <1>2. reverted' = reverted \cup Reverted(p, i, outcome)
    BY DEF Upsert
  <1>3. CASE Readable(outcome) /\ j = i
    <2>1. disk'[j] = e
      BY <1>3, UpsertOnFile
    <2>2. i \in behind[p] => i \in reverted'
      BY <1>2, <1>3 DEF Reverted
    <2> QED BY <1>3, <2>1, <2>2
  <1>4. CASE Undone(outcome) /\ j = tail.id
    <2>1. j \in reverted'
      BY <1>2, <1>4 DEF Reverted
    <2> QED BY <2>1
  <1>5. CASE ~(Readable(outcome) /\ j = i) /\ ~(Undone(outcome) /\ j = tail.id)
    <2>1. disk'[j] = disk[j]
      BY <1>5, UpsertOnFile
    <2> QED BY <1>1, <2>1
  <1> QED BY <1>3, <1>4, <1>5

(* ... and every name it takes away is noted. *)
LEMMA UpsertKeepsNames ==
    ASSUME TypeOK, NEW p \in Process, NEW i \in Id, NEW e \in Entry, NEW outcome \in Outcome,
           NEW next, Upsert(p, i, e, outcome, next), i \in behind[p] \/ Extends(disk[i], e)
    PROVE  NamesStay
  <1> SUFFICES ASSUME NEW j \in Id, Named(j) PROVE Named(j)'
    BY DEF NamesStay
  <1>1. \A k \in unnamed \cup Unnamed(p, i, e, outcome) : k \in unnamed' \/ Summarised(k)'
    BY DEF Upsert
  <1>2. CASE j \in unnamed
    BY <1>1, <1>2 DEF Named
  <1>3. CASE Summarised(j)
    <2>1. PICK m \in Id : disk[m].kind = "summary" /\ j \in disk[m].sources
      BY <1>3 DEF Summarised
    <2>2. CASE disk'[m] = disk[m]
      BY <2>1, <2>2 DEF Named, Summarised
    <2>3. CASE disk'[m] # disk[m] /\ Readable(outcome)
      <3>1. m = i /\ disk'[m] = e
        BY <2>3, UpsertOnFile
      <3>2. CASE i \in behind[p]
        <4>1. j \in Unnamed(p, i, e, outcome)
          BY <2>1, <2>3, <3>1, <3>2 DEF Unnamed
        <4> QED BY <1>1, <4>1 DEF Named
      <3>3. CASE Extends(disk[i], e)
        <4>1. disk'[m].kind = "summary" /\ j \in disk'[m].sources
          BY <2>1, <3>1, <3>3 DEF Extends
        <4> QED BY <4>1 DEF Named, Summarised
      <3> QED BY <3>2, <3>3
    <2>4. CASE disk'[m] # disk[m] /\ ~Readable(outcome)
      <3>1. Undone(outcome) /\ m = tail.id
        BY <2>4, UpsertOnFile
      <3>2. j \in Unnamed(p, i, e, outcome)
        BY <2>1, <3>1 DEF Unnamed
      <3> QED BY <1>1, <3>2 DEF Named
    <2> QED BY <2>2, <2>3, <2>4
  <1> QED BY <1>2, <1>3 DEF Named

(* What an upsert leaves alone. *)
LEMMA UpsertElsewhere ==
    ASSUME TypeOK, NEW p \in Process, NEW i \in Id, NEW e, NEW outcome, NEW next,
           Upsert(p, i, e, outcome, next)
    PROVE  /\ \A q \in Process : q # p => work'[q] = work[q] /\ mem'[q] = mem[q]
           /\ \A q \in Process, j \in Id : mem'[q][j] = IF q = p /\ j = i THEN e ELSE mem[q][j]
           /\ work'[p] = IF outcome = "written" THEN next ELSE Rest("idle")
  BY DEF TypeOK, Upsert

(* Who is behind after it: whoever holds another version of what has changed. *)
LEMMA UpsertBehind ==
    ASSUME TypeOK, NEW p \in Process, NEW i \in Id, NEW e \in Entry, NEW outcome \in Outcome,
           NEW next, Upsert(p, i, e, outcome, next)
    PROVE  \A q \in Process, j \in Id :
             /\ q # p \/ j # i => (j \in behind[q] => j \in behind'[q])
             /\ ~Readable(outcome) => (j \in behind[q] => j \in behind'[q])
             /\ Readable(outcome) /\ j = i /\ q # p /\ Kept(q, j) => j \in behind'[q]
             /\ Undone(outcome) /\ j = tail.id /\ Kept(q, j) => j \in behind'[q]
  <1>1. Undone(outcome) => ~Readable(outcome)
    BY DEF Undone, Readable
  <1>2. behind \in [Process -> SUBSET Id]
    BY DEF TypeOK
  <1> QED BY <1>1, <1>2 DEF Upsert, Behind

(* An upsert keeps what is known and what survives, if the new version extends *)
(* what the file says or its writer is behind, is compacted only if named, and *)
(* is of an entry that is new or that the process holds.                       *)
LEMMA UpsertKeepsInv ==
    ASSUME RecoveryInv, NEW p \in Process, NEW i \in Id, NEW e \in Entry,
           NEW outcome \in Outcome, NEW next, Upsert(p, i, e, outcome, next),
           i \in behind[p] \/ Extends(disk[i], e), e.state # "none",
           drawn' = drawn \cup {i},
           e.state = "compacted" => Named(i),
           Kept(p, i) \/ i \notin drawn
    PROVE  DiskGrows /\ NamesStay /\ DrawnInv' /\ KnowsInv' /\ SurvivalInv'
  <1>0. TypeOK /\ DrawnInv /\ KnowsInv /\ SurvivalInv
    BY DEF RecoveryInv
  <1>1. DiskGrows /\ NamesStay
    BY <1>0, UpsertGrows, UpsertKeepsNames
  <1>2. \A q \in Process, j \in Id : mem'[q][j] = IF q = p /\ j = i THEN e ELSE mem[q][j]
    BY <1>0, UpsertElsewhere
  <1>3. tail' = CASE outcome = "refused" -> tail
                  [] outcome = "written" -> Ended
                  [] outcome = "unended" /\ tail.kind = "ended" ->
                         [kind |-> "unended", id |-> i, before |-> disk[i]]
                  [] OTHER -> Torn
    BY DEF Upsert, Persist
  <1>4. tail'.kind = "unended" => tail' = tail \/ (tail'.id = i /\ tail'.before = disk[i])
    BY <1>0, <1>3, TailsAreDistinct DEF Outcome
  <1>5. DrawnInv'
    <2>1. ASSUME NEW j \in Id \ drawn' PROVE disk'[j] = NoEntry
      <3>1. j # i /\ disk[j] = NoEntry
        BY <1>0, <2>1 DEF DrawnInv
      <3>2. Undone(outcome) => tail.id \in drawn
        BY <1>0 DEF DrawnInv, Undone
      <3>3. disk'[j] = disk[j]
        BY <1>0, <2>1, <3>1, <3>2, UpsertOnFile
      <3> QED BY <3>1, <3>3
    <2>2. ASSUME NEW j \in Id \ drawn', NEW q \in Process PROVE mem'[q][j] = NoEntry
      BY <1>0, <1>2, <2>2 DEF DrawnInv
    <2>3. tail'.kind = "unended" => tail'.id \in drawn'
      BY <1>0, <1>4 DEF DrawnInv
    <2> QED BY <2>1, <2>2, <2>3 DEF DrawnInv
  <1>6. KnowsInv'
    <2> SUFFICES ASSUME NEW q \in Process, NEW j \in Id
                 PROVE  /\ Kept(q, j)' /\ j \notin behind'[q] => Extends(disk'[j], mem'[q][j])
                        /\ mem'[q][j].state = "compacted" => Named(j)'
      BY DEF KnowsInv
    <2>1. mem'[q][j].state = "compacted" => Named(j)'
      BY <1>0, <1>1, <1>2 DEF KnowsInv, NamesStay
    <2>2. ASSUME Kept(q, j)', j \notin behind'[q] PROVE Extends(disk'[j], mem'[q][j])
      <3>1. CASE q = p /\ j = i
        <4>1. mem'[q][j] = e
          BY <1>2, <3>1
        <4>2. CASE Readable(outcome)
          BY <1>0, <3>1, <4>1, <4>2, UpsertOnFile, ExtendsItself
        <4>3. CASE ~Readable(outcome)
          <5>1. j \notin behind[q]
            BY <1>0, <2>2, <4>3, UpsertBehind
          <5>2. ~(Undone(outcome) /\ j = tail.id)
            <6>1. CASE Kept(p, i)
              BY <1>0, <2>2, <3>1, <6>1, UpsertBehind
            <6>2. CASE i \notin drawn
              BY <1>0, <3>1, <6>2 DEF DrawnInv, Undone
            <6> QED BY <6>1, <6>2
          <5>3. disk'[j] = disk[j]
            BY <1>0, <4>3, <5>2, UpsertOnFile
          <5> QED BY <3>1, <4>1, <5>1, <5>3
        <4> QED BY <4>2, <4>3
      <3>2. CASE ~(q = p /\ j = i)
        <4>1. mem'[q][j] = mem[q][j]
          BY <1>2, <3>2
        <4>2. Kept(q, j)
          BY <2>2, <4>1 DEF Kept
        <4>3. j \notin behind[q]
          BY <1>0, <2>2, <3>2, UpsertBehind
        <4>4. ~(Undone(outcome) /\ j = tail.id)
          BY <1>0, <2>2, <4>2, UpsertBehind
        <4>5. ~(Readable(outcome) /\ j = i)
          BY <1>0, <2>2, <3>2, <4>2, UpsertBehind
        <4>6. disk'[j] = disk[j]
          BY <1>0, <4>4, <4>5, UpsertOnFile
        <4> QED BY <1>0, <4>1, <4>2, <4>3, <4>6 DEF KnowsInv
      <3> QED BY <3>1, <3>2
    <2> QED BY <2>1, <2>2
  <1>7. SurvivalInv'
    <2>1. \A j \in Id : disk[j].state = "compacted" => Named(j)
      BY <1>0 DEF SurvivalInv, DetailsSurvive, Named
    <2>2. ASSUME NEW j \in Id, disk'[j].state = "compacted" PROVE Named(j)'
      <3>1. \/ disk'[j] = disk[j] \/ (j = i /\ disk'[j] = e)
            \/ (Undone(outcome) /\ j = tail.id /\ disk'[j] = tail.before)
        BY <1>0, UpsertOnFile
      <3>2. Named(j)
        BY <1>0, <2>1, <2>2, <3>1 DEF SurvivalInv, Undone
      <3> QED BY <1>1, <3>2 DEF NamesStay
    <2>3. DetailsSurvive'
      BY <2>2 DEF DetailsSurvive, Named
    <2>4. ASSUME tail'.kind = "unended", tail'.before.state = "compacted" PROVE Named(tail.id)'
      <3>1. CASE tail' = tail
        <4>1. tail.id \in Id /\ Named(tail.id)
          BY <1>0, <2>4, <3>1, TailsAreDistinct DEF SurvivalInv
        <4> QED BY <1>1, <3>1, <4>1 DEF NamesStay, Named, Summarised
      <3>2. CASE tail'.id = i /\ tail'.before = disk[i]
        <4>1. Named(i)
          BY <2>1, <2>4, <3>2
        <4> QED BY <1>1, <3>2, <4>1 DEF NamesStay, Named, Summarised
      <3> QED BY <1>4, <2>4, <3>1, <3>2
    <2> QED BY <2>3, <2>4 DEF SurvivalInv
  <1> QED BY <1>1, <1>5, <1>6, <1>7

(* What the step of one process shows: the file grows, no name is lost without  *)
(* a note, and the parts of the invariant hold after it.                      *)
Goal == DiskGrows /\ NamesStay /\ DrawnInv' /\ KnowsInv' /\ StepInv' /\ SurvivalInv'

(* A process that starts a compaction, or is between two, relies on nothing. *)
LEMMA StepOfResting ==
    ASSUME NEW p \in Process, work'[p] = Rest("idle")
    PROVE  StepOf(p)'
  BY DEF StepOf, Rest

(* What the compactions of the others rely on stays. *)
LEMMA StepInvFor ==
    ASSUME TypeOK, StepInv, NamesStay, NEW p \in Process, StepOf(p)',
           \A q \in Process : q # p => work'[q] = work[q] /\ mem'[q] = mem[q]
    PROVE  StepInv'
  <1> SUFFICES ASSUME NEW q \in Process, q # p PROVE StepOf(q)'
    BY DEF StepInv
  <1>1. work'[q] = work[q] /\ mem'[q] = mem[q] /\ work[q].todo \subseteq Id
    BY DEF TypeOK, Work
  <1>2. StepOf(q)
    BY DEF StepInv
  <1>3. \A i \in work[q].todo : Named(i) => Named(i)'
    BY <1>1 DEF NamesStay
  <1> QED BY <1>1, <1>2, <1>3 DEF StepOf, Kept

(* An entry that a process holds was drawn, and says what the file says unless  *)
(* the process is behind.                                                    *)
LEMMA Holding ==
    ASSUME RecoveryInv, NEW p \in Process, NEW i \in Id, Kept(p, i)
    PROVE  /\ i \in drawn
           /\ i \in behind[p] \/ Extends(disk[i], mem[p][i])
           /\ mem[p][i].state = "compacted" => Named(i)
  <1>1. i \in drawn
    BY DEF RecoveryInv, DrawnInv, Kept, NoEntry
  <1> QED BY <1>1 DEF RecoveryInv, KnowsInv

(* Steps that write no line: only a process that starts from the file holds    *)
(* other entries than before.                                                *)
LEMMA QuietStep ==
    ASSUME RecoveryInv, UNCHANGED <<disk, tail, drawn, unnamed>>, NEW p \in Process,
           \/ mem' = mem /\ behind' = behind
           \/ mem' = [mem EXCEPT ![p] = disk] /\ behind' = [behind EXCEPT ![p] = {}],
           \A q \in Process : q # p => work'[q] = work[q],
           StepOf(p)'
    PROVE  Goal
  <1>0. TypeOK /\ DrawnInv /\ KnowsInv /\ StepInv /\ SurvivalInv
    BY DEF RecoveryInv
  <1>1. DiskGrows /\ NamesStay /\ \A i \in Id : Named(i)' <=> Named(i)
    BY <1>0, SameFile
  <1>2. \A q \in Process, i \in Id :
           \/ mem'[q][i] = mem[q][i] /\ (i \in behind'[q] <=> i \in behind[q])
           \/ q = p /\ mem'[q][i] = disk[i]
    BY <1>0 DEF TypeOK
  <1>3. DrawnInv'
    BY <1>0, <1>2 DEF DrawnInv
  <1>4. KnowsInv'
    <2> SUFFICES ASSUME NEW q \in Process, NEW i \in Id
                 PROVE  /\ Kept(q, i)' /\ i \notin behind'[q] => Extends(disk[i], mem'[q][i])
                        /\ mem'[q][i].state = "compacted" => Named(i)
      BY <1>1 DEF KnowsInv
    <2>1. CASE mem'[q][i] = mem[q][i] /\ (i \in behind'[q] <=> i \in behind[q])
      BY <1>0, <2>1 DEF KnowsInv, Kept
    <2>2. CASE mem'[q][i] = disk[i]
      <3>1. Extends(disk[i], disk[i])
        BY <1>0, ExtendsItself DEF TypeOK
      <3>2. disk[i].state = "compacted" => Named(i)
        BY <1>0 DEF SurvivalInv, DetailsSurvive, Named
      <3> QED BY <2>2, <3>1, <3>2
    <2> QED BY <1>2, <2>1, <2>2
  <1>5. StepInv'
    <2>1. \A q \in Process : q # p => work'[q] = work[q] /\ mem'[q] = mem[q]
      BY <1>0 DEF TypeOK
    <2> QED BY <1>0, <1>1, <2>1, StepInvFor
  <1>6. SurvivalInv'
    <2>1. DetailsSurvive'
      BY <1>0 DEF SurvivalInv, DetailsSurvive, Summarised
    <2>2. tail.kind = "unended" => tail.id \in Id
      BY <1>0, TailsAreDistinct
    <2> QED BY <1>0, <1>1, <2>1, <2>2 DEF SurvivalInv, Named, Summarised
  <1> QED BY <1>1, <1>3, <1>4, <1>5, <1>6 DEF Goal

(* Recording an entry, by any process: its id is new. *)
LEMMA RecordStep ==
    ASSUME RecoveryInv, NEW p \in Process, NEW i \in Id, NEW outcome \in Outcome,
           NEW kind \in {"detail", "summary"}, NEW high \in BOOLEAN, Record(p, i, kind, high, outcome)
    PROVE  Goal
  <1> DEFINE e == NewEntry(kind, high, {})
  <1>1. TypeOK /\ e \in Entry
    BY RecordsAreTyped DEF RecoveryInv
  <1>2. /\ Upsert(p, i, e, outcome, work[p]) /\ drawn' = drawn \cup {i} /\ i \notin drawn
        /\ work[p].pc = "idle"
    BY DEF Record
  <1>3. Extends(disk[i], e)
    BY <1>1, <1>2, ExtendsNothing DEF RecoveryInv, DrawnInv
  <1>4. e.state = "active"
    BY DEF NewEntry
  <1> HIDE DEF e
  <1>5. DiskGrows /\ NamesStay /\ DrawnInv' /\ KnowsInv' /\ SurvivalInv'
    BY <1>1, <1>2, <1>3, <1>4, UpsertKeepsInv
  <1>6. /\ \A q \in Process : q # p => work'[q] = work[q] /\ mem'[q] = mem[q]
        /\ \A j \in Id : mem'[p][j] = IF j = i THEN e ELSE mem[p][j]
        /\ work'[p] = IF outcome = "written" THEN work[p] ELSE Rest("idle")
    BY <1>1, <1>2, UpsertElsewhere
  <1>7. StepOf(p)'
    <2>1. CASE outcome # "written"
      BY <1>6, <2>1, StepOfResting
    <2>2. CASE outcome = "written"
      <3>1. work[p].todo \subseteq Id /\ \A j \in work[p].todo : Kept(p, j)
        BY <1>1 DEF TypeOK, Work, RecoveryInv, StepInv, StepOf
      <3>2. \A j \in work[p].todo : Kept(p, j)'
        BY <1>4, <1>6, <3>1 DEF Kept
      <3> QED BY <1>2, <1>6, <2>2, <3>2 DEF StepOf
    <2> QED BY <2>1, <2>2
  <1> QED BY <1>1, <1>5, <1>6, <1>7, StepInvFor DEF RecoveryInv, Goal

(* What a visit of a compaction makes of an entry, and where it goes on. *)
Visited(p, i, outcome, e, next) ==
    /\ e \in Entry /\ next \in Work
    /\ Upsert(p, i, e, outcome, next)
    /\ e.kind = mem[p][i].kind /\ e.sources = mem[p][i].sources
    /\ \/ e.state = mem[p][i].state
       \/ work[p].pc = "mark" /\ e.state = "compacted"
       \/ e.state = "archived"
    /\ next.pc \in {work[p].pc, "group"} /\ next.todo = work[p].todo \ {i}

LEMMA VisitIsTyped ==
    ASSUME TypeOK, NEW p \in Process, NEW i \in Id, NEW outcome \in Outcome,
           AgeEntry(p, i, outcome) \/ MarkSource(p, i, outcome) \/ Archive(p, i, outcome)
    PROVE  \E e, next : Visited(p, i, outcome, e, next)
  <1> DEFINE old == mem[p][i]
  <1>1. work[p] \in Work /\ old \in Entry
    BY DEF TypeOK
  <1>2. CASE AgeEntry(p, i, outcome)
    <2>1. [old EXCEPT !.age = Age(old, work[p].at)] \in Entry
      BY <1>1, AgeIsDay DEF Entry, Work
    <2>2. [work[p] EXCEPT !.todo = @ \ {i}] \in Work
      BY <1>1 DEF Work
    <2> WITNESS [old EXCEPT !.age = Age(old, work[p].at)], [work[p] EXCEPT !.todo = @ \ {i}]
    <2> QED BY <1>1, <1>2, <2>1, <2>2 DEF AgeEntry, Entry, Work, Visited
  <1>3. CASE MarkSource(p, i, outcome)
    <2>1. [old EXCEPT !.state = "compacted"] \in Entry
      BY <1>1 DEF Entry
    <2>2. AfterMark(p, i) \in Work
      BY <1>1 DEF AfterMark, Work
    <2> WITNESS [old EXCEPT !.state = "compacted"], AfterMark(p, i)
    <2> QED BY <1>1, <1>3, <2>1, <2>2 DEF MarkSource, AfterMark, Entry, Work, Visited
  <1>4. CASE Archive(p, i, outcome)
    <2>1. [old EXCEPT !.state = "archived"] \in Entry
      BY <1>1 DEF Entry
    <2>2. [work[p] EXCEPT !.todo = @ \ {i}] \in Work
      BY <1>1 DEF Work
    <2> WITNESS [old EXCEPT !.state = "archived"], [work[p] EXCEPT !.todo = @ \ {i}]
    <2> QED BY <1>1, <1>4, <2>1, <2>2 DEF Archive, Entry, Work, Visited
  <1> QED BY <1>2, <1>3, <1>4

(* The steps of a compaction that visit an entry: its age, its mark, its       *)
(* archiving.                                                                *)
LEMMA VisitStep ==
    ASSUME RecoveryInv, NEW p \in Process, NEW i \in Id, NEW outcome \in Outcome,
           AgeEntry(p, i, outcome) \/ MarkSource(p, i, outcome) \/ Archive(p, i, outcome)
    PROVE  Goal
  <1> DEFINE old == mem[p][i]
  <1>1. TypeOK /\ work[p] \in Work /\ old \in Entry
    BY DEF RecoveryInv, TypeOK
  <1>2. /\ work[p].pc \in {"age", "mark", "archive"} /\ i \in work[p].todo /\ drawn' = drawn
    BY DEF AgeEntry, MarkSource, Archive
  <1>3. StepOf(p) /\ Kept(p, i)
    BY <1>2 DEF RecoveryInv, StepInv, StepOf
  <1>4. /\ i \in drawn /\ (i \in behind[p] \/ Extends(disk[i], old))
        /\ old.state = "compacted" => Named(i)
    BY <1>3, Holding
  <1>5. PICK e, next : Visited(p, i, outcome, e, next)
    BY <1>1, VisitIsTyped
  <1>6. /\ e \in Entry /\ next \in Work /\ Upsert(p, i, e, outcome, next)
        /\ e.kind = old.kind /\ e.sources = old.sources
        /\ \/ e.state = old.state
           \/ work[p].pc = "mark" /\ e.state = "compacted"
           \/ e.state = "archived"
        /\ next.pc \in {work[p].pc, "group"} /\ next.todo = work[p].todo \ {i}
    BY <1>5 DEF Visited
  <1>7. work[p].pc = "mark" => old.state = "active" /\ Named(i)
    BY <1>2, <1>3 DEF StepOf
  <1>8. i \in behind[p] \/ Extends(disk[i], e)
    <2>1. Rank(old.state) <= Rank(e.state)
      BY <1>1, <1>6, <1>7, RankOfStates
    <2>2. disk[i] \in Entry
      BY <1>1 DEF TypeOK
    <2>3. Rank(disk[i].state) \in 0..3 /\ Rank(old.state) \in 0..3 /\ Rank(e.state) \in 0..3
      BY <1>1, <1>6, <2>2, RankOfStates
    <2> QED BY <1>4, <1>6, <2>1, <2>3 DEF Extends
  <1>9. e.state # "none" /\ (e.state = "compacted" => Named(i))
    BY <1>3, <1>4, <1>6, <1>7 DEF Kept
  <1>10. drawn' = drawn \cup {i}
    BY <1>2, <1>4
  <1>11. DiskGrows /\ NamesStay /\ DrawnInv' /\ KnowsInv' /\ SurvivalInv'
    BY <1>3, <1>6, <1>8, <1>9, <1>10, UpsertKeepsInv
  <1>12. /\ \A q \in Process : q # p => work'[q] = work[q] /\ mem'[q] = mem[q]
         /\ \A j \in Id : mem'[p][j] = IF j = i THEN e ELSE mem[p][j]
         /\ work'[p] = IF outcome = "written" THEN next ELSE Rest("idle")
    BY <1>1, <1>6, UpsertElsewhere
  <1>13. StepOf(p)'
    <2>1. CASE outcome # "written"
      BY <1>12, <2>1, StepOfResting
    <2>2. CASE outcome = "written"
      <3>1. \A j \in work[p].todo \ {i} :
              /\ j \in Id /\ mem'[p][j] = mem[p][j] /\ Kept(p, j)
              /\ work[p].pc = "mark" =>
                   mem[p][j].state = "active" /\ mem[p][j].kind = "detail" /\ Named(j)
        BY <1>1, <1>3, <1>12 DEF Work, StepOf
      <3>2. \A j \in Id : Named(j) => Named(j)'
        BY <1>11 DEF NamesStay
      <3>3. work'[p].pc \in {work[p].pc, "group"} /\ work'[p].todo = work[p].todo \ {i}
        BY <1>6, <1>12, <2>2
      <3> QED BY <1>2, <3>1, <3>2, <3>3 DEF StepOf, Kept
    <2> QED BY <2>1, <2>2
  <1> QED BY <1>1, <1>11, <1>12, <1>13, StepInvFor DEF RecoveryInv, Goal

(* Recording the summary of a group. *)
LEMMA SummaryStep ==
    ASSUME RecoveryInv, NEW p \in Process, NEW g, NEW m \in Id, NEW outcome \in Outcome,
           WriteSummary(p, g, m, outcome)
    PROVE  Goal
  <1> DEFINE high == \E j \in Members(p, g) : mem[p][j].high
             e == NewEntry("summary", high, {})
             next == [work[p] EXCEPT !.pc = "link", !.todo = Members(p, g), !.summary = m]
  <1>1. TypeOK /\ work[p] \in Work /\ work[p].pc = "group"
    BY DEF RecoveryInv, TypeOK, WriteSummary
  <1>2. e \in Entry
    <2>1. high \in BOOLEAN
      OBVIOUS
    <2> QED BY <1>1, <2>1, RecordsAreTyped
  <1>3. Upsert(p, m, e, outcome, next) /\ drawn' = drawn \cup {m} /\ m \notin drawn
    BY DEF WriteSummary
  <1>4. Extends(disk[m], e)
    BY <1>2, <1>3, ExtendsNothing DEF RecoveryInv, DrawnInv
  <1>5. e.state = "active" /\ e.kind = "summary" /\ e.sources = {}
    BY DEF NewEntry
  <1>6. next.pc = "link" /\ next.todo = Members(p, g) /\ next.summary = m
    BY <1>1 DEF Work
  <1> HIDE DEF e, next
  <1>7. DiskGrows /\ NamesStay /\ DrawnInv' /\ KnowsInv' /\ SurvivalInv'
    BY <1>1, <1>2, <1>3, <1>4, <1>5, UpsertKeepsInv
  <1>8. /\ \A q \in Process : q # p => work'[q] = work[q] /\ mem'[q] = mem[q]
        /\ \A j \in Id : mem'[p][j] = IF j = m THEN e ELSE mem[p][j]
        /\ work'[p] = IF outcome = "written" THEN next ELSE Rest("idle")
    BY <1>1, <1>2, <1>3, UpsertElsewhere
  <1>9. StepOf(p)'
    <2>1. CASE outcome # "written"
      BY <1>8, <2>1, StepOfResting
    <2>2. CASE outcome = "written"
      <3>2. mem[p][m].state = "none"
        BY <1>3 DEF RecoveryInv, DrawnInv, NoEntry
      <3>3. \A j \in Members(p, g) :
              /\ j \in Id /\ mem'[p][j] = mem[p][j]
              /\ mem[p][j].state = "active" /\ mem[p][j].kind = "detail"
        BY <1>8, <3>2 DEF Members
      <3>4. mem'[p][m] = e
        BY <1>8
      <3>5. /\ work'[p].pc = "link" /\ work'[p].todo = Members(p, g) /\ work'[p].summary = m
        BY <1>6, <1>8, <2>2
      <3> QED BY <1>5, <3>3, <3>4, <3>5 DEF StepOf, Kept
    <2> QED BY <2>1, <2>2
  <1> QED BY <1>1, <1>7, <1>8, <1>9, StepInvFor DEF RecoveryInv, Goal

(* Naming the sources in the summary: after it they may be marked. *)
LEMMA LinkStep ==
    ASSUME RecoveryInv, NEW p \in Process, NEW outcome \in Outcome, LinkSummary(p, outcome)
    PROVE  Goal
  <1> DEFINE m == work[p].summary
             old == mem[p][m]
             e == [old EXCEPT !.sources = work[p].todo]
             next == [work[p] EXCEPT !.pc = "mark", !.summary = NoId]
  <1>1. TypeOK /\ work[p] \in Work /\ work[p].pc = "link" /\ StepOf(p)
    BY DEF RecoveryInv, TypeOK, LinkSummary, StepInv
  <1>2. /\ m \in Id /\ old \in Entry
        /\ old.kind = "summary" /\ old.state = "active" /\ old.sources = {}
    BY <1>1 DEF StepOf, TypeOK
  <1>3. Kept(p, m)
    BY <1>2 DEF Kept
  <1>4. m \in drawn /\ (m \in behind[p] \/ Extends(disk[m], old))
    BY <1>2, <1>3, Holding
  <1>5. /\ e \in Entry /\ e.kind = "summary" /\ e.state = "active" /\ e.sources = work[p].todo
    BY <1>1, <1>2 DEF Entry, Work
  <1>6. Upsert(p, m, e, outcome, next) /\ drawn' = drawn
    BY DEF LinkSummary
  <1>7. next.pc = "mark" /\ next.todo = work[p].todo
    BY <1>1 DEF Work
  <1> HIDE DEF m, old, e, next
  <1>8. m \in behind[p] \/ Extends(disk[m], e)
    BY <1>2, <1>4, <1>5 DEF Extends
  <1>9. DiskGrows /\ NamesStay /\ DrawnInv' /\ KnowsInv' /\ SurvivalInv'
    <2>1. drawn' = drawn \cup {m}
      BY <1>4, <1>6
    <2> QED BY <1>2, <1>3, <1>5, <1>6, <1>8, <2>1, UpsertKeepsInv
  <1>10. /\ \A q \in Process : q # p => work'[q] = work[q] /\ mem'[q] = mem[q]
         /\ \A j \in Id : mem'[p][j] = IF j = m THEN e ELSE mem[p][j]
         /\ work'[p] = IF outcome = "written" THEN next ELSE Rest("idle")
    BY <1>1, <1>2, <1>5, <1>6, UpsertElsewhere
  <1>11. StepOf(p)'
    <2>1. CASE outcome # "written"
      BY <1>10, <2>1, StepOfResting
    <2>2. CASE outcome = "written"
      <3>1. \A j \in work[p].todo :
              j \in Id /\ mem[p][j].state = "active" /\ mem[p][j].kind = "detail"
        BY <1>1 DEF StepOf, Work
      <3>2. m \notin work[p].todo
        BY <1>2, <3>1 DEF old
      <3>3. \A j \in work[p].todo : mem'[p][j] = mem[p][j]
        BY <1>10, <3>1, <3>2
      <3>4. \A j \in work[p].todo : Named(j)'
        <4>1. CASE tail.kind = "ended"
          <5>1. Readable(outcome)
            BY <2>2, <4>1 DEF Readable
          <5>2. disk'[m] = e
            BY <1>1, <1>2, <1>5, <1>6, <5>1, UpsertOnFile
          <5> QED BY <1>2, <1>5, <5>2 DEF Named, Summarised
        <4>2. CASE tail.kind # "ended"
          <5>1. Glued(outcome)
            BY <2>2, <4>2 DEF Glued
          <5>2. work[p].todo \subseteq Unnamed(p, m, e, outcome)
            BY <1>5, <5>1 DEF Unnamed
          <5>3. \A j \in Unnamed(p, m, e, outcome) : j \in unnamed' \/ Summarised(j)'
            BY <1>6 DEF Upsert
          <5> QED BY <5>2, <5>3 DEF Named
        <4> QED BY <4>1, <4>2
      <3>5. work'[p].pc = "mark" /\ work'[p].todo = work[p].todo
        BY <1>7, <1>10, <2>2
      <3> QED BY <3>1, <3>3, <3>4, <3>5 DEF StepOf, Kept
    <2> QED BY <2>1, <2>2
  <1> QED BY <1>1, <1>9, <1>10, <1>11, StepInvFor DEF RecoveryInv, Goal

(* The steps of one process that write nothing. *)
LEMMA ControlStep ==
    ASSUME RecoveryInv, NEW p \in Process,
           \/ AllAged(p) \/ StartArchiving(p) \/ EndCompaction(p) \/ Restart(p)
           \/ \E at \in Day : StartCompaction(p, at)
    PROVE  Goal
  <1>1. TypeOK /\ work[p] \in Work /\ StepOf(p)
    BY DEF RecoveryInv, TypeOK, StepInv
  <1>2. CASE AllAged(p)
    <2>1. work'[p] = [work[p] EXCEPT !.pc = "group"] /\ work[p].pc = "age" /\ mem' = mem
      BY <1>1, <1>2 DEF AllAged, TypeOK
    <2>2. StepOf(p)'
      BY <1>1, <2>1 DEF StepOf, Kept, Work
    <2> QED BY <1>1, <1>2, <2>2, QuietStep DEF AllAged, TypeOK, history
  <1>3. CASE StartArchiving(p)
    <2>1. /\ work'[p].pc = "archive" /\ work'[p].todo = {i \in Id : Archivable(mem[p][i])}
          /\ mem' = mem /\ work[p].pc = "group"
      BY <1>1, <1>3 DEF StartArchiving, TypeOK, Work
    <2>2. StepOf(p)'
      BY <1>1, <2>1 DEF StepOf, Kept, Archivable
    <2> QED BY <1>1, <1>3, <2>2, QuietStep DEF StartArchiving, TypeOK, history
  <1>4. CASE EndCompaction(p) \/ Restart(p)
    <2>1. work' = [work EXCEPT ![p] = Rest("idle")]
      BY <1>4 DEF EndCompaction, Restart
    <2>2. StepOf(p)'
      BY <1>1, <2>1, StepOfResting DEF TypeOK
    <2>3. \A q \in Process : q # p => work'[q] = work[q]
      BY <1>1, <2>1 DEF TypeOK
    <2> QED BY <1>4, <2>2, <2>3, QuietStep DEF EndCompaction, Restart, history
  <1>5. ASSUME NEW at \in Day, StartCompaction(p, at)
        PROVE  Goal
    <2>1. work'[p].pc = "age" /\ (\A i \in work'[p].todo : Kept(p, i)) /\ mem' = mem
      BY <1>1, <1>5 DEF StartCompaction, TypeOK, Rest
    <2>2. StepOf(p)'
      BY <2>1 DEF StepOf, Kept
    <2> QED BY <1>1, <1>5, <2>2, QuietStep DEF StartCompaction, TypeOK, history
  <1> QED BY <1>2, <1>3, <1>4, <1>5

LEMMA RecoveryStep ==
    ASSUME RecoveryInv, [Next]_vars
    PROVE  RecoveryInv' /\ DiskGrows
  <1>1. TypeOK'
    BY TypeStep DEF RecoveryInv
  <1>2. Goal
    <2>1. CASE NextDay \/ UNCHANGED vars
      <3>1. UNCHANGED <<mem, disk, tail, drawn, work, behind, unnamed>>
        BY <2>1 DEF NextDay, vars, history
      <3>2. DiskGrows /\ NamesStay
        BY <3>1, SameFile DEF RecoveryInv
      <3> QED BY <3>1, <3>2 DEF Goal, RecoveryInv, DrawnInv, KnowsInv, StepInv, StepOf, SurvivalInv,
                               DetailsSurvive, Named, Summarised, Kept
    <2>2. ASSUME NEW p \in Process,
                 \/ AllAged(p) \/ StartArchiving(p) \/ EndCompaction(p) \/ Restart(p)
                 \/ \E at \in Day : StartCompaction(p, at)
          PROVE  Goal
      BY <2>2, ControlStep
    <2>3. ASSUME NEW p \in Process, NEW outcome \in Outcome, LinkSummary(p, outcome)
          PROVE  Goal
      BY <2>3, LinkStep
    <2>4. ASSUME NEW p \in Process, NEW i \in Id, NEW outcome \in Outcome,
                 AgeEntry(p, i, outcome) \/ MarkSource(p, i, outcome) \/ Archive(p, i, outcome)
          PROVE  Goal
      BY <2>4, VisitStep
    <2>5. ASSUME NEW p \in Process, NEW i \in Id, NEW outcome \in Outcome, NEW g,
                 WriteSummary(p, g, i, outcome)
          PROVE  Goal
      BY <2>5, SummaryStep
    <2>6. ASSUME NEW p \in Process, NEW i \in Id, NEW outcome \in Outcome, NEW r \in Remembered,
                 Record(p, i, r.kind, r.high, outcome)
          PROVE  Goal
      <3>1. r.kind \in {"detail", "summary"} /\ r.high \in BOOLEAN
        BY MemoryAssumption
      <3> QED BY <2>6, <3>1, RecordStep
    <2> QED BY <2>1, <2>2, <2>3, <2>4, <2>5, <2>6 DEF Next
  <1> QED BY <1>1, <1>2 DEF RecoveryInv, Goal

LEMMA RecoveryStart == Init => RecoveryInv
  <1> SUFFICES ASSUME Init PROVE RecoveryInv
    OBVIOUS
  <1>1. TypeOK
    BY MemoryAssumption DEF Init, TypeOK, Nothing, NoEntry, Entry, Rest, Work, Day
  <1>2. /\ \A i \in Id : disk[i] = NoEntry
        /\ \A p \in Process : work[p] = Rest("idle") /\ \A i \in Id : mem[p][i] = NoEntry
        /\ tail.kind = "ended"
    BY DEF Init, Nothing, Ended
  <1>3. DrawnInv /\ KnowsInv /\ SurvivalInv
    BY <1>2, MemoryAssumption
       DEF DrawnInv, KnowsInv, SurvivalInv, DetailsSurvive, Kept, NoEntry
  <1>4. StepInv
    BY <1>2 DEF StepInv, StepOf, Rest
  <1> QED BY <1>1, <1>3, <1>4 DEF RecoveryInv

(* No entry is marked compacted in the file before a summary in the file names  *)
(* it, wherever compact() fails or dies and whoever else records or compacts,  *)
(* unless the line that names it was lost in a torn one or written over by a   *)
(* process that had not seen it.                                             *)
THEOREM SummariesSurvive == Spec => []DetailsSurvive
  <1>1. RecoveryInv /\ [Next]_vars => RecoveryInv'
    BY RecoveryStep
  <1>2. RecoveryInv => DetailsSurvive
    BY DEF RecoveryInv, SurvivalInv
  <1> QED BY <1>1, <1>2, RecoveryStart, PTL DEF Spec

(* No line appended to the file takes back what an earlier one says of the      *)
(* entry, unless a line of it was lost in a torn one or its writer had not     *)
(* seen the last.                                                            *)
THEOREM NothingTakenBack == Spec => NeverTakenBack
  <1>1. RecoveryInv /\ [Next]_vars => RecoveryInv'
    BY RecoveryStep
  <1>2. RecoveryInv /\ [Next]_vars => [TakesNothingBack]_vars
    BY RecoveryStep DEF DiskGrows, Extends, TakesNothingBack
  <1> QED BY <1>1, <1>2, RecoveryStart, PTL DEF Spec, NeverTakenBack
-----------------------------------------------------------------------------
(* The events. *)

(* Every non-empty set of numbers has a least one: the sets 0..n of its members *)
(* n are well-founded by inclusion.                                           *)
LEMMA LeastNumber ==
    ASSUME NEW S \in SUBSET Nat, S # {}
    PROVE  \E n \in S : \A k \in S : n <= k
<1>1. PICK m \in S : TRUE
  OBVIOUS
<1> DEFINE T == {0..k : k \in {j \in S : j <= m}}
<1>2. IsFiniteSet(0..m)
  BY FS_Interval
<1>3. IsWellFoundedOn(StrictSubsetOrdering(0..m), SUBSET (0..m))
  BY <1>2, FS_StrictSubsetOrderingWellFounded, FS_FiniteSubsetsOfFinite
<1>4. T \subseteq SUBSET (0..m) /\ T # {}
  OBVIOUS
<1>5. PICK x \in T : \A y \in T : <<y, x>> \notin StrictSubsetOrdering(0..m)
  <2> HIDE DEF T
  <2> QED BY <1>3, <1>4, WFMin
<1>6. PICK n \in S : n <= m /\ x = 0..n
  OBVIOUS
<1>7. ASSUME NEW k \in S, k < n PROVE FALSE
  <2>1. 0..k \in T
    BY <1>6, <1>7
  <2>2. 0..k \subseteq 0..n /\ 0..k # 0..n
    BY <1>6, <1>7
  <2>3. <<0..k, x>> \in (SUBSET (0..m)) \X (SUBSET (0..m))
    BY <1>4, <1>5, <2>1
  <2>4. QED
    BY <1>5, <1>6, <2>1, <2>2, <2>3 DEF StrictSubsetOrdering
<1>8. QED
  BY <1>6, <1>7

(* A non-empty set of numbers that does not go on for ever has a largest one. *)
LEMMA LargestNumber ==
    ASSUME NEW n \in Nat, NEW S \in SUBSET (0..n), S # {}
    PROVE  \E m \in S : \A k \in S : k <= m
<1>1. PICK d \in {n - k : k \in S} : \A e \in {n - k : k \in S} : d <= e
  <2>1. \A k \in S : n - k \in Nat
    OBVIOUS
  <2>2. {n - k : k \in S} \in SUBSET Nat /\ {n - k : k \in S} # {}
    BY <2>1
  <2>3. QED
    BY <2>2, LeastNumber
<1>2. PICK m \in S : d = n - m
  BY <1>1
<1>3. \A k \in S : n - m <= n - k
  BY <1>1, <1>2
<1>4. QED
  BY <1>2, <1>3

LEMMA IntervalSize ==
    ASSUME NEW m \in Nat, NEW n \in Nat, m <= n
    PROVE  Cardinality((m + 1)..n) = n - m
<1>1. Cardinality((m + 1)..n) = IF m + 1 > n THEN 0 ELSE n - (m + 1) + 1
  BY FS_Interval
<1>2. QED
  BY <1>1
-----------------------------------------------------------------------------
(* Later events have larger cursors and larger names. *)
InOrder(events) ==
    \A i, k \in DOMAIN events :
        i < k => events[i].cursor < events[k].cursor /\ events[i].id < events[k].id

(* What a poll returns of events in order: the n next ones after the first m. *)
LEMMA PollReturnsNext ==
    ASSUME NEW events \in Seq(Event), InOrder(events), NEW c \in Nat
    PROVE  \E m, n \in Nat :
             /\ m + n <= Len(events)
             /\ \A i \in 1..m : events[i].cursor <= c
             /\ \A i \in (m + 1)..Len(events) : events[i].cursor > c
             /\ EventsAfter(events, c) = [k \in 1..n |-> events[m + k]]
<1> DEFINE later == {i \in DOMAIN events : events[i].cursor > c}
           place(i) == Cardinality({j \in later : j <= i})
           found == IF Cardinality(later) < Limit THEN Cardinality(later) ELSE Limit
<1>1. /\ DOMAIN events = 1..Len(events) /\ Len(events) \in Nat
      /\ \A i \in 1..Len(events) : events[i].cursor \in Nat
  <2>1. DOMAIN events = 1..Len(events) /\ Len(events) \in Nat
    OBVIOUS
  <2>2. \A i \in 1..Len(events) : events[i] \in Event
    OBVIOUS
  <2>3. \A e \in Event : e.cursor \in Nat
    BY EventsAssumption DEF Event
  <2>4. QED
    BY <2>1, <2>2, <2>3
<1>2. EventsAfter(events, c) = [k \in 1..found |-> events[CHOOSE i \in later : place(i) = k]]
  BY DEF EventsAfter
<1>3. \E m \in 0..Len(events) : /\ \A i \in 1..m : events[i].cursor <= c
                                /\ later = (m + 1)..Len(events)
  <2>1. CASE later = {}
    <3>1. \A i \in 1..Len(events) : events[i].cursor <= c
      BY <1>1, <2>1
    <3>2. (Len(events) + 1)..Len(events) = {}
      BY <1>1
    <3>3. QED
      BY <1>1, <2>1, <3>1, <3>2
  <2>2. CASE later # {}
    <3>1. later \in SUBSET Nat
      BY <1>1
    <3>2. PICK p \in later : \A k \in later : p <= k
      <4> HIDE DEF later
      <4> QED BY <2>2, <3>1, LeastNumber
    <3>3. p \in 1..Len(events) /\ events[p].cursor > c
      BY <1>1, <3>2
    <3>4. \A i \in 1..(p - 1) : events[i].cursor <= c
      BY <1>1, <3>2, <3>3
    <3>5. \A i \in p..Len(events) : events[i].cursor > c
      <4> SUFFICES ASSUME NEW i \in p..Len(events), i # p PROVE events[i].cursor > c
        BY <3>3
      <4>1. i \in DOMAIN events /\ p \in DOMAIN events /\ p < i
        BY <1>1, <3>3
      <4>2. events[p].cursor < events[i].cursor
        BY <4>1 DEF InOrder
      <4>3. QED
        BY <1>1, <3>3, <4>1, <4>2
    <3>6. later = p..Len(events)
      BY <1>1, <3>2, <3>3, <3>5
    <3>7. p - 1 \in 0..Len(events) /\ p = (p - 1) + 1
      BY <1>1, <3>3
    <3>8. QED
      BY <3>4, <3>6, <3>7
  <2>3. QED
    BY <2>1, <2>2
<1>4. PICK m \in 0..Len(events) : /\ \A i \in 1..m : events[i].cursor <= c
                                  /\ later = (m + 1)..Len(events)
  BY <1>3
<1>5. Cardinality(later) = Len(events) - m
  <2>1. m \in Nat /\ Len(events) \in Nat /\ m <= Len(events)
    BY <1>1, <1>4
  <2>2. Cardinality((m + 1)..Len(events)) = Len(events) - m
    BY <2>1, IntervalSize
  <2>3. QED
    BY <1>4, <2>2
<1>6. \A i \in later : place(i) = i - m
  <2> SUFFICES ASSUME NEW i \in later PROVE place(i) = i - m
    OBVIOUS
  <2>1. {j \in later : j <= i} = (m + 1)..i /\ m \in Nat /\ i \in Nat /\ m <= i
    BY <1>1, <1>4
  <2>2. Cardinality((m + 1)..i) = i - m
    BY <2>1, IntervalSize
  <2>3. QED
    BY <2>1, <2>2
<1>7. found \in Nat /\ m + found <= Len(events)
  BY <1>1, <1>5, EventsAssumption
<1>8. \A k \in 1..found : (CHOOSE i \in later : place(i) = k) = m + k
  <2> SUFFICES ASSUME NEW k \in 1..found PROVE (CHOOSE i \in later : place(i) = k) = m + k
    OBVIOUS
  <2>1. m + k \in later
    BY <1>1, <1>4, <1>7
  <2>2. place(m + k) = k
    BY <1>6, <1>7, <2>1
  <2>3. \A i \in later : place(i) = k => i = m + k
    <3> SUFFICES ASSUME NEW i \in later, place(i) = k PROVE i = m + k
      OBVIOUS
    <3>1. k = i - m
      BY <1>6
    <3>2. QED
      BY <1>1, <1>4, <3>1
  <2>4. QED
    <3> HIDE DEF place, later
    <3> QED BY <2>1, <2>2, <2>3
<1>9. EventsAfter(events, c) = [k \in 1..found |-> events[m + k]]
  <2> HIDE DEF place, later, found
  <2> QED BY <1>2, <1>8
<1>10. \A i \in (m + 1)..Len(events) : events[i].cursor > c
  BY <1>4
<1>11. QED
  <2> HIDE DEF found
  <2> QED BY <1>4, <1>7, <1>9, <1>10

-----------------------------------------------------------------------------
ReaderRecord == [cursor : 0..MaxEvents, given : Seq(1..MaxEvents)]
Increasing(given) == \A i, k \in DOMAIN given : i < k => given[i] < given[k]

(* A reader was given nothing that comes after an event it has yet to read. *)
StandsIn(rd, events) ==
    \A i \in DOMAIN events : events[i].cursor > rd.cursor =>
        \A k \in DOMAIN rd.given : rd.given[k] < events[i].id

(* A reader after it was given some events. *)
After(rd, given) ==
    [cursor |-> NextCursor(rd.cursor, given),
     given |-> rd.given \o [i \in DOMAIN given |-> given[i].id]]

(* A poll keeps the order of what the reader is given, takes it to the cursor   *)
(* of an event and passes over none up to there.                              *)
LEMMA PollKeepsOrder ==
    ASSUME NEW events \in Seq(Event), InOrder(events), NEW rd \in ReaderRecord,
           Increasing(rd.given), StandsIn(rd, events),
           EventsAfter(events, rd.cursor) # <<>>
    PROVE  LET next == After(rd, EventsAfter(events, rd.cursor)) IN
           /\ next \in ReaderRecord /\ Increasing(next.given) /\ StandsIn(next, events)
           /\ \E i \in DOMAIN events : events[i].cursor = next.cursor
           /\ rd.cursor <= next.cursor
           /\ Range(rd.given) \subseteq Range(next.given)
           /\ \A x \in Range(next.given) :
                 x \in Range(rd.given) \/ \E i \in DOMAIN events : x = events[i].id
           /\ \A i \in DOMAIN events : events[i].cursor <= next.cursor =>
                 events[i].cursor <= rd.cursor \/ events[i].id \in Range(next.given)
<1> DEFINE given == EventsAfter(events, rd.cursor)
           next == After(rd, given)
<1>1. PICK m, n \in Nat :
        /\ m + n <= Len(events)
        /\ \A i \in 1..m : events[i].cursor <= rd.cursor
        /\ \A i \in (m + 1)..Len(events) : events[i].cursor > rd.cursor
        /\ given = [k \in 1..n |-> events[m + k]]
  <2>1. rd.cursor \in Nat
    BY EventsAssumption DEF ReaderRecord
  <2>2. QED
    BY <2>1, PollReturnsNext
<1>2. /\ DOMAIN events = 1..Len(events) /\ Len(events) \in Nat
      /\ \A i \in 1..Len(events) : /\ events[i] \in Event
                                   /\ events[i].cursor \in 1..MaxEvents /\ events[i].id \in 1..MaxEvents
  <2>1. DOMAIN events = 1..Len(events) /\ Len(events) \in Nat
    OBVIOUS
  <2>2. \A i \in 1..Len(events) : events[i] \in Event
    OBVIOUS
  <2>3. QED
    BY <2>1, <2>2 DEF Event
<1>3. rd.cursor \in 0..MaxEvents /\ rd.given \in Seq(1..MaxEvents) /\ Len(rd.given) \in Nat
      /\ DOMAIN rd.given = 1..Len(rd.given) /\ MaxEvents \in Nat
  BY EventsAssumption DEF ReaderRecord
<1>4. n > 0
  <2>1. given # <<>>
    OBVIOUS
  <2>2. ASSUME n = 0 PROVE given \in Seq(Event) /\ Len(given) = 0
    <3> HIDE DEF given
    <3> QED BY <1>1, <2>2
  <2>3. \A s \in Seq(Event) : Len(s) = 0 => s = <<>>
    OBVIOUS
  <2>4. QED
    <3> HIDE DEF given
    <3> QED BY <1>1, <2>1, <2>2, <2>3
<1> DEFINE ids == [k \in 1..n |-> events[m + k].id]
<1>5. given \in Seq(Event) /\ Len(given) = n /\ DOMAIN given = 1..n /\ Last(given) = events[m + n]
  <2>1. \A k \in 1..n : m + k \in 1..Len(events)
    BY <1>1, <1>2
  <2>2. \A k \in 1..n : events[m + k] \in Event
    BY <1>2, <2>1
  <2>3. given \in Seq(Event) /\ Len(given) = n /\ DOMAIN given = 1..n
    <3> HIDE DEF given
    <3> QED BY <1>1, <2>2
  <2>4. QED
    BY <1>1, <1>4, <2>3 DEF Last
<1>6. ids \in Seq(1..MaxEvents) /\ Len(ids) = n /\ [i \in DOMAIN given |-> given[i].id] = ids
  <2>1. \A k \in 1..n : events[m + k].id \in 1..MaxEvents
    BY <1>1, <1>2
  <2>2. ids \in Seq(1..MaxEvents) /\ Len(ids) = n
    <3>1. ids \in [1..n -> 1..MaxEvents]
      BY <2>1
    <3>2. \A S : \A s \in [1..n -> S] : s \in Seq(S) /\ Len(s) = n
      BY <1>1
    <3> HIDE DEF ids
    <3>3. QED
      BY <3>1, <3>2
  <2>3. \A k \in 1..n : given[k].id = events[m + k].id
    BY <1>1
  <2>4. QED
    <3> HIDE DEF given
    <3> QED BY <1>5, <2>2, <2>3
<1>7. next = [cursor |-> events[m + n].cursor, given |-> rd.given \o ids]
  <2>1. given # <<>>
    OBVIOUS
  <2>2. QED
    <3> HIDE DEF given, ids
    <3> QED BY <1>5, <1>6, <2>1 DEF After, NextCursor
<1>8. /\ next.cursor = events[m + n].cursor
      /\ next.given \in Seq(1..MaxEvents) /\ Len(next.given) = Len(rd.given) + n
      /\ DOMAIN next.given = 1..(Len(rd.given) + n)
      /\ \A k \in 1..Len(rd.given) : next.given[k] = rd.given[k]
      /\ \A k \in 1..n : next.given[Len(rd.given) + k] = events[m + k].id
  <2>1. /\ rd.given \o ids \in Seq(1..MaxEvents) /\ Len(rd.given \o ids) = Len(rd.given) + n
        /\ DOMAIN (rd.given \o ids) = 1..(Len(rd.given) + n)
    <3> HIDE DEF ids
    <3>1. rd.given \o ids \in Seq(1..MaxEvents) /\ Len(rd.given \o ids) = Len(rd.given) + n
      BY <1>3, <1>6, ConcatProperties
    <3>2. DOMAIN (rd.given \o ids) = 1..Len(rd.given \o ids)
      BY <3>1
    <3> QED BY <3>1, <3>2
  <2>2. \A k \in 1..Len(rd.given) : (rd.given \o ids)[k] = rd.given[k]
    <3> HIDE DEF ids
    <3> QED BY <1>1, <1>3, <1>6
  <2>3. \A k \in 1..n : (rd.given \o ids)[Len(rd.given) + k] = ids[k]
    <3> HIDE DEF ids
    <3> QED BY <1>1, <1>3, <1>6
  <2>4. \A k \in 1..n : ids[k] = events[m + k].id
    OBVIOUS
  <2>5. QED
    <3> HIDE DEF ids, next
    <3> QED BY <1>7, <2>1, <2>2, <2>3, <2>4
<1> HIDE DEF given, next, ids
<1>9. \A k \in DOMAIN next.given :
         \/ k \in 1..Len(rd.given) /\ next.given[k] = rd.given[k]
         \/ k - Len(rd.given) \in 1..n /\ next.given[k] = events[m + (k - Len(rd.given))].id
  <2> SUFFICES ASSUME NEW k \in 1..(Len(rd.given) + n), k \notin 1..Len(rd.given)
               PROVE  k - Len(rd.given) \in 1..n /\ k = Len(rd.given) + (k - Len(rd.given))
    BY <1>8
  <2> QED
    BY <1>1, <1>3
<1>10. \A k \in 1..n : m + k \in DOMAIN events /\ events[m + k].cursor > rd.cursor
  <2> SUFFICES ASSUME NEW k \in 1..n
               PROVE  m + k \in DOMAIN events /\ events[m + k].cursor > rd.cursor
    OBVIOUS
  <2>1. m + k \in (m + 1)..Len(events) /\ m + k \in 1..Len(events)
    <3>1. m + n <= Len(events)
      BY <1>1
    <3>2. Len(events) \in Nat
      BY <1>2
    <3> QED
      BY <3>1, <3>2
  <2>2. events[m + k].cursor > rd.cursor
    <3>1. \A i \in (m + 1)..Len(events) : events[i].cursor > rd.cursor
      BY <1>1
    <3> QED
      BY <2>1, <3>1
  <2>3. QED
    <3>1. DOMAIN events = 1..Len(events)
      BY <1>2
    <3> QED
      BY <2>1, <2>2, <3>1
<1>11. next \in ReaderRecord
  <2>1. next.cursor \in 0..MaxEvents
    <3>1. n \in 1..n
      BY <1>4
    <3>2. m + n \in DOMAIN events
      BY <1>10, <3>1
    <3>3. QED
      BY <1>2, <1>3, <1>8, <3>2
  <2>2. next = [cursor |-> next.cursor, given |-> next.given]
    BY <1>7
  <2>3. QED
    BY <1>8, <2>1, <2>2 DEF ReaderRecord
<1>12. Increasing(next.given)
  <2> SUFFICES ASSUME NEW i \in DOMAIN next.given, NEW k \in DOMAIN next.given, i < k
               PROVE  next.given[i] < next.given[k]
    BY DEF Increasing
  <2>1. CASE k \in 1..Len(rd.given)
    <3>1. i \in 1..Len(rd.given)
      BY <1>3, <1>8, <2>1
    <3>2. QED
      BY <1>3, <1>8, <2>1, <3>1 DEF Increasing
  <2>2. CASE i \in 1..Len(rd.given) /\ k \notin 1..Len(rd.given)
    <3>1. k - Len(rd.given) \in 1..n /\ next.given[k] = events[m + (k - Len(rd.given))].id
      BY <1>9, <2>2
    <3>2. rd.given[i] < events[m + (k - Len(rd.given))].id
      BY <1>3, <1>10, <2>2, <3>1 DEF StandsIn
    <3>3. QED
      BY <1>8, <2>2, <3>1, <3>2
  <2>3. CASE i \notin 1..Len(rd.given)
    <3>1. k \notin 1..Len(rd.given)
      BY <1>3, <1>8, <2>3
    <3>2. /\ i - Len(rd.given) \in 1..n /\ next.given[i] = events[m + (i - Len(rd.given))].id
          /\ k - Len(rd.given) \in 1..n /\ next.given[k] = events[m + (k - Len(rd.given))].id
      BY <1>9, <2>3, <3>1
    <3>3. m + (i - Len(rd.given)) < m + (k - Len(rd.given))
      BY <1>1, <1>3, <1>8
    <3>4. QED
      BY <1>10, <3>2, <3>3 DEF InOrder
  <2>4. QED
    BY <2>1, <2>2, <2>3
<1>13. \A i \in DOMAIN events : events[i].cursor <= next.cursor <=> i <= m + n
  <2>1. m + n \in DOMAIN events
    BY <1>4, <1>10
  <2>2. SUFFICES ASSUME NEW i \in DOMAIN events
                 PROVE  events[i].cursor <= next.cursor <=> i <= m + n
    OBVIOUS
  <2>3. i < m + n => events[i].cursor < next.cursor
    BY <1>8, <2>1 DEF InOrder
  <2>4. m + n < i => next.cursor < events[i].cursor
    BY <1>8, <2>1 DEF InOrder
  <2>5. i \in Nat /\ m + n \in Nat /\ events[i].cursor \in Nat /\ next.cursor \in Nat
    <3>1. \A k \in DOMAIN events : k \in Nat /\ events[k].cursor \in Nat
      BY <1>2, <1>3
    <3>2. QED
      BY <1>1, <1>8, <2>1, <3>1
  <2>6. QED
    BY <1>8, <2>3, <2>4, <2>5
<1>14. StandsIn(next, events)
  <2> SUFFICES ASSUME NEW i \in DOMAIN events, events[i].cursor > next.cursor,
                      NEW k \in DOMAIN next.given
               PROVE  next.given[k] < events[i].id
    BY DEF StandsIn
  <2>1. i > m + n /\ i \in Nat
    <3>1. events[i].cursor \in Nat /\ next.cursor \in Nat /\ i \in Nat
      BY <1>2, <1>3, <1>11 DEF ReaderRecord
    <3>2. QED
      BY <1>1, <1>13, <3>1
  <2>2. CASE k \in 1..Len(rd.given)
    <3>1. events[i].cursor > rd.cursor
      BY <1>1, <1>2, <2>1
    <3>2. QED
      BY <1>3, <1>8, <2>2, <3>1 DEF StandsIn
  <2>3. CASE k \notin 1..Len(rd.given)
    <3>1. k - Len(rd.given) \in 1..n /\ next.given[k] = events[m + (k - Len(rd.given))].id
      BY <1>9, <2>3
    <3>2. m + (k - Len(rd.given)) < i
      BY <1>1, <2>1, <3>1
    <3>3. QED
      BY <1>10, <3>1, <3>2 DEF InOrder
  <2>4. QED
    BY <2>2, <2>3
<1>15. /\ \E i \in DOMAIN events : events[i].cursor = next.cursor
       /\ rd.cursor <= next.cursor
  <2>1. n \in 1..n
    BY <1>1, <1>4
  <2>2. m + n \in DOMAIN events /\ events[m + n].cursor > rd.cursor
    BY <1>10, <2>1
  <2>3. events[m + n].cursor \in Nat /\ rd.cursor \in Nat
    BY <1>2, <1>3, <2>2
  <2>4. QED
    BY <1>8, <2>2, <2>3
<1>16. Range(rd.given) \subseteq Range(next.given)
  <2>1. DOMAIN rd.given \subseteq DOMAIN next.given
    BY <1>1, <1>3, <1>8
  <2>2. QED
    BY <1>3, <1>8, <2>1 DEF Range
<1>17. \A x \in Range(next.given) :
          x \in Range(rd.given) \/ \E i \in DOMAIN events : x = events[i].id
  BY <1>3, <1>9, <1>10 DEF Range
<1>18. ASSUME NEW i \in DOMAIN events, events[i].cursor <= next.cursor, ~(events[i].cursor <= rd.cursor)
       PROVE  events[i].id \in Range(next.given)
  <2>1. i > m /\ i <= m + n /\ i \in Nat
    BY <1>1, <1>2, <1>13, <1>18
  <2>2. i - m \in 1..n /\ m + (i - m) = i
    BY <1>1, <2>1
  <2>3. Len(rd.given) + (i - m) \in DOMAIN next.given
    <3>1. Len(rd.given) + (i - m) \in 1..(Len(rd.given) + n)
      BY <1>1, <1>3, <2>2
    <3>2. QED
      BY <1>8, <3>1
  <2>4. next.given[Len(rd.given) + (i - m)] = events[i].id
    BY <1>8, <2>2
  <2>5. QED
    BY <2>3, <2>4 DEF Range
<1>19. QED
  BY <1>11, <1>12, <1>14, <1>15, <1>16, <1>17, <1>18 DEF next, given

-----------------------------------------------------------------------------
(* A writer's memory holds events in order up to its cursor; what the file has  *)
(* besides is later than all of them.                                        *)
Remembers(w) ==
    /\ InOrder(store[w].events)
    /\ \A e \in Range(store[w].events) : e.cursor <= store[w].cursor /\ e.id <= appended
    /\ \A e \in Range(log) \ Range(store[w].events) :
          \A d \in Range(store[w].events) : d.id < e.id
    /\ store[w].cursor <= appended

(* A follower stands at an event of the file and was given all up to there. *)
Follows(r) ==
    /\ reader[r].cursor = 0 \/ \E e \in Range(log) : e.cursor = reader[r].cursor
    /\ \A e \in Range(log) : e.cursor <= reader[r].cursor => e.id \in Range(reader[r].given)

Orderly ==
    /\ EventsTypeOK
    /\ InOrder(log) /\ \A e \in Range(log) : e.id <= appended /\ e.cursor <= appended
    /\ \A w \in Writer : Remembers(w)
    /\ \A r \in Reader : /\ Increasing(reader[r].given)
                         /\ \A id \in Range(reader[r].given) : id <= appended
    /\ \A r \in Reader : StandsIn(reader[r], log)
    /\ \A r \in Poller : StandsIn(reader[r], store[Home[r]].events)
    /\ \A r \in Follower : Follows(r)

(* Until a process appends without having loaded a line of another. *)
EventsInv == crossed \/ Orderly

(* The cursor a process counts on from: no event it loaded is beyond it. *)
LEMMA LoadedCursor ==
    ASSUME NEW events \in Seq(Event)
    PROVE  /\ Largest(events) \in 0..MaxEvents
           /\ \A e \in Range(events) : e.cursor <= Largest(events)
           /\ Largest(events) = 0 \/ \E e \in Range(events) : e.cursor = Largest(events)
<1> DEFINE S == {0} \cup {events[i].cursor : i \in DOMAIN events}
<1>1. \A i \in DOMAIN events : events[i] \in Event
  OBVIOUS
<1>2. S \in SUBSET (0..MaxEvents) /\ S # {} /\ MaxEvents \in Nat
  BY <1>1, EventsAssumption DEF Event
<1>3. \E m \in S : \A k \in S : k <= m
  <2> HIDE DEF S
  <2> QED BY <1>2, LargestNumber
<1>4. Largest(events) = CHOOSE x \in S : \A y \in S : x >= y
  BY DEF Largest, Max
<1>5. Largest(events) \in S /\ \A k \in S : k <= Largest(events)
  <2> HIDE DEF S
  <2>1. \E x \in S : \A y \in S : x >= y
    BY <1>2, <1>3
  <2>2. QED
    BY <1>2, <1>4, <2>1
<1>6. QED
  BY <1>2, <1>5 DEF Range

(* Appending the next event. *)
LEMMA AppendKeepsOrder ==
    ASSUME NEW events \in Seq(Event), InOrder(events), NEW e \in Event,
           \A d \in Range(events) : d.cursor < e.cursor /\ d.id < e.id
    PROVE  /\ Append(events, e) \in Seq(Event) /\ InOrder(Append(events, e))
           /\ Range(Append(events, e)) = Range(events) \cup {e}
<1> DEFINE longer == Append(events, e)
<1>1. /\ Len(events) \in Nat /\ DOMAIN events = 1..Len(events)
      /\ longer \in Seq(Event) /\ DOMAIN longer = 1..(Len(events) + 1)
      /\ longer[Len(events) + 1] = e
      /\ \A i \in 1..Len(events) : longer[i] = events[i]
  OBVIOUS
<1> HIDE DEF longer
<1>2. InOrder(longer)
  <2> SUFFICES ASSUME NEW i \in DOMAIN longer, NEW k \in DOMAIN longer, i < k
               PROVE  longer[i].cursor < longer[k].cursor /\ longer[i].id < longer[k].id
    BY DEF InOrder
  <2>1. i \in 1..Len(events) /\ longer[i] = events[i] /\ events[i] \in Range(events)
    BY <1>1 DEF Range
  <2>2. CASE k \in 1..Len(events)
    BY <1>1, <2>1, <2>2 DEF InOrder
  <2>3. CASE k = Len(events) + 1
    BY <1>1, <2>1, <2>3
  <2>4. QED
    BY <1>1, <2>2, <2>3
<1>3. Range(longer) = Range(events) \cup {e}
  BY <1>1 DEF Range
<1>4. QED
  BY <1>1, <1>2, <1>3 DEF longer

LEMMA EventsBegin == EventsInit => EventsInv
<1> SUFFICES ASSUME EventsInit PROVE EventsInv
  OBVIOUS
<1>1. /\ <<>> \in Seq(Event) /\ <<>> \in Seq(1..MaxEvents) /\ MaxEvents \in Nat
      /\ Range(<<>>) = {} /\ DOMAIN <<>> = {}
  BY EventsAssumption DEF Range
<1>2. Largest(<<>>) = 0
  <2>1. {0} \cup {<<>>[i].cursor : i \in DOMAIN <<>>} = {0}
    BY <1>1
  <2>2. Max({0}) = 0
    BY DEF Max
  <2>3. QED
    BY <2>1, <2>2 DEF Largest
<1>3. EventsTypeOK
  <2>1. store \in [Writer -> [events : Seq(Event), cursor : 0..MaxEvents]]
    BY <1>1, <1>2 DEF EventsInit, Loaded
  <2>2. reader \in [Reader -> [cursor : 0..MaxEvents, given : Seq(1..MaxEvents)]]
    BY <1>1 DEF EventsInit
  <2>3. ending \in {"ended", "torn", "unended"} /\ crossed \in BOOLEAN
    BY DEF EventsInit
  <2>4. log \in Seq(Event) /\ appended \in 0..MaxEvents /\ restarts \in 0..MaxRestarts
    BY <1>1, EventsAssumption DEF EventsInit
  <2>5. QED
    BY <2>1, <2>2, <2>3, <2>4 DEF EventsTypeOK
<1>4. InOrder(log) /\ \A e \in Range(log) : e.id <= appended /\ e.cursor <= appended
  BY <1>1 DEF EventsInit, InOrder
<1>5. ASSUME NEW w \in Writer PROVE Remembers(w)
  <2>1. store[w].events = <<>> /\ store[w].cursor = 0 /\ log = <<>> /\ appended = 0
    BY <1>2 DEF EventsInit, Loaded
  <2>2. QED
    BY <1>1, <2>1 DEF Remembers, InOrder
<1>6. ASSUME NEW r \in Reader
      PROVE  /\ Increasing(reader[r].given) /\ \A id \in Range(reader[r].given) : id <= appended
             /\ \A events : StandsIn(reader[r], events)
             /\ Follows(r)
  <2>1. reader[r].cursor = 0 /\ reader[r].given = <<>> /\ log = <<>>
    BY DEF EventsInit
  <2>2. QED
    BY <1>1, <2>1 DEF Increasing, StandsIn, Follows
<1>7. QED
  BY <1>3, <1>4, <1>5, <1>6 DEF EventsInv, Orderly, Reader

LEMMA AppendKeepsBehind ==
    ASSUME NEW events \in Seq(Event), NEW e \in Event, NEW rd, StandsIn(rd, events),
           \A k \in DOMAIN rd.given : rd.given[k] < e.id
    PROVE  StandsIn(rd, Append(events, e))
<1>1. /\ DOMAIN events = 1..Len(events) /\ Len(events) \in Nat
      /\ DOMAIN Append(events, e) = 1..(Len(events) + 1)
      /\ Append(events, e)[Len(events) + 1] = e
      /\ \A i \in 1..Len(events) : Append(events, e)[i] = events[i]
  OBVIOUS
<1>2. \A i \in 1..(Len(events) + 1) : i \in 1..Len(events) \/ i = Len(events) + 1
  BY <1>1
<1>3. QED
  BY <1>1, <1>2 DEF StandsIn

\* An event gets a larger cursor and a later name than all there are.
LEMMA NextEvent ==
    ASSUME Orderly, NEW w \in Writer, appended < MaxEvents
    PROVE  /\ Numbered(w) \in Event /\ store[w].cursor + 1 \in 0..MaxEvents
           /\ appended + 1 \in 0..MaxEvents /\ appended \in Nat /\ store[w].cursor \in Nat
           /\ \A d \in Range(store[w].events) : d.cursor < Numbered(w).cursor /\ d.id < Numbered(w).id
           /\ Numbered(w).cursor = store[w].cursor + 1 /\ Numbered(w).id = appended + 1
<1>1. /\ store[w].cursor \in 0..MaxEvents /\ store[w].events \in Seq(Event)
      /\ appended \in 0..MaxEvents /\ MaxEvents \in Nat
  BY EventsAssumption DEF Orderly, EventsTypeOK
<1>2. Remembers(w)
  BY DEF Orderly
<1>3. \A d \in Range(store[w].events) : d.cursor \in Nat /\ d.id \in Nat
  <2>1. \A d \in Range(store[w].events) : d \in Event
    BY <1>1 DEF Range
  <2>2. QED
    BY <1>1, <2>1 DEF Event
<1>4. Numbered(w).cursor = store[w].cursor + 1 /\ Numbered(w).id = appended + 1
  BY DEF Numbered
<1>5. Numbered(w) \in Event
  BY <1>1, <1>2 DEF Numbered, Event, Remembers
<1>6. QED
  BY <1>1, <1>2, <1>3, <1>4, <1>5 DEF Remembers

(* A process that has loaded what the others put in the file appends. *)
LEMMA AppendStep ==
    ASSUME Orderly, NEW w \in Writer, AppendEvent(w) \/ AppendFails(w), ~crossed'
    PROVE  Orderly'
<1> DEFINE e == Numbered(w)
           longer == Append(store[w].events, e)
<1>1. /\ store[w].events \in Seq(Event) /\ log \in Seq(Event) /\ store[w].cursor \in 0..MaxEvents
      /\ InOrder(store[w].events) /\ InOrder(log) /\ Range(log) \subseteq Range(store[w].events)
      /\ appended < MaxEvents
  BY DEF Orderly, EventsTypeOK, Remembers, AppendEvent, AppendFails, Appends
<1>2. /\ e \in Event /\ store[w].cursor + 1 \in 0..MaxEvents /\ appended + 1 \in 0..MaxEvents
      /\ appended \in Nat /\ store[w].cursor \in Nat
      /\ \A d \in Range(store[w].events) : d.cursor < e.cursor /\ d.id < e.id
      /\ e.cursor = store[w].cursor + 1 /\ e.id = appended + 1
  BY <1>1, NextEvent
<1> HIDE DEF e
<1>3. /\ longer \in Seq(Event) /\ InOrder(longer) /\ Range(longer) = Range(store[w].events) \cup {e}
  BY <1>1, <1>2, AppendKeepsOrder
<1>4. /\ Append(log, e) \in Seq(Event) /\ InOrder(Append(log, e))
      /\ Range(Append(log, e)) = Range(log) \cup {e}
  BY <1>1, <1>2, AppendKeepsOrder
<1>5. /\ store' = [store EXCEPT ![w] = [events |-> longer, cursor |-> store[w].cursor + 1]]
      /\ log' = log \/ log' = Append(log, e)
      /\ ending' \in {ending, "ended", "torn", "unended"}
      /\ appended' = appended + 1 /\ UNCHANGED <<reader, restarts>>
      /\ crossed' \in BOOLEAN
  <2>1. PICK outcome \in {"written", "refused", "torn", "unended"} : Appends(w, outcome)
    BY DEF AppendEvent, AppendFails
  <2>2. ~Spoils(outcome)
    BY <2>1 DEF Appends
  <2> QED
    BY <2>1, <2>2 DEF Appends, WriteLine, InMemory, e
<1> HIDE DEF longer
<1>6. /\ \A v \in Writer : v # w => store'[v] = store[v]
      /\ store'[w].events = longer /\ store'[w].cursor = store[w].cursor + 1
  BY <1>5 DEF Orderly, EventsTypeOK
<1>7. EventsTypeOK'
  <2>1. store' \in [Writer -> [events : Seq(Event), cursor : 0..MaxEvents]]
    BY <1>2, <1>3, <1>5 DEF Orderly, EventsTypeOK
  <2>2. ending' \in {"ended", "torn", "unended"}
    BY <1>5 DEF Orderly, EventsTypeOK
  <2>3. log' \in Seq(Event) /\ appended' \in 0..MaxEvents
    BY <1>1, <1>2, <1>4, <1>5
  <2>4. UNCHANGED <<reader, restarts>> /\ crossed' \in BOOLEAN
    BY <1>5
  <2>5. QED
    BY <2>1, <2>2, <2>3, <2>4 DEF Orderly, EventsTypeOK
<1>8. /\ InOrder(log') /\ \A d \in Range(log') : d \in Range(log) \/ d = e
      /\ Range(log) \subseteq Range(log')
  BY <1>1, <1>4, <1>5
<1>9. \A v \in Writer : \A d \in Range(store[v].events) :
         d.cursor <= store[v].cursor /\ d.id <= appended /\ d.cursor \in Nat /\ d.id \in Nat
  <2>1. \A v \in Writer : \A d \in Range(store[v].events) : d \in Event
    BY DEF Range, Orderly, EventsTypeOK
  <2>2. QED
    BY <2>1, EventsAssumption DEF Orderly, Remembers, Event
<1>10. \A d \in Range(longer) : d.cursor <= store[w].cursor + 1 /\ d.id <= appended + 1
  BY <1>2, <1>3, <1>9
<1>11. Range(log') \subseteq Range(longer)
  BY <1>1, <1>3, <1>8
<1>12. store[w].cursor <= appended
  BY DEF Orderly, Remembers
<1>13. ASSUME NEW v \in Writer PROVE Remembers(v)'
  <2>1. CASE v = w
    <3>1. store[w].cursor + 1 <= appended + 1
      BY <1>2, <1>12
    <3>2. QED
      BY <1>3, <1>5, <1>6, <1>10, <1>11, <2>1, <3>1 DEF Remembers
  <2>2. CASE v # w
    <3>1. Remembers(v) /\ store'[v] = store[v]
      BY <1>6, <2>2 DEF Orderly
    <3>2. \A d \in Range(store[v].events) : d.id <= appended + 1 /\ d.id < e.id
      BY <1>2, <1>9
    <3>3. store[v].cursor <= appended + 1
      <4>1. store[v].cursor <= appended /\ store[v].cursor \in 0..MaxEvents
        BY <3>1 DEF Remembers, Orderly, EventsTypeOK
      <4>2. QED
        BY <1>2, <4>1, EventsAssumption
    <3>4. QED
      BY <1>5, <1>8, <3>1, <3>2, <3>3 DEF Remembers
  <2>3. QED
    BY <2>1, <2>2
<1>14. ASSUME NEW r \in Reader PROVE \A id \in Range(reader[r].given) : id <= appended /\ id \in Nat
  <2>1. reader[r].given \in Seq(1..MaxEvents)
    BY DEF Orderly, EventsTypeOK
  <2>2. \A given \in Seq(1..MaxEvents) : \A k \in DOMAIN given : given[k] \in 1..MaxEvents
    BY LenProperties, ElementOfSeq
  <2>3. \A id \in Range(reader[r].given) : id \in 1..MaxEvents
    BY <2>1, <2>2 DEF Range
  <2>4. QED
    BY <2>3, EventsAssumption DEF Orderly
<1>15. ASSUME NEW r \in Reader PROVE \A k \in DOMAIN reader[r].given : reader[r].given[k] < e.id
  <2> SUFFICES ASSUME NEW k \in DOMAIN reader[r].given PROVE reader[r].given[k] < e.id
    OBVIOUS
  <2>1. reader[r].given[k] <= appended /\ reader[r].given[k] \in Nat
    BY <1>14 DEF Range
  <2>2. QED
    BY <1>2, <2>1
<1>16. ASSUME NEW r \in Poller PROVE StandsIn(reader[r], store'[Home[r]].events)
  <2>1. StandsIn(reader[r], store[Home[r]].events) /\ Home[r] \in Writer /\ r \in Reader
    BY EventsAssumption DEF Orderly, Reader
  <2>2. CASE Home[r] = w
    <3>1. StandsIn(reader[r], longer)
      BY <1>1, <1>2, <1>15, <2>1, <2>2, AppendKeepsBehind DEF longer
    <3>2. QED
      BY <1>6, <2>2, <3>1
  <2>3. CASE Home[r] # w
    BY <1>6, <2>1, <2>3
  <2>4. QED
    BY <2>2, <2>3
<1>17. ASSUME NEW r \in Reader PROVE StandsIn(reader[r], log')
  <2>1. StandsIn(reader[r], log)
    BY DEF Orderly
  <2>2. StandsIn(reader[r], Append(log, e))
    BY <1>1, <1>2, <1>15, <2>1, AppendKeepsBehind
  <2>3. QED
    BY <1>5, <2>1, <2>2
<1>18. ASSUME NEW r \in Follower PROVE Follows(r)'
  <2>1. Follows(r)
    BY DEF Orderly
  <2>2. reader[r].cursor <= store[w].cursor /\ reader[r].cursor \in Nat
    <3>1. reader[r].cursor \in 0..MaxEvents
      BY DEF Orderly, EventsTypeOK, Reader
    <3>2. \A d \in Range(log) : d.cursor <= store[w].cursor
      BY <1>1 DEF Orderly, Remembers
    <3>3. QED
      BY <1>2, <2>1, <3>1, <3>2, EventsAssumption DEF Follows
  <2>3. ~(e.cursor <= reader[r].cursor)
    BY <1>2, <2>2
  <2>4. QED
    BY <1>5, <1>8, <2>1, <2>3 DEF Follows
<1>19. \A r \in Reader : Increasing(reader'[r].given) /\ \A id \in Range(reader'[r].given) : id <= appended'
  BY <1>2, <1>5, <1>14 DEF Orderly
<1>20. \A d \in Range(log') : d.id <= appended' /\ d.cursor <= appended'
  <2>1. \A d \in Range(longer) : d.cursor \in Nat
    BY <1>2, <1>3, <1>9
  <2>2. \A d \in Range(longer) : d.cursor <= appended + 1
    BY <1>2, <1>10, <1>12, <2>1
  <2>3. QED
    BY <1>5, <1>10, <1>11, <2>2
<1>21. QED
  BY <1>5, <1>7, <1>8, <1>13, <1>16, <1>17, <1>18, <1>19, <1>20 DEF Orderly

LEMMA RestartStep ==
    ASSUME Orderly, NEW w \in Writer, RestartWriter(w)
    PROVE  Orderly'
<1>1. /\ store' = [store EXCEPT ![w] = Loaded(log)] /\ log \in Seq(Event)
      /\ UNCHANGED <<log, reader, appended, crossed>>
  BY DEF RestartWriter, Orderly, EventsTypeOK
<1>2. /\ Largest(log) \in 0..MaxEvents
      /\ \A e \in Range(log) : e.cursor <= Largest(log)
      /\ Largest(log) = 0 \/ \E e \in Range(log) : e.cursor = Largest(log)
  BY <1>1, LoadedCursor
<1>3. /\ \A v \in Writer : v # w => store'[v] = store[v]
      /\ store'[w].events = log /\ store'[w].cursor = Largest(log)
  BY <1>1 DEF Orderly, EventsTypeOK, Loaded
<1>4. EventsTypeOK'
  <2>1. store' \in [Writer -> [events : Seq(Event), cursor : 0..MaxEvents]]
    BY <1>1, <1>2 DEF Orderly, EventsTypeOK, Loaded
  <2>2. ending' \in {"ended", "torn", "unended"}
    BY DEF RestartWriter, Orderly, EventsTypeOK
  <2>3. restarts' \in 0..MaxRestarts
    BY EventsAssumption DEF RestartWriter, Orderly, EventsTypeOK
  <2>4. QED
    BY <1>1, <2>1, <2>2, <2>3 DEF Orderly, EventsTypeOK
<1>5. ASSUME NEW v \in Writer PROVE Remembers(v)'
  <2>1. CASE v = w
    <3>1. InOrder(log) /\ \A e \in Range(log) : e.id <= appended /\ e.cursor <= appended
      BY DEF Orderly
    <3>2. appended \in Nat
      BY EventsAssumption DEF Orderly, EventsTypeOK
    <3>3. Largest(log) <= appended
      BY <1>2, <3>1, <3>2
    <3>4. QED
      BY <1>1, <1>2, <1>3, <2>1, <3>1, <3>3 DEF Remembers
  <2>2. CASE v # w
    BY <1>1, <1>3, <2>2 DEF Orderly, Remembers
  <2>3. QED
    BY <2>1, <2>2
<1>6. ASSUME NEW r \in Poller PROVE StandsIn(reader[r], store'[Home[r]].events)
  BY <1>3, EventsAssumption DEF Orderly, Reader
<1>7. \A r \in Follower : Follows(r)'
  BY <1>1 DEF Orderly, Follows
<1>8. QED
  BY <1>1, <1>4, <1>5, <1>6, <1>7 DEF Orderly

(* What a reader's step changes: its own record, by a poll of events in order. *)
LEMMA GivenRecord ==
    ASSUME Orderly, NEW r \in Reader, NEW events \in Seq(Event), InOrder(events),
           StandsIn(reader[r], events), \A e \in Range(events) : e.id <= appended,
           Give(r, EventsAfter(events, reader[r].cursor))
    PROVE  LET next == reader'[r] IN
           /\ next \in ReaderRecord /\ Increasing(next.given) /\ StandsIn(next, events)
           /\ \E i \in DOMAIN events : events[i].cursor = next.cursor
           /\ reader[r].cursor <= next.cursor
           /\ \A x \in Range(next.given) :
                 x \in Range(reader[r].given) \/ \E i \in DOMAIN events : x = events[i].id
           /\ Range(reader[r].given) \subseteq Range(next.given)
           /\ \A x \in Range(next.given) : x <= appended
           /\ \A i \in DOMAIN events : events[i].cursor <= next.cursor =>
                 events[i].cursor <= reader[r].cursor \/ events[i].id \in Range(next.given)
           /\ reader' = [reader EXCEPT ![r] = next]
           /\ reader' \in [Reader -> ReaderRecord]
           /\ UNCHANGED <<store, log, ending, appended, restarts, crossed>>
<1> DEFINE rd == reader[r]
           given == EventsAfter(events, rd.cursor)
<1>1. /\ reader \in [Reader -> ReaderRecord] /\ rd \in ReaderRecord
      /\ Increasing(rd.given) /\ \A x \in Range(rd.given) : x <= appended
  BY DEF Orderly, EventsTypeOK, ReaderRecord
<1>2. /\ given # <<>> /\ reader' = [reader EXCEPT ![r] = After(rd, given)]
      /\ UNCHANGED <<store, log, ending, appended, restarts, crossed>>
  BY <1>1 DEF Give, After
<1>3. reader'[r] = After(rd, given)
  BY <1>1, <1>2
<1> DEFINE next == After(rd, given)
<1>4. /\ next \in ReaderRecord /\ Increasing(next.given) /\ StandsIn(next, events)
      /\ \E i \in DOMAIN events : events[i].cursor = next.cursor
      /\ rd.cursor <= next.cursor
      /\ Range(rd.given) \subseteq Range(next.given)
      /\ \A x \in Range(next.given) :
            x \in Range(rd.given) \/ \E i \in DOMAIN events : x = events[i].id
      /\ \A i \in DOMAIN events : events[i].cursor <= next.cursor =>
            events[i].cursor <= rd.cursor \/ events[i].id \in Range(next.given)
  BY <1>1, <1>2, PollKeepsOrder
<1> HIDE DEF next
<1>5. \A x \in Range(next.given) : x <= appended
  <2>1. \A i \in DOMAIN events : events[i].id <= appended
    BY DEF Range
  <2>2. QED
    BY <1>1, <1>4, <2>1
<1>6. reader' \in [Reader -> ReaderRecord]
  BY <1>1, <1>2, <1>4 DEF next
<1>7. QED
  BY <1>2, <1>3, <1>4, <1>5, <1>6 DEF next

LEMMA PollStep ==
    ASSUME Orderly, NEW r \in Poller, PollEvents(r)
    PROVE  Orderly'
<1> DEFINE w == Home[r]
<1>1. /\ w \in Writer /\ store[w].events \in Seq(Event) /\ InOrder(store[w].events)
      /\ r \in Reader /\ r \notin Follower
      /\ StandsIn(reader[r], store[w].events) /\ \A e \in Range(store[w].events) : e.id <= appended
  BY EventsAssumption DEF Orderly, EventsTypeOK, Remembers, Reader
<1>2. Give(r, EventsAfter(store[w].events, reader[r].cursor))
  BY DEF PollEvents
<1> HIDE DEF w
<1>3. LET next == reader'[r] IN
      /\ next \in ReaderRecord /\ Increasing(next.given) /\ StandsIn(next, store[w].events)
      /\ \A x \in Range(next.given) :
            x \in Range(reader[r].given) \/ \E i \in DOMAIN store[w].events : x = store[w].events[i].id
      /\ reader[r].cursor <= next.cursor
      /\ \A x \in Range(next.given) : x <= appended
      /\ reader' = [reader EXCEPT ![r] = next] /\ reader' \in [Reader -> ReaderRecord]
      /\ UNCHANGED <<store, log, ending, appended, restarts, crossed>>
  BY <1>1, <1>2, GivenRecord
<1>4. \A q \in Reader \ {r} : reader'[q] = reader[q]
  BY <1>3
<1>5. EventsTypeOK'
  BY <1>3 DEF Orderly, EventsTypeOK, ReaderRecord
<1>6. \A v \in Writer : Remembers(v)'
  BY <1>3 DEF Orderly, Remembers
<1>7. StandsIn(reader'[r], log)
  <2> SUFFICES ASSUME NEW i \in DOMAIN log, log[i].cursor > reader'[r].cursor,
                      NEW k \in DOMAIN reader'[r].given
               PROVE  reader'[r].given[k] < log[i].id
    BY DEF StandsIn
  <2>1. CASE log[i] \in Range(store[w].events)
    <3>1. PICK j \in DOMAIN store[w].events : log[i] = store[w].events[j]
      BY <2>1 DEF Range
    <3>2. QED
      BY <1>3, <3>1 DEF StandsIn
  <2>2. CASE log[i] \notin Range(store[w].events)
    <3>1. log[i] \in Range(log) \ Range(store[w].events)
      BY <2>2 DEF Range
    <3>2. \A d \in Range(store[w].events) : d.id < log[i].id
      BY <1>1, <3>1 DEF Orderly, Remembers
    <3>3. CASE reader'[r].given[k] \in Range(reader[r].given)
      <4>1. PICK m \in DOMAIN reader[r].given : reader'[r].given[k] = reader[r].given[m]
        BY <3>3 DEF Range
      <4>2. log[i].cursor > reader[r].cursor
        <5>1. /\ log[i].cursor \in Nat /\ reader[r].cursor \in Nat /\ reader'[r].cursor \in Nat
          <6>1. log[i] \in Event
            BY DEF Orderly, EventsTypeOK
          <6>2. reader[r].cursor \in 0..MaxEvents /\ reader'[r].cursor \in 0..MaxEvents
            BY <1>1, <1>3 DEF Orderly, EventsTypeOK, ReaderRecord
          <6>3. QED
            BY <6>1, <6>2, EventsAssumption DEF Event
        <5>2. QED
          BY <1>3, <5>1
      <4>3. StandsIn(reader[r], log)
        BY <1>1 DEF Orderly
      <4>4. QED
        BY <4>1, <4>2, <4>3 DEF StandsIn
    <3>4. CASE \E j \in DOMAIN store[w].events : reader'[r].given[k] = store[w].events[j].id
      <4>1. PICK j \in DOMAIN store[w].events : reader'[r].given[k] = store[w].events[j].id
        BY <3>4
      <4>2. store[w].events[j] \in Range(store[w].events)
        BY DEF Range
      <4>3. QED
        BY <3>2, <4>1, <4>2
    <3>5. reader'[r].given[k] \in Range(reader'[r].given)
      BY DEF Range
    <3>6. QED
      BY <1>3, <3>3, <3>4, <3>5
  <2>3. QED
    BY <2>1, <2>2
<1>8. \A q \in Reader : StandsIn(reader'[q], log')
  BY <1>3, <1>4, <1>7 DEF Orderly
<1>9. \A q \in Follower : Follows(q)'
  BY <1>1, <1>3, <1>4 DEF Orderly, Follows, Reader
<1>10. \A q \in Poller : StandsIn(reader'[q], store'[Home[q]].events)
  BY <1>3, <1>4 DEF Orderly, Reader, w
<1>11. \A q \in Reader : Increasing(reader'[q].given) /\ \A id \in Range(reader'[q].given) : id <= appended'
  BY <1>3, <1>4 DEF Orderly
<1>12. QED
  BY <1>3, <1>5, <1>6, <1>8, <1>9, <1>10, <1>11 DEF Orderly

LEMMA FollowStep ==
    ASSUME Orderly, NEW r \in Follower, Follow(r)
    PROVE  Orderly'
<1>1. /\ log \in Seq(Event) /\ InOrder(log) /\ r \in Reader /\ r \notin Poller
      /\ StandsIn(reader[r], log) /\ \A e \in Range(log) : e.id <= appended
  BY EventsAssumption DEF Orderly, EventsTypeOK, Reader
<1>2. Give(r, EventsAfter(log, reader[r].cursor))
  BY DEF Follow, Loaded
<1>3. LET next == reader'[r] IN
      /\ next \in ReaderRecord /\ Increasing(next.given) /\ StandsIn(next, log)
      /\ \E i \in DOMAIN log : log[i].cursor = next.cursor
      /\ Range(reader[r].given) \subseteq Range(next.given)
      /\ \A x \in Range(next.given) : x <= appended
      /\ \A i \in DOMAIN log : log[i].cursor <= next.cursor =>
            log[i].cursor <= reader[r].cursor \/ log[i].id \in Range(next.given)
      /\ reader' = [reader EXCEPT ![r] = next] /\ reader' \in [Reader -> ReaderRecord]
      /\ UNCHANGED <<store, log, ending, appended, restarts, crossed>>
  BY <1>1, <1>2, GivenRecord
<1>4. \A q \in Reader \ {r} : reader'[q] = reader[q]
  BY <1>3
<1>5. EventsTypeOK'
  BY <1>3 DEF Orderly, EventsTypeOK, ReaderRecord
<1>6. Follows(r)'
  <2>1. Follows(r) /\ log' = log
    BY <1>3 DEF Orderly
  <2>2. \E e \in Range(log) : e.cursor = reader'[r].cursor
    BY <1>3 DEF Range
  <2>3. \A e \in Range(log) : e.cursor <= reader'[r].cursor => e.id \in Range(reader'[r].given)
    BY <1>3, <2>1 DEF Follows, Range
  <2>4. QED
    BY <2>1, <2>2, <2>3 DEF Follows
<1>7. /\ \A q \in Follower : Follows(q)'
      /\ \A q \in Reader : StandsIn(reader'[q], log')
  BY <1>3, <1>4, <1>6 DEF Orderly, Follows, Reader
<1>8. /\ \A w \in Writer : Remembers(w)'
      /\ \A q \in Poller : StandsIn(reader'[q], store'[Home[q]].events)
  BY <1>1, <1>3, <1>4 DEF Orderly, Remembers, Reader
<1>9. \A q \in Reader : Increasing(reader'[q].given) /\ \A id \in Range(reader'[q].given) : id <= appended'
  BY <1>3, <1>4 DEF Orderly
<1>10. QED
  BY <1>1, <1>3, <1>5, <1>7, <1>8, <1>9 DEF Orderly

LEMMA EventsStep ==
    ASSUME EventsInv, [EventsNext]_eventVars
    PROVE  EventsInv'
<1>1. crossed => crossed'
  BY DEF EventsNext, AppendEvent, AppendFails, Appends, RestartWriter, PollEvents, Follow, Give,
         eventVars
<1>2. ASSUME Orderly, EventsNext, ~crossed' PROVE Orderly'
  BY <1>2, AppendStep, RestartStep, PollStep, FollowStep DEF EventsNext
<1>3. ASSUME Orderly, UNCHANGED eventVars PROVE Orderly'
  BY <1>3 DEF eventVars, Orderly, EventsTypeOK, Remembers, Follows
<1>4. QED
  BY <1>1, <1>2, <1>3 DEF EventsInv

(* A reader that resumes from the cursor it was given sees no event twice and   *)
(* none out of order, and a follower of the file passes over none that is in it *)
(* (CicloEventStore.poll and loadPersistedEvents): for any limit, any readers    *)
(* and any processes that append, fail, are cut short and restart, up to the    *)
(* moment when one appends without having loaded a line that is in the file,   *)
(* or glues its line to one that could be read.                              *)
THEOREM EventsComeInOrder == EventsSpec => []EventsInOrder
<1>1. EventsInit => EventsInv
  BY EventsBegin
<1>2. EventsInv /\ [EventsNext]_eventVars => EventsInv'
  BY EventsStep
<1>3. EventsInv => EventsInOrder
  BY DEF EventsInv, Orderly, EventsInOrder, Increasing, Follows, Range
<1>4. QED
  BY <1>1, <1>2, <1>3, PTL DEF EventsSpec
================================================================================
