------------------------------ MODULE CicloEvents ------------------------------
(***************************************************************************)
(* The event store (ciclo-events.ts): each process numbers its events from *)
(* the largest cursor it loaded, keeps them in memory and appends them to  *)
(* .ciclo/events.jsonl.  ciclo_poll_events reads the memory of one         *)
(* process; "ciclo events --follow" loads the file afresh at every poll.   *)
(* An event is named by the number of events appended before it.           *)
(***************************************************************************)
EXTENDS Naturals, SequencesExt, FiniteSetsExt

CONSTANTS
    Writer,          \* processes with an event store
    Poller, Follower,   \* readers of a process's memory, and of the file
    Home,            \* [Poller -> Writer]: the process a poller's client talks to
    Limit,           \* events returned by a poll
    MaxEvents, MaxRestarts   \* bounds on events appended and on restarts
ASSUME EventsAssumption ==
    /\ Limit \in Nat \ {0} /\ MaxEvents \in Nat /\ MaxRestarts \in Nat
    /\ Poller \cap Follower = {} /\ Home \in [Poller -> Writer]

VARIABLES
    store,     \* store[w]: events in the memory of w, and its cursor
    log,       \* the file: lines that parse; a torn line is left out
    ending,      \* how the file ends: in a whole line, one cut short, or one without newline
    reader,    \* reader[r]: its cursor, and what it was given so far
    appended, restarts,
    crossed    \* history: a process appended to a line it had not loaded, or spoiled one

eventVars == <<store, log, ending, reader, appended, restarts, crossed>>
Reader == Poller \cup Follower

Event == [cursor : 1..MaxEvents, id : 1..MaxEvents]
EventsTypeOK ==
    /\ store \in [Writer -> [events : Seq(Event), cursor : 0..MaxEvents]]
    /\ log \in Seq(Event) /\ ending \in {"ended", "torn", "unended"}
    /\ reader \in [Reader -> [cursor : 0..MaxEvents, given : Seq(1..MaxEvents)]]
    /\ appended \in 0..MaxEvents /\ restarts \in 0..MaxRestarts
    /\ crossed \in BOOLEAN

Largest(events) == Max({0} \cup {events[i].cursor : i \in DOMAIN events})

\* The next number is the number of events, not one more than the largest.
BugCursorFromLength(events) == [events |-> events, cursor |-> Len(events)]
Loaded(events) == [events |-> events, cursor |-> Largest(events)]

\* The events with a larger cursor, in the order they are in, Limit at most: the
\* k-th is the one whose place among them is k.
EventsAfter(events, cursor) ==
    LET later == {i \in DOMAIN events : events[i].cursor > cursor}
        place(i) == Cardinality({j \in later : j <= i})
        found == IF Cardinality(later) < Limit THEN Cardinality(later) ELSE Limit
    IN  [k \in 1..found |-> events[CHOOSE i \in later : place(i) = k]]

EventsInit ==
    /\ store = [w \in Writer |-> Loaded(<<>>)]
    /\ log = <<>> /\ ending = "ended"
    /\ reader = [r \in Reader |-> [cursor |-> 0, given |-> <<>>]]
    /\ appended = 0 /\ restarts = 0 /\ crossed = FALSE

-----------------------------------------------------------------------------
Numbered(w) == [cursor |-> store[w].cursor + 1, id |-> appended + 1]
InMemory(w) ==
    store' = [store EXCEPT ![w] = [events |-> Append(@.events, Numbered(w)), cursor |-> @.cursor + 1]]

\* What is appended after a cut line is glued to it, and the two do not parse: a
\* line that lacked only its newline can be read until then.
Spoils(outcome) == ending = "unended" /\ outcome # "refused"

WriteLine(event, outcome) ==
    /\ log' = IF Spoils(outcome) THEN Front(log)
              ELSE IF ending = "ended" /\ outcome \in {"written", "unended"}
              THEN Append(log, event) ELSE log
    /\ ending' = CASE outcome = "refused" -> ending
                 [] outcome = "written" -> "ended"
                 [] outcome = "unended" /\ ending = "ended" -> "unended"
                 [] OTHER -> "torn"

\* append(): memory first, then the file.
Appends(w, outcome) ==
    /\ appended < MaxEvents
    /\ appended' = appended + 1
    /\ InMemory(w) /\ WriteLine(Numbered(w), outcome)
    /\ crossed' = (crossed \/ Spoils(outcome) \/ ~(Range(log) \subseteq Range(store[w].events)))
    /\ UNCHANGED <<reader, restarts>>

AppendEvent(w) == Appends(w, "written")

\* The write fails, perhaps in the middle of the line: the caller gets the error,
\* the memory keeps the event.
AppendFails(w) == \E outcome \in {"refused", "torn", "unended"} : Appends(w, outcome)

\* The process ends, if in the middle of a line after AppendFails; its successor
\* loads the file.
RestartWriter(w) ==
    /\ restarts < MaxRestarts
    /\ restarts' = restarts + 1
    /\ store' = [store EXCEPT ![w] = Loaded(log)]
    /\ UNCHANGED <<log, ending, reader, appended, crossed>>

NextCursor(cursor, events) == IF events = <<>> THEN cursor ELSE Last(events).cursor

Give(r, events) ==
    /\ events # <<>>
    /\ reader' = [reader EXCEPT ![r] =
            [cursor |-> NextCursor(@.cursor, events),
             given |-> @.given \o [i \in DOMAIN events |-> events[i].id]]]
    /\ UNCHANGED <<store, log, ending, appended, restarts, crossed>>

PollEvents(r) == Give(r, EventsAfter(store[Home[r]].events, reader[r].cursor))
Follow(r) == Give(r, EventsAfter(Loaded(log).events, reader[r].cursor))

EventsNext ==
    \/ \E w \in Writer : AppendEvent(w) \/ AppendFails(w) \/ RestartWriter(w)
    \/ \E r \in Poller : PollEvents(r)
    \/ \E r \in Follower : Follow(r)

EventsSpec == EventsInit /\ [][EventsNext]_eventVars

-----------------------------------------------------------------------------
(* A reader that resumes from the cursor it was given never sees an event    *)
(* twice or out of order, and one that follows the file passes no event that *)
(* is in it ("follow the same persisted project event stream", README.md),   *)
(* across limits, restarts, failed and torn writes and processes that take   *)
(* turns (CicloEventStore.poll and loadPersistedEvents), until a process      *)
(* appends while the file has a line of another that it has not loaded, for  *)
(* the two number their events alike, or glues a line to one that could be   *)
(* read without its newline, whose number is then given again.              *)
EventsInOrder ==
    \/ crossed
    \/ /\ \A r \in Reader : \A i, k \in DOMAIN reader[r].given :
             i < k => reader[r].given[i] < reader[r].given[k]
       /\ \A r \in Follower : \A i \in DOMAIN log :
             log[i].cursor <= reader[r].cursor => log[i].id \in Range(reader[r].given)
=============================================================================
