------------------------------- MODULE CicloCron -------------------------------
(***************************************************************************)
(* The cron scheduler (ciclo-cron.ts) and the part of a heartbeat tick     *)
(* that runs due jobs (tick and runDueCronJobs in internal-heartbeat.ts).  *)
(* A scheduler keeps its run records in memory and appends them to         *)
(* .ciclo/cron-runs.jsonl, which it reads once, when its process starts.   *)
(* Ticks overlap: in the leader, where the timer and ciclo_run_due_cron    *)
(* start them, and with those of "ciclo cron run-due".                     *)
(* Only the last finished record of a job is ever looked at, so memory and *)
(* file are functions from jobs to the time of that record.                *)
(* A line that lacks its newline counts as cut off, although a process that *)
(* starts before the next append would read it.                            *)
(***************************************************************************)
EXTENDS Naturals, Sequences, SequencesExt

CONSTANTS
    Scheduler,       \* processes with a scheduler
    Timed,           \* those with a timer; the others are commands, of one tick each
    Thread, Of,      \* ticks that may be under way, and the process of each
    JobOrder,        \* the configured jobs, in order
    Every,           \* Every[j]: interval of job j, or NoTime
    Minutes,         \* Minutes[j]: the minutes its dailyAt and cron match
    Consults,        \* the jobs whose task asks the brain, an await
    MinuteLength,    \* ticks of the clock in a minute
    NoTime,
    MaxClock, MaxFaults   \* bounds on the clock, and on crashes and failures
ASSUME CronAssumption ==
    /\ NoTime \notin Nat /\ MaxClock \in Nat /\ MaxFaults \in Nat
    /\ Timed \subseteq Scheduler /\ Of \in [Thread -> Scheduler]
    /\ MinuteLength \in Nat \ {0}
    /\ \A j \in Range(JobOrder) : Every[j] \in Nat \cup {NoTime}

Job == Range(JobOrder)
ClockTime == 0..MaxClock

VARIABLES
    clock,
    last,      \* last[p][j]: time of job j's last record in p's memory
    file,      \* file[j]: the same in the shared file, of the lines that parse
    torn,      \* the file ends in a line cut short
    tick,      \* tick[k]: where tick k stands
    faults,
    filed,     \* history: the latest of a job's runs on file
    known,     \* history: the latest of those that p recorded or found on file
    crossed    \* history: jobs listed while another tick owed them, or out of order

cronHistory == <<filed, known, crossed>>
cronVars == <<clock, last, file, torn, tick, faults, cronHistory>>

Idle == [pc |-> "idle", at |-> 0, todo |-> {}]
Gone == [Idle EXCEPT !.pc = "gone"]   \* a command that is not running

CronTypeOK ==
    /\ clock \in ClockTime /\ faults \in 0..MaxFaults /\ torn \in BOOLEAN
    /\ last \in [Scheduler -> [Job -> ClockTime \cup {NoTime}]]
    /\ file \in [Job -> ClockTime \cup {NoTime}]
    /\ tick \in [Thread -> [pc : {"gone", "idle", "ahead", "running", "asking"},
                           at : ClockTime, todo : SUBSET DOMAIN JobOrder]]
    /\ filed \in [Job -> ClockTime \cup {NoTime}] /\ crossed \subseteq Job
    /\ known \in [Scheduler -> [Job -> ClockTime \cup {NoTime}]]

SameMinute(s, t) == s \div MinuteLength = t \div MinuteLength

\* The last run leaves room for another one at time t.
Elapsed(j, run, t) ==
    Every[j] # NoTime /\ (run = NoTime \/ t - run >= Every[j])
Matched(j, run, t) ==
    t \div MinuteLength \in Minutes[j] /\ (run = NoTime \/ ~SameMinute(run, t))

MayRun(j, run, t) == Elapsed(j, run, t) \/ Matched(j, run, t)

\* What the schedule forbids, said once more for the property.
TooSoon(j, run, t) ==
    /\ SameMinute(run, t) \/ t \div MinuteLength \notin Minutes[j]
    /\ Every[j] = NoTime \/ t < run + Every[j]

\* The due jobs are named by their places in the configured order.
DueJobs(p, t) ==
    {i \in DOMAIN JobOrder : MayRun(JobOrder[i], last[p][JobOrder[i]], t)}
First(todo) == {i \in todo : \A o \in todo : i <= o}   \* the place that comes first

Rested(p) == IF p \in Timed THEN Idle ELSE Gone

CronInit ==
    /\ clock = 0 /\ faults = 0 /\ torn = FALSE
    /\ last = [p \in Scheduler |-> [j \in Job |-> NoTime]]
    /\ file = [j \in Job |-> NoTime]
    /\ tick = [k \in Thread |-> Rested(Of[k])]
    /\ filed = file /\ known = last /\ crossed = {}

\* A process runs one thread at a time; a thread yields where it awaits.
Yields(k) == \A other \in Thread \ {k} : Of[other] = Of[k] => tick[other].pc # "running"

Owes(k, j) == \E i \in tick[k].todo : JobOrder[i] = j
Later(run, at) == IF run = NoTime \/ run < at THEN at ELSE run
Overtaken(j, at) ==
    \E run \in {filed[j]} \cup {known[p][j] : p \in Scheduler} : run # NoTime /\ run > at

-----------------------------------------------------------------------------
\* A tick notes the time, and comes to the cron jobs after its other work.
BeginTick(k) ==
    /\ tick[k].pc = "idle" /\ Yields(k)
    /\ tick' = [tick EXCEPT ![k] = [Idle EXCEPT !.pc = "ahead", !.at = clock]]
    /\ UNCHANGED <<clock, last, file, torn, faults, cronHistory>>

\* The due jobs are listed once, for the time at which the tick began.
ListDue(k) ==
    /\ tick[k].pc = "ahead" /\ Yields(k)
    /\ LET at == tick[k].at
           due == DueJobs(Of[k], at)
       IN  /\ tick' = [tick EXCEPT ![k] =
                  IF due = {} THEN Rested(Of[k]) ELSE [pc |-> "running", at |-> at, todo |-> due]]
           /\ crossed' = crossed \cup {j \in {JobOrder[i] : i \in due} :
                  \/ Overtaken(j, at)
                  \/ \E other \in Thread \ {k} : Owes(other, j)}
    /\ UNCHANGED <<clock, last, file, torn, faults, filed, known>>

AskBrain(k) ==
    /\ tick[k].pc = "running" /\ \E i \in First(tick[k].todo) : JobOrder[i] \in Consults
    /\ tick' = [tick EXCEPT ![k].pc = "asking"]
    /\ UNCHANGED <<clock, last, file, torn, faults, cronHistory>>

\* The task of the first job is over, whatever its outcome, and is recorded.
AtRecord(k, i) ==
    /\ i \in First(tick[k].todo)
    /\ \/ tick[k].pc = "running" /\ JobOrder[i] \notin Consults
       \/ tick[k].pc = "asking" /\ Yields(k)

Recording(k) == \E i \in DOMAIN JobOrder : AtRecord(k, i)
Remaining(k, i) ==
    LET rest == tick[k].todo \ {i} IN
    IF rest = {} THEN Rested(Of[k]) ELSE [pc |-> "running", at |-> tick[k].at, todo |-> rest]

Remember(p, j, at) ==
    /\ last' = [last EXCEPT ![p][j] = at]
    /\ known' = [known EXCEPT ![p][j] = Later(@, at)]

\* A whole line is appended; glued to a torn one it does not parse.
AppendRun(j, at, glued) ==
    /\ file' = IF glued THEN file ELSE [file EXCEPT ![j] = at]
    /\ filed' = IF glued THEN filed ELSE [filed EXCEPT ![j] = Later(@, at)]
    /\ torn' = FALSE

\* A finished job is recorded in the file alone.
BugMemoryNotUpdated(k) ==
    /\ \E i \in DOMAIN JobOrder :
          /\ AtRecord(k, i)
          /\ UNCHANGED <<last, known>> /\ AppendRun(JobOrder[i], tick[k].at, torn)
          /\ tick' = [tick EXCEPT ![k] = Remaining(k, i)]
    /\ UNCHANGED <<clock, faults, crossed>>

RecordRun(k) ==
    /\ \E i \in DOMAIN JobOrder :
          /\ AtRecord(k, i)
          /\ Remember(Of[k], JobOrder[i], tick[k].at)
          /\ AppendRun(JobOrder[i], tick[k].at, torn)
          /\ tick' = [tick EXCEPT ![k] = Remaining(k, i)]
    /\ UNCHANGED <<clock, faults, crossed>>

(* The append throws, perhaps half-way: the catch records the run as failed, *)
(* in memory first, and either reaches the file or throws out of the tick.   *)
RecordFails(k) ==
    /\ faults < MaxFaults
    /\ \E i \in DOMAIN JobOrder :
          /\ AtRecord(k, i)
          /\ Remember(Of[k], JobOrder[i], tick[k].at)
          /\ \/ /\ \E glued \in {torn, TRUE} : AppendRun(JobOrder[i], tick[k].at, glued)
                /\ tick' = [tick EXCEPT ![k] = Remaining(k, i)]
             \/ /\ tick' = [tick EXCEPT ![k] = Rested(Of[k])]
                /\ torn' \in {torn, TRUE}
                /\ UNCHANGED <<file, filed>>
    /\ faults' = faults + 1
    /\ UNCHANGED <<clock, crossed>>

(* What comes before the jobs, or the event that announces one, throws: the  *)
(* tick is over.                                                             *)
TickFails(k) ==
    /\ tick[k].pc \in {"ahead", "running"} /\ faults < MaxFaults
    /\ tick' = [tick EXCEPT ![k] = Rested(Of[k])]
    /\ faults' = faults + 1
    /\ UNCHANGED <<clock, last, file, torn, cronHistory>>

\* The successor starts without looking at the file.
BugNothingLoaded(p) ==
    /\ last' = [last EXCEPT ![p] = [j \in Job |-> NoTime]]
    /\ known' = [known EXCEPT ![p] = filed]

\* A process that starts loads the file.
Load(p) == last' = [last EXCEPT ![p] = file] /\ known' = [known EXCEPT ![p] = filed]

\* The process ends anywhere in a tick, or in the middle of a line.
RestartScheduler(p) ==
    /\ faults < MaxFaults
    /\ faults' = faults + 1
    /\ Load(p)
    /\ tick' = [k \in Thread |-> IF Of[k] = p THEN Rested(p) ELSE tick[k]]
    /\ torn' \in IF \E k \in Thread : Of[k] = p /\ Recording(k) THEN {torn, TRUE} ELSE {torn}
    /\ UNCHANGED <<clock, file, filed, crossed>>

\* "ciclo cron run-due", which makes one tick.
StartCommand(k) ==
    /\ tick[k].pc = "gone" /\ Yields(k)
    /\ tick' = [tick EXCEPT ![k] = Idle]
    /\ Load(Of[k])
    /\ UNCHANGED <<clock, file, torn, faults, filed, crossed>>

PassTime ==
    /\ clock < MaxClock
    /\ clock' = clock + 1
    /\ UNCHANGED <<last, file, torn, tick, faults, cronHistory>>

CronNext ==
    \/ \E k \in Thread :
        \/ BeginTick(k) \/ ListDue(k) \/ AskBrain(k)
        \/ RecordRun(k) \/ RecordFails(k) \/ TickFails(k) \/ StartCommand(k)
    \/ \E p \in Scheduler : RestartScheduler(p)
    \/ PassTime

\* The timer ticks on, the brain's request ends somehow, and files can be written.
CronFairness ==
    \A k \in Thread :
        /\ WF_cronVars(BeginTick(k)) /\ WF_cronVars(ListDue(k))
        /\ WF_cronVars(AskBrain(k) \/ RecordRun(k))

CronSpec == CronInit /\ [][CronNext]_cronVars /\ CronFairness

-----------------------------------------------------------------------------
(* A tick never lists a job that the schedule forbids after a run its process *)
(* recorded itself or found on file when it started                          *)
(* (CicloCronScheduler.dueReason, load and recordRun): not where it dies      *)
(* between two lines, appends fail or are cut, several ticks overlap with     *)
(* other jobs in hand, or another process writes to the file.  Excepted, and  *)
(* the only way the code repeats a run it knows of: a job that a tick listed  *)
(* while another owed it or after a tick of a later time.  See crossed.       *)
RecordedRunNotRepeated ==
    [][\A k \in Thread :
         \A i \in tick'[k].todo \ tick[k].todo :
           LET j == JobOrder[i]  run == known[Of[k]][j] IN
           j \notin crossed' /\ run # NoTime => ~TooSoon(j, run, tick'[k].at)]_cronVars

(* A job that is due by its interval gets recorded, or the process that owes *)
(* it is restarted: no other due job, no other tick, no failed append and no *)
(* answer of the brain that comes late keeps it from its turn for ever.      *)
Owed(p, j) == Elapsed(j, last[p][j], clock)
OwedIsRun == \A p \in Timed, j \in Job : Owed(p, j) ~> ~Owed(p, j)
=============================================================================
