---------------------------- MODULE OperatorRouting ----------------------------
(***************************************************************************)
(* Questions from workers to the operator: OperatorRoutingStore             *)
(* (src/src/operator-routing.ts), the MCP tools ciclo_ask_operator,          *)
(* ciclo_answer_question and ciclo_heartbeat_worker_session                  *)
(* (src/src/mcp-stdio.ts), and the waiting workers of the supervisor.        *)
(*                                                                          *)
(* Store and supervisor live in the memory of an MCP process.  The operator  *)
(* and the heartbeat use the process Leader, which launched the workers; a   *)
(* worker's own requests go to the process Server[s]: Leader itself when     *)
(* both use one HTTP server, a process of its own when the worker was        *)
(* configured with "ciclo mcp stdio".                                        *)
(***************************************************************************)
EXTENDS WorkerSessionSupervisor

CONSTANTS
    McpProcess, Leader,
    Server,        \* the MCP process each worker's tools are served by
    Question,      \* questions, one per context and normalized text
    Asker,         \* the worker that asks it
    Route,         \* the context given: a session, a bead, or "any" when none is
    ReportStates   \* states workers report: subset of {"none", "running", "waiting_on_operator"}

ASSUME RoutingAssumption ==
    /\ Session \cap Bead = {} /\ "any" \notin Session \cup Bead
    /\ Leader \in McpProcess
    /\ Server \in [Session -> McpProcess]
    /\ Asker \in [Question -> Session]
    /\ Route \in [Question -> Session \cup Bead \cup {"any"}]
    /\ ReportStates \subseteq {"none", "running", "waiting_on_operator"}

VARIABLES
    questions,   \* the store of each process
    unasked      \* history: workers that wait, but not because a question was asked

rvars == <<sessions, now, questions, unasked>>

RoutingTypeOK ==
    /\ TypeOK
    /\ questions \in [McpProcess -> [Question -> {"none", "pending", "answered"}]]
    /\ unasked \subseteq Session

(* The workers are up and tracked by the leader. *)
RoutingInit ==
    /\ sessions \in [Session -> {StartedSession(Fresh(b), "process", FALSE, 0) : b \in Bead}]
    /\ now = 0
    /\ questions = [p \in McpProcess |-> [q \in Question |-> "none"]]
    /\ unasked = {}

Record(p, q, status) == questions' = [questions EXCEPT ![p][q] = status]

Waits(w) == w.state = "waiting_on_operator"

(* Those of N that start to wait now do so without a question of theirs. *)
Unasked(N) ==
    unasked' = {s \in unasked \cup {n \in N : ~Waits(sessions[n])} : Waits(sessions'[s])}
-----------------------------------------------------------------------------
(* The operators named Bug... are the action after them with a defect, used   *)
(* only to show that the properties notice it.                                *)
BugNotRequeued(q) ==
    LET p == Server[Asker[q]] IN
    /\ Working(sessions[Asker[q]])
    /\ Record(p, q, IF questions[p][q] = "answered" THEN "answered" ELSE "pending")
    /\ sessions' = IF p = Leader THEN MarkWaitingOnOperator(sessions, Route[q]) ELSE sessions
    /\ Unasked({}) /\ UNCHANGED now

(* ciclo_ask_operator: a pending duplicate is not queued again, but workers   *)
(* are marked all the same.  Only the leader's supervisor tracks any.         *)
Ask(q) ==
    LET p == Server[Asker[q]] IN
    /\ Working(sessions[Asker[q]])
    /\ Record(p, q, "pending")
    /\ sessions' = IF p = Leader THEN MarkWaitingOnOperator(sessions, Route[q]) ELSE sessions
    /\ Unasked({}) /\ UNCHANGED now

BugResumesSessionOnly(q, empty) ==
    /\ questions[Leader][q] # "none"
    /\ Record(Leader, q, IF empty THEN questions[Leader][q] ELSE "answered")
    /\ sessions' = IF Route[q] \in Session
                   THEN ResumeAfterOperator(sessions, Route[q], now) ELSE sessions
    /\ Unasked({}) /\ UNCHANGED now

(* ciclo_answer_question, from the operator: an empty answer, or one to an    *)
(* answered question, is refused and yet routed.                              *)
Answer(q, empty) ==
    /\ questions[Leader][q] # "none"
    /\ Record(Leader, q, IF empty THEN questions[Leader][q] ELSE "answered")
    /\ sessions' = ResumeAfterOperator(sessions, Route[q], now)
    /\ Unasked({}) /\ UNCHANGED now

(* The brain's ask_operator: an event with an id the store does not know. *)
BrainAsksAbout(s) ==
    /\ sessions' = MarkWaitingOnOperator(sessions, s)
    /\ Unasked({s}) /\ UNCHANGED <<now, questions>>

(* ciclo_heartbeat_worker_session: a process that does not track the session  *)
(* answers with an error, and nothing changes.                                *)
Report(s, requested) ==
    /\ Server[s] = Leader
    /\ sessions[s].state \in Active /\ Working(sessions[s])
    /\ Heartbeat(s, requested)
    /\ Unasked({s}) /\ UNCHANGED questions

SupervisorStep ==
    /\ \/ Tick \/ StallSilent
       \/ \E s \in Session : OnExit(s) \/ Stop(s, AllGood)
       \/ \E s \in Session, code \in {"ok", "bad"} : LauncherExits(s, code)
    /\ Unasked({}) /\ UNCHANGED questions

RoutingNext ==
    \/ \E q \in Question : Ask(q) \/ \E empty \in BOOLEAN : Answer(q, empty)
    \/ \E s \in Session : BrainAsksAbout(s) \/ \E r \in ReportStates : Report(s, r)
    \/ SupervisorStep

RoutingSpec == RoutingInit /\ [][RoutingNext]_rvars

PendingQuestion(p, q) == questions[p][q] = "pending"

(* The operator answers every question shown: ciclo://questions lists the     *)
(* pending ones of the leader.                                                *)
FairRoutingSpec ==
    RoutingSpec /\ \A q \in Question : WF_rvars(PendingQuestion(Leader, q) /\ Answer(q, FALSE))
-----------------------------------------------------------------------------
(* A worker waiting for the operator has a pending question whose answer will *)
(* be routed to it: no interleaving of duplicate, empty and broader answers   *)
(* leaves it waiting for nothing.  Excepted are those that the brain, or a    *)
(* report of their own, put to wait without any question a store holds, until *)
(* they are resumed.                                                          *)
WaitingHasQuestion ==
    \A s \in Session \ unasked : Waits(sessions[s]) =>
        \E q \in Question : PendingQuestion(Leader, q) /\ Matches(s, sessions[s], Route[q])

(* "Ciclo records the answer, applies policy, and makes the answer visible to *)
(* the waiting harness" (SPEC-CICLO-001): a worker that waits for an answer   *)
(* goes on in the end, if the operator answers what is pending, whatever      *)
(* workers report and the brain asks in between.                              *)
WaitingIsResumed ==
    \A s \in Session : Waits(sessions[s]) /\ s \notin unasked ~> ~Waits(sessions[s])

(* "surfaces it through ciclo://questions" (SPEC-CICLO-001): a question that   *)
(* some process holds pending is shown to the operator.                       *)
QuestionsReachOperator ==
    \A p \in McpProcess, q \in Question : PendingQuestion(p, q) => questions[Leader][q] # "none"
================================================================================
