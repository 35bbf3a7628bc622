--------------------------- MODULE InternalHeartbeat ---------------------------
(***************************************************************************)
(* The internal heartbeat of the automation leader (class                   *)
(* CicloInternalHeartbeat, src/src/internal-heartbeat.ts) over the worker    *)
(* supervisor and the Beads queue (src/src/beads-work-queue.ts).            *)
(*                                                                          *)
(* tick() is asynchronous: it gives up the thread at every call to the      *)
(* brain or to bd, and the timer (or ciclo_run_due_cron) may start another  *)
(* tick then, MCP requests are served and exit events delivered.  Beat is   *)
(* the set of ticks that may be under way at once.                          *)
(***************************************************************************)
EXTENDS WorkerSessionSupervisor

CONSTANTS
    Beat,           \* concurrent executions of tick()
    MaxConcurrent,  \* heartbeat.preemptiveWork.maxConcurrent
    Grace,          \* workerRecoveryGraceMs
    BrainActions,   \* what the brain may decide; {} when no brain is configured
    BrainTools,     \* control-plane tools the brain calls while it decides
    Primary,        \* beads of the primary issue types; the others fall back
    Failures,       \* TRUE: calls to the brain and to bd may fail
    NoBead, NoSession

ASSUME HeartbeatAssumption ==
    /\ MaxConcurrent \in Nat /\ Grace \in Nat
    /\ BrainActions \subseteq {"wait", "nudge", "ask_operator", "stop",
                               "relaunch_stronger_model", "launch_review_worker"}
    /\ BrainTools \subseteq {"list", "nudge", "ask_operator", "stop", "launch"}
    /\ Primary \subseteq Bead /\ Failures \in BOOLEAN
    /\ NoBead \notin Bead /\ NoSession \notin Session

VARIABLES
    beads,   \* status of each bead in the Beads database
    ticks,   \* progress and local variables of each tick
    byTool,  \* history: sessions the brain launched itself, through a tool
    dropped, \* history: beads whose claim was given up because a call failed
    renudged \* history: of the sessions each tick will release, those nudged
             \* again since it chose them

hvars == <<sessions, now, beads, ticks, byTool, dropped, renudged>>

Tick0 == [pc |-> "idle", release |-> {}, consult |-> {}, worker |-> NoSession,
          stage |-> "primary", full |-> FALSE, remaining |-> {}, bead |-> NoBead]

TickRecord ==
    [pc        : {"idle", "followups", "deciding", "ready", "show", "claim", "note", "brief"},
     release   : SUBSET Session,      \* snapshot: stalled, nudged a grace period ago
     consult   : SUBSET Session,      \* snapshot: stalled, never nudged
     worker    : Session \cup {NoSession},  \* whom the brain is asked about
     stage     : {"primary", "fallback"},
     full      : BOOLEAN,             \* capacity reached when workers were counted
     remaining : SUBSET Bead,         \* ready work not yet ruled out
     bead      : Bead \cup {NoBead}]

HeartbeatTypeOK ==
    /\ TypeOK
    /\ beads \in [Bead -> {"open", "claimed", "taken"}]
    /\ ticks \in [Beat -> TickRecord]
    /\ byTool \subseteq Session
    /\ dropped \subseteq Bead
    /\ renudged \in [Beat -> SUBSET Session]

HeartbeatInit ==
    /\ Init
    /\ beads = [b \in Bead |-> "open"]
    /\ ticks = [t \in Beat |-> Tick0]
    /\ byTool = {} /\ dropped = {}
    /\ renudged = [t \in Beat |-> {}]

(* The single thread of the MCP process is given up only at an await. *)
Running(t) == ticks[t].pc = "followups" \/ (ticks[t].pc = "brief" /\ BrainActions = {})
Yielded == \A t \in Beat : ~Running(t)

ActiveWorker(w) == w.state \in Active \cup {"planned"}
Holds(t, b) == ticks[t].bead = b /\ ticks[t].pc \in {"note", "brief"}
StageBeads(stage) == IF stage = "primary" THEN Primary ELSE Bead \ Primary

Move(t, changed) == ticks' = [ticks EXCEPT ![t] = changed]
EndTick(t) == Move(t, Tick0)

(* stop() and cleanupCompleted() from end to end.  Nothing here speaks of     *)
(* worktrees, so no worker writes to one before it is removed, and every      *)
(* command works.                                                             *)
WithRemoval(w) ==
    IF w.state \in Tracked /\ w.removal # "none" THEN RemovalEnded(w, AllGood) ELSE w
StoppedSession(w) == WithRemoval(Stopped(w, AllGood))
CleanedUpSessions(S) ==
    [s \in Session |-> WithRemoval(CleanupCompleted(S, [r \in Session |-> AllGood])[s])]
-----------------------------------------------------------------------------
(* The operators named Bug... are the definition after them with a defect,    *)
(* used only to show that the properties notice it.                           *)
BugNoGrace(w) == w.attempts > 0

(* Nudged before, and silent for the grace period after the last nudge. *)
DueForRelease(w) == w.attempts > 0 /\ w.nudged + Grace <= now

(* The synchronous head of tick(): refresh, recover, stall, clean up; then    *)
(* decideFollowUps works from a snapshot of the workers.                      *)
StartTick(t, P) ==
    LET S == CleanedUpSessions(
                 RefreshStalled(PromptsSubmitted(RefreshDetachedAgents(sessions), P, now), now))
        stalled == {s \in Session : S[s].state = "stalled"}
    IN  /\ Yielded /\ ticks[t].pc = "idle"
        /\ sessions' = S
        /\ Move(t, [Tick0 EXCEPT
               !.pc = "followups",
               !.release = {s \in stalled : DueForRelease(S[s])},
               !.consult = IF BrainActions = {} THEN {}
                           ELSE {s \in stalled : S[s].attempts = 0}])
        /\ UNCHANGED <<now, beads>>

(* stop() of a session that is no longer tracked throws: the tick is over. *)
ReleaseCapacity(t, s) ==
    /\ ticks[t].pc = "followups" /\ s \in ticks[t].release
    /\ IF sessions[s].state \in Tracked
       THEN Set(s, StoppedSession(sessions[s])) /\ Move(t, [ticks[t] EXCEPT !.release = @ \ {s}])
       ELSE EndTick(t) /\ UNCHANGED sessions
    /\ UNCHANGED <<now, beads>>

AskBrain(t, s) ==
    /\ ticks[t].pc = "followups" /\ s \in ticks[t].consult
    /\ Move(t, [ticks[t] EXCEPT !.pc = "deciding", !.worker = s, !.consult = @ \ {s}])
    /\ UNCHANGED <<sessions, now, beads>>

BugKeepsReplaced(s, stopping) ==
    \E r \in Session \ {s}, k \in Kind :
        /\ sessions[r].state = "unused" /\ sessions[r].bead = sessions[s].bead
        /\ Set(r, StartedSession(sessions[r], k, TRUE, now))

(* executeWorkerBrainAction for the worker the brain was asked about. *)
LaunchesHelper(s, stopping) ==
    \E r \in Session \ {s}, k \in Kind :
        /\ sessions[r].state = "unused" /\ sessions[r].bead = sessions[s].bead
        /\ sessions' = [sessions EXCEPT
              ![s] = IF stopping THEN StoppedSession(@) ELSE @,
              ![r] = StartedSession(@, k, TRUE, now)]

WorkerAction(s, action) ==
    \/ action = "wait" /\ UNCHANGED sessions
    \/ action = "ask_operator" /\ sessions' = MarkWaitingOnOperator(sessions, s)
    \/ /\ action = "nudge" /\ sessions[s].attempts < MaxAttempts
       /\ Set(s, Nudged(sessions[s], now))
    \/ action = "stop" /\ Set(s, StoppedSession(sessions[s]))
    \/ action = "relaunch_stronger_model" /\ LaunchesHelper(s, TRUE)
    \/ action = "launch_review_worker" /\ LaunchesHelper(s, FALSE)

Throws(s, action) ==
    /\ action \in {"nudge", "stop", "relaunch_stronger_model"}
    /\ sessions[s].state \notin Tracked

BrainActs(t, action) ==
    LET s == ticks[t].worker IN
    /\ Yielded /\ ticks[t].pc = "deciding"
    /\ IF Throws(s, action)
       THEN EndTick(t) /\ UNCHANGED sessions
       ELSE /\ WorkerAction(s, action)
            /\ Move(t, [ticks[t] EXCEPT !.pc = "followups", !.worker = NoSession])
    /\ UNCHANGED <<now, beads>>

(* A rejected brain.decide rejects the whole tick. *)
BrainFails(t) ==
    /\ Failures /\ BrainActions # {} /\ Yielded
    /\ ticks[t].pc \in {"deciding", "brief"}
    /\ EndTick(t)
    /\ UNCHANGED <<sessions, now, beads>>

BugOneTooMany(t) ==
    /\ ticks[t].pc = "followups" /\ ticks[t].release = {} /\ ticks[t].consult = {}
    /\ Move(t, [ticks[t] EXCEPT
          !.pc = "ready",
          !.full = Cardinality({s \in Session : ActiveWorker(sessions[s])}) > MaxConcurrent])
    /\ UNCHANGED <<sessions, now, beads>>

(* dispatchReadyBeadsWork counts the workers once, before the first await. *)
CountWorkers(t) ==
    /\ ticks[t].pc = "followups" /\ ticks[t].release = {} /\ ticks[t].consult = {}
    /\ Move(t, [ticks[t] EXCEPT
          !.pc = "ready",
          !.full = Cardinality({s \in Session : ActiveWorker(RefreshDetachedAgents(sessions)[s])})
                     >= MaxConcurrent])
    /\ sessions' = RefreshDetachedAgents(sessions)
    /\ UNCHANGED <<now, beads>>

(* The next candidate, else the fallback stage, else the end of the tick. *)
SelectFrom(t, candidates) ==
    IF ~ticks[t].full /\ candidates # {}
    THEN \E b \in candidates :
            Move(t, [ticks[t] EXCEPT !.pc = "show", !.remaining = candidates, !.bead = b])
    ELSE IF ~ticks[t].full /\ ticks[t].stage = "primary"
    THEN Move(t, [ticks[t] EXCEPT !.pc = "ready", !.stage = "fallback", !.remaining = {},
                                  !.bead = NoBead])
    ELSE EndTick(t)

ReadyListed(t) ==
    /\ Yielded /\ ticks[t].pc = "ready"
    /\ SelectFrom(t, {b \in StageBeads(ticks[t].stage) : beads[b] = "open"})
    /\ UNCHANGED <<sessions, now, beads>>

(* The recheck of the selected bead before the claim. *)
Rechecked(t) ==
    LET b == ticks[t].bead IN
    /\ Yielded /\ ticks[t].pc = "show"
    /\ IF beads[b] = "open"
       THEN Move(t, [ticks[t] EXCEPT !.pc = "claim"])
       ELSE SelectFrom(t, ticks[t].remaining \ {b})
    /\ UNCHANGED <<sessions, now, beads>>

BugClaimNotAtomic(t, answered) ==
    /\ Yielded /\ ticks[t].pc = "claim"
    /\ answered \/ Failures
    /\ beads' = [beads EXCEPT ![ticks[t].bead] = "claimed"]
    /\ IF answered THEN Move(t, [ticks[t] EXCEPT !.pc = "note"]) ELSE EndTick(t)
    /\ UNCHANGED <<sessions, now>>

BugTimeoutIsSuccess(t, answered) ==
    LET b == ticks[t].bead IN
    /\ Yielded /\ ticks[t].pc = "claim"
    /\ answered \/ Failures
    /\ beads' = IF beads[b] = "open" THEN [beads EXCEPT ![b] = "claimed"] ELSE beads
    /\ IF beads[b] = "open" \/ ~answered
       THEN Move(t, [ticks[t] EXCEPT !.pc = "note"]) ELSE EndTick(t)
    /\ UNCHANGED <<sessions, now>>

(* bd update --claim takes an open bead and is refused otherwise; a call that *)
(* timed out may have taken it.  An error ends the dispatch.                  *)
ClaimTried(t, answered) ==
    LET b == ticks[t].bead IN
    /\ Yielded /\ ticks[t].pc = "claim"
    /\ answered \/ Failures
    /\ beads' = IF beads[b] = "open" THEN [beads EXCEPT ![b] = "claimed"] ELSE beads
    /\ IF beads[b] = "open" /\ answered
       THEN Move(t, [ticks[t] EXCEPT !.pc = "note"]) ELSE EndTick(t)
    /\ UNCHANGED <<sessions, now>>

BugOnlyPrimaryLaunches(t, ok) ==
    /\ Yielded /\ ticks[t].pc = "note"
    /\ ok \/ Failures
    /\ IF ok /\ ticks[t].stage = "primary"
       THEN Move(t, [ticks[t] EXCEPT !.pc = "brief"]) ELSE EndTick(t)
    /\ UNCHANGED <<sessions, now, beads>>

(* The claim note: a failure ends the dispatch, the bead stays claimed. *)
ClaimNoted(t, ok) ==
    /\ Yielded /\ ticks[t].pc = "note"
    /\ ok \/ Failures
    /\ IF ok THEN Move(t, [ticks[t] EXCEPT !.pc = "brief"]) ELSE EndTick(t)
    /\ UNCHANGED <<sessions, now, beads>>

(* After the brain's briefing, if there is one, the worker is launched; a     *)
(* launch may also be recorded as failed.                                     *)
LaunchForBead(t, s) ==
    LET w == sessions[s] IN
    /\ ticks[t].pc = "brief" /\ (BrainActions = {} \/ Yielded)
    /\ w.state = "unused" /\ w.bead = ticks[t].bead
    /\ \E k \in Kind :
          \/ Set(s, StartedSession(w, k, TRUE, now))
          \/ ~Reliable /\ \E treeMade \in BOOLEAN : Set(s, FailedLaunch(w, k, TRUE, treeMade))
    /\ EndTick(t)
    /\ UNCHANGED <<now, beads>>

(* executeBrainTool: the brain works on any worker it names while its answer   *)
(* is awaited; an error (a session that is gone) is only reported to it.      *)
ToolActs(s, tool) ==
    LET w == sessions[s] IN
    \/ tool = "list" /\ sessions' = RefreshDetachedAgents(sessions)
    \/ tool = "ask_operator" /\ sessions' = MarkWaitingOnOperator(sessions, s)
    \/ /\ tool = "nudge" /\ w.state \in Tracked /\ w.attempts < MaxAttempts
       /\ Set(s, Nudged(w, now))
    \/ tool = "stop" /\ w.state \in Tracked /\ Set(s, StoppedSession(w))
    \/ /\ tool = "launch" /\ w.state = "unused"
       /\ \E k \in Kind : \/ Set(s, PlannedSession(w, k, TRUE))
                          \/ Set(s, StartedSession(w, k, TRUE, now))

BrainCallsTool(t, s, tool) ==
    /\ BrainActions # {} /\ Yielded
    /\ ticks[t].pc \in {"deciding", "brief"}
    /\ ToolActs(s, tool)
    /\ byTool' = IF tool = "launch" THEN byTool \cup {s} ELSE byTool
    /\ UNCHANGED <<now, beads, ticks>>

(* Somebody else claims a bead. *)
ForeignClaim(b) ==
    /\ beads[b] = "open"
    /\ beads' = [beads EXCEPT ![b] = "taken"]
    /\ UNCHANGED <<sessions, now, ticks>>

(* The worker's own life, and its requests and exit events when the thread is *)
(* free.                                                                      *)
WorkerStep ==
    /\ \/ Tick
       \/ \E s \in Session, code \in {"ok", "bad"} : LauncherExits(s, code)
       \/ Yielded /\ \E s \in Session : OnExit(s) \/ Heartbeat(s, "none")
    /\ UNCHANGED <<beads, ticks>>

HeartbeatStep ==
    \/ WorkerStep
    \/ \E b \in Bead : ForeignClaim(b)
    \/ \E t \in Beat :
         \/ \E P \in SUBSET Session : StartTick(t, P)
         \/ \E s \in Session : ReleaseCapacity(t, s) \/ AskBrain(t, s) \/ LaunchForBead(t, s)
         \/ \E action \in BrainActions : BrainActs(t, action)
         \/ CountWorkers(t) \/ ReadyListed(t) \/ Rechecked(t)
         \/ ClaimTried(t, TRUE) \/ ClaimNoted(t, TRUE)

FailedCall(t) == BrainFails(t) \/ ClaimTried(t, FALSE) \/ ClaimNoted(t, FALSE)

(* A helper launched beside such a worker works without a claim like it. *)
HelpersOfThose ==
    {r \in Session : /\ sessions[r].state = "unused" /\ sessions'[r].state # "unused"
                     /\ \E t \in Beat : ticks[t].worker \in byTool /\ ticks'[t] # ticks[t]}

NudgedNow == {s \in Session : \/ sessions'[s].nudged # sessions[s].nudged
                              \/ sessions'[s].attempts > sessions[s].attempts}

HeartbeatNext ==
    /\ \/ HeartbeatStep /\ byTool' = byTool \cup HelpersOfThose /\ UNCHANGED dropped
       \/ \E t \in Beat :
            /\ FailedCall(t)
            /\ dropped' = dropped \cup {b \in Bead : Holds(t, b) \/ beads'[b] # beads[b]}
            /\ UNCHANGED byTool
       \/ /\ \E t \in Beat, s \in Session, tool \in BrainTools : BrainCallsTool(t, s, tool)
          /\ UNCHANGED dropped
    /\ renudged' = [t \in Beat |->
          (renudged[t] \cup NudgedNow) \cap ticks[t].release \cap ticks'[t].release]

HeartbeatSpec == HeartbeatInit /\ [][HeartbeatNext]_hvars
-----------------------------------------------------------------------------
(* "launching at most 10 active worker sessions" (README.md): the heartbeat's *)
(* launches keep within heartbeat.preemptiveWork.maxConcurrent.               *)
WithinCapacity ==
    Cardinality({s \in Session : ActiveWorker(sessions[s])}) <= MaxConcurrent

(* "Do not assign the same bead to multiple harnesses unless the loop         *)
(* declares a review or consensus pattern" (SPEC-CICLO-001).                  *)
OneWorkerPerBead ==
    \A r, s \in Session :
        sessions[r].state \in Active /\ sessions[s].state \in Active
        /\ sessions[r].bead = sessions[s].bead => r = s

(* A claim is left behind only when a call fails between the claim and the    *)
(* launch: every other bead the heartbeat claimed has or had a worker, or a   *)
(* tick is about to launch it, however ticks overlap and whatever the brain   *)
(* decides.  Nothing ever reopens the beads that were dropped.                *)
NoOrphanClaim ==
    \A b \in Bead : beads[b] = "claimed" =>
        \/ b \in dropped
        \/ \E s \in Session : sessions[s].bead = b /\ sessions[s].state # "unused"
        \/ \E t \in Beat : Holds(t, b)

(* A claim is exclusive: while a tick goes from the claim to the launch, no    *)
(* other tick holds the bead and no worker was launched for it, whatever the  *)
(* brain decides and however many ticks overlap.                              *)
ExclusiveClaim ==
    \A t \in Beat, b \in Bead : Holds(t, b) =>
        /\ \A u \in Beat \ {t} : ~Holds(u, b)
        /\ \A s \in Session \ byTool : sessions[s].bead = b => sessions[s].state = "unused"

(* The database, the ticks and the workers together keep the promise of       *)
(* WorkAssignment: whoever else claims work, whichever calls fail and however *)
(* ticks overlap, a bead is handed out once, and a worker is launched only by *)
(* the tick that claimed its bead (selectAndClaimBeadsWork,                   *)
(* dispatchReadyBeadsWork).  A launch the brain makes itself, through the     *)
(* tool, claims nothing and is left out.                                      *)
Claimants(b) == Cardinality({t \in Beat : Holds(t, b)})
WorkStarted(b) ==
    \E s \in Session \ byTool : sessions[s].bead = b /\ sessions[s].state # "unused"

Assignment == INSTANCE WorkAssignment WITH
    owner <- beads,
    holders <- [b \in Bead |-> Claimants(b)],
    started <- [b \in Bead |-> WorkStarted(b)]
ImplementsAssignment == Assignment!Spec

Releases(t, s) == s \in ticks[t].release /\ s \notin ticks'[t].release /\ ticks'[t].pc = "followups"

(* A worker stopped to free capacity had the whole grace period to react to   *)
(* the latest nudge (decideFollowUps judges a snapshot, and the brain is      *)
(* asked about other workers in between), unless it was nudged again since    *)
(* the snapshot: by the brain through its tool, or by an overlapping tick.    *)
(* The code does not look again and stops that worker at once.                *)
GraceHonoured ==
    [][\A t \in Beat, s \in Session : Releases(t, s) /\ s \notin renudged[t] =>
         sessions[s].attempts > 0 /\ sessions[s].nudged + Grace <= now]_hvars
================================================================================
