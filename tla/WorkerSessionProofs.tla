------------------------- MODULE WorkerSessionProofs -------------------------
(***************************************************************************)
(* Facts about the worker supervisor that hold for any number of sessions   *)
(* and beads, any kinds of worker and any outcome of the external commands.  *)
(***************************************************************************)
EXTENDS WorkerSessionSupervisor, TLAPS

State == Tracked \cup Untracked

LEMMA StateNames ==
  /\ {"planned", "running", "waiting_on_operator", "stalled", "completed", "failed",
       "stopped", "forgotten", "lost"} \subseteq State
  /\ Active \subseteq State
BY DEF State, Tracked, Untracked, Active, Terminal

(* The operators on one session return sessions. *)
LEMMA RefreshedIsSession ==
  ASSUME NEW w \in WorkerSession
  PROVE  RefreshDetachedAgent(w) \in WorkerSession
<1>1. w.state \in State /\ w.agentAt \in Time
  BY DEF WorkerSession, State
<1>2. StateFromClaudeStatus(w) \in State
  BY <1>1, StateNames DEF StateFromClaudeStatus
<1>3. [w EXCEPT !.state = StateFromClaudeStatus(w), !.beat = w.agentAt] \in WorkerSession
  BY <1>1, <1>2 DEF WorkerSession, State
<1>4. QED
  BY <1>3 DEF RefreshDetachedAgent

LEMMA LaunchedIsSession ==
  ASSUME NEW w \in WorkerSession, NEW k \in Kind, NEW iso \in BOOLEAN,
         NEW made \in BOOLEAN, NEW t \in Time
  PROVE  /\ PlannedSession(w, k, iso) \in WorkerSession
         /\ FailedLaunch(w, k, iso, made) \in WorkerSession
         /\ StartedSession(w, k, iso, t) \in WorkerSession
<1>1. k \in {"process", "claude", "herdr"}
  BY SupervisorAssumption
<1>2. PlannedSession(w, k, iso) \in WorkerSession
  BY <1>1, StateNames DEF PlannedSession, WorkerSession, State
<1>3. \A kind \in {"process", "claude", "herdr"}, state \in State,
         tree \in {"none", "clean", "dirty", "late"} :
        [w EXCEPT !.state = state, !.kind = kind, !.isolated = iso, !.tree = tree] \in WorkerSession
  BY DEF WorkerSession, State
<1>4. FailedLaunch(w, k, iso, made) \in WorkerSession
  BY <1>1, <1>3, StateNames DEF FailedLaunch
<1>6. \A u \in WorkerSession :
        [u EXCEPT !.handle = TRUE, !.beat = t, !.reported = t, !.proc = "up"] \in WorkerSession
  BY DEF WorkerSession
<1>7. StartedSession(w, k, iso, t) \in WorkerSession
  <2> DEFINE tree == IF iso THEN "clean" ELSE "none"
             u == [w EXCEPT !.state = "running", !.kind = k, !.isolated = iso, !.tree = tree]
  <2>1. u \in WorkerSession
    BY <1>1, <1>3, StateNames
  <2>2. [u EXCEPT !.handle = TRUE, !.beat = t, !.reported = t, !.proc = "up"] \in WorkerSession
    BY <1>6, <2>1, Zenon
  <2>3. StartedSession(w, k, iso, t)
          = [u EXCEPT !.handle = TRUE, !.beat = t, !.reported = t, !.proc = "up"]
    BY DEF StartedSession, WorkerSession
  <2>4. QED
    BY <2>2, <2>3
<1>5. QED
  BY <1>2, <1>4, <1>7

LEMMA ExitedIsSession ==
  ASSUME NEW w \in WorkerSession, NEW code
  PROVE  ExitHandled(w) \in WorkerSession /\ AgentExitRecorded(w, code) \in WorkerSession
<1>1. [w EXCEPT !.proc = "reaped"] \in WorkerSession
      /\ [w EXCEPT !.proc = "reaped", !.handle = FALSE] \in WorkerSession
  BY DEF WorkerSession
<1>2. \A state \in State :
        [w EXCEPT !.proc = "reaped", !.handle = FALSE, !.state = state] \in WorkerSession
  BY DEF WorkerSession, State
<1>3. ExitHandled(w) \in WorkerSession
  BY <1>1, <1>2, StateNames DEF ExitHandled
<1>4. AgentExitRecorded(w, code) \in WorkerSession
  BY StateNames DEF AgentExitRecorded, WorkerSession, State
<1>5. QED
  BY <1>3, <1>4

LEMMA ReleasedIsSession ==
  ASSUME NEW w \in WorkerSession, NEW ok, NEW close \in BOOLEAN
  PROVE  /\ ResourcesReleased(w, ok, close) \in WorkerSession
         /\ ResourcesReleased(w, ok, close).state = w.state
BY DEF ResourcesReleased, WorkerSession, AgentAlive

(* A session whose supervisor gives it up in one of two ways, or is about to. *)
LEMMA ClosedIsSession ==
  ASSUME NEW w \in WorkerSession, NEW state \in State
  PROVE  /\ [w EXCEPT !.state = state] \in WorkerSession
         /\ [w EXCEPT !.state = state, !.handle = FALSE] \in WorkerSession
BY DEF WorkerSession, State

LEMMA PendingIsSession ==
  ASSUME NEW w \in WorkerSession, NEW removal \in {"none", "stop", "keep", "forget"}
  PROVE  [w EXCEPT !.removal = removal] \in WorkerSession
BY DEF WorkerSession

LEMMA CleanedUpIsSession ==
  ASSUME NEW w \in WorkerSession, NEW ok
  PROVE  CleanedUp(w, ok) \in WorkerSession
<1> DEFINE r == ResourcesReleased(w, ok, FALSE)
<1>1. r \in WorkerSession
  BY ReleasedIsSession
<1> HIDE DEF r
<1>2. [r EXCEPT !.removal = IF PaneDealtWith(w, ok) THEN "forget" ELSE "keep"] \in WorkerSession
  BY <1>1, PendingIsSession
<1>3. [r EXCEPT !.state = "forgotten", !.handle = FALSE] \in WorkerSession
  BY <1>1, ClosedIsSession, StateNames
<1>4. QED
  BY <1>1, <1>2, <1>3 DEF CleanedUp, r

LEMMA StoppedIsSession ==
  ASSUME NEW w \in WorkerSession, NEW ok
  PROVE  Stopped(w, ok) \in WorkerSession
<1>1. w.state \in State
  BY DEF WorkerSession, State
<1>2. [ResourcesReleased(w, ok, TRUE) EXCEPT !.state = "stopped", !.handle = FALSE]
        \in WorkerSession
  BY ReleasedIsSession, ClosedIsSession, StateNames
<1>3. [w EXCEPT !.state = IF w.state = "planned" THEN "stopped" ELSE @] \in WorkerSession
  BY <1>1, ClosedIsSession, StateNames
<1>4. [ResourcesReleased(w, ok, TRUE) EXCEPT !.removal = "stop"] \in WorkerSession
  BY ReleasedIsSession, PendingIsSession
<1>5. QED
  BY <1>2, <1>3, <1>4 DEF Stopped

LEMMA RemovedIsSession ==
  ASSUME NEW w \in WorkerSession, NEW ok
  PROVE  /\ \A pending : TreeAfter(w, ok, pending) \in {"none", "clean", "dirty", "late"}
         /\ RemovalEnded(w, ok) \in WorkerSession
         /\ CollectionEnded(w, ok) \in WorkerSession
         /\ Lost(w) \in WorkerSession
<1>1. \A any, pending : TreeAfter(w, any, pending) \in {"none", "clean", "dirty", "late"}
  BY DEF TreeAfter, WorkerSession
<1>2. \A tree \in {"none", "clean", "dirty", "late"} :
        /\ [w EXCEPT !.tree = tree, !.removal = "none"] \in WorkerSession
        /\ [w EXCEPT !.tree = tree, !.collecting = FALSE] \in WorkerSession
        /\ [w EXCEPT !.state = "lost", !.handle = FALSE, !.removal = "none", !.tree = tree]
              \in WorkerSession
  BY StateNames DEF WorkerSession, State
<1>3. RemovalEnded(w, ok) \in WorkerSession
  BY <1>1, <1>2, ClosedIsSession, StateNames DEF RemovalEnded
<1>4. QED
  BY <1>1, <1>2, <1>3 DEF CollectionEnded, Lost

LEMMA ReportedIsSession ==
  ASSUME NEW w \in WorkerSession, NEW t \in Time,
         NEW requested \in {"none", "running", "waiting_on_operator"}
  PROVE  Reported(w, requested, t) \in WorkerSession
<1> DEFINE next == IF requested # "none" THEN requested
                   ELSE IF w.state = "stalled" THEN "running" ELSE w.state
<1>1. next \in State
  BY StateNames DEF WorkerSession, State
<1> HIDE DEF next
<1>2. [w EXCEPT !.beat = t, !.reported = t, !.state = next] \in WorkerSession
  BY <1>1 DEF WorkerSession, State
<1>3. QED
  BY <1>2 DEF Reported, next

LEMMA PromptedIsSession ==
  ASSUME NEW w \in WorkerSession, NEW t \in Time
  PROVE  /\ PromptSubmitted(w, t) \in WorkerSession
         /\ w.attempts < MaxAttempts => Nudged(w, t) \in WorkerSession
<1>1. [w EXCEPT !.beat = t, !.nudged = t] \in WorkerSession
  BY DEF WorkerSession
<1>2. w.attempts < MaxAttempts => w.attempts + 1 \in 0..MaxAttempts
  BY SupervisorAssumption DEF WorkerSession
<1>3. ASSUME w.attempts < MaxAttempts PROVE Nudged(w, t) \in WorkerSession
  BY <1>2, <1>3 DEF Nudged, WorkerSession
<1>4. QED
  BY <1>1, <1>3 DEF PromptSubmitted

LEMMA CollectedIsSession ==
  ASSUME NEW w \in WorkerSession, NEW ok
  PROVE  Collected(w, ok) \in WorkerSession
<1>1. [w EXCEPT !.agent = IF ok.close THEN "killed" ELSE @, !.collecting = TRUE]
        \in WorkerSession
  BY DEF WorkerSession
<1>2. QED
  BY <1>1 DEF Collected
(* The operators on the whole map return maps of sessions. *)
LEMMA MapsAreTyped ==
  ASSUME NEW S \in [Session -> WorkerSession], NEW t \in Time
  PROVE  /\ RefreshDetachedAgents(S) \in [Session -> WorkerSession]
         /\ RefreshStalled(S, t) \in [Session -> WorkerSession]
         /\ \A ok : CleanupCompleted(S, ok) \in [Session -> WorkerSession]
         /\ \A ok : CollectedAll(S, ok) \in [Session -> WorkerSession]
         /\ \A P : PromptsSubmitted(S, P, t) \in [Session -> WorkerSession]
         /\ \A match : MarkWaitingOnOperator(S, match) \in [Session -> WorkerSession]
         /\ \A match : ResumeAfterOperator(S, match, t) \in [Session -> WorkerSession]
<1> DEFINE R == RefreshDetachedAgents(S)
<1>1. R \in [Session -> WorkerSession]
  BY RefreshedIsSession DEF RefreshDetachedAgents
<1> HIDE DEF R
<1>2. RefreshStalled(S, t) \in [Session -> WorkerSession]
  BY ClosedIsSession, StateNames DEF RefreshStalled
<1>3. \A ok : CleanupCompleted(S, ok) \in [Session -> WorkerSession]
  BY RefreshedIsSession, CleanedUpIsSession DEF CleanupCompleted
<1>4. \A ok : CollectedAll(S, ok) \in [Session -> WorkerSession]
  BY CollectedIsSession DEF CollectedAll
<1>5. \A P : PromptsSubmitted(S, P, t) \in [Session -> WorkerSession]
  BY PromptedIsSession DEF PromptsSubmitted
<1>6. \A match : MarkWaitingOnOperator(S, match) \in [Session -> WorkerSession]
  BY <1>1, ClosedIsSession, StateNames DEF MarkWaitingOnOperator, R
<1>7. \A w \in WorkerSession :
        [w EXCEPT !.state = "running", !.beat = t, !.reported = t] \in WorkerSession
  BY StateNames DEF WorkerSession, State
<1>8. \A match : ResumeAfterOperator(S, match, t) \in [Session -> WorkerSession]
  BY <1>1, <1>7 DEF ResumeAfterOperator, R
<1>9. QED
  BY <1>1, <1>2, <1>3, <1>4, <1>5, <1>6, <1>8 DEF R

LEMMA WorldIsTyped ==
  ASSUME TypeOK, World
  PROVE  TypeOK'
<1>1. \A s \in Session : sessions[s] \in WorkerSession
  BY DEF TypeOK
<1>2. CASE Tick
  BY <1>2, SupervisorAssumption DEF Tick, TypeOK, Time
<1>3. ASSUME NEW s \in Session, AgentStarts(s) \/ EditsTree(s)
      PROVE  TypeOK'
  <2>1. \A tree \in {"clean", "dirty", "late"} : [sessions[s] EXCEPT !.tree = tree] \in WorkerSession
    BY <1>1 DEF WorkerSession
  <2>2. [sessions[s] EXCEPT !.agent = "listed", !.agentAt = now] \in WorkerSession
    BY <1>1 DEF WorkerSession, AgentAlive, TypeOK
  <2>3. QED
    BY <1>3, <2>1, <2>2 DEF AgentStarts, EditsTree, Set, TypeOK
<1>4. ASSUME NEW s \in Session, NEW code \in {"ok", "bad"}, LauncherExits(s, code)
      PROVE  TypeOK'
  <2>1. [sessions[s] EXCEPT !.proc = code] \in WorkerSession
    BY <1>1 DEF WorkerSession
  <2>2. QED
    BY <1>4, <2>1 DEF LauncherExits, Set, TypeOK
<1>5. ASSUME NEW s \in Session,
             NEW status \in {"working", "waiting", "idle", "done", "failed", "killed"},
             AgentActs(s, status) \/ AgentEnds(s, status)
      PROVE  TypeOK'
  <2>1. [sessions[s] EXCEPT !.agent = status, !.agentAt = now] \in WorkerSession
    BY <1>1 DEF WorkerSession, AgentAlive, TypeOK
  <2>2. QED
    BY <1>5, <2>1 DEF AgentActs, AgentEnds, Set, TypeOK
<1>6. QED
  BY <1>2, <1>3, <1>4, <1>5 DEF World

(* Every session record and the clock keep their types: no operation of the  *)
(* supervisor and no event around it makes a record it does not know.        *)
THEOREM TypeCorrect == Spec => []TypeOK
<1>1. Init => TypeOK
  <2>1. \A b \in Bead : Fresh(b) \in WorkerSession
    BY SupervisorAssumption DEF Fresh, WorkerSession, Untracked, Time
  <2>2. QED
    BY <2>1, SupervisorAssumption DEF Init, TypeOK, Time
<1>2. TypeOK /\ [Next]_svars => TypeOK'
  <2> SUFFICES ASSUME TypeOK, [Next]_svars PROVE TypeOK'
    OBVIOUS
  <2>1. sessions \in [Session -> WorkerSession] /\ now \in Time
    BY DEF TypeOK
  <2>2. CASE UNCHANGED svars
    BY <2>2 DEF TypeOK, svars
  <2>3. CASE World
    BY <2>3, WorldIsTyped
  <2>4. ASSUME NEW s \in Session, Launch(s)
        PROVE  TypeOK'
    BY <2>1, <2>4, LaunchedIsSession
    DEF Launch, LaunchDryRun, LaunchFails, LaunchStarts, Set, TypeOK
  <2>5. ASSUME NEW s \in Session, OnExit(s) \/ \E code \in {"ok", "bad"} : RecordAgentExit(s, code)
        PROVE  TypeOK'
    BY <2>1, <2>5, ExitedIsSession DEF OnExit, RecordAgentExit, Set, TypeOK
  <2>6. ASSUME NEW s \in Session, Nudge(s)
        PROVE  TypeOK'
    BY <2>1, <2>6, PromptedIsSession DEF Nudge, Set, TypeOK
  <2>7. ASSUME NEW s \in Session, NEW ok, Stop(s, ok)
        PROVE  TypeOK'
    BY <2>1, <2>7, StoppedIsSession DEF Stop, Set, TypeOK
  <2>15. ASSUME NEW s \in Session, NEW ok, FinishRemoval(s, ok) \/ FinishCollection(s, ok)
         PROVE  TypeOK'
    BY <2>1, <2>15, RemovedIsSession DEF FinishRemoval, FinishCollection, Set, TypeOK
  <2>8. ASSUME NEW s \in Session, NEW requested \in {"none", "running", "waiting_on_operator"},
               Heartbeat(s, requested)
        PROVE  TypeOK'
    BY <2>1, <2>8, ReportedIsSession DEF Heartbeat, Set, TypeOK
  <2>9. CASE RefreshDetached \/ StallSilent
    BY <2>1, <2>9, MapsAreTyped DEF RefreshDetached, StallSilent, TypeOK
  <2>10. CASE Restart
    BY <2>1, <2>10, RemovedIsSession DEF Restart, TypeOK
  <2>11. ASSUME NEW ok, Cleanup(ok) \/ CollectGarbage(ok) \/ CollectFromCli(ok)
         PROVE  TypeOK'
    BY <2>1, <2>11, MapsAreTyped, CollectedIsSession
    DEF Cleanup, CollectGarbage, CollectFromCli, TypeOK
  <2>12. ASSUME NEW P, RecoverPendingInputs(P)
         PROVE  TypeOK'
    BY <2>1, <2>12, MapsAreTyped DEF RecoverPendingInputs, TypeOK
  <2>13. ASSUME NEW match, AskOperator(match) \/ AnswerOperator(match)
         PROVE  TypeOK'
    BY <2>1, <2>13, MapsAreTyped DEF AskOperator, AnswerOperator, TypeOK
  <2>14. QED
    BY <2>2, <2>3, <2>4, <2>5, <2>6, <2>7, <2>8, <2>9, <2>10, <2>11, <2>12, <2>13, <2>15
    DEF Next
<1>3. QED
  BY <1>1, <1>2, PTL DEF Spec
-----------------------------------------------------------------------------
(* What the operators do to a session that already ended.                    *)
LEMMA EndedStaysEnded ==
  ASSUME NEW w \in WorkerSession, w.state \in Terminal
  PROVE  /\ RefreshDetachedAgent(w) = w
         /\ \A ok : CleanedUp(w, ok).state \notin Active
         /\ \A ok : Stopped(w, ok).state = w.state
         /\ ExitHandled(w).state = w.state
         /\ \A code : AgentExitRecorded(w, code).state \notin Active
         /\ \A t : Nudged(w, t).state = w.state /\ PromptSubmitted(w, t) = w
         /\ \A ok : Collected(w, ok).state = w.state /\ CollectionEnded(w, ok).state = w.state
         /\ \A ok : RemovalEnded(w, ok).state \notin Active
<1> USE DEF Active, Terminal
<1>1. RefreshDetachedAgent(w) = w
  BY DEF RefreshDetachedAgent
<1>2. \A ok : CleanedUp(w, ok).state \notin Active
  <2>1. \A r \in WorkerSession :
          /\ [r EXCEPT !.state = "forgotten", !.handle = FALSE].state = "forgotten"
          /\ \A removal : [r EXCEPT !.removal = removal].state = r.state
    BY DEF WorkerSession
  <2> SUFFICES ASSUME NEW ok PROVE CleanedUp(w, ok).state \notin Active
    OBVIOUS
  <2> DEFINE r == ResourcesReleased(w, ok, FALSE)
  <2>2. r \in WorkerSession /\ r.state = w.state
    BY ReleasedIsSession
  <2>3. \/ CleanedUp(w, ok) \in {w, r, [r EXCEPT !.state = "forgotten", !.handle = FALSE]}
        \/ \E removal : CleanedUp(w, ok) = [r EXCEPT !.removal = removal]
    BY DEF CleanedUp
  <2> HIDE DEF r
  <2>4. QED
    BY <2>1, <2>2, <2>3
<1>3. \A ok : Stopped(w, ok).state = w.state
  BY DEF Stopped, WorkerSession
<1>4. ExitHandled(w).state = w.state
  BY DEF ExitHandled, WorkerSession
<1>5. \A code : AgentExitRecorded(w, code).state \notin Active
  BY DEF AgentExitRecorded, WorkerSession
<1>6. \A t : Nudged(w, t).state = w.state /\ PromptSubmitted(w, t) = w
  BY DEF Nudged, PromptSubmitted, WorkerSession
<1>7. \A ok : Collected(w, ok).state = w.state /\ CollectionEnded(w, ok).state = w.state
  BY DEF Collected, CollectionEnded, WorkerSession
<1>8. \A ok : RemovalEnded(w, ok).state \notin Active
  <2> SUFFICES ASSUME NEW ok PROVE RemovalEnded(w, ok).state \notin Active
    OBVIOUS
  <2> DEFINE tree == TreeAfter(w, ok, w.collecting)
             u == [w EXCEPT !.tree = tree, !.removal = "none"]
  <2>1. /\ u.state = w.state
        /\ [u EXCEPT !.state = "stopped", !.handle = FALSE].state = "stopped"
        /\ [u EXCEPT !.state = "forgotten", !.handle = FALSE].state = "forgotten"
    BY DEF WorkerSession
  <2>2. RemovalEnded(w, ok) \in {u, [u EXCEPT !.state = "stopped", !.handle = FALSE],
                                  [u EXCEPT !.state = "forgotten", !.handle = FALSE]}
    BY DEF RemovalEnded
  <2> HIDE DEF u
  <2>3. QED
    BY <2>1, <2>2
<1>9. QED
  BY <1>1, <1>2, <1>3, <1>4, <1>5, <1>6, <1>7, <1>8

(* The world changes no session's state by itself. *)
LEMMA WorldKeepsStates ==
  ASSUME sessions \in [Session -> WorkerSession], World, NEW s \in Session
  PROVE  sessions'[s].state = sessions[s].state
<1>1. \A w \in WorkerSession : \A code, status, t :
        /\ [w EXCEPT !.proc = code].state = w.state
        /\ [w EXCEPT !.agent = status, !.agentAt = t].state = w.state
        /\ \A tree : [w EXCEPT !.tree = tree].state = w.state
  BY DEF WorkerSession
<1>2. CASE Tick
  BY <1>2 DEF Tick
<1>3. ASSUME NEW r \in Session, AgentStarts(r) \/ EditsTree(r)
      PROVE  sessions'[s].state = sessions[s].state
  <2>1. CASE AgentStarts(r)
    BY <1>1, <2>1 DEF AgentStarts, Set
  <2>2. CASE EditsTree(r)
    BY <1>1, <2>2 DEF EditsTree, Set
  <2>3. QED
    BY <1>3, <2>1, <2>2
<1>4. ASSUME NEW r \in Session, NEW code, LauncherExits(r, code)
      PROVE  sessions'[s].state = sessions[s].state
  BY <1>1, <1>4 DEF LauncherExits, Set
<1>5. ASSUME NEW r \in Session, NEW status, AgentActs(r, status) \/ AgentEnds(r, status)
      PROVE  sessions'[s].state = sessions[s].state
  <2>1. CASE AgentActs(r, status)
    BY <1>1, <2>1 DEF AgentActs, Set
  <2>2. CASE AgentEnds(r, status)
    BY <1>1, <2>2 DEF AgentEnds, Set
  <2>3. QED
    BY <1>5, <2>1, <2>2
<1>6. QED
  BY <1>2, <1>3, <1>4, <1>5 DEF World

(* The only operation that could revive an ended session is a late report of *)
(* its worker: heartbeat() takes a report whatever the session's state is.   *)
(* Where workers report only while they are active, an ended session stays   *)
(* ended under every interleaving.                                           *)
THEOREM EndedForGood ==
  ASSUME LateReports = FALSE
  PROVE  Spec => TerminalIsFinal
<1>1. ASSUME TypeOK, Next, NEW s \in Session, sessions[s].state \in Terminal
      PROVE  sessions'[s].state \notin Active
  <2> DEFINE w == sessions[s]
  <2>1. w \in WorkerSession /\ sessions \in [Session -> WorkerSession] /\ w.state \notin Active
    BY <1>1 DEF TypeOK, Active, Terminal
  <2>2. w.state \notin Untracked /\ w.state # "stalled" /\ w.state # "waiting_on_operator"
    BY <1>1 DEF Terminal, Untracked
  <2>3. CASE World
    BY <2>1, <2>3, WorldKeepsStates DEF TypeOK
  <2>4. ASSUME NEW r \in Session, Launch(r)
        PROVE  sessions'[s].state \notin Active
    BY <2>1, <2>2, <2>4 DEF Launch, LaunchDryRun, LaunchStarts, LaunchFails, Set, Untracked
  <2>5. ASSUME NEW r \in Session,
               OnExit(r) \/ Nudge(r)
               \/ \E ok : Stop(r, ok) \/ FinishRemoval(r, ok) \/ FinishCollection(r, ok)
               \/ \E code \in {"ok", "bad"} : RecordAgentExit(r, code)
        PROVE  sessions'[s].state \notin Active
    BY <1>1, <2>1, <2>5, EndedStaysEnded
    DEF OnExit, Nudge, Stop, FinishRemoval, FinishCollection, RecordAgentExit, Set
  <2>6. ASSUME NEW r \in Session, NEW requested, Heartbeat(r, requested)
        PROVE  sessions'[s].state \notin Active
    BY <2>1, <2>6 DEF Heartbeat, Set
  <2>7. CASE RefreshDetached \/ StallSilent
    BY <1>1, <2>1, <2>7, EndedStaysEnded
    DEF RefreshDetached, StallSilent, RefreshDetachedAgents, RefreshStalled, Active
  <2>8. CASE Restart
    <3>1. Lost(w).state = "lost"
      BY <2>1 DEF Lost, WorkerSession
    <3>2. QED
      BY <2>1, <2>8, <3>1 DEF Restart, Active
  <2>9. ASSUME NEW ok, Cleanup(ok) \/ CollectGarbage(ok) \/ CollectFromCli(ok)
        PROVE  sessions'[s].state \notin Active
    BY <1>1, <2>1, <2>9, EndedStaysEnded
    DEF Cleanup, CleanupCompleted, CollectGarbage, CollectedAll, CollectFromCli
  <2>10. ASSUME NEW P, RecoverPendingInputs(P)
         PROVE  sessions'[s].state \notin Active
    BY <1>1, <2>1, <2>10, EndedStaysEnded DEF RecoverPendingInputs, PromptsSubmitted
  <2>11. ASSUME NEW match, AskOperator(match) \/ AnswerOperator(match)
         PROVE  sessions'[s].state \notin Active
    BY <1>1, <2>1, <2>2, <2>11, EndedStaysEnded
    DEF AskOperator, AnswerOperator, MarkWaitingOnOperator, ResumeAfterOperator, RefreshDetachedAgents
  <2>12. QED
    BY <1>1, <2>3, <2>4, <2>5, <2>6, <2>7, <2>8, <2>9, <2>10, <2>11 DEF Next
<1>2. TypeOK /\ [Next]_svars
        => [\A s \in Session : sessions[s].state \in Terminal => sessions'[s].state \notin Active]_svars
  BY <1>1
<1>3. QED
  BY <1>2, TypeCorrect, PTL DEF Spec, TerminalIsFinal
-----------------------------------------------------------------------------
(* What leaves a session without a worktree or forgotten.                    *)
NoTreeLeft(w) == w.state = "forgotten" => w.tree = "none"

LEMMA CleanupLeavesNoTree ==
  ASSUME NEW w \in WorkerSession, NEW ok, NoTreeLeft(w)
  PROVE  NoTreeLeft(CleanedUp(w, ok))
<1> DEFINE r == ResourcesReleased(w, ok, FALSE)
<1>1. r.tree = w.tree /\ (WorktreeSafe(w, ok) /\ ~RemovalDue(w, ok) => w.tree = "none")
  BY DEF RemovalDue, ResourcesReleased, WorkerSession
<1>2. r \in WorkerSession /\ r.state = w.state
  BY ReleasedIsSession
<1> HIDE DEF r
<1>3. /\ [r EXCEPT !.state = "forgotten", !.handle = FALSE].tree = r.tree
      /\ \A removal : /\ [r EXCEPT !.removal = removal].state = r.state
                      /\ [r EXCEPT !.removal = removal].tree = r.tree
  BY <1>2 DEF WorkerSession
<1>4. QED
  BY <1>1, <1>2, <1>3 DEF CleanedUp, NoTreeLeft, r

LEMMA OthersLeaveNoTree ==
  ASSUME NEW w \in WorkerSession, NoTreeLeft(w)
  PROVE  /\ NoTreeLeft(RefreshDetachedAgent(w))
         /\ \A ok : NoTreeLeft(Stopped(w, ok)) /\ NoTreeLeft(Collected(w, ok))
         /\ \A ok : NoTreeLeft(RemovalEnded(w, ok)) /\ NoTreeLeft(CollectionEnded(w, ok))
         /\ NoTreeLeft(Lost(w))
         /\ NoTreeLeft(ExitHandled(w))
         /\ \A code : NoTreeLeft(AgentExitRecorded(w, code))
         /\ \A t : NoTreeLeft(Nudged(w, t)) /\ NoTreeLeft(PromptSubmitted(w, t))
         /\ \A t : \A requested \in {"none", "running", "waiting_on_operator"} :
               NoTreeLeft(Reported(w, requested, t))
<1>1. NoTreeLeft(RefreshDetachedAgent(w))
  BY DEF RefreshDetachedAgent, StateFromClaudeStatus, WorkerSession, NoTreeLeft
<1>2. \A ok : NoTreeLeft(Stopped(w, ok))
  <2>1. \A r \in WorkerSession : [r EXCEPT !.state = "stopped", !.handle = FALSE].state = "stopped"
    BY DEF WorkerSession
  <2> TAKE ok
  <2>2. NoTreeLeft([ResourcesReleased(w, ok, TRUE) EXCEPT !.state = "stopped", !.handle = FALSE])
    BY <2>1, ReleasedIsSession DEF NoTreeLeft
  <2>3. NoTreeLeft([w EXCEPT !.state = IF w.state = "planned" THEN "stopped" ELSE @])
    BY DEF NoTreeLeft, WorkerSession
  <2>4. w.state \in Active => NoTreeLeft([ResourcesReleased(w, ok, TRUE) EXCEPT !.removal = "stop"])
    <3>1. \A r \in WorkerSession : [r EXCEPT !.removal = "stop"].state = r.state
      BY DEF WorkerSession
    <3>2. QED
      BY <3>1, ReleasedIsSession DEF NoTreeLeft, Active
  <2>5. QED
    BY <2>2, <2>3, <2>4 DEF Stopped
<1>3. \A ok : NoTreeLeft(Collected(w, ok))
  BY DEF Collected, NoTreeLeft, WorkerSession
<1>4. NoTreeLeft(ExitHandled(w))
  BY DEF ExitHandled, NoTreeLeft, WorkerSession
<1>5. \A code : NoTreeLeft(AgentExitRecorded(w, code))
  BY DEF AgentExitRecorded, NoTreeLeft, WorkerSession
<1>6. \A t : NoTreeLeft(Nudged(w, t)) /\ NoTreeLeft(PromptSubmitted(w, t))
  BY DEF Nudged, PromptSubmitted, NoTreeLeft, WorkerSession
<1>7. \A t : \A requested \in {"none", "running", "waiting_on_operator"} :
        NoTreeLeft(Reported(w, requested, t))
  BY DEF Reported, NoTreeLeft, WorkerSession
<1>8. \A ok : NoTreeLeft(RemovalEnded(w, ok))
  BY DEF RemovalEnded, TreeGone, TreeAfter, NoTreeLeft, WorkerSession
<1>9. \A ok : NoTreeLeft(CollectionEnded(w, ok)) /\ NoTreeLeft(Lost(w))
  BY DEF CollectionEnded, Lost, TreeAfter, NoTreeLeft, WorkerSession
<1>10. QED
  BY <1>1, <1>2, <1>3, <1>4, <1>5, <1>6, <1>7, <1>8, <1>9

LEMMA WorldLeavesNoTree ==
  ASSUME sessions \in [Session -> WorkerSession], World,
         NEW s \in Session, NoTreeLeft(sessions[s])
  PROVE  NoTreeLeft(sessions'[s])
<1>1. \A w \in WorkerSession : \A code, status, t :
        /\ [w EXCEPT !.proc = code].tree = w.tree
        /\ [w EXCEPT !.agent = status, !.agentAt = t].tree = w.tree
  BY DEF WorkerSession
<1>2. sessions'[s].state = sessions[s].state
  BY WorldKeepsStates
<1>3. CASE Tick
  BY <1>3 DEF Tick
<1>4. ASSUME NEW r \in Session, AgentStarts(r)
      PROVE  NoTreeLeft(sessions'[s])
  BY <1>1, <1>2, <1>4 DEF AgentStarts, Set, NoTreeLeft
<1>5. ASSUME NEW r \in Session, EditsTree(r)
      PROVE  NoTreeLeft(sessions'[s])
  BY <1>2, <1>5 DEF EditsTree, Set, NoTreeLeft
<1>6. ASSUME NEW r \in Session, NEW code, LauncherExits(r, code)
      PROVE  NoTreeLeft(sessions'[s])
  BY <1>1, <1>2, <1>6 DEF LauncherExits, Set, NoTreeLeft
<1>7. ASSUME NEW r \in Session, NEW status, AgentActs(r, status)
      PROVE  NoTreeLeft(sessions'[s])
  BY <1>1, <1>2, <1>7 DEF AgentActs, Set, NoTreeLeft
<1>8. ASSUME NEW r \in Session, NEW status, AgentEnds(r, status)
      PROVE  NoTreeLeft(sessions'[s])
  BY <1>1, <1>2, <1>8 DEF AgentEnds, Set, NoTreeLeft
<1>9. QED
  BY <1>3, <1>4, <1>5, <1>6, <1>7, <1>8 DEF World

LEMMA MapsLeaveNoTree ==
  ASSUME NEW S \in [Session -> WorkerSession], NEW s \in Session, NoTreeLeft(S[s]), NEW t
  PROVE  /\ NoTreeLeft(RefreshDetachedAgents(S)[s])
         /\ NoTreeLeft(RefreshStalled(S, t)[s])
         /\ \A ok : NoTreeLeft(CleanupCompleted(S, ok)[s]) /\ NoTreeLeft(CollectedAll(S, ok)[s])
         /\ \A P : NoTreeLeft(PromptsSubmitted(S, P, t)[s])
         /\ \A match : /\ NoTreeLeft(MarkWaitingOnOperator(S, match)[s])
                       /\ NoTreeLeft(ResumeAfterOperator(S, match, t)[s])
<1> DEFINE w == S[s]
           R == RefreshDetachedAgents(S)
<1>1. w \in WorkerSession /\ RefreshDetachedAgent(w) \in WorkerSession
  BY RefreshedIsSession
<1>2. R[s] = RefreshDetachedAgent(w) /\ NoTreeLeft(R[s]) /\ DOMAIN R = Session
  BY OthersLeaveNoTree DEF RefreshDetachedAgents
<1> HIDE DEF R
<1>3. NoTreeLeft(RefreshStalled(S, t)[s])
  BY DEF RefreshStalled, NoTreeLeft, WorkerSession
<1>4. \A ok : NoTreeLeft(CleanupCompleted(S, ok)[s])
  BY <1>1, CleanupLeavesNoTree, OthersLeaveNoTree DEF CleanupCompleted
<1>5. \A ok : NoTreeLeft(CollectedAll(S, ok)[s])
  BY OthersLeaveNoTree DEF CollectedAll
<1>6. \A P : NoTreeLeft(PromptsSubmitted(S, P, t)[s])
  BY OthersLeaveNoTree DEF PromptsSubmitted
<1>7. \A v \in WorkerSession :
        /\ [v EXCEPT !.state = "waiting_on_operator"].state = "waiting_on_operator"
        /\ [v EXCEPT !.state = "running", !.beat = t, !.reported = t].state = "running"
  BY DEF WorkerSession
<1>8. \A match : NoTreeLeft(MarkWaitingOnOperator(S, match)[s])
  BY <1>1, <1>2, <1>7 DEF MarkWaitingOnOperator, R, NoTreeLeft
<1>9. \A match : NoTreeLeft(ResumeAfterOperator(S, match, t)[s])
  BY <1>1, <1>2, <1>7 DEF ResumeAfterOperator, R, NoTreeLeft
<1>10. QED
  BY <1>2, <1>3, <1>4, <1>5, <1>6, <1>8, <1>9 DEF R

(* A session is forgotten only after its worktree is gone, whichever of the   *)
(* herdr and git commands fail and however launches, stops, cleanups and      *)
(* garbage collections are ordered: the record was the only pointer to it.    *)
THEOREM NothingLeftBehind == Spec => []ForgottenLeavesNoTree
<1> DEFINE Inv == \A s \in Session : NoTreeLeft(sessions[s])
<1>1. Init => Inv
  <2>1. \A b \in Bead : NoTreeLeft(Fresh(b))
    BY DEF NoTreeLeft, Fresh
  <2>2. QED
    BY <2>1 DEF Init
<1>2. TypeOK /\ Inv /\ [Next]_svars => Inv'
  <2> SUFFICES ASSUME TypeOK, Inv, [Next]_svars, NEW s \in Session
               PROVE  NoTreeLeft(sessions'[s])
    OBVIOUS
  <2>1. /\ sessions \in [Session -> WorkerSession] /\ sessions[s] \in WorkerSession
        /\ NoTreeLeft(sessions[s])
    BY DEF TypeOK
  <2>2. CASE UNCHANGED svars
    BY <2>1, <2>2 DEF svars
  <2>3. CASE World
    BY <2>1, <2>3, WorldLeavesNoTree
  <2>4. ASSUME NEW r \in Session, Launch(r)
        PROVE  NoTreeLeft(sessions'[s])
    <3>1. \A w \in WorkerSession : \A k, iso, made, t :
            /\ PlannedSession(w, k, iso).state = "planned"
            /\ FailedLaunch(w, k, iso, made).state = "failed"
            /\ StartedSession(w, k, iso, t).state = "running"
      BY DEF PlannedSession, FailedLaunch, StartedSession, WorkerSession
    <3>2. QED
      BY <2>1, <2>4, <3>1 DEF Launch, LaunchDryRun, LaunchStarts, LaunchFails, Set, NoTreeLeft
  <2>5. ASSUME NEW r \in Session,
               OnExit(r) \/ Nudge(r)
               \/ \E ok : Stop(r, ok) \/ FinishRemoval(r, ok) \/ FinishCollection(r, ok)
               \/ \E code \in {"ok", "bad"} : RecordAgentExit(r, code)
        PROVE  NoTreeLeft(sessions'[s])
    BY <2>1, <2>5, OthersLeaveNoTree
    DEF OnExit, Nudge, Stop, FinishRemoval, FinishCollection, RecordAgentExit, Set
  <2>6. ASSUME NEW r \in Session, NEW requested \in {"none", "running", "waiting_on_operator"},
               Heartbeat(r, requested)
        PROVE  NoTreeLeft(sessions'[s])
    BY <2>1, <2>6, OthersLeaveNoTree DEF Heartbeat, Set
  <2>7. CASE RefreshDetached \/ StallSilent
    BY <2>1, <2>7, MapsLeaveNoTree DEF RefreshDetached, StallSilent
  <2>8. CASE Restart
    BY <2>1, <2>8, OthersLeaveNoTree DEF Restart
  <2>9. ASSUME NEW ok, Cleanup(ok) \/ CollectGarbage(ok) \/ CollectFromCli(ok)
        PROVE  NoTreeLeft(sessions'[s])
    BY <2>1, <2>9, MapsLeaveNoTree, OthersLeaveNoTree DEF Cleanup, CollectGarbage, CollectFromCli
  <2>10. ASSUME NEW P, RecoverPendingInputs(P)
         PROVE  NoTreeLeft(sessions'[s])
    BY <2>1, <2>10, MapsLeaveNoTree DEF RecoverPendingInputs
  <2>11. ASSUME NEW match, AskOperator(match) \/ AnswerOperator(match)
         PROVE  NoTreeLeft(sessions'[s])
    BY <2>1, <2>11, MapsLeaveNoTree DEF AskOperator, AnswerOperator
  <2>12. QED
    BY <2>2, <2>3, <2>4, <2>5, <2>6, <2>7, <2>8, <2>9, <2>10, <2>11 DEF Next
<1>3. Inv => ForgottenLeavesNoTree
  BY DEF ForgottenLeavesNoTree, NoTreeLeft
<1>4. QED
  BY <1>1, <1>2, <1>3, TypeCorrect, PTL DEF Spec
-----------------------------------------------------------------------------
(* What one step can do to one session, whatever happens to the others: the   *)
(* properties below are about single sessions, and are proved of these steps. *)
Ended == {"done", "failed", "killed"}

WorldStep(w, v, t) ==
    \/ /\ w.kind # "process" /\ w.proc = "up" /\ w.agent = "none"
       /\ v = [w EXCEPT !.agent = "listed", !.agentAt = t]
    \/ w.proc \in {"up", "term"} /\ \E code \in {"ok", "bad"} : v = [w EXCEPT !.proc = code]
    \/ /\ w.agent \in AgentAlive
       /\ \E status \in AgentAlive \cup Ended : v = [w EXCEPT !.agent = status, !.agentAt = t]
    \/ /\ w.tree # "none"
       /\ v = [w EXCEPT !.tree = IF w.tree # "clean" THEN "clean"
                                 ELSE IF Pending(w) THEN "late" ELSE "dirty"]

LaunchingStep(w, v, t) ==
    /\ w.state = "unused" /\ w.removal = "none"
    /\ \E k \in Kind, iso \in BOOLEAN :
          \/ v = PlannedSession(w, k, iso)
          \/ v = StartedSession(w, k, iso, t)
          \/ \E made \in BOOLEAN : v = FailedLaunch(w, k, iso, made)

EndingStep(w, v) ==
    /\ w.removal = "none"
    /\ \/ w.proc \in {"ok", "bad"} /\ v = ExitHandled(w)
       \/ \E ok : v = Stopped(w, ok)
       \/ /\ w.kind = "herdr" \/ (w.kind = "claude" /\ w.agent \in Ended)
          /\ w.state \in Tracked
          /\ \E code \in {"ok", "bad"} : v = AgentExitRecorded(w, code)
       \/ \E ok : v = CleanedUp(RefreshDetachedAgent(w), ok)

RemovingStep(w, v) ==
    \/ w.removal # "none" /\ \E ok : v = RemovalEnded(w, ok)
    \/ (w.state \in Untracked \/ ForeignGc) /\ \E ok : v = Collected(w, ok)
    \/ w.collecting /\ \E ok : v = CollectionEnded(w, ok)
    \/ w.state \in Tracked /\ v = Lost(w)

NotedStep(w, v, t) ==
    LET r == RefreshDetachedAgent(w) IN
    /\ w.removal = "none"
    /\ \/ v = r
       \/ w.state = "running" /\ w.beat + StaleAfter <= t /\ v = [w EXCEPT !.state = "stalled"]
       \/ w.state \in Tracked /\ v = Nudged(w, t)
       \/ v = PromptSubmitted(w, t)
       \/ /\ w.state \in (IF LateReports THEN Tracked ELSE Active)
          /\ \E requested \in {"none", "running", "waiting_on_operator"} :
                v = Reported(w, requested, t)
       \/ r.state \in Active /\ v = [r EXCEPT !.state = "waiting_on_operator"]
       \/ /\ r.state = "waiting_on_operator"
          /\ v = [r EXCEPT !.state = "running", !.beat = t, !.reported = t]

SessionStep(w, v, t) ==
    \/ v = w
    \/ WorldStep(w, v, t) \/ LaunchingStep(w, v, t) \/ EndingStep(w, v)
    \/ RemovingStep(w, v) \/ NotedStep(w, v, t)

LEMMA WorldStepsOneSession ==
  ASSUME TypeOK, World, NEW s \in Session
  PROVE  sessions'[s] = sessions[s] \/ WorldStep(sessions[s], sessions'[s], now)
<1> USE DEF TypeOK
<1>1. CASE Tick
  BY <1>1 DEF Tick
<1>2. ASSUME NEW r \in Session, AgentStarts(r)
      PROVE  sessions'[s] = sessions[s] \/ WorldStep(sessions[s], sessions'[s], now)
  BY <1>2 DEF AgentStarts, Set, WorldStep
<1>3. ASSUME NEW r \in Session, EditsTree(r)
      PROVE  sessions'[s] = sessions[s] \/ WorldStep(sessions[s], sessions'[s], now)
  BY <1>3 DEF EditsTree, Set, WorldStep
<1>4. ASSUME NEW r \in Session, NEW code \in {"ok", "bad"}, LauncherExits(r, code)
      PROVE  sessions'[s] = sessions[s] \/ WorldStep(sessions[s], sessions'[s], now)
  BY <1>4 DEF LauncherExits, Set, WorldStep
<1>5. ASSUME NEW r \in Session, NEW status \in {"working", "waiting", "idle"}, AgentActs(r, status)
      PROVE  sessions'[s] = sessions[s] \/ WorldStep(sessions[s], sessions'[s], now)
  BY <1>5 DEF AgentActs, Set, WorldStep, AgentAlive
<1>6. ASSUME NEW r \in Session, NEW status \in {"done", "failed", "killed"}, AgentEnds(r, status)
      PROVE  sessions'[s] = sessions[s] \/ WorldStep(sessions[s], sessions'[s], now)
  BY <1>6 DEF AgentEnds, Set, WorldStep, Ended
<1>7. QED
  BY <1>1, <1>2, <1>3, <1>4, <1>5, <1>6 DEF World

LEMMA EverySessionSteps ==
  ASSUME TypeOK, [Next]_svars, NEW s \in Session
  PROVE  SessionStep(sessions[s], sessions'[s], now)
<1> DEFINE w == sessions[s]
           v == sessions'[s]
<1>1. sessions \in [Session -> WorkerSession]
  BY DEF TypeOK
<1>19. ~Busy => w.removal = "none"
  BY DEF Busy
<1>2. CASE UNCHANGED svars
  BY <1>2 DEF svars, SessionStep
<1>3. CASE World
  BY <1>3, WorldStepsOneSession DEF SessionStep
<1>4. ASSUME NEW r \in Session, Launch(r)
      PROVE  SessionStep(w, v, now)
  <2>1. v = w \/ LaunchingStep(w, v, now)
    BY <1>1, <1>4, <1>19 DEF Launch, LaunchDryRun, LaunchFails, LaunchStarts, Set, LaunchingStep
  <2>2. QED
    BY <2>1 DEF SessionStep
<1>5. ASSUME NEW r \in Session, OnExit(r)
      PROVE  SessionStep(w, v, now)
  BY <1>1, <1>5, <1>19 DEF OnExit, Set, SessionStep, EndingStep
<1>6. ASSUME NEW r \in Session, Nudge(r)
      PROVE  SessionStep(w, v, now)
  BY <1>1, <1>6, <1>19 DEF Nudge, Set, SessionStep, NotedStep
<1>7. ASSUME NEW r \in Session, NEW ok, Stop(r, ok)
      PROVE  SessionStep(w, v, now)
  BY <1>1, <1>7, <1>19 DEF Stop, Set, SessionStep, EndingStep
<1>8. ASSUME NEW r \in Session, NEW requested \in {"none", "running", "waiting_on_operator"},
             Heartbeat(r, requested)
      PROVE  SessionStep(w, v, now)
  BY <1>1, <1>8, <1>19 DEF Heartbeat, Set, SessionStep, NotedStep
<1>9. ASSUME NEW r \in Session, NEW code \in {"ok", "bad"}, RecordAgentExit(r, code)
      PROVE  SessionStep(w, v, now)
  BY <1>1, <1>9, <1>19 DEF RecordAgentExit, Set, SessionStep, EndingStep, Ended
<1>10. CASE RefreshDetached
  BY <1>1, <1>10, <1>19 DEF RefreshDetached, RefreshDetachedAgents, SessionStep, NotedStep
<1>11. CASE StallSilent
  BY <1>1, <1>11, <1>19 DEF StallSilent, RefreshStalled, SessionStep, NotedStep
<1>12. CASE Restart
  BY <1>1, <1>12 DEF Restart, SessionStep, RemovingStep
<1>13. ASSUME NEW ok, Cleanup(ok)
       PROVE  SessionStep(w, v, now)
  BY <1>1, <1>13, <1>19 DEF Cleanup, CleanupCompleted, SessionStep, EndingStep
<1>14. ASSUME NEW ok, CollectGarbage(ok) \/ CollectFromCli(ok)
       PROVE  SessionStep(w, v, now)
  BY <1>1, <1>14 DEF CollectGarbage, CollectedAll, CollectFromCli, SessionStep, RemovingStep
<1>15. ASSUME NEW P, RecoverPendingInputs(P)
       PROVE  SessionStep(w, v, now)
  BY <1>1, <1>15, <1>19 DEF RecoverPendingInputs, PromptsSubmitted, SessionStep, NotedStep
<1>16. ASSUME NEW match, AskOperator(match)
       PROVE  SessionStep(w, v, now)
  BY <1>1, <1>16, <1>19 DEF AskOperator, MarkWaitingOnOperator, RefreshDetachedAgents, SessionStep, NotedStep
<1>17. ASSUME NEW match, AnswerOperator(match)
       PROVE  SessionStep(w, v, now)
  BY <1>1, <1>17, <1>19 DEF AnswerOperator, ResumeAfterOperator, RefreshDetachedAgents, SessionStep, NotedStep
<1>20. ASSUME NEW r \in Session, NEW ok, FinishRemoval(r, ok) \/ FinishCollection(r, ok)
       PROVE  SessionStep(w, v, now)
  BY <1>1, <1>20 DEF FinishRemoval, FinishCollection, Set, SessionStep, RemovingStep
<1>18. QED
  BY <1>2, <1>3, <1>4, <1>5, <1>6, <1>7, <1>8, <1>9, <1>10, <1>11, <1>12, <1>13, <1>14, <1>15,
     <1>16, <1>17, <1>20 DEF Next
-----------------------------------------------------------------------------
(* What is always known of one session at time t.                             *)

(* A session that was not launched has nothing in the world. *)
NothingStarted(w) ==
    /\ w.state \in {"unused", "planned"} => w.agent = "none" /\ w.proc = "none" /\ w.tree = "none"
    /\ w.state = "unused" => w.kind = "process"

(* A session that completed had its worker's end observed. *)
SeenToEnd(w) ==
    w.state \in {"completed", "forgotten"} =>
        /\ w.kind = "process" => w.proc \notin {"up", "term"}
        /\ w.kind = "claude" => w.agent \in Ended

(* The time the supervisor keeps of a session is not before its last report. *)
BeatIsNewer(w, t) == w.reported <= t /\ (w.kind # "claude" => w.reported <= w.beat)

(* A removal that is pending is one of an active session that is being stopped *)
(* or of a completed one, and its tree was clean when it began.                *)
Removing(w) ==
    /\ w.removal = "stop" => w.state \in Active
    /\ w.removal \in {"keep", "forget"} => w.state = "completed"
    /\ Pending(w) => w.tree # "dirty"
    /\ ForeignGc \/ ~w.collecting \/ w.state \in {"forgotten", "lost"}

Known(w, t) == NothingStarted(w) /\ SeenToEnd(w) /\ BeatIsNewer(w, t)

(* What the composite operators leave of the fields the facts are about. *)
LEMMA RefreshedFields ==
  ASSUME NEW w \in WorkerSession
  PROVE  LET r == RefreshDetachedAgent(w) IN
         /\ r.kind = w.kind /\ r.agent = w.agent /\ r.proc = w.proc /\ r.tree = w.tree
         /\ r.isolated = w.isolated /\ r.reported = w.reported
         /\ r.removal = w.removal /\ r.collecting = w.collecting
         /\ w.kind # "claude" \/ w.state \notin Tracked \ Terminal \/ w.agent = "none" => r = w
         /\ r = w \/ (r.state \in {w.state, "waiting_on_operator", "failed", "stopped",
                                   "completed", "running"}
                      /\ (r.state = "completed" => w.agent = "done"))
<1>1. RefreshDetachedAgent(w) = w
      \/ RefreshDetachedAgent(w) =
            [w EXCEPT !.state = StateFromClaudeStatus(w), !.beat = w.agentAt]
  BY DEF RefreshDetachedAgent
<1>2. StateFromClaudeStatus(w) \in {w.state, "waiting_on_operator", "failed", "stopped",
                                    "completed", "running"}
  BY DEF StateFromClaudeStatus
<1>3. w.state \notin Terminal /\ StateFromClaudeStatus(w) = "completed" => w.agent = "done"
  BY DEF StateFromClaudeStatus, Terminal
<1>4. RefreshDetachedAgent(w) # w => w.state \notin Terminal
  BY DEF RefreshDetachedAgent
<1>5. w.kind # "claude" \/ w.state \notin Tracked \ Terminal \/ w.agent = "none"
        => RefreshDetachedAgent(w) = w
  BY DEF RefreshDetachedAgent
<1>6. QED
  BY <1>1, <1>2, <1>3, <1>4, <1>5 DEF WorkerSession

LEMMA ReleasedFields ==
  ASSUME NEW w \in WorkerSession, NEW ok, NEW close \in BOOLEAN
  PROVE  LET r == ResourcesReleased(w, ok, close) IN
         /\ r.kind = w.kind /\ r.isolated = w.isolated
         /\ r.beat = w.beat /\ r.reported = w.reported
         /\ r.agent = w.agent \/ (w.kind = "herdr" /\ w.agent # "none")
         /\ r.proc = w.proc \/ (close /\ w.proc = "up")
         /\ r.tree = w.tree /\ r.removal = w.removal /\ r.collecting = w.collecting
BY DEF ResourcesReleased, WorkerSession, AgentAlive, ClosesPane

(* A removal is begun of a clean tree only. *)
Begins(w, v, removals) == v.removal = "none" \/ (v.removal \in removals /\ w.tree = "clean")

LEMMA CleanedFields ==
  ASSUME NEW w \in WorkerSession, NEW ok, w.removal = "none"
  PROVE  LET v == CleanedUp(w, ok) IN
         \/ v = w
         \/ /\ w.state = "completed" /\ v.state \in {"completed", "forgotten"}
            /\ v.kind = w.kind /\ v.isolated = w.isolated
            /\ v.beat = w.beat /\ v.reported = w.reported /\ v.proc = w.proc
            /\ v.agent = w.agent \/ w.kind = "herdr"
            /\ v.tree = w.tree /\ v.collecting = w.collecting
            /\ v.removal # "none" => v.state = "completed"
            /\ Begins(w, v, {"keep", "forget"})
<1> DEFINE r == ResourcesReleased(w, ok, FALSE)
           v == CleanedUp(w, ok)
<1>1. r \in WorkerSession /\ r.state = w.state
  BY ReleasedIsSession
<1>2. /\ r.kind = w.kind /\ r.isolated = w.isolated
      /\ r.beat = w.beat /\ r.reported = w.reported
      /\ r.agent = w.agent \/ w.kind = "herdr"
      /\ r.proc = w.proc
      /\ r.tree = w.tree /\ r.removal = "none" /\ r.collecting = w.collecting
  BY ReleasedFields
<1>3. \/ v = w
      \/ /\ w.state = "completed"
         /\ \/ v \in {r, [r EXCEPT !.state = "forgotten", !.handle = FALSE]}
            \/ RemovalDue(w, ok) /\ \E removal \in {"keep", "forget"} :
                                      v = [r EXCEPT !.removal = removal]
  BY DEF CleanedUp
<1>4. RemovalDue(w, ok) => w.tree = "clean"
  BY DEF RemovalDue, WorktreeSafe
<1> HIDE DEF r, v
<1>5. CASE v = r
  BY <1>1, <1>2, <1>3, <1>5 DEF WorkerSession, Begins, v
<1>6. CASE w.state = "completed" /\ v = [r EXCEPT !.state = "forgotten", !.handle = FALSE]
  BY <1>1, <1>2, <1>6 DEF WorkerSession, Begins, v
<1>7. ASSUME w.state = "completed", w.tree = "clean", NEW removal \in {"keep", "forget"},
             v = [r EXCEPT !.removal = removal]
      PROVE  /\ v.state = "completed" /\ v.removal = removal
             /\ v.kind = w.kind /\ v.isolated = w.isolated
             /\ v.beat = w.beat /\ v.reported = w.reported /\ v.proc = w.proc
             /\ v.agent = w.agent \/ w.kind = "herdr"
             /\ v.tree = w.tree /\ v.collecting = w.collecting
  BY <1>1, <1>2, <1>7 DEF WorkerSession
<1>8. QED
  BY <1>3, <1>4, <1>5, <1>6, <1>7 DEF Begins, v

LEMMA StoppedFields ==
  ASSUME NEW w \in WorkerSession, NEW ok, w.removal = "none"
  PROVE  LET v == Stopped(w, ok) IN
         \/ v = w
         \/ /\ w.state \in Active \cup {"planned"}
            /\ v.state = "stopped" \/ (v.removal = "stop" /\ v.state = w.state /\ v.state \in Active)
            /\ v.removal # "none" => v.state = w.state /\ v.state \in Active
            /\ v.kind = w.kind /\ v.isolated = w.isolated
            /\ v.beat = w.beat /\ v.reported = w.reported
            /\ v.tree = w.tree /\ v.collecting = w.collecting
            /\ Begins(w, v, {"stop"})
<1> DEFINE r == ResourcesReleased(w, ok, TRUE)
<1>1. r \in WorkerSession /\ r.state = w.state
  BY ReleasedIsSession
<1>2. /\ r.kind = w.kind /\ r.isolated = w.isolated
      /\ r.beat = w.beat /\ r.reported = w.reported
      /\ r.tree = w.tree /\ r.removal = "none" /\ r.collecting = w.collecting
  BY ReleasedFields
<1>3. CASE w.state \in Active /\ RemovalDue(w, ok)
  <2>1. Stopped(w, ok) = [r EXCEPT !.removal = "stop"] /\ w.tree = "clean"
    BY <1>3 DEF Stopped, RemovalDue, WorktreeSafe
  <2> HIDE DEF r
  <2>2. QED
    BY <1>1, <1>2, <1>3, <2>1 DEF WorkerSession, Begins
<1>4. CASE w.state \in Active /\ ~RemovalDue(w, ok)
  <2>1. Stopped(w, ok) = [r EXCEPT !.state = "stopped", !.handle = FALSE]
    BY <1>4 DEF Stopped
  <2> HIDE DEF r
  <2>2. QED
    BY <1>1, <1>2, <1>4, <2>1 DEF WorkerSession, Begins
<1>5. CASE w.state \notin Active
  BY <1>5 DEF Stopped, WorkerSession, Begins
<1>6. QED
  BY <1>3, <1>4, <1>5
-----------------------------------------------------------------------------
(* Every step keeps what is known. *)
LEMMA WorldKeepsKnown ==
  ASSUME NEW w \in WorkerSession, NEW v, NEW t \in Time, Known(w, t), WorldStep(w, v, t)
  PROVE  Known(v, t)
<1> DEFINE SameRecord == v.kind = w.kind /\ v.state = w.state /\ v.reported = w.reported /\ v.beat = w.beat
<1>1. /\ SameRecord
      /\ v.proc # w.proc => w.proc \in {"up", "term"} /\ v.proc \in {"ok", "bad"}
      /\ \/ v.agent = w.agent
         \/ w.agent \in AgentAlive
         \/ w.kind # "process" /\ w.proc = "up" /\ w.agent = "none"
      /\ v.tree = w.tree \/ w.tree # "none"
  <2>1. ASSUME NEW x, NEW y, v = [w EXCEPT !.agent = x, !.agentAt = y]
        PROVE  SameRecord /\ v.proc = w.proc /\ v.tree = w.tree
    BY <2>1 DEF WorkerSession
  <2>2. ASSUME NEW x, v = [w EXCEPT !.proc = x]
        PROVE  SameRecord /\ v.proc = x /\ v.agent = w.agent /\ v.tree = w.tree
    BY <2>2 DEF WorkerSession
  <2>3. ASSUME NEW x, v = [w EXCEPT !.tree = x]
        PROVE  SameRecord /\ v.proc = w.proc /\ v.agent = w.agent
    BY <2>3 DEF WorkerSession
  <2> HIDE DEF SameRecord
  <2>4. CASE /\ w.kind # "process" /\ w.proc = "up" /\ w.agent = "none"
             /\ v = [w EXCEPT !.agent = "listed", !.agentAt = t]
    BY <2>1, <2>4
  <2>5. CASE w.proc \in {"up", "term"} /\ \E code \in {"ok", "bad"} : v = [w EXCEPT !.proc = code]
    BY <2>2, <2>5
  <2>6. CASE /\ w.agent \in AgentAlive
             /\ \E status \in AgentAlive \cup Ended : v = [w EXCEPT !.agent = status, !.agentAt = t]
    BY <2>1, <2>6
  <2>7. CASE /\ w.tree # "none"
             /\ v = [w EXCEPT !.tree = IF w.tree # "clean" THEN "clean"
                                       ELSE IF Pending(w) THEN "late" ELSE "dirty"]
    BY <2>3, <2>7
  <2>8. QED
    BY <2>4, <2>5, <2>6, <2>7 DEF WorldStep
<1>2. NothingStarted(w) /\ SeenToEnd(w) /\ BeatIsNewer(w, t)
  BY DEF Known
<1>3. NothingStarted(v)
  BY <1>1, <1>2 DEF NothingStarted, AgentAlive
<1>4. SeenToEnd(v)
  BY <1>1, <1>2 DEF SeenToEnd, AgentAlive, Ended
<1>5. BeatIsNewer(v, t)
  BY <1>1, <1>2 DEF BeatIsNewer
<1>6. QED
  BY <1>3, <1>4, <1>5 DEF Known

LEMMA LaunchKeepsKnown ==
  ASSUME NEW w \in WorkerSession, NEW v, NEW t \in Time, Known(w, t), LaunchingStep(w, v, t)
  PROVE  Known(v, t)
<1> USE DEF Known, NothingStarted, SeenToEnd, BeatIsNewer, WorkerSession, Time
<1>1. PICK k \in Kind, iso \in BOOLEAN :
         \/ v = PlannedSession(w, k, iso)
         \/ v = StartedSession(w, k, iso, t)
         \/ \E made \in BOOLEAN : v = FailedLaunch(w, k, iso, made)
  BY DEF LaunchingStep
<1>2. w.state = "unused"
  BY DEF LaunchingStep
<1>3. CASE v = PlannedSession(w, k, iso)
  BY <1>2, <1>3, SupervisorAssumption DEF PlannedSession
<1>4. CASE v = StartedSession(w, k, iso, t)
  BY <1>2, <1>4, SupervisorAssumption DEF StartedSession
<1>5. ASSUME NEW made \in BOOLEAN, v = FailedLaunch(w, k, iso, made)
      PROVE  Known(v, t)
  BY <1>2, <1>5, SupervisorAssumption DEF FailedLaunch
<1>6. QED
  BY <1>1, <1>3, <1>4, <1>5

LEMMA RefreshKeepsKnown ==
  ASSUME NEW w \in WorkerSession, NEW t \in Time, Known(w, t)
  PROVE  Known(RefreshDetachedAgent(w), t)
<1> DEFINE r == RefreshDetachedAgent(w)
<1>1. CASE r = w
  BY <1>1
<1>2. CASE r # w
  <2>1. w.kind = "claude" /\ w.agent # "none" /\ w.state \in Tracked \ Terminal
    BY <1>2, RefreshedFields
  <2>2. /\ r.kind = w.kind /\ r.agent = w.agent /\ r.reported = w.reported
        /\ r.state \in {w.state, "waiting_on_operator", "failed", "stopped", "completed", "running"}
        /\ r.state = "completed" => w.agent = "done"
    BY <1>2, RefreshedFields
  <2>3. w.state \notin {"unused", "planned", "completed", "forgotten"}
    BY <2>1 DEF Known, NothingStarted, Tracked, Terminal, Active
  <2> HIDE DEF r
  <2>4. Known(r, t)
    BY <2>1, <2>2, <2>3 DEF Known, NothingStarted, SeenToEnd, BeatIsNewer, Ended
  <2>5. QED
    BY <2>4 DEF r
<1>3. QED
  BY <1>1, <1>2

LEMMA EndingKeepsKnown ==
  ASSUME NEW w \in WorkerSession, NEW v, NEW t \in Time, Known(w, t), EndingStep(w, v)
  PROVE  Known(v, t)
<1> USE DEF Known, NothingStarted, SeenToEnd, BeatIsNewer
<1>1. CASE w.proc \in {"ok", "bad"} /\ v = ExitHandled(w)
  BY <1>1 DEF ExitHandled, WorkerSession, Active
<1>0. w.removal = "none"
  BY DEF EndingStep
<1>2. ASSUME NEW ok, v = Stopped(w, ok) PROVE Known(v, t)
  BY <1>0, <1>2, StoppedFields DEF Active
<1>3. ASSUME NEW code, v = AgentExitRecorded(w, code), w.state \in Tracked,
             w.kind = "herdr" \/ (w.kind = "claude" /\ w.agent \in Ended)
      PROVE  Known(v, t)
  BY <1>3 DEF AgentExitRecorded, WorkerSession
<1>4. ASSUME NEW ok, v = CleanedUp(RefreshDetachedAgent(w), ok) PROVE Known(v, t)
  <2>1. /\ Known(RefreshDetachedAgent(w), t) /\ RefreshDetachedAgent(w) \in WorkerSession
        /\ RefreshDetachedAgent(w).removal = "none"
    BY <1>0, RefreshKeepsKnown, RefreshedIsSession, RefreshedFields
  <2>2. \A r \in WorkerSession :
          Known(r, t) /\ r.removal = "none" => Known(CleanedUp(r, ok), t)
    BY CleanedFields
  <2>3. QED
    BY <1>4, <2>1, <2>2
<1>5. QED
  BY <1>1, <1>2, <1>3, <1>4 DEF EndingStep

(* What the second half of an operation changes. *)
LEMMA RemovedFields ==
  ASSUME NEW w \in WorkerSession, NEW ok
  PROVE  LET v == RemovalEnded(w, ok) IN
         /\ v.kind = w.kind /\ v.isolated = w.isolated /\ v.agent = w.agent /\ v.proc = w.proc
         /\ v.beat = w.beat /\ v.reported = w.reported /\ v.collecting = w.collecting
         /\ v.removal = "none" /\ v.tree = TreeAfter(w, ok, w.collecting)
         /\ w.removal = "stop" => v.state = "stopped"
         /\ w.removal = "keep" => v.state = w.state
         /\ w.removal = "forget" => v.state \in {w.state, "forgotten"}
<1>1. w.removal = "stop" => RemovalEnded(w, ok) =
        [[w EXCEPT !.tree = TreeAfter(w, ok, w.collecting), !.removal = "none"]
            EXCEPT !.state = "stopped", !.handle = FALSE]
  BY DEF RemovalEnded
<1>2. w.removal # "stop" => RemovalEnded(w, ok) \in
        {[w EXCEPT !.tree = TreeAfter(w, ok, w.collecting), !.removal = "none"],
         [[w EXCEPT !.tree = TreeAfter(w, ok, w.collecting), !.removal = "none"]
            EXCEPT !.state = "forgotten", !.handle = FALSE]}
  BY DEF RemovalEnded
<1>3. w.removal = "keep" => RemovalEnded(w, ok) =
        [w EXCEPT !.tree = TreeAfter(w, ok, w.collecting), !.removal = "none"]
  BY DEF RemovalEnded
<1> DEFINE after == TreeAfter(w, ok, w.collecting)
<1> HIDE DEF after
<1>4. QED
  BY <1>1, <1>2, <1>3 DEF WorkerSession, after

LEMMA RemovingKeepsKnown ==
  ASSUME NEW w \in WorkerSession, NEW v, NEW t \in Time, Known(w, t), Removing(w),
         RemovingStep(w, v)
  PROVE  Known(v, t)
<1>1. ASSUME NEW ok, v = RemovalEnded(w, ok), w.removal # "none" PROVE Known(v, t)
  <2>1. w.removal \in {"stop", "keep", "forget"}
    BY <1>1 DEF WorkerSession
  <2>2. w.state \in Active \/ w.state = "completed"
    BY <2>1 DEF Removing
  <2>3. v.state \in {"stopped"} \/ (w.state = "completed" /\ v.state \in {"completed", "forgotten"})
    BY <1>1, <2>1, RemovedFields DEF Removing
  <2>4. /\ v.kind = w.kind /\ v.agent = w.agent /\ v.proc = w.proc
        /\ v.beat = w.beat /\ v.reported = w.reported
    BY <1>1, RemovedFields
  <2>5. QED
    BY <2>3, <2>4 DEF Known, NothingStarted, SeenToEnd, BeatIsNewer
<1>2. ASSUME NEW ok, v = Collected(w, ok) PROVE Known(v, t)
  BY <1>2 DEF Collected, WorkerSession, Known, NothingStarted, SeenToEnd, BeatIsNewer
<1>3. ASSUME NEW ok, v = CollectionEnded(w, ok) PROVE Known(v, t)
  <2>1. w.tree = "none" => TreeAfter(w, ok, w.removal # "none") = "none"
    BY DEF TreeAfter
  <2>2. QED
    BY <1>3, <2>1
    DEF CollectionEnded, WorkerSession, Known, NothingStarted, SeenToEnd, BeatIsNewer
<1>4. CASE v = Lost(w)
  BY <1>4 DEF Lost, WorkerSession, Known, NothingStarted, SeenToEnd, BeatIsNewer
<1>5. QED
  BY <1>1, <1>2, <1>3, <1>4 DEF RemovingStep

LEMMA NotedKeepsKnown ==
  ASSUME NEW w \in WorkerSession, NEW v, NEW t \in Time, Known(w, t), NotedStep(w, v, t)
  PROVE  Known(v, t)
<1> DEFINE r == RefreshDetachedAgent(w)
<1>1. r \in WorkerSession /\ Known(r, t)
  BY RefreshKeepsKnown, RefreshedIsSession
<1> HIDE DEF r
<1> USE SupervisorAssumption DEF Known, NothingStarted, SeenToEnd, BeatIsNewer, WorkerSession, Time
<1>2. CASE v = r
  BY <1>1, <1>2
<1>3. CASE w.state = "running" /\ v = [w EXCEPT !.state = "stalled"]
  BY <1>3
<1>4. CASE v = Nudged(w, t)
  BY <1>4 DEF Nudged
<1>5. CASE v = PromptSubmitted(w, t)
  BY <1>5 DEF PromptSubmitted
<1>6. ASSUME NEW requested \in {"none", "running", "waiting_on_operator"},
             v = Reported(w, requested, t)
      PROVE  Known(v, t)
  BY <1>6 DEF Reported
<1>7. CASE r.state \in Active /\ v = [r EXCEPT !.state = "waiting_on_operator"]
  BY <1>1, <1>7
<1>8. CASE v = [r EXCEPT !.state = "running", !.beat = t, !.reported = t]
  BY <1>1, <1>8
<1>9. QED
  BY <1>2, <1>3, <1>4, <1>5, <1>6, <1>7, <1>8 DEF NotedStep, r

LEMMA StepKeepsRemoving ==
  ASSUME NEW w \in WorkerSession, NEW v, NEW t \in Time, Known(w, t), Removing(w),
         SessionStep(w, v, t)
  PROVE  Removing(v)
<1> DEFINE r == RefreshDetachedAgent(w)
<1>1. /\ r \in WorkerSession
      /\ r.removal = w.removal /\ r.collecting = w.collecting /\ r.tree = w.tree
      /\ r = w \/ w.state \in Tracked \ Terminal
  BY RefreshedIsSession, RefreshedFields DEF RefreshDetachedAgent
<1>2. w.removal = "none" => Removing(r)
  <2>1. r = w \/ w.state \notin {"forgotten", "lost"}
    BY <1>1 DEF Tracked, Terminal, Active
  <2> HIDE DEF r
  <2>2. QED
    BY <1>1, <2>1 DEF Removing, Pending
<1> HIDE DEF r
<1>3. CASE WorldStep(w, v, t)
  BY <1>3 DEF WorldStep, WorkerSession, Removing, Pending
<1>4. CASE LaunchingStep(w, v, t)
  <2>1. w.state = "unused" /\ w.removal = "none" /\ (ForeignGc \/ ~w.collecting)
    BY <1>4 DEF LaunchingStep, Removing
  <2>2. /\ v.removal = "none" /\ v.collecting = w.collecting
        /\ v.tree \in {"none", "clean"} \/ v.tree = w.tree
    BY <1>4, <2>1 DEF LaunchingStep, PlannedSession, FailedLaunch, StartedSession, WorkerSession
  <2>3. w.tree = "none"
    BY <2>1 DEF Known, NothingStarted
  <2>4. QED
    BY <2>1, <2>2, <2>3 DEF Removing, Pending
<1>5. CASE EndingStep(w, v)
  <2>0. w.removal = "none"
    BY <1>5 DEF EndingStep
  <2>1. ASSUME NEW u \in WorkerSession, NEW x, u.removal = "none", Removing(u),
               x.removal = "none", x.collecting = u.collecting, x.tree = u.tree,
               u.state \notin {"forgotten", "lost"} \/ x.state = u.state
        PROVE  Removing(x)
    BY <2>1 DEF Removing, Pending
  <2>2. CASE v = ExitHandled(w)
    <3>1. /\ v.removal = w.removal /\ v.collecting = w.collecting /\ v.tree = w.tree
          /\ w.state \notin Active => v.state = w.state
      BY <2>2 DEF ExitHandled, WorkerSession
    <3>2. QED
      BY <2>0, <2>1, <3>1 DEF Active
  <2>3. ASSUME NEW ok, v = Stopped(w, ok) PROVE Removing(v)
    BY <2>0, <2>3, StoppedFields DEF Removing, Pending, Begins, Active
  <2>4. ASSUME NEW code, v = AgentExitRecorded(w, code), w.state \in Tracked PROVE Removing(v)
    <3>1. v.removal = w.removal /\ v.collecting = w.collecting /\ v.tree = w.tree
      BY <2>4 DEF AgentExitRecorded, WorkerSession
    <3>2. w.state \notin {"forgotten", "lost"}
      BY <2>4 DEF Tracked, Active, Terminal
    <3>3. QED
      BY <2>0, <2>1, <3>1, <3>2
  <2>5. ASSUME NEW ok, v = CleanedUp(r, ok) PROVE Removing(v)
    BY <1>1, <1>2, <2>0, <2>5, CleanedFields DEF Removing, Pending, Begins
  <2>6. QED
    BY <1>5, <2>2, <2>3, <2>4, <2>5 DEF EndingStep, r
<1>6. CASE RemovingStep(w, v)
  <2>1. ASSUME NEW ok, v = RemovalEnded(w, ok), w.removal # "none" PROVE Removing(v)
    <3>1. w.removal \in {"stop", "keep", "forget"} /\ w.state \notin {"forgotten", "lost"}
      BY <2>1 DEF WorkerSession, Removing, Active
    <3>2. w.tree # "dirty"
      BY <2>1 DEF Removing, Pending
    <3>3. w.collecting => TreeAfter(w, ok, w.collecting) # "dirty"
      BY <3>2 DEF TreeAfter
    <3>4. QED
      BY <2>1, <3>1, <3>3, RemovedFields DEF Removing, Pending
  <2>2. ASSUME NEW ok, v = Collected(w, ok), w.state \in Untracked \/ ForeignGc
        PROVE  Removing(v)
    <3>1. w.state = "unused" => v = w
      BY <2>2 DEF Collected, Known, NothingStarted
    <3>2. \/ v = w
          \/ /\ w.tree = "clean" /\ v.tree = w.tree /\ v.state = w.state /\ v.removal = w.removal
      BY <2>2 DEF Collected, WorkerSession
    <3>3. QED
      BY <2>2, <3>1, <3>2 DEF Removing, Pending, Untracked
  <2>3. ASSUME NEW ok, v = CollectionEnded(w, ok), w.collecting PROVE Removing(v)
    <3>1. w.tree # "dirty"
      BY <2>3 DEF Removing, Pending
    <3>2. w.removal # "none" => TreeAfter(w, ok, w.removal # "none") # "dirty"
      BY <3>1 DEF TreeAfter
    <3>3. /\ v.state = w.state /\ v.removal = w.removal /\ v.collecting = FALSE
          /\ v.tree = TreeAfter(w, ok, w.removal # "none")
      BY <2>3 DEF CollectionEnded, WorkerSession
    <3>4. QED
      BY <3>2, <3>3 DEF Removing, Pending
  <2>4. CASE v = Lost(w)
    <3>1. w.collecting => TreeAfter(w, [remove |-> FALSE], w.collecting) # "dirty"
      BY DEF TreeAfter, Removing, Pending
    <3>2. /\ v.state = "lost" /\ v.removal = "none" /\ v.collecting = w.collecting
          /\ v.tree = TreeAfter(w, [remove |-> FALSE], w.collecting)
      BY <2>4 DEF Lost, WorkerSession
    <3>3. QED
      BY <3>1, <3>2 DEF Removing, Pending
  <2>5. QED
    BY <1>6, <2>1, <2>2, <2>3, <2>4 DEF RemovingStep
<1>7. CASE NotedStep(w, v, t)
  <2>0. w.removal = "none"
    BY <1>7 DEF NotedStep
  <2>1. ASSUME NEW u \in WorkerSession, u.removal = "none", Removing(u), NEW x,
               x.removal = u.removal, x.collecting = u.collecting, x.tree = u.tree,
               x.state = u.state \/ u.state \in Tracked
        PROVE  Removing(x)
    BY <2>1 DEF Removing, Pending, Tracked, Terminal, Active
  <2>2. /\ Removing(Nudged(w, t)) /\ Removing(PromptSubmitted(w, t))
        /\ w.state = "running" => Removing([w EXCEPT !.state = "stalled"])
    BY <2>0 DEF Nudged, PromptSubmitted, WorkerSession, Removing, Pending
  <2>3. w.state \in Tracked => \A requested : Removing(Reported(w, requested, t))
    <3> SUFFICES ASSUME w.state \in Tracked, NEW requested
                 PROVE  Removing(Reported(w, requested, t))
      OBVIOUS
    <3> DEFINE x == Reported(w, requested, t)
    <3>1. x.removal = w.removal /\ x.collecting = w.collecting /\ x.tree = w.tree
      BY DEF Reported, WorkerSession
    <3> HIDE DEF x
    <3>2. QED
      BY <2>0, <2>1, <3>1 DEF x
  <2>4. /\ r.state \in Active => Removing([r EXCEPT !.state = "waiting_on_operator"])
        /\ r.state = "waiting_on_operator" =>
              Removing([r EXCEPT !.state = "running", !.beat = t, !.reported = t])
    BY <1>1, <1>2, <2>0 DEF WorkerSession, Removing, Pending, Active
  <2>5. Active \subseteq Tracked
    BY DEF Tracked
  <2>6. QED
    BY <1>2, <1>7, <2>0, <2>2, <2>3, <2>4, <2>5 DEF NotedStep, r
<1>8. QED
  BY <1>3, <1>4, <1>5, <1>6, <1>7 DEF SessionStep
-----------------------------------------------------------------------------
KnownInv == \A s \in Session : Known(sessions[s], now) /\ Removing(sessions[s])

LEMMA TimeOnlyPasses ==
  ASSUME TypeOK, [Next]_svars
  PROVE  now <= now'
<1>1. now \in Nat
  BY DEF TypeOK, Time
<1>2. CASE World
  <2>1. Tick \/ now' = now
    BY <1>2, Zenon DEF World, AgentStarts, EditsTree, LauncherExits, AgentActs, AgentEnds
  <2>2. QED
    BY <1>1, <2>1 DEF Tick
<1>3. ASSUME NEW s \in Session, Launch(s)
      PROVE  now' = now
  BY <1>3 DEF Launch, LaunchDryRun, LaunchStarts, LaunchFails
<1>4. CASE ~World /\ ~(\E s \in Session : Launch(s))
  <2>1. now' = now
    BY <1>4 DEF Next, svars, OnExit, Nudge, Stop, Heartbeat, RecordAgentExit, RefreshDetached,
        StallSilent, Restart, Cleanup, FinishRemoval, FinishCollection, CollectGarbage, CollectFromCli, RecoverPendingInputs,
        AskOperator, AnswerOperator
  <2>2. QED
    BY <1>1, <2>1
<1>5. QED
  BY <1>1, <1>2, <1>3, <1>4

LEMMA KnownAlways == Spec => [](TypeOK /\ KnownInv)
<1>1. Init => KnownInv
  BY DEF Init, Fresh, KnownInv, Known, NothingStarted, SeenToEnd, BeatIsNewer, Removing, Pending
<1>2. TypeOK /\ TypeOK' /\ KnownInv /\ [Next]_svars => KnownInv'
  <2> SUFFICES ASSUME TypeOK, TypeOK', KnownInv, [Next]_svars, NEW s \in Session
               PROVE  Known(sessions'[s], now') /\ Removing(sessions'[s])
    BY DEF KnownInv
  <2> DEFINE w == sessions[s]
             v == sessions'[s]
  <2>1. /\ w \in WorkerSession /\ v \in WorkerSession /\ Known(w, now) /\ Removing(w)
        /\ now \in Time /\ now' \in Time
    BY DEF TypeOK, KnownInv
  <2>2. SessionStep(w, v, now)
    BY EverySessionSteps
  <2> HIDE DEF w, v
  <2>3. Known(v, now)
    BY <2>1, <2>2, WorldKeepsKnown, LaunchKeepsKnown, EndingKeepsKnown, RemovingKeepsKnown,
       NotedKeepsKnown
    DEF SessionStep
  <2>8. Removing(v)
    BY <2>1, <2>2, StepKeepsRemoving
  <2>4. now <= now'
    BY TimeOnlyPasses
  <2>5. v.reported \in Nat /\ now \in Nat /\ now' \in Nat
    BY <2>1 DEF WorkerSession, Time
  <2>6. Known(v, now')
    BY <2>3, <2>4, <2>5 DEF Known, BeatIsNewer
  <2>7. QED
    BY <2>6, <2>8 DEF v
<1>3. QED
  BY <1>1, <1>2, TypeCorrect, PTL DEF Spec

(* A session is forgotten only when its worker was seen to end: the exit of a  *)
(* process handled, a detached agent ended in the registry.  This is of any    *)
(* number of sessions, late reports and foreign collections included.          *)
THEOREM ForgottenWorkersAreDown == Spec => []ForgottenIsDown
<1>1. TypeOK /\ KnownInv => ForgottenIsDown
  <2> SUFFICES ASSUME TypeOK, KnownInv, NEW s \in Session,
                      sessions[s].state = "forgotten", sessions[s].kind # "herdr"
               PROVE  ~Working(sessions[s])
    BY DEF ForgottenIsDown
  <2>1. sessions[s] \in WorkerSession /\ SeenToEnd(sessions[s])
    BY DEF TypeOK, KnownInv, Known
  <2>2. QED
    BY <2>1 DEF SeenToEnd, Working, WorkerSession, AgentAlive, Ended
<1>2. QED
  BY <1>1, KnownAlways, PTL

(* A worker other than a Claude agent is marked as stalled only when nothing    *)
(* was heard of it for StaleAfter: what the supervisor keeps as its last sign  *)
(* of life is never older than its last report.                               *)
THEOREM SilenceIsReal == Spec => OnlySilentWorkersStall
<1>1. ASSUME TypeOK, KnownInv, [Next]_svars, NEW s \in Session,
             sessions[s].kind # "claude", sessions[s].state # "stalled",
             sessions'[s].state = "stalled"
      PROVE  sessions[s].reported + StaleAfter <= now
  <2> DEFINE w == sessions[s]
             v == sessions'[s]
  <2>1. w \in WorkerSession /\ Known(w, now) /\ now \in Time
    BY <1>1 DEF TypeOK, KnownInv
  <2>2. SessionStep(w, v, now)
    BY <1>1, EverySessionSteps
  <2>3. w.kind # "claude" /\ w.state # "stalled" /\ v.state = "stalled"
    BY <1>1
  <2> HIDE DEF w, v
  <2>4. RefreshDetachedAgent(w) = w
    BY <2>3 DEF RefreshDetachedAgent
  <2>5. ~WorldStep(w, v, now) /\ v # w
    BY <2>1, <2>3 DEF WorldStep, WorkerSession
  <2>6. ~LaunchingStep(w, v, now)
    BY <2>1, <2>3 DEF LaunchingStep, PlannedSession, StartedSession, FailedLaunch, WorkerSession
  <2>7. ~EndingStep(w, v)
    <3> SUFFICES ASSUME w.removal = "none" PROVE ~EndingStep(w, v)
      BY DEF EndingStep
    <3>1. \A ok : Stopped(w, ok).state # "stalled"
      BY <2>1, <2>3, StoppedFields
    <3>2. \A ok : CleanedUp(w, ok).state # "stalled"
      BY <2>1, <2>3, CleanedFields
    <3>3. ExitHandled(w).state # "stalled"
      BY <2>1, <2>3 DEF ExitHandled, WorkerSession
    <3>4. \A code : AgentExitRecorded(w, code).state # "stalled"
      BY <2>1 DEF AgentExitRecorded, WorkerSession
    <3>5. QED
      BY <2>3, <2>4, <3>1, <3>2, <3>3, <3>4 DEF EndingStep
  <2>12. ~RemovingStep(w, v)
    <3>1. \A ok : w.removal # "none" => RemovalEnded(w, ok).state # "stalled"
      BY <2>1, <2>3, RemovedFields DEF WorkerSession
    <3>2. \A ok : Collected(w, ok).state # "stalled" /\ CollectionEnded(w, ok).state # "stalled"
      BY <2>1, <2>3 DEF Collected, CollectionEnded, WorkerSession
    <3>3. Lost(w).state # "stalled"
      BY <2>1 DEF Lost, WorkerSession
    <3>4. QED
      BY <2>3, <3>1, <3>2, <3>3 DEF RemovingStep
  <2>8. w.state = "running" /\ w.beat + StaleAfter <= now
    <3>1. Nudged(w, now).state # "stalled" /\ PromptSubmitted(w, now).state # "stalled"
      BY <2>1, <2>3 DEF Nudged, PromptSubmitted, WorkerSession
    <3>2. \A requested \in {"none", "running", "waiting_on_operator"} :
            Reported(w, requested, now).state # "stalled"
      BY <2>1, <2>3 DEF Reported, WorkerSession
    <3>3. /\ [w EXCEPT !.state = "waiting_on_operator"].state # "stalled"
          /\ [w EXCEPT !.state = "running", !.beat = now, !.reported = now].state # "stalled"
      BY <2>1 DEF WorkerSession
    <3>4. NotedStep(w, v, now)
      BY <2>2, <2>5, <2>6, <2>7, <2>12 DEF SessionStep
    <3>5. QED
      BY <2>3, <2>4, <3>1, <3>2, <3>3, <3>4 DEF NotedStep
  <2>9. w.reported <= w.beat
    BY <2>1, <2>3 DEF Known, BeatIsNewer
  <2>10. w.reported + StaleAfter <= now
    BY <2>1, <2>8, <2>9, SupervisorAssumption DEF WorkerSession, Time
  <2>11. QED
    BY <2>10 DEF w
<1>2. TypeOK /\ KnownInv /\ [Next]_svars =>
        [\A s \in Session :
           sessions[s].kind # "claude" /\ sessions[s].state # "stalled"
           /\ sessions'[s].state = "stalled"
             => sessions[s].reported + StaleAfter <= now]_svars
  BY <1>1
<1>3. QED
  BY <1>2, KnownAlways, PTL DEF Spec, OnlySilentWorkersStall
-----------------------------------------------------------------------------
LEMMA StepKeepsWork ==
  ASSUME NEW w \in WorkerSession, NEW v, NEW t \in Time,
         NothingStarted(w), Removing(w), w.tree = "dirty", SessionStep(w, v, t)
  PROVE  v.tree # "none"
<1> DEFINE r == RefreshDetachedAgent(w)
<1>1. r \in WorkerSession /\ r.tree = "dirty"
  BY RefreshedIsSession, RefreshedFields
<1> HIDE DEF r
<1>2. CASE WorldStep(w, v, t)
  BY <1>2 DEF WorldStep, WorkerSession
<1>3. ~LaunchingStep(w, v, t)
  BY DEF LaunchingStep, NothingStarted
<1>4. CASE EndingStep(w, v)
  <2>0. w.removal = "none" /\ r.removal = "none"
    BY <1>4, RefreshedFields DEF EndingStep, r
  <2>1. \A ok : Stopped(w, ok).tree # "none"
    BY <2>0, StoppedFields
  <2>2. \A ok : CleanedUp(r, ok).tree # "none"
    BY <1>1, <2>0, CleanedFields
  <2>3. ExitHandled(w).tree # "none"
    BY DEF ExitHandled, WorkerSession
  <2>4. \A code : AgentExitRecorded(w, code).tree # "none"
    BY DEF AgentExitRecorded, WorkerSession
  <2>5. QED
    BY <1>4, <2>1, <2>2, <2>3, <2>4 DEF EndingStep, r
<1>7. CASE RemovingStep(w, v)
  <2>1. ~Pending(w)
    BY DEF Removing
  <2>2. \A ok : Collected(w, ok).tree # "none"
    BY DEF Collected
  <2>3. Lost(w).tree # "none"
    BY DEF Lost, TreeAfter, WorkerSession
  <2>4. QED
    BY <1>7, <2>1, <2>2, <2>3 DEF RemovingStep, Pending
<1>5. CASE NotedStep(w, v, t)
  <2>1. Nudged(w, t).tree # "none" /\ PromptSubmitted(w, t).tree # "none"
    BY DEF Nudged, PromptSubmitted, WorkerSession
  <2>2. \A requested : Reported(w, requested, t).tree # "none"
    BY DEF Reported, WorkerSession
  <2>3. /\ [w EXCEPT !.state = "stalled"].tree # "none"
        /\ [r EXCEPT !.state = "waiting_on_operator"].tree # "none"
        /\ [r EXCEPT !.state = "running", !.beat = t, !.reported = t].tree # "none"
    BY <1>1 DEF WorkerSession
  <2>4. QED
    BY <1>1, <1>5, <2>1, <2>2, <2>3 DEF NotedStep, r
<1>6. QED
  BY <1>2, <1>3, <1>4, <1>5, <1>7 DEF SessionStep

(* git status precedes every git worktree remove --force, with the worker free *)
(* to write in between: no order of launches, stops, cleanups, collections of  *)
(* two processes and restarts, with whatever commands failing, removes a tree   *)
(* that held uncommitted work when the removal was decided.                    *)
THEOREM UncommittedWorkIsKept == Spec => NoDirtyTreeRemoved
<1>1. ASSUME TypeOK, KnownInv, [Next]_svars, NEW s \in Session, sessions[s].tree = "dirty"
      PROVE  sessions'[s].tree # "none"
  <2>1. /\ sessions[s] \in WorkerSession /\ NothingStarted(sessions[s])
        /\ Removing(sessions[s]) /\ now \in Time
    BY <1>1 DEF TypeOK, KnownInv, Known
  <2>2. SessionStep(sessions[s], sessions'[s], now)
    BY <1>1, EverySessionSteps
  <2>3. QED
    BY <1>1, <2>1, <2>2, StepKeepsWork
<1>2. TypeOK /\ KnownInv /\ [Next]_svars =>
        [\A s \in Session : sessions[s].tree = "dirty" => sessions'[s].tree # "none"]_svars
  BY <1>1
<1>3. QED
  BY <1>2, KnownAlways, PTL DEF Spec, NoDirtyTreeRemoved

HasItsTree(w) == w.isolated /\ w.state \in Active => w.tree # "none"

LEMMA RefreshKeepsTree ==
  ASSUME NEW w \in WorkerSession, NothingStarted(w), HasItsTree(w)
  PROVE  HasItsTree(RefreshDetachedAgent(w))
<1> DEFINE r == RefreshDetachedAgent(w)
<1>1. r.isolated = w.isolated /\ r.tree = w.tree
  BY RefreshedFields
<1>2. r = w \/ (w.agent # "none" /\ w.state \in Tracked \ Terminal)
  BY RefreshedFields
<1> HIDE DEF r
<1>3. HasItsTree(r)
  BY <1>1, <1>2 DEF HasItsTree, NothingStarted, Tracked
<1>4. QED
  BY <1>3 DEF r

LEMMA StepKeepsTree ==
  ASSUME LateReports = FALSE, ForeignGc = FALSE,
         NEW w \in WorkerSession, NEW v, NEW t \in Time,
         NothingStarted(w), Removing(w), HasItsTree(w), SessionStep(w, v, t)
  PROVE  HasItsTree(v)
<1> DEFINE r == RefreshDetachedAgent(w)
<1>1. r \in WorkerSession /\ HasItsTree(r)
  BY RefreshedIsSession, RefreshKeepsTree
<1> HIDE DEF r
<1>2. CASE WorldStep(w, v, t)
  BY <1>2 DEF WorldStep, WorkerSession, HasItsTree
<1>3. CASE LaunchingStep(w, v, t)
  BY <1>3 DEF LaunchingStep, PlannedSession, StartedSession, FailedLaunch, WorkerSession,
              HasItsTree, Active
<1>4. CASE EndingStep(w, v)
  <2>0. w.removal = "none" /\ r.removal = "none"
    BY <1>4, RefreshedFields DEF EndingStep, r
  <2>1. \A ok : HasItsTree(Stopped(w, ok))
    BY <2>0, StoppedFields DEF HasItsTree, Active
  <2>2. \A ok : HasItsTree(CleanedUp(r, ok))
    BY <1>1, <2>0, CleanedFields DEF HasItsTree, Active
  <2>3. HasItsTree(ExitHandled(w))
    BY DEF ExitHandled, HasItsTree, WorkerSession, Active
  <2>4. \A code : HasItsTree(AgentExitRecorded(w, code))
    BY DEF AgentExitRecorded, HasItsTree, WorkerSession, Active
  <2>5. QED
    BY <1>4, <2>1, <2>2, <2>3, <2>4 DEF EndingStep, r
<1>7. CASE RemovingStep(w, v)
  <2>1. ASSUME NEW ok, w.removal # "none" PROVE HasItsTree(RemovalEnded(w, ok))
    <3>1. w.removal \in {"stop", "keep", "forget"}
      BY <2>1 DEF WorkerSession
    <3>2. RemovalEnded(w, ok).state \notin Active
      BY <3>1, RemovedFields DEF Removing, Active
    <3>3. QED
      BY <3>2 DEF HasItsTree
  <2>2. \A ok : HasItsTree(Collected(w, ok))
    BY DEF Collected, HasItsTree, WorkerSession
  <2>3. ASSUME NEW ok, w.collecting PROVE HasItsTree(CollectionEnded(w, ok))
    <3>1. w.state \in {"forgotten", "lost"} /\ CollectionEnded(w, ok).state = w.state
      BY <2>3 DEF Removing, CollectionEnded, WorkerSession
    <3>2. QED
      BY <3>1 DEF HasItsTree, Active
  <2>4. HasItsTree(Lost(w))
    BY DEF Lost, HasItsTree, WorkerSession, Active
  <2>5. QED
    BY <1>7, <2>1, <2>2, <2>3, <2>4 DEF RemovingStep
<1>5. CASE NotedStep(w, v, t)
  <2>1. HasItsTree(Nudged(w, t)) /\ HasItsTree(PromptSubmitted(w, t))
    BY DEF Nudged, PromptSubmitted, HasItsTree, WorkerSession
  <2>2. w.state = "running" => HasItsTree([w EXCEPT !.state = "stalled"])
    BY DEF HasItsTree, WorkerSession, Active
  <2>3. w.state \in Active => \A requested : HasItsTree(Reported(w, requested, t))
    BY DEF Reported, HasItsTree, WorkerSession
  <2>4. /\ r.state \in Active => HasItsTree([r EXCEPT !.state = "waiting_on_operator"])
        /\ r.state = "waiting_on_operator" =>
              HasItsTree([r EXCEPT !.state = "running", !.beat = t, !.reported = t])
    BY <1>1 DEF HasItsTree, WorkerSession, Active
  <2>5. QED
    BY <1>1, <1>5, <2>1, <2>2, <2>3, <2>4 DEF NotedStep, r
<1>6. QED
  BY <1>2, <1>3, <1>4, <1>5, <1>7 DEF SessionStep

(* As long as sessions report only while they are active, and garbage is        *)
(* collected only by the process that tracks the sessions, no stop, cleanup or  *)
(* collection takes the worktree of an active worker.                          *)
THEOREM WorkersKeepTheirTrees ==
  ASSUME LateReports = FALSE, ForeignGc = FALSE
  PROVE  Spec => []ActiveWorkerHasItsTree
<1> DEFINE Inv == \A s \in Session : HasItsTree(sessions[s])
<1>1. Init => Inv
  BY DEF Init, Fresh, HasItsTree, Active
<1>2. TypeOK /\ KnownInv /\ Inv /\ [Next]_svars => Inv'
  <2> SUFFICES ASSUME TypeOK, KnownInv, Inv, [Next]_svars, NEW s \in Session
               PROVE  HasItsTree(sessions'[s])
    OBVIOUS
  <2>1. /\ sessions[s] \in WorkerSession /\ HasItsTree(sessions[s])
        /\ NothingStarted(sessions[s]) /\ Removing(sessions[s]) /\ now \in Time
    BY DEF TypeOK, KnownInv, Known
  <2>2. SessionStep(sessions[s], sessions'[s], now)
    BY EverySessionSteps
  <2>3. QED
    BY <2>1, <2>2, StepKeepsTree
<1>3. Inv => ActiveWorkerHasItsTree
  BY DEF ActiveWorkerHasItsTree, HasItsTree
<1>4. QED
  BY <1>1, <1>2, <1>3, KnownAlways, PTL DEF Spec
=============================================================================
