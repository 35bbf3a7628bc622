------------------------ MODULE InternalHeartbeatProofs ------------------------
(***************************************************************************)
(* Facts about the internal heartbeat that hold for any number of ticks,    *)
(* sessions and beads, whatever the brain decides and whichever calls fail;  *)
(* and, where a run has one tick at a time, for one tick at a time.         *)
(***************************************************************************)
EXTENDS InternalHeartbeat, WorkerSessionProofs, FiniteSetTheorems

(* What every operator of the supervisor but the launches does to a session: *)
(* it stays with its bead, it stays launched or not, it does not become       *)
(* active again, and its nudges are not forgotten.                            *)
Continues(w, v) ==
    /\ v \in WorkerSession
    /\ v.bead = w.bead
    /\ v.state = "unused" <=> w.state = "unused"
    /\ ActiveWorker(v) => ActiveWorker(w)
    /\ w.attempts > 0 => v.attempts > 0

LEMMA ContinuesIsTransitive ==
  ASSUME NEW u, NEW v, NEW w, Continues(u, v), Continues(v, w)
  PROVE  Continues(u, w)
BY DEF Continues

LEMMA RefreshContinues ==
  ASSUME NEW w \in WorkerSession
  PROVE  Continues(w, RefreshDetachedAgent(w))
<1>1. RefreshDetachedAgent(w) \in WorkerSession
  BY RefreshedIsSession
<1>2. StateFromClaudeStatus(w) # "unused" \/ StateFromClaudeStatus(w) = w.state
  BY DEF StateFromClaudeStatus
<1> DEFINE v == [w EXCEPT !.state = StateFromClaudeStatus(w), !.beat = w.agentAt]
<1>3. v.bead = w.bead /\ v.state = StateFromClaudeStatus(w) /\ v.attempts = w.attempts
  BY DEF WorkerSession
<1> HIDE DEF v
<1>4. CASE RefreshDetachedAgent(w) = w
  BY <1>1, <1>4 DEF Continues
<1>5. CASE RefreshDetachedAgent(w) # w
  <2>1. RefreshDetachedAgent(w) = v /\ w.state \in Tracked \ Terminal
    BY <1>5 DEF RefreshDetachedAgent, v
  <2>2. w.state # "unused" /\ ActiveWorker(w)
    BY <2>1 DEF Tracked, Terminal, Active, ActiveWorker
  <2>3. QED
    BY <1>1, <1>2, <1>3, <2>1, <2>2 DEF Continues
<1>6. QED
  BY <1>4, <1>5

LEMMA ChangeContinues ==
  ASSUME NEW w \in WorkerSession, NEW state \in State \ {"unused"}, w.state # "unused",
         state \in Active \cup {"planned"} => ActiveWorker(w)
  PROVE  /\ Continues(w, [w EXCEPT !.state = state])
         /\ Continues(w, [w EXCEPT !.state = state, !.handle = FALSE])
<1>1. /\ [w EXCEPT !.state = state] \in WorkerSession
      /\ [w EXCEPT !.state = state, !.handle = FALSE] \in WorkerSession
  BY ClosedIsSession
<1>2. /\ [w EXCEPT !.state = state].state = state /\ [w EXCEPT !.state = state].bead = w.bead
      /\ [w EXCEPT !.state = state].attempts = w.attempts
      /\ [w EXCEPT !.state = state, !.handle = FALSE].attempts = w.attempts
      /\ [w EXCEPT !.state = state, !.handle = FALSE].state = state
      /\ [w EXCEPT !.state = state, !.handle = FALSE].bead = w.bead
  BY DEF WorkerSession
<1>3. QED
  BY <1>1, <1>2 DEF Continues, ActiveWorker

LEMMA ReleaseContinues ==
  ASSUME NEW w \in WorkerSession, NEW ok, NEW close \in BOOLEAN
  PROVE  Continues(w, ResourcesReleased(w, ok, close))
<1>1. /\ ResourcesReleased(w, ok, close).bead = w.bead
      /\ ResourcesReleased(w, ok, close).attempts = w.attempts
  BY DEF ResourcesReleased, WorkerSession
<1>2. QED
  BY <1>1, ReleasedIsSession DEF Continues, ActiveWorker

LEMMA PendingContinues ==
  ASSUME NEW w \in WorkerSession, NEW removal \in {"none", "stop", "keep", "forget"}
  PROVE  Continues(w, [w EXCEPT !.removal = removal])
<1>1. /\ [w EXCEPT !.removal = removal].bead = w.bead
      /\ [w EXCEPT !.removal = removal].state = w.state
      /\ [w EXCEPT !.removal = removal].attempts = w.attempts
  BY DEF WorkerSession
<1>2. QED
  BY <1>1, PendingIsSession DEF Continues, ActiveWorker

LEMMA CleanupContinues ==
  ASSUME NEW w \in WorkerSession, NEW ok
  PROVE  Continues(w, CleanedUp(w, ok))
<1> DEFINE r == ResourcesReleased(w, ok, FALSE)
<1>1. r \in WorkerSession /\ r.state = w.state /\ Continues(w, r)
  BY ReleasedIsSession, ReleaseContinues
<1> HIDE DEF r
<1>2. ASSUME w.state = "completed"
      PROVE  Continues(w, [r EXCEPT !.state = "forgotten", !.handle = FALSE])
  <2>1. "forgotten" \in State \ {"unused"} /\ "forgotten" \notin Active \cup {"planned"}
    BY StateNames DEF Active
  <2>2. Continues(r, [r EXCEPT !.state = "forgotten", !.handle = FALSE])
    BY <1>1, <1>2, <2>1, ChangeContinues
  <2>3. QED
    BY <1>1, <2>2, ContinuesIsTransitive
<1>3. \A removal \in {"forget", "keep"} : Continues(w, [r EXCEPT !.removal = removal])
  BY <1>1, PendingContinues, ContinuesIsTransitive
<1>4. Continues(w, w)
  BY DEF Continues
<1>5. QED
  BY <1>1, <1>2, <1>3, <1>4 DEF CleanedUp, r

(* The removal that follows, whatever operation began it. *)
LEMMA RemovalContinues ==
  ASSUME NEW w \in WorkerSession
  PROVE  Continues(w, WithRemoval(w))
<1> DEFINE v == RemovalEnded(w, AllGood)
<1>1. CASE WithRemoval(w) = w
  BY <1>1 DEF Continues
<1>2. CASE WithRemoval(w) # w
  <2>1. WithRemoval(w) = v /\ w.state \in Tracked
    BY <1>2 DEF WithRemoval
  <2>2. /\ v \in WorkerSession /\ v.bead = w.bead /\ v.attempts = w.attempts
        /\ v.state \in {w.state, "stopped", "forgotten"}
    <3>1. v \in WorkerSession
      BY RemovedIsSession
    <3> DEFINE u == [w EXCEPT !.tree = TreeAfter(w, AllGood, w.collecting), !.removal = "none"]
    <3>2. u.bead = w.bead /\ u.attempts = w.attempts /\ u.state = w.state
      BY DEF WorkerSession
    <3>3. \A state \in {"stopped", "forgotten"} :
             LET ended == [u EXCEPT !.state = state, !.handle = FALSE] IN
             ended.bead = w.bead /\ ended.attempts = w.attempts /\ ended.state = state
      BY DEF WorkerSession
    <3>4. \/ v = u
          \/ \E state \in {"stopped", "forgotten"} : v = [u EXCEPT !.state = state, !.handle = FALSE]
      BY DEF RemovalEnded
    <3> HIDE DEF u, v
    <3>5. QED
      BY <3>1, <3>2, <3>3, <3>4
  <2> HIDE DEF v
  <2>3. QED
    BY <2>1, <2>2 DEF Continues, ActiveWorker, Active, Tracked, Terminal
<1>3. QED
  BY <1>1, <1>2

LEMMA StopContinues ==
  ASSUME NEW w \in WorkerSession
  PROVE  Continues(w, StoppedSession(w)) /\ ~ActiveWorker(StoppedSession(w))
<1> DEFINE r == ResourcesReleased(w, AllGood, TRUE)
           v == Stopped(w, AllGood)
<1>1. r \in WorkerSession /\ r.state = w.state /\ Continues(w, r)
  BY ReleasedIsSession, ReleaseContinues
<1>2. "stopped" \in State \ {"unused"} /\ "stopped" \notin Active \cup {"planned"}
  BY StateNames DEF Active
<1>3. StoppedSession(w) = WithRemoval(v)
  BY DEF StoppedSession
<1>4. Continues(w, v) /\ (ActiveWorker(v) => v.removal = "stop" /\ v.state \in Tracked)
  <2>1. CASE w.state \in Active /\ RemovalDue(w, AllGood)
    <3>1. v = [r EXCEPT !.removal = "stop"]
      BY <2>1 DEF Stopped
    <3> HIDE DEF r, v
    <3>2. Continues(r, v)
      BY <1>1, <3>1, PendingContinues
    <3>3. v.removal = "stop" /\ v.state = w.state
      BY <1>1, <3>1 DEF WorkerSession
    <3>4. QED
      BY <1>1, <2>1, <3>2, <3>3, ContinuesIsTransitive DEF Tracked
  <2>2. CASE w.state \in Active /\ ~RemovalDue(w, AllGood)
    <3>1. w.state # "unused"
      BY <2>2 DEF Active
    <3>2. v = [r EXCEPT !.state = "stopped", !.handle = FALSE]
      BY <2>2 DEF Stopped
    <3> HIDE DEF r, v
    <3>3. Continues(r, v)
      BY <1>1, <1>2, <3>1, <3>2, ChangeContinues
    <3>4. v.state = "stopped"
      BY <1>1, <3>2 DEF WorkerSession
    <3>5. QED
      BY <1>1, <1>2, <3>3, <3>4, ContinuesIsTransitive DEF ActiveWorker
  <2>3. CASE w.state \notin Active
    <3>1. v = [w EXCEPT !.state = IF w.state = "planned" THEN "stopped" ELSE @]
      BY <2>3 DEF Stopped
    <3> HIDE DEF v
    <3>2. CASE w.state = "planned"
      <4>1. v = [w EXCEPT !.state = "stopped"] /\ v.state = "stopped"
        BY <3>1, <3>2 DEF WorkerSession
      <4>2. QED
        BY <1>2, <3>2, <4>1, ChangeContinues DEF ActiveWorker
    <3>3. CASE w.state # "planned"
      <4>1. v = w
        BY <3>1, <3>3 DEF WorkerSession
      <4>2. QED
        BY <2>3, <3>3, <4>1 DEF Continues, ActiveWorker
    <3>4. QED
      BY <3>2, <3>3
  <2>4. QED
    BY <2>1, <2>2, <2>3
<1> HIDE DEF v
<1>5. v \in WorkerSession
  BY <1>4 DEF Continues
<1>6. Continues(w, StoppedSession(w))
  BY <1>3, <1>4, <1>5, RemovalContinues, ContinuesIsTransitive
<1>7. CASE ActiveWorker(v)
  <2>1. StoppedSession(w) = RemovalEnded(v, AllGood) /\ v.removal = "stop"
    BY <1>3, <1>4, <1>7 DEF WithRemoval
  <2>2. RemovalEnded(v, AllGood).state = "stopped"
    BY <1>5, <2>1 DEF RemovalEnded, WorkerSession
  <2>3. QED
    BY <1>2, <1>6, <2>1, <2>2 DEF ActiveWorker
<1>8. CASE ~ActiveWorker(v)
  BY <1>3, <1>5, <1>6, <1>8, RemovalContinues DEF Continues
<1>9. QED
  BY <1>7, <1>8

(* Operators that leave the state as it is, or move it between active states. *)
LEMMA OthersContinue ==
  ASSUME NEW w \in WorkerSession, NEW t \in Time
  PROVE  /\ Continues(w, ExitHandled(w))
         /\ w.state # "unused" => Continues(w, Reported(w, "none", t))
         /\ w.attempts < MaxAttempts => Continues(w, Nudged(w, t))
         /\ Continues(w, PromptSubmitted(w, t))
         /\ \A code \in {"ok", "bad"} : Continues(w, [w EXCEPT !.proc = code])
         /\ w.state \in Active => Continues(w, [w EXCEPT !.state = "waiting_on_operator"])
         /\ w.state = "running" => Continues(w, [w EXCEPT !.state = "stalled"])
<1> USE DEF Active, ActiveWorker
<1>1. Continues(w, ExitHandled(w))
  <2>1. ExitHandled(w) \in WorkerSession
    BY ExitedIsSession
  <2>2. /\ ExitHandled(w).bead = w.bead /\ ExitHandled(w).attempts = w.attempts
        /\ ExitHandled(w).state \in {w.state, "completed", "failed"}
        /\ w.state = "unused" => ExitHandled(w).state = "unused"
    BY DEF ExitHandled, WorkerSession
  <2>3. QED
    BY <2>1, <2>2 DEF Continues
<1>2. w.state # "unused" => Continues(w, Reported(w, "none", t))
  <2>1. Reported(w, "none", t) \in WorkerSession
    BY ReportedIsSession
  <2>2. /\ Reported(w, "none", t).bead = w.bead /\ Reported(w, "none", t).attempts = w.attempts
        /\ Reported(w, "none", t).state = IF w.state = "stalled" THEN "running" ELSE w.state
    BY DEF Reported, WorkerSession
  <2>3. QED
    BY <2>1, <2>2 DEF Continues
<1>3. w.attempts < MaxAttempts => Continues(w, Nudged(w, t))
  <2>1. /\ Nudged(w, t).bead = w.bead /\ Nudged(w, t).state = w.state
        /\ Nudged(w, t).attempts = w.attempts + 1 /\ w.attempts \in Nat
    BY SupervisorAssumption DEF Nudged, WorkerSession
  <2>2. w.attempts > 0 => Nudged(w, t).attempts > 0
    BY <2>1
  <2>3. QED
    BY <2>1, <2>2, PromptedIsSession DEF Continues
<1>4. Continues(w, PromptSubmitted(w, t))
  <2>1. /\ PromptSubmitted(w, t).bead = w.bead /\ PromptSubmitted(w, t).state = w.state
        /\ PromptSubmitted(w, t).attempts = w.attempts
    BY DEF PromptSubmitted, WorkerSession
  <2>2. QED
    BY <2>1, PromptedIsSession DEF Continues
<1>5. \A code \in {"ok", "bad"} : Continues(w, [w EXCEPT !.proc = code])
  BY DEF WorkerSession, Continues
<1>6. w.state \in Active => Continues(w, [w EXCEPT !.state = "waiting_on_operator"])
  BY StateNames, ChangeContinues
<1>7. w.state = "running" => Continues(w, [w EXCEPT !.state = "stalled"])
  BY StateNames, ChangeContinues
<1>8. QED
  BY <1>1, <1>2, <1>3, <1>4, <1>5, <1>6, <1>7

ContinueAll(S, R) == \A s \in Session : Continues(S[s], R[s])

(* The operators on the whole map. *)
LEMMA MapsContinue ==
  ASSUME NEW S \in [Session -> WorkerSession], NEW t \in Time
  PROVE  /\ ContinueAll(S, RefreshDetachedAgents(S))
         /\ ContinueAll(S, RefreshStalled(S, t))
         /\ \A ok : ContinueAll(S, CleanupCompleted(S, ok))
         /\ \A P : ContinueAll(S, PromptsSubmitted(S, P, t))
         /\ \A match : ContinueAll(S, MarkWaitingOnOperator(S, match))
<1>0. \A w \in WorkerSession : Continues(w, w)
  BY DEF Continues
<1>1. ContinueAll(S, RefreshDetachedAgents(S))
  BY RefreshContinues DEF RefreshDetachedAgents, ContinueAll
<1>2. ContinueAll(S, RefreshStalled(S, t))
  BY <1>0, OthersContinue DEF RefreshStalled, ContinueAll
<1>3. \A ok : ContinueAll(S, CleanupCompleted(S, ok))
  <2> SUFFICES ASSUME NEW ok, NEW s \in Session
               PROVE  Continues(S[s], CleanedUp(RefreshDetachedAgent(S[s]), ok[s]))
    BY DEF ContinueAll, CleanupCompleted
  <2>1. Continues(S[s], RefreshDetachedAgent(S[s]))
        /\ RefreshDetachedAgent(S[s]) \in WorkerSession
    BY RefreshContinues, RefreshedIsSession
  <2>2. QED
    BY <2>1, CleanupContinues, ContinuesIsTransitive
<1>4. \A P : ContinueAll(S, PromptsSubmitted(S, P, t))
  BY <1>0, OthersContinue DEF PromptsSubmitted, ContinueAll
<1>5. \A match : ContinueAll(S, MarkWaitingOnOperator(S, match))
  <2> SUFFICES ASSUME NEW match, NEW s \in Session
               PROVE  Continues(S[s], MarkWaitingOnOperator(S, match)[s])
    BY DEF ContinueAll
  <2> DEFINE R == RefreshDetachedAgents(S)
  <2>1. R[s] \in WorkerSession /\ Continues(S[s], R[s])
    BY <1>1, MapsAreTyped DEF ContinueAll
  <2> HIDE DEF R
  <2>2. R[s].state \in Active => Continues(R[s], [R[s] EXCEPT !.state = "waiting_on_operator"])
    BY <2>1, OthersContinue
  <2>3. MarkWaitingOnOperator(S, match)[s] \in
          {R[s], IF R[s].state \in Active THEN [R[s] EXCEPT !.state = "waiting_on_operator"] ELSE R[s]}
    BY DEF MarkWaitingOnOperator, R
  <2>4. QED
    BY <2>1, <2>2, <2>3, ContinuesIsTransitive
<1>6. QED
  BY <1>1, <1>2, <1>3, <1>4, <1>5

(* One session continues and the others stay as they are. *)
LEMMA SetContinues ==
  ASSUME NEW S \in [Session -> WorkerSession], NEW s \in Session, NEW w, Continues(S[s], w)
  PROVE  ContinueAll(S, [S EXCEPT ![s] = w])
BY DEF ContinueAll, Continues

(* The map after the synchronous head of a tick. *)
RecoveredAndCleaned(P) ==
    CleanedUpSessions(
        RefreshStalled(PromptsSubmitted(RefreshDetachedAgents(sessions), P, now), now))

LEMMA HeadContinues ==
  ASSUME sessions \in [Session -> WorkerSession], now \in Time, NEW P
  PROVE  /\ RecoveredAndCleaned(P) \in [Session -> WorkerSession]
         /\ ContinueAll(sessions, RecoveredAndCleaned(P))
<1> DEFINE A == RefreshDetachedAgents(sessions)
           B == PromptsSubmitted(A, P, now)
           C == RefreshStalled(B, now)
           D == CleanupCompleted(C, [s \in Session |-> AllGood])
           E == [s \in Session |-> WithRemoval(D[s])]
<1>1. A \in [Session -> WorkerSession] /\ ContinueAll(sessions, A)
  BY MapsAreTyped, MapsContinue
<1> HIDE DEF A
<1>2. B \in [Session -> WorkerSession] /\ ContinueAll(A, B)
  BY <1>1, MapsAreTyped, MapsContinue
<1> HIDE DEF B
<1>3. C \in [Session -> WorkerSession] /\ ContinueAll(B, C)
  BY <1>2, MapsAreTyped, MapsContinue
<1> HIDE DEF C
<1>4. D \in [Session -> WorkerSession] /\ ContinueAll(C, D)
  BY <1>3, MapsAreTyped, MapsContinue
<1> HIDE DEF D
<1>5. E \in [Session -> WorkerSession] /\ ContinueAll(D, E)
  BY <1>4, RemovalContinues DEF ContinueAll, Continues
<1>6. ContinueAll(sessions, E)
  BY <1>1, <1>2, <1>3, <1>4, <1>5, ContinuesIsTransitive DEF ContinueAll
<1>7. QED
  BY <1>5, <1>6 DEF RecoveredAndCleaned, CleanedUpSessions, A, B, C, D
-----------------------------------------------------------------------------
(* What a launch makes of a session that was never used. *)
LEMMA LaunchStartsWork ==
  ASSUME NEW w \in WorkerSession, NEW k \in Kind, NEW made \in BOOLEAN, NEW t \in Time
  PROVE  \A v \in {PlannedSession(w, k, TRUE), FailedLaunch(w, k, TRUE, made),
                   StartedSession(w, k, TRUE, t)} :
            v \in WorkerSession /\ v.bead = w.bead /\ v.state # "unused"
<1>1. /\ PlannedSession(w, k, TRUE).bead = w.bead
      /\ PlannedSession(w, k, TRUE).state = "planned"
  BY DEF PlannedSession, WorkerSession
<1>2. /\ FailedLaunch(w, k, TRUE, made).bead = w.bead
      /\ FailedLaunch(w, k, TRUE, made).state = "failed"
  BY DEF FailedLaunch, WorkerSession
<1>3. /\ StartedSession(w, k, TRUE, t).bead = w.bead
      /\ StartedSession(w, k, TRUE, t).state = "running"
  BY DEF StartedSession, WorkerSession
<1>4. QED
  BY <1>1, <1>2, <1>3, LaunchedIsSession

(* A step launches nothing; or it launches session r, for the bead of r.      *)
NoneLaunched == sessions' \in [Session -> WorkerSession] /\ ContinueAll(sessions, sessions')
OneLaunched(r) ==
    /\ sessions' \in [Session -> WorkerSession]
    /\ sessions[r].state = "unused" /\ sessions'[r].state # "unused"
    /\ sessions'[r].bead = sessions[r].bead
    /\ \A s \in Session \ {r} : Continues(sessions[s], sessions'[s])

LEMMA SetLaunchesNone ==
  ASSUME TypeOK, NEW s \in Session, NEW w, Continues(sessions[s], w), Set(s, w)
  PROVE  NoneLaunched
<1>1. sessions' = [sessions EXCEPT ![s] = w] /\ w \in WorkerSession
  BY DEF Set, Continues
<1>2. QED
  BY <1>1, SetContinues DEF NoneLaunched, TypeOK

LEMMA UnchangedLaunchesNone ==
  ASSUME TypeOK, sessions' = sessions
  PROVE  NoneLaunched
BY DEF NoneLaunched, ContinueAll, Continues, TypeOK

LEMMA SetLaunchesOne ==
  ASSUME TypeOK, NEW r \in Session, NEW w \in WorkerSession, Set(r, w),
         sessions[r].state = "unused", w.state # "unused", w.bead = sessions[r].bead
  PROVE  OneLaunched(r)
<1>1. \A s \in Session : Continues(sessions[s], sessions[s])
  BY DEF Continues, TypeOK
<1>2. QED
  BY <1>1 DEF Set, OneLaunched, TypeOK

LEMMA WorkerStepLaunchesNone ==
  ASSUME TypeOK, WorkerStep
  PROVE  NoneLaunched /\ now' \in Time
<1>1. \A s \in Session : sessions[s] \in WorkerSession
  BY DEF TypeOK
<1>2. CASE Tick
  <2>1. now' \in Time
    BY <1>2, SupervisorAssumption DEF Tick, TypeOK, Time
  <2>2. QED
    BY <1>2, <2>1, UnchangedLaunchesNone DEF Tick
<1>3. ASSUME NEW s \in Session, NEW code \in {"ok", "bad"}, LauncherExits(s, code)
      PROVE  NoneLaunched /\ now' \in Time
  <2>1. Continues(sessions[s], [sessions[s] EXCEPT !.proc = code])
    BY <1>1, OthersContinue DEF TypeOK
  <2>2. QED
    BY <1>3, <2>1, SetLaunchesNone DEF LauncherExits, TypeOK
<1>4. ASSUME NEW s \in Session, OnExit(s)
      PROVE  NoneLaunched /\ now' \in Time
  <2>1. Continues(sessions[s], ExitHandled(sessions[s]))
    BY <1>1, OthersContinue DEF TypeOK
  <2>2. QED
    BY <1>4, <2>1, SetLaunchesNone DEF OnExit, TypeOK
<1>5. ASSUME NEW s \in Session, Heartbeat(s, "none")
      PROVE  NoneLaunched /\ now' \in Time
  <2>1. sessions[s].state # "unused"
    BY <1>5 DEF Heartbeat, Tracked, Active, Terminal
  <2>2. Continues(sessions[s], Reported(sessions[s], "none", now))
    BY <1>1, <2>1, OthersContinue DEF TypeOK
  <2>3. QED
    BY <1>5, <2>2, SetLaunchesNone DEF Heartbeat, TypeOK
<1>6. QED
  BY <1>2, <1>3, <1>4, <1>5 DEF WorkerStep

(* What the brain's decision about worker s does to the sessions: a worker    *)
(* that is replaced is stopped first.                                         *)
LaunchesBeside(s, action) ==
    \E r \in Session \ {s} :
        /\ OneLaunched(r) /\ sessions[r].bead = sessions[s].bead
        /\ action \in {"relaunch_stronger_model", "launch_review_worker"}
        /\ action = "relaunch_stronger_model" => ~ActiveWorker(sessions'[s])

LEMMA BrainLaunches ==
  ASSUME TypeOK, NEW s \in Session, NEW action \in BrainActions, WorkerAction(s, action)
  PROVE  NoneLaunched \/ LaunchesBeside(s, action)
<1>1. sessions[s] \in WorkerSession /\ now \in Time
  BY DEF TypeOK
<1>2. CASE action = "wait"
  BY <1>2, UnchangedLaunchesNone DEF WorkerAction
<1>3. CASE action = "ask_operator"
  <2>1. sessions' = MarkWaitingOnOperator(sessions, s)
    BY <1>3 DEF WorkerAction
  <2>2. QED
    BY <1>1, <2>1, MapsContinue, MapsAreTyped DEF NoneLaunched, TypeOK
<1>4. CASE action = "nudge"
  <2>1. Set(s, Nudged(sessions[s], now)) /\ sessions[s].attempts < MaxAttempts
    BY <1>4 DEF WorkerAction
  <2>2. Continues(sessions[s], Nudged(sessions[s], now))
    BY <1>1, <2>1, OthersContinue
  <2>3. QED
    BY <2>1, <2>2, SetLaunchesNone
<1>5. CASE action = "stop"
  BY <1>1, <1>5, StopContinues, SetLaunchesNone DEF WorkerAction
<1>6. ASSUME NEW stopping \in BOOLEAN, LaunchesHelper(s, stopping),
             action = IF stopping THEN "relaunch_stronger_model" ELSE "launch_review_worker"
      PROVE  LaunchesBeside(s, action)
  <2>1. PICK r \in Session \ {s}, k \in Kind :
          /\ sessions[r].state = "unused" /\ sessions[r].bead = sessions[s].bead
          /\ sessions' = [sessions EXCEPT
                ![s] = IF stopping THEN StoppedSession(@) ELSE @,
                ![r] = StartedSession(@, k, TRUE, now)]
    BY <1>6 DEF LaunchesHelper
  <2> DEFINE old == IF stopping THEN StoppedSession(sessions[s]) ELSE sessions[s]
             new == StartedSession(sessions[r], k, TRUE, now)
  <2>2. Continues(sessions[s], old) /\ (stopping => ~ActiveWorker(old))
    BY <1>1, StopContinues DEF Continues
  <2>3. new \in WorkerSession /\ new.bead = sessions[r].bead /\ new.state # "unused"
    BY <1>1, <2>1, LaunchStartsWork DEF TypeOK
  <2>4. old \in WorkerSession
    BY <2>2 DEF Continues
  <2> HIDE DEF old, new
  <2>5. sessions' = [sessions EXCEPT ![s] = old, ![r] = new]
    BY <2>1 DEF old, new, TypeOK
  <2>6. \A q \in Session : Continues(sessions[q], sessions[q])
    BY DEF Continues, TypeOK
  <2>7. sessions'[s] = old /\ sessions'[r] = new
        /\ \A q \in Session \ {r, s} : sessions'[q] = sessions[q]
    BY <2>1, <2>5 DEF TypeOK
  <2>8. sessions' \in [Session -> WorkerSession]
    BY <2>3, <2>4, <2>5 DEF TypeOK
  <2>9. OneLaunched(r)
    BY <2>1, <2>2, <2>3, <2>6, <2>7, <2>8 DEF OneLaunched
  <2>10. QED
    BY <1>6, <2>1, <2>2, <2>7, <2>9 DEF LaunchesBeside
<1>7. CASE action = "relaunch_stronger_model"
  BY <1>6, <1>7 DEF WorkerAction
<1>8. CASE action = "launch_review_worker"
  BY <1>6, <1>8 DEF WorkerAction
<1>9. QED
  BY <1>2, <1>3, <1>4, <1>5, <1>7, <1>8 DEF WorkerAction

LEMMA ToolLaunches ==
  ASSUME TypeOK, NEW s \in Session, NEW tool \in BrainTools, ToolActs(s, tool)
  PROVE  IF tool = "launch" THEN OneLaunched(s) ELSE NoneLaunched
<1>1. sessions[s] \in WorkerSession /\ now \in Time
  BY DEF TypeOK
<1>2. CASE tool = "list" \/ tool = "ask_operator"
  <2>1. sessions' \in {RefreshDetachedAgents(sessions), MarkWaitingOnOperator(sessions, s)}
    BY <1>2 DEF ToolActs
  <2>2. QED
    BY <1>1, <1>2, <2>1, MapsContinue, MapsAreTyped DEF NoneLaunched, TypeOK
<1>3. CASE tool = "nudge"
  <2>1. Set(s, Nudged(sessions[s], now)) /\ sessions[s].attempts < MaxAttempts
    BY <1>3 DEF ToolActs
  <2>2. Continues(sessions[s], Nudged(sessions[s], now))
    BY <1>1, <2>1, OthersContinue
  <2>3. QED
    BY <1>3, <2>1, <2>2, SetLaunchesNone
<1>4. CASE tool = "stop"
  BY <1>1, <1>4, StopContinues, SetLaunchesNone DEF ToolActs
<1>5. CASE tool = "launch"
  BY <1>1, <1>5, LaunchStartsWork, SetLaunchesOne DEF ToolActs
<1>6. QED
  BY <1>2, <1>3, <1>4, <1>5 DEF ToolActs

LEMMA LaunchForBeadLaunches ==
  ASSUME TypeOK, NEW t \in Beat, NEW s \in Session, LaunchForBead(t, s)
  PROVE  OneLaunched(s) /\ sessions[s].bead = ticks[t].bead
<1>1. sessions[s] \in WorkerSession /\ now \in Time
  BY DEF TypeOK
<1>2. PICK k \in Kind, made \in BOOLEAN :
        \/ Set(s, StartedSession(sessions[s], k, TRUE, now))
        \/ Set(s, FailedLaunch(sessions[s], k, TRUE, made))
  BY DEF LaunchForBead
<1>3. sessions[s].state = "unused" /\ sessions[s].bead = ticks[t].bead
  BY DEF LaunchForBead
<1>4. QED
  BY <1>1, <1>2, <1>3, LaunchStartsWork, SetLaunchesOne
-----------------------------------------------------------------------------
(* A tick deals with sessions that were launched once, and with real beads.   *)
KnownTick(r, S) ==
    /\ \A s \in r.release \cup r.consult : S[s].state # "unused"
    /\ r.pc = "deciding" => r.worker \in Session /\ S[r.worker].state # "unused"
    /\ r.pc \in {"show", "claim", "note", "brief"} => r.bead \in Bead

TicksKnown == \A t \in Beat : KnownTick(ticks[t], sessions)

(* Tick t goes on with local state r. *)
MovesTo(t, r) == Move(t, r) /\ r \in TickRecord /\ KnownTick(r, sessions')

(* Tick t has no bead in its hands, before or after the step. *)
EmptyHanded(t) ==
    /\ UNCHANGED beads
    /\ ticks[t].pc \notin {"note", "brief"}
    /\ \E r : MovesTo(t, r) /\ r.pc \notin {"note", "brief"}

LEMMA Tick0IsKnown == Tick0 \in TickRecord /\ \A S : KnownTick(Tick0, S)
BY DEF Tick0, TickRecord, KnownTick

LEMMA EndMovesTo ==
  ASSUME NEW t \in Beat, EndTick(t)
  PROVE  MovesTo(t, Tick0) /\ Tick0.pc \notin {"note", "brief"}
BY Tick0IsKnown DEF EndTick, MovesTo, Tick0

LEMMA StartedStays ==
  ASSUME NEW s \in Session, sessions[s].state # "unused",
         NoneLaunched \/ \E r \in Session : OneLaunched(r)
  PROVE  sessions'[s].state # "unused"
<1>1. CASE NoneLaunched
  BY <1>1 DEF NoneLaunched, ContinueAll, Continues
<1>2. ASSUME NEW r \in Session, OneLaunched(r)
      PROVE  sessions'[s].state # "unused"
  BY <1>2 DEF OneLaunched, Continues
<1>3. QED
  BY <1>1, <1>2

LEMMA KnownStays ==
  ASSUME NEW r \in TickRecord, KnownTick(r, sessions),
         NoneLaunched \/ \E q \in Session : OneLaunched(q)
  PROVE  KnownTick(r, sessions')
<1>1. r.release \subseteq Session /\ r.consult \subseteq Session
  BY DEF TickRecord
<1>2. QED
  BY <1>1, StartedStays DEF KnownTick

(* The steps of a tick before it looks for work. *)
LEMMA StartIsEmptyHanded ==
  ASSUME HeartbeatTypeOK, NEW t \in Beat, NEW P, StartTick(t, P)
  PROVE  NoneLaunched /\ UNCHANGED now /\ EmptyHanded(t)
<1> DEFINE S == RecoveredAndCleaned(P)
           stalled == {s \in Session : S[s].state = "stalled"}
           r == [Tick0 EXCEPT
                   !.pc = "followups",
                   !.release = {s \in stalled : DueForRelease(S[s])},
                   !.consult = IF BrainActions = {} THEN {}
                               ELSE {s \in stalled : S[s].attempts = 0}]
<1>1. /\ ticks[t].pc = "idle" /\ sessions' = S /\ Move(t, r) /\ UNCHANGED <<now, beads>>
  BY DEF StartTick, RecoveredAndCleaned
<1>2. S \in [Session -> WorkerSession] /\ ContinueAll(sessions, S)
  BY HeadContinues DEF HeartbeatTypeOK, TypeOK
<1>3. NoneLaunched
  BY <1>1, <1>2 DEF NoneLaunched
<1>4. r \in TickRecord /\ r.pc = "followups"
      /\ r.release \subseteq stalled /\ r.consult \subseteq stalled
  BY Tick0IsKnown DEF Tick0, TickRecord
<1>5. KnownTick(r, S)
  BY <1>4 DEF KnownTick
<1> HIDE DEF S, r
<1>6. QED
  BY <1>1, <1>3, <1>4, <1>5 DEF EmptyHanded, MovesTo

LEMMA FollowUpsAreEmptyHanded ==
  ASSUME HeartbeatTypeOK, TicksKnown, NEW t \in Beat, NEW s \in Session,
         ReleaseCapacity(t, s) \/ AskBrain(t, s)
  PROVE  NoneLaunched /\ UNCHANGED now /\ EmptyHanded(t)
<1>1. /\ TypeOK /\ sessions[s] \in WorkerSession /\ ticks[t] \in TickRecord
      /\ KnownTick(ticks[t], sessions)
  BY DEF HeartbeatTypeOK, TypeOK, TicksKnown
<1>2. CASE ReleaseCapacity(t, s)
  <2>1. ticks[t].pc = "followups" /\ UNCHANGED <<now, beads>>
    BY <1>2 DEF ReleaseCapacity
  <2>2. CASE sessions[s].state \in Tracked
    <3> DEFINE r == [ticks[t] EXCEPT !.release = @ \ {s}]
    <3>1. Set(s, StoppedSession(sessions[s])) /\ Move(t, r)
      BY <1>2, <2>2 DEF ReleaseCapacity
    <3>2. NoneLaunched
      BY <1>1, <3>1, StopContinues, SetLaunchesNone
    <3>3. r \in TickRecord /\ r.pc = "followups" /\ KnownTick(r, sessions)
      BY <1>1, <2>1 DEF TickRecord, KnownTick
    <3> HIDE DEF r
    <3>4. QED
      BY <2>1, <3>1, <3>2, <3>3, KnownStays DEF EmptyHanded, MovesTo
  <2>3. CASE sessions[s].state \notin Tracked
    <3>1. EndTick(t) /\ sessions' = sessions
      BY <1>2, <2>3 DEF ReleaseCapacity
    <3>2. QED
      BY <1>1, <2>1, <3>1, EndMovesTo, UnchangedLaunchesNone DEF EmptyHanded
  <2>4. QED
    BY <2>2, <2>3
<1>3. CASE AskBrain(t, s)
  <2> DEFINE r == [ticks[t] EXCEPT !.pc = "deciding", !.worker = s, !.consult = @ \ {s}]
  <2>1. /\ ticks[t].pc = "followups" /\ s \in ticks[t].consult /\ Move(t, r)
        /\ UNCHANGED <<sessions, now, beads>>
    BY <1>3 DEF AskBrain
  <2>2. r \in TickRecord /\ r.pc = "deciding" /\ KnownTick(r, sessions)
    BY <1>1, <2>1 DEF TickRecord, KnownTick
  <2>3. NoneLaunched
    BY <1>1, <2>1, UnchangedLaunchesNone
  <2> HIDE DEF r
  <2>4. QED
    BY <2>1, <2>2, <2>3 DEF EmptyHanded, MovesTo
<1>4. QED
  BY <1>2, <1>3

LEMMA CountIsEmptyHanded ==
  ASSUME HeartbeatTypeOK, TicksKnown, NEW t \in Beat, CountWorkers(t)
  PROVE  NoneLaunched /\ UNCHANGED now /\ EmptyHanded(t)
<1>1. /\ TypeOK /\ ticks[t] \in TickRecord /\ KnownTick(ticks[t], sessions)
  BY DEF HeartbeatTypeOK, TicksKnown
<1> DEFINE full == Cardinality({q \in Session : ActiveWorker(RefreshDetachedAgents(sessions)[q])})
                     >= MaxConcurrent
           r == [ticks[t] EXCEPT !.pc = "ready", !.full = full]
<1>2. /\ ticks[t].pc = "followups" /\ Move(t, r)
      /\ sessions' = RefreshDetachedAgents(sessions) /\ UNCHANGED <<now, beads>>
  BY DEF CountWorkers
<1>3. full \in BOOLEAN
  OBVIOUS
<1> HIDE DEF full
<1>4. r \in TickRecord /\ r.pc = "ready" /\ KnownTick(r, sessions)
  BY <1>1, <1>2, <1>3 DEF TickRecord, KnownTick
<1>5. NoneLaunched
  BY <1>1, <1>2, MapsContinue, MapsAreTyped DEF NoneLaunched, TypeOK
<1> HIDE DEF r
<1>6. QED
  BY <1>2, <1>4, <1>5, KnownStays DEF EmptyHanded, MovesTo

(* The brain's decision; whatever it does, the tick holds no bead then. *)
LEMMA BrainActsEmptyHanded ==
  ASSUME HeartbeatTypeOK, TicksKnown, NEW t \in Beat, NEW action \in BrainActions,
         BrainActs(t, action)
  PROVE  /\ ticks[t].pc = "deciding" /\ ticks[t].worker \in Session
         /\ NoneLaunched \/ LaunchesBeside(ticks[t].worker, action)
         /\ UNCHANGED now /\ EmptyHanded(t) /\ ticks'[t].pc # "deciding"
<1> DEFINE s == ticks[t].worker
           r == [ticks[t] EXCEPT !.pc = "followups", !.worker = NoSession]
<1>1. /\ TypeOK /\ ticks[t] \in TickRecord /\ KnownTick(ticks[t], sessions)
  BY DEF HeartbeatTypeOK, TicksKnown
<1>2. ticks[t].pc = "deciding" /\ UNCHANGED <<now, beads>>
  BY DEF BrainActs
<1>3. s \in Session
  BY <1>1, <1>2 DEF KnownTick
<1>4. CASE Throws(s, action)
  <2>1. EndTick(t) /\ sessions' = sessions
    BY <1>4 DEF BrainActs
  <2>2. QED
    BY <1>1, <1>2, <1>3, <2>1, EndMovesTo, UnchangedLaunchesNone
    DEF EmptyHanded, EndTick, Move, Tick0, HeartbeatTypeOK
<1>5. CASE ~Throws(s, action)
  <2>1. WorkerAction(s, action) /\ Move(t, r)
    BY <1>5 DEF BrainActs
  <2>2. NoneLaunched \/ LaunchesBeside(s, action)
    BY <1>1, <1>3, <2>1, BrainLaunches
  <2>3. NoneLaunched \/ \E q \in Session : OneLaunched(q)
    BY <2>2 DEF LaunchesBeside
  <2>4. r \in TickRecord /\ r.pc = "followups" /\ KnownTick(r, sessions)
    BY <1>1 DEF TickRecord, KnownTick
  <2> HIDE DEF r, s
  <2>5. EmptyHanded(t) /\ ticks'[t].pc # "deciding"
    BY <1>2, <2>1, <2>3, <2>4, KnownStays DEF EmptyHanded, MovesTo, Move, HeartbeatTypeOK
  <2>6. QED
    BY <1>2, <1>3, <2>2, <2>5 DEF s
<1>6. QED
  BY <1>4, <1>5

(* The search for work, up to the recheck before the claim. *)
LEMMA SelectMovesTo ==
  ASSUME TypeOK, NEW t \in Beat, ticks[t] \in TickRecord, KnownTick(ticks[t], sessions),
         NEW candidates \in SUBSET Bead, SelectFrom(t, candidates), sessions' = sessions
  PROVE  \E r : /\ MovesTo(t, r) /\ r.release \subseteq ticks[t].release
                /\ \/ r.pc = "show" /\ r.full = ticks[t].full /\ ~r.full /\ r.consult = ticks[t].consult
                   \/ r.pc = "ready" /\ r.full = ticks[t].full /\ r.consult = ticks[t].consult
                   \/ r = Tick0
<1>1. CASE ~ticks[t].full /\ candidates # {}
  <2>1. PICK b \in candidates :
          Move(t, [ticks[t] EXCEPT !.pc = "show", !.remaining = candidates, !.bead = b])
    BY <1>1 DEF SelectFrom
  <2> DEFINE r == [ticks[t] EXCEPT !.pc = "show", !.remaining = candidates, !.bead = b]
  <2>2. /\ r \in TickRecord /\ KnownTick(r, sessions) /\ r.pc = "show"
        /\ r.full = ticks[t].full /\ r.consult = ticks[t].consult /\ r.release = ticks[t].release
    BY DEF TickRecord, KnownTick
  <2>3. QED
    BY <1>1, <2>1, <2>2 DEF MovesTo
<1>2. CASE ~ticks[t].full /\ candidates = {} /\ ticks[t].stage = "primary"
  <2> DEFINE r == [ticks[t] EXCEPT !.pc = "ready", !.stage = "fallback", !.remaining = {},
                                   !.bead = NoBead]
  <2>1. Move(t, r)
    BY <1>2 DEF SelectFrom
  <2>2. /\ r \in TickRecord /\ KnownTick(r, sessions) /\ r.pc = "ready"
        /\ r.full = ticks[t].full /\ r.consult = ticks[t].consult /\ r.release = ticks[t].release
    BY DEF TickRecord, KnownTick
  <2>3. QED
    BY <2>1, <2>2 DEF MovesTo
<1>3. CASE EndTick(t)
  BY <1>3, EndMovesTo DEF Tick0
<1>4. QED
  BY <1>1, <1>2, <1>3 DEF SelectFrom

LEMMA SearchIsEmptyHanded ==
  ASSUME HeartbeatTypeOK, TicksKnown, NEW t \in Beat, ReadyListed(t) \/ Rechecked(t)
  PROVE  UNCHANGED <<sessions, now>> /\ EmptyHanded(t)
<1>1. /\ TypeOK /\ ticks[t] \in TickRecord /\ KnownTick(ticks[t], sessions)
  BY DEF HeartbeatTypeOK, TicksKnown
<1>2. Tick0.pc = "idle"
  BY DEF Tick0
<1>3. CASE ReadyListed(t)
  <2> DEFINE candidates == {b \in StageBeads(ticks[t].stage) : beads[b] = "open"}
  <2>1. /\ ticks[t].pc = "ready" /\ SelectFrom(t, candidates) /\ UNCHANGED <<sessions, now, beads>>
    BY <1>3 DEF ReadyListed
  <2>2. candidates \in SUBSET Bead
    BY HeartbeatAssumption DEF StageBeads
  <2> HIDE DEF candidates
  <2>3. QED
    BY <1>1, <1>2, <2>1, <2>2, SelectMovesTo DEF EmptyHanded
<1>4. CASE Rechecked(t)
  <2> DEFINE b == ticks[t].bead
             r == [ticks[t] EXCEPT !.pc = "claim"]
  <2>1. ticks[t].pc = "show" /\ UNCHANGED <<sessions, now, beads>>
    BY <1>4 DEF Rechecked
  <2>2. CASE beads[b] = "open"
    <3>1. Move(t, r)
      BY <1>4, <2>2 DEF Rechecked
    <3>2. r \in TickRecord /\ KnownTick(r, sessions) /\ r.pc = "claim"
      BY <1>1, <2>1 DEF TickRecord, KnownTick
    <3>3. QED
      BY <2>1, <3>1, <3>2 DEF EmptyHanded, MovesTo
  <2>3. CASE beads[b] # "open"
    <3>1. SelectFrom(t, ticks[t].remaining \ {b})
      BY <1>4, <2>3 DEF Rechecked
    <3>2. ticks[t].remaining \ {b} \in SUBSET Bead
      BY <1>1 DEF TickRecord
    <3> HIDE DEF b
    <3>3. QED
      BY <1>1, <1>2, <2>1, <3>1, <3>2, SelectMovesTo DEF EmptyHanded
  <2>4. QED
    BY <2>2, <2>3
<1>5. QED
  BY <1>3, <1>4
-----------------------------------------------------------------------------
(* From the claim to the launch. *)
Takes(t, b) ==
    /\ beads[b] = "open" /\ beads' = [beads EXCEPT ![b] = "claimed"]
    /\ ticks[t].pc = "claim"
    /\ \E r : MovesTo(t, r) /\ r.pc = "note" /\ r.bead = b
TakesUnaware(t, b) ==
    /\ beads[b] = "open" /\ beads' = [beads EXCEPT ![b] = "claimed"]
    /\ ticks[t].pc = "claim" /\ MovesTo(t, Tick0)
KeepsHold(t) ==
    /\ UNCHANGED beads /\ ticks[t].pc = "note"
    /\ \E r : MovesTo(t, r) /\ r.pc = "brief" /\ r.bead = ticks[t].bead
LetsGo(t) == UNCHANGED beads /\ ticks[t].pc \in {"note", "brief"} /\ MovesTo(t, Tick0)

LEMMA ClaimSteps ==
  ASSUME HeartbeatTypeOK, TicksKnown, NEW t \in Beat, NEW ok \in BOOLEAN,
         ClaimTried(t, ok) \/ ClaimNoted(t, ok) \/ BrainFails(t)
  PROVE  /\ UNCHANGED <<sessions, now>>
         /\ \/ EmptyHanded(t) \/ KeepsHold(t) \/ \E b \in Bead : Takes(t, b)
            \/ LetsGo(t) /\ (~ok \/ BrainFails(t))
            \/ (\E b \in Bead : TakesUnaware(t, b)) /\ ~ok
<1> DEFINE b == ticks[t].bead
<1>1. /\ TypeOK /\ ticks[t] \in TickRecord /\ KnownTick(ticks[t], sessions)
      /\ \A pc : KnownTick([ticks[t] EXCEPT !.pc = pc], sessions)
                   <=> (pc = "deciding" => ticks[t].worker \in Session
                                            /\ sessions[ticks[t].worker].state # "unused")
                       /\ (pc \in {"show", "claim", "note", "brief"} => b \in Bead)
  BY DEF HeartbeatTypeOK, TicksKnown, KnownTick, TickRecord
<1>2. /\ \A pc \in {"note", "brief"} :
            /\ [ticks[t] EXCEPT !.pc = pc] \in TickRecord
            /\ [ticks[t] EXCEPT !.pc = pc].pc = pc
            /\ [ticks[t] EXCEPT !.pc = pc].bead = b
  BY <1>1 DEF TickRecord
<1>3. CASE ClaimTried(t, ok)
  <2>1. ticks[t].pc = "claim" /\ UNCHANGED <<sessions, now>>
    BY <1>3 DEF ClaimTried
  <2>2. b \in Bead
    BY <1>1, <2>1 DEF KnownTick
  <2>3. CASE beads[b] = "open" /\ ok
    <3>1. Move(t, [ticks[t] EXCEPT !.pc = "note"]) /\ beads' = [beads EXCEPT ![b] = "claimed"]
      BY <1>3, <2>3 DEF ClaimTried
    <3>2. MovesTo(t, [ticks[t] EXCEPT !.pc = "note"])
      BY <1>1, <1>2, <2>1, <2>2, <3>1 DEF MovesTo
    <3>3. QED
      BY <1>2, <2>1, <2>2, <2>3, <3>1, <3>2 DEF Takes
  <2>4. CASE beads[b] = "open" /\ ~ok
    BY <1>3, <2>1, <2>2, <2>4, EndMovesTo DEF ClaimTried, TakesUnaware
  <2>5. CASE beads[b] # "open"
    BY <1>3, <2>1, <2>5, EndMovesTo DEF ClaimTried, EmptyHanded
  <2>6. QED
    BY <2>3, <2>4, <2>5
<1>4. CASE ClaimNoted(t, ok)
  <2>1. ticks[t].pc = "note" /\ UNCHANGED <<sessions, now, beads>>
    BY <1>4 DEF ClaimNoted
  <2>2. b \in Bead
    BY <1>1, <2>1 DEF KnownTick
  <2>3. CASE ok
    <3>1. Move(t, [ticks[t] EXCEPT !.pc = "brief"])
      BY <1>4, <2>3 DEF ClaimNoted
    <3>2. MovesTo(t, [ticks[t] EXCEPT !.pc = "brief"])
      BY <1>1, <1>2, <2>1, <2>2, <3>1 DEF MovesTo
    <3>3. QED
      BY <1>2, <2>1, <3>2 DEF KeepsHold
  <2>4. CASE ~ok
    BY <1>4, <2>1, <2>4, EndMovesTo DEF ClaimNoted, LetsGo
  <2>5. QED
    BY <2>3, <2>4
<1>5. CASE BrainFails(t)
  BY <1>5, EndMovesTo DEF BrainFails, EmptyHanded, LetsGo
<1>6. QED
  BY <1>3, <1>4, <1>5

(* Launching a worker for the bead, or recording that it could not be.       *)
LEMMA LaunchStep ==
  ASSUME HeartbeatTypeOK, TicksKnown, NEW t \in Beat, NEW s \in Session, LaunchForBead(t, s)
  PROVE  /\ OneLaunched(s) /\ sessions[s].bead = ticks[t].bead
         /\ UNCHANGED now /\ LetsGo(t)
<1>1. ticks[t].pc = "brief" /\ EndTick(t) /\ UNCHANGED <<now, beads>>
  BY DEF LaunchForBead
<1>2. QED
  BY <1>1, LaunchForBeadLaunches, EndMovesTo DEF LetsGo, HeartbeatTypeOK
-----------------------------------------------------------------------------
(* Which beads are in whose hands, and which have been worked on, after a step. *)
HoldsSame == \A u \in Beat, c \in Bead : Holds(u, c)' <=> Holds(u, c)
WorkSame == \A c \in Bead : WorkStarted(c)' <=> WorkStarted(c)

LEMMA MoveHolds ==
  ASSUME HeartbeatTypeOK, NEW t \in Beat, NEW r, MovesTo(t, r)
  PROVE  /\ ticks' \in [Beat -> TickRecord] /\ ticks'[t] = r
         /\ \A u \in Beat \ {t} : ticks'[u] = ticks[u]
         /\ \A u \in Beat \ {t} : \A c : Holds(u, c)' <=> Holds(u, c)
         /\ \A c : Holds(t, c)' <=> r.bead = c /\ r.pc \in {"note", "brief"}
BY DEF HeartbeatTypeOK, MovesTo, Move, Holds

LEMMA EmptyHandedHolds ==
  ASSUME HeartbeatTypeOK, NEW t \in Beat, EmptyHanded(t)
  PROVE  UNCHANGED beads /\ HoldsSame
<1>1. PICK r : MovesTo(t, r) /\ r.pc \notin {"note", "brief"}
  BY DEF EmptyHanded
<1>2. \A c : ~Holds(t, c) /\ ~Holds(t, c)'
  BY <1>1, MoveHolds DEF EmptyHanded, Holds
<1>3. QED
  BY <1>1, <1>2, MoveHolds DEF EmptyHanded, HoldsSame

LEMMA NoneLaunchedWork ==
  ASSUME byTool \subseteq Session, NoneLaunched, byTool' \in {byTool, byTool \cup HelpersOfThose}
  PROVE  byTool' = byTool /\ WorkSame
<1>1. HelpersOfThose = {}
  BY DEF HelpersOfThose, NoneLaunched, ContinueAll, Continues
<1>2. byTool' = byTool
  BY <1>1
<1>3. \A s \in Session : /\ sessions'[s].bead = sessions[s].bead
                         /\ sessions'[s].state = "unused" <=> sessions[s].state = "unused"
  BY DEF NoneLaunched, ContinueAll, Continues
<1>4. QED
  BY <1>2, <1>3 DEF WorkSame, WorkStarted

LEMMA OneLaunchedWork ==
  ASSUME byTool \subseteq Session, NEW r \in Session, OneLaunched(r),
         byTool' \in {byTool \cup {r}, byTool \cup HelpersOfThose}
  PROVE  /\ byTool \subseteq byTool' /\ byTool' \subseteq byTool \cup {r}
         /\ \A c \in Bead : WorkStarted(c)'
                <=> WorkStarted(c) \/ (c = sessions[r].bead /\ r \notin byTool')
<1>1. \A s \in Session \ {r} : /\ sessions'[s].bead = sessions[s].bead
                               /\ sessions'[s].state = "unused" <=> sessions[s].state = "unused"
  BY DEF OneLaunched, Continues
<1>2. HelpersOfThose \subseteq {r}
  BY <1>1 DEF HelpersOfThose
<1>3. byTool \subseteq byTool' /\ byTool' \subseteq byTool \cup {r}
  BY <1>2
<1>4. /\ sessions[r].state = "unused" /\ sessions'[r].state # "unused"
      /\ sessions'[r].bead = sessions[r].bead
  BY DEF OneLaunched
<1>5. QED
  BY <1>1, <1>3, <1>4 DEF WorkStarted
-----------------------------------------------------------------------------
(* The invariant.  A bead in a tick's hands is claimed, is in no other hands   *)
(* and nobody works on it yet; work is done on claimed beads only.            *)
ClaimsHeld ==
    \A t \in Beat, b \in Bead : Holds(t, b) =>
        /\ beads[b] = "claimed" /\ ~WorkStarted(b)
        /\ \A u \in Beat : Holds(u, b) => u = t
WorkIsClaimed == \A b \in Bead : WorkStarted(b) => beads[b] = "claimed"

HeartbeatInv == HeartbeatTypeOK /\ TicksKnown /\ ClaimsHeld /\ WorkIsClaimed

(* What a step does to the assignment of work: nothing; an open bead is lost   *)
(* to somebody else, or claimed without anybody here knowing; a tick claims   *)
(* one; a tick gives one up; a tick launches a session for the one it holds.  *)
Nothing == UNCHANGED beads /\ HoldsSame /\ WorkSame
LosesBead ==
    /\ HoldsSame /\ WorkSame
    /\ \E b \in Bead : /\ beads[b] = "open"
                       /\ \/ beads' = [beads EXCEPT ![b] = "taken"]
                          \/ beads' = [beads EXCEPT ![b] = "claimed"] /\ b \in dropped'
ClaimsBead ==
    /\ WorkSame
    /\ \E t \in Beat, b \in Bead :
          /\ beads[b] = "open" /\ beads' = [beads EXCEPT ![b] = "claimed"]
          /\ \A u \in Beat, c \in Bead : Holds(u, c)' <=> Holds(u, c) \/ (u = t /\ c = b)
PutsDown(t, b) ==
    /\ UNCHANGED beads /\ Holds(t, b)
    /\ \A u \in Beat, c \in Bead : Holds(u, c)' <=> Holds(u, c) /\ ~(u = t /\ c = b)
GivesUpBead == WorkSame /\ \E t \in Beat, b \in dropped' \cap Bead : PutsDown(t, b)
StartsWork ==
    \E t \in Beat, s \in Session :
        /\ OneLaunched(s) /\ PutsDown(t, sessions[s].bead)
        /\ \/ WorkSame
           \/ \A c \in Bead : WorkStarted(c)' <=> WorkStarted(c) \/ c = sessions[s].bead

Effect == Nothing \/ LosesBead \/ ClaimsBead \/ GivesUpBead \/ StartsWork

(* Everything a step keeps, whatever its effect on the assignment. *)
WorkTypeOK ==
    /\ TypeOK
    /\ beads \in [Bead -> {"open", "claimed", "taken"}]
    /\ ticks \in [Beat -> TickRecord]
    /\ byTool \subseteq Session
Keeps ==
    /\ WorkTypeOK' /\ TicksKnown'
    /\ NoneLaunched \/ \E r \in Session : OneLaunched(r)

LEMMA MoveKeeps ==
  ASSUME HeartbeatTypeOK, TicksKnown, NEW t \in Beat, NEW r, MovesTo(t, r),
         NoneLaunched \/ \E q \in Session : OneLaunched(q), now' \in Time,
         beads' \in [Bead -> {"open", "claimed", "taken"}], byTool' \subseteq Session
  PROVE  Keeps
<1>1. /\ ticks' \in [Beat -> TickRecord] /\ ticks'[t] = r /\ KnownTick(r, sessions')
      /\ \A u \in Beat \ {t} : ticks'[u] = ticks[u]
  BY MoveHolds DEF MovesTo
<1>2. \A u \in Beat : ticks[u] \in TickRecord /\ KnownTick(ticks[u], sessions)
  BY DEF HeartbeatTypeOK, TicksKnown
<1>3. \A u \in Beat : KnownTick(ticks[u], sessions')
  BY <1>2, KnownStays
<1>4. TicksKnown'
  BY <1>1, <1>3 DEF TicksKnown
<1>5. sessions' \in [Session -> WorkerSession]
  BY DEF NoneLaunched, OneLaunched
<1>6. QED
  BY <1>1, <1>4, <1>5 DEF Keeps, WorkTypeOK, TypeOK

LEMMA BrainActsEffect ==
  ASSUME HeartbeatInv, NEW t \in Beat, NEW action \in BrainActions, BrainActs(t, action),
         byTool' = byTool \cup HelpersOfThose
  PROVE  Keeps /\ Nothing
<1> DEFINE s == ticks[t].worker
<1>1. HeartbeatTypeOK /\ TicksKnown /\ byTool \subseteq Session /\ byTool' \subseteq Session
  BY DEF HeartbeatInv, HeartbeatTypeOK, HelpersOfThose
<1>2. /\ ticks[t].pc = "deciding" /\ s \in Session
      /\ NoneLaunched \/ LaunchesBeside(s, action)
      /\ UNCHANGED now /\ EmptyHanded(t) /\ ticks'[t].pc # "deciding"
  BY <1>1, BrainActsEmptyHanded
<1>3. sessions[s].state # "unused"
  BY <1>1, <1>2 DEF TicksKnown, KnownTick
<1>4. WorkSame
  <2>1. CASE NoneLaunched
    BY <1>1, <2>1, NoneLaunchedWork
  <2>2. CASE LaunchesBeside(s, action)
    <3>1. PICK r \in Session : OneLaunched(r) /\ sessions[r].bead = sessions[s].bead
      BY <2>2 DEF LaunchesBeside
    <3>2. \A c \in Bead : WorkStarted(c)'
              <=> WorkStarted(c) \/ (c = sessions[r].bead /\ r \notin byTool')
      BY <1>1, <3>1, OneLaunchedWork
    <3>3. CASE s \in byTool
      <4>1. r \in HelpersOfThose
        BY <1>2, <3>1, <3>3 DEF HelpersOfThose, OneLaunched
      <4>2. QED
        BY <3>2, <4>1 DEF WorkSame
    <3>4. CASE s \notin byTool
      <4>1. WorkStarted(sessions[r].bead)
        BY <1>2, <1>3, <3>1, <3>4 DEF WorkStarted
      <4>2. QED
        BY <3>2, <4>1 DEF WorkSame
    <3>5. QED
      BY <3>3, <3>4
  <2>3. QED
    BY <1>2, <2>1, <2>2
<1>5. PICK r : MovesTo(t, r)
  BY <1>2 DEF EmptyHanded
<1>6. UNCHANGED beads /\ HoldsSame
  BY <1>1, <1>2, EmptyHandedHolds
<1>7. NoneLaunched \/ \E q \in Session : OneLaunched(q)
  BY <1>2 DEF LaunchesBeside
<1>8. Keeps
  BY <1>1, <1>2, <1>5, <1>6, <1>7, MoveKeeps DEF HeartbeatTypeOK, TypeOK
<1>9. QED
  BY <1>4, <1>6, <1>8 DEF Nothing

(* A step of tick t that launches nothing and holds nothing. *)
LEMMA EmptyHandedEffect ==
  ASSUME HeartbeatInv, NEW t \in Beat, NoneLaunched, UNCHANGED now, EmptyHanded(t),
         byTool' \in {byTool, byTool \cup HelpersOfThose}
  PROVE  Keeps /\ Nothing
<1>1. HeartbeatTypeOK /\ TicksKnown /\ byTool \subseteq Session
  BY DEF HeartbeatInv, HeartbeatTypeOK
<1>2. byTool' = byTool /\ WorkSame
  BY <1>1, NoneLaunchedWork
<1>3. UNCHANGED beads /\ HoldsSame
  BY <1>1, EmptyHandedHolds
<1>4. PICK r : MovesTo(t, r)
  BY DEF EmptyHanded
<1>5. Keeps
  BY <1>1, <1>2, <1>3, <1>4, MoveKeeps DEF HeartbeatTypeOK, TypeOK
<1>6. QED
  BY <1>2, <1>3, <1>5 DEF Nothing

LEMMA ClaimEffect ==
  ASSUME HeartbeatInv, NEW t \in Beat, NEW ok \in BOOLEAN,
         ClaimTried(t, ok) \/ ClaimNoted(t, ok) \/ BrainFails(t),
         byTool' \in {byTool, byTool \cup HelpersOfThose},
         ~ok \/ BrainFails(t) =>
            \A b \in Bead : Holds(t, b) \/ beads'[b] # beads[b] => b \in dropped'
  PROVE  Keeps /\ (Nothing \/ LosesBead \/ ClaimsBead \/ GivesUpBead)
<1>1. /\ HeartbeatTypeOK /\ TicksKnown /\ TypeOK /\ byTool \subseteq Session
      /\ beads \in [Bead -> {"open", "claimed", "taken"}] /\ now \in Time
  BY DEF HeartbeatInv, HeartbeatTypeOK, TypeOK
<1>2. /\ UNCHANGED <<sessions, now>>
      /\ \/ EmptyHanded(t) \/ KeepsHold(t) \/ \E b \in Bead : Takes(t, b)
         \/ LetsGo(t) /\ (~ok \/ BrainFails(t))
         \/ (\E b \in Bead : TakesUnaware(t, b)) /\ ~ok
  BY <1>1, ClaimSteps
<1>3. NoneLaunched
  BY <1>1, <1>2, UnchangedLaunchesNone
<1>4. byTool' = byTool /\ WorkSame
  BY <1>1, <1>3, NoneLaunchedWork
<1>5. CASE EmptyHanded(t)
  BY <1>2, <1>3, <1>5, EmptyHandedEffect
<1>6. ASSUME NEW r, MovesTo(t, r), beads' \in [Bead -> {"open", "claimed", "taken"}]
      PROVE  Keeps
  BY <1>1, <1>2, <1>3, <1>4, <1>6, MoveKeeps
<1>7. CASE KeepsHold(t)
  <2>1. PICK r : MovesTo(t, r) /\ r.pc = "brief" /\ r.bead = ticks[t].bead
    BY <1>7 DEF KeepsHold
  <2>2. UNCHANGED beads /\ ticks[t].pc = "note"
    BY <1>7 DEF KeepsHold
  <2>3. \A c : Holds(t, c)' <=> Holds(t, c)
    BY <1>1, <2>1, <2>2, MoveHolds DEF Holds
  <2>4. HoldsSame
    BY <1>1, <2>1, <2>3, MoveHolds DEF HoldsSame
  <2>5. QED
    BY <1>1, <1>4, <1>6, <2>1, <2>2, <2>4 DEF Nothing
<1>8. ASSUME NEW b \in Bead, Takes(t, b)
      PROVE  Keeps /\ ClaimsBead
  <2>1. PICK r : MovesTo(t, r) /\ r.pc = "note" /\ r.bead = b
    BY <1>8 DEF Takes
  <2>2. beads[b] = "open" /\ beads' = [beads EXCEPT ![b] = "claimed"] /\ ticks[t].pc = "claim"
    BY <1>8 DEF Takes
  <2>3. \A c : Holds(t, c)' <=> Holds(t, c) \/ c = b
    BY <1>1, <2>1, <2>2, MoveHolds DEF Holds
  <2>4. \A u \in Beat, c \in Bead : Holds(u, c)' <=> Holds(u, c) \/ (u = t /\ c = b)
    BY <1>1, <2>1, <2>3, MoveHolds
  <2>5. beads' \in [Bead -> {"open", "claimed", "taken"}]
    BY <1>1, <2>2
  <2>6. QED
    BY <1>4, <1>6, <2>1, <2>2, <2>4, <2>5 DEF ClaimsBead
<1>9. ASSUME NEW b \in Bead, TakesUnaware(t, b), ~ok
      PROVE  Keeps /\ LosesBead
  <2>1. /\ beads[b] = "open" /\ beads' = [beads EXCEPT ![b] = "claimed"]
        /\ ticks[t].pc = "claim" /\ MovesTo(t, Tick0)
    BY <1>9 DEF TakesUnaware
  <2>2. \A c : ~Holds(t, c)' /\ ~Holds(t, c)
    BY <1>1, <2>1, MoveHolds DEF Holds, Tick0
  <2>3. HoldsSame
    BY <1>1, <2>1, <2>2, MoveHolds DEF HoldsSame
  <2>4. beads' \in [Bead -> {"open", "claimed", "taken"}]
    BY <1>1, <2>1
  <2>5. b \in dropped'
    BY <1>1, <1>9, <2>1
  <2>6. QED
    BY <1>4, <1>6, <2>1, <2>3, <2>4, <2>5 DEF LosesBead
<1>10. ASSUME LetsGo(t), ~ok \/ BrainFails(t)
       PROVE  Keeps /\ GivesUpBead
  <2>1. UNCHANGED beads /\ ticks[t].pc \in {"note", "brief"} /\ MovesTo(t, Tick0)
    BY <1>10 DEF LetsGo
  <2>2. ticks[t].bead \in Bead /\ Holds(t, ticks[t].bead)
    BY <1>1, <2>1 DEF TicksKnown, KnownTick, Holds
  <2>3. \A c : ~Holds(t, c)'
    BY <1>1, <2>1, MoveHolds DEF Tick0
  <2>4. PutsDown(t, ticks[t].bead)
    BY <1>1, <2>1, <2>2, <2>3, MoveHolds DEF PutsDown, Holds
  <2>5. ticks[t].bead \in dropped'
    BY <1>10, <2>2
  <2>6. QED
    BY <1>1, <1>4, <1>6, <2>1, <2>2, <2>4, <2>5 DEF GivesUpBead
<1>11. QED
  BY <1>2, <1>5, <1>7, <1>8, <1>9, <1>10

LEMMA LaunchEffect ==
  ASSUME HeartbeatInv, NEW t \in Beat, NEW s \in Session, LaunchForBead(t, s),
         byTool' = byTool \cup HelpersOfThose
  PROVE  Keeps /\ StartsWork
<1> DEFINE b == sessions[s].bead
<1>1. HeartbeatTypeOK /\ TicksKnown /\ byTool \subseteq Session /\ byTool' \subseteq Session
  BY DEF HeartbeatInv, HeartbeatTypeOK, HelpersOfThose
<1>2. OneLaunched(s) /\ b = ticks[t].bead /\ UNCHANGED now /\ LetsGo(t)
  BY <1>1, LaunchStep
<1>3. UNCHANGED beads /\ ticks[t].pc \in {"note", "brief"} /\ MovesTo(t, Tick0)
  BY <1>2 DEF LetsGo
<1>4. b \in Bead /\ Holds(t, b)
  BY <1>1, <1>2, <1>3 DEF TicksKnown, KnownTick, Holds
<1>5. \A c : ~Holds(t, c)'
  BY <1>1, <1>3, MoveHolds DEF Tick0
<1>6. PutsDown(t, b)
  BY <1>1, <1>2, <1>3, <1>4, <1>5, MoveHolds DEF PutsDown, Holds
<1>7. \A c \in Bead : WorkStarted(c)' <=> WorkStarted(c) \/ (c = b /\ s \notin byTool')
  BY <1>1, <1>2, OneLaunchedWork
<1>8. WorkSame \/ \A c \in Bead : WorkStarted(c)' <=> WorkStarted(c) \/ c = b
  BY <1>7 DEF WorkSame
<1>9. Keeps
  BY <1>1, <1>2, <1>3, MoveKeeps DEF HeartbeatTypeOK, TypeOK
<1>10. QED
  BY <1>2, <1>6, <1>8, <1>9 DEF StartsWork

LEMMA ToolEffect ==
  ASSUME HeartbeatInv, NEW t \in Beat, NEW s \in Session, NEW tool \in BrainTools,
         BrainCallsTool(t, s, tool)
  PROVE  Keeps /\ Nothing
<1>1. /\ HeartbeatTypeOK /\ TicksKnown /\ TypeOK /\ byTool \subseteq Session
      /\ ToolActs(s, tool) /\ UNCHANGED <<now, beads, ticks>>
      /\ byTool' = IF tool = "launch" THEN byTool \cup {s} ELSE byTool
  BY DEF HeartbeatInv, HeartbeatTypeOK, BrainCallsTool
<1>2. IF tool = "launch" THEN OneLaunched(s) ELSE NoneLaunched
  BY <1>1, ToolLaunches
<1>3. WorkSame
  <2>1. CASE tool = "launch"
    BY <1>1, <1>2, <2>1, OneLaunchedWork DEF WorkSame
  <2>2. CASE tool # "launch"
    BY <1>1, <1>2, <2>2, NoneLaunchedWork
  <2>3. QED
    BY <2>1, <2>2
<1>4. HoldsSame
  BY <1>1 DEF HoldsSame, Holds
<1>5. /\ NoneLaunched \/ \E q \in Session : OneLaunched(q)
      /\ sessions' \in [Session -> WorkerSession]
  BY <1>2 DEF NoneLaunched, OneLaunched
<1>6. TicksKnown'
  <2>1. \A u \in Beat : ticks[u] \in TickRecord /\ KnownTick(ticks[u], sessions)
    BY <1>1 DEF HeartbeatTypeOK, TicksKnown
  <2>2. QED
    BY <1>1, <1>5, <2>1, KnownStays DEF TicksKnown
<1>7. WorkTypeOK'
  BY <1>1, <1>5 DEF WorkTypeOK, HeartbeatTypeOK, TypeOK
<1>8. QED
  BY <1>1, <1>3, <1>4, <1>5, <1>6, <1>7 DEF Keeps, Nothing

LEMMA OutsideEffect ==
  ASSUME HeartbeatInv, WorkerStep \/ \E b \in Bead : ForeignClaim(b),
         byTool' = byTool \cup HelpersOfThose
  PROVE  Keeps /\ (Nothing \/ LosesBead)
<1>1. HeartbeatTypeOK /\ TicksKnown /\ TypeOK /\ byTool \subseteq Session
  BY DEF HeartbeatInv, HeartbeatTypeOK
<1>2. NoneLaunched /\ now' \in Time /\ UNCHANGED ticks
  <2>1. CASE WorkerStep
    BY <1>1, <2>1, WorkerStepLaunchesNone DEF WorkerStep
  <2>2. CASE \E b \in Bead : ForeignClaim(b)
    BY <1>1, <2>2, UnchangedLaunchesNone DEF ForeignClaim, TypeOK
  <2>3. QED
    BY <2>1, <2>2
<1>3. byTool' = byTool /\ WorkSame
  BY <1>1, <1>2, NoneLaunchedWork
<1>4. HoldsSame
  BY <1>2 DEF HoldsSame, Holds
<1>5. TicksKnown'
  <2>1. \A u \in Beat : ticks[u] \in TickRecord /\ KnownTick(ticks[u], sessions)
    BY <1>1 DEF HeartbeatTypeOK, TicksKnown
  <2>2. QED
    BY <1>2, <2>1, KnownStays DEF TicksKnown
<1>6. beads' \in [Bead -> {"open", "claimed", "taken"}]
  BY <1>1 DEF WorkerStep, ForeignClaim, HeartbeatTypeOK
<1>7. Keeps
  BY <1>1, <1>2, <1>3, <1>5, <1>6 DEF Keeps, WorkTypeOK, HeartbeatTypeOK, TypeOK, NoneLaunched
<1>8. Nothing \/ LosesBead
  BY <1>3, <1>4 DEF Nothing, LosesBead, WorkerStep, ForeignClaim
<1>9. QED
  BY <1>7, <1>8

LEMMA StepEffect ==
  ASSUME HeartbeatInv, HeartbeatNext
  PROVE  Keeps /\ Effect
<1> USE DEF Effect
<1>1. HeartbeatTypeOK /\ TicksKnown /\ TypeOK
  BY DEF HeartbeatInv, HeartbeatTypeOK
<1>2. CASE \E t \in Beat, s \in Session, tool \in BrainTools : BrainCallsTool(t, s, tool)
  BY <1>2, ToolEffect
<1>3. CASE HeartbeatStep /\ byTool' = byTool \cup HelpersOfThose /\ UNCHANGED dropped
  <2>1. CASE WorkerStep \/ \E b \in Bead : ForeignClaim(b)
    BY <1>3, <2>1, OutsideEffect
  <2>2. ASSUME NEW t \in Beat, NEW P \in SUBSET Session, StartTick(t, P)
        PROVE  Keeps /\ Effect
    BY <1>1, <1>3, <2>2, StartIsEmptyHanded, EmptyHandedEffect
  <2>3. ASSUME NEW t \in Beat, NEW s \in Session, ReleaseCapacity(t, s) \/ AskBrain(t, s)
        PROVE  Keeps /\ Effect
    BY <1>1, <1>3, <2>3, FollowUpsAreEmptyHanded, EmptyHandedEffect
  <2>4. ASSUME NEW t \in Beat, NEW s \in Session, LaunchForBead(t, s)
        PROVE  Keeps /\ Effect
    BY <1>3, <2>4, LaunchEffect
  <2>5. ASSUME NEW t \in Beat, NEW action \in BrainActions, BrainActs(t, action)
        PROVE  Keeps /\ Effect
    BY <1>3, <2>5, BrainActsEffect
  <2>6. ASSUME NEW t \in Beat, CountWorkers(t)
        PROVE  Keeps /\ Effect
    BY <1>1, <1>3, <2>6, CountIsEmptyHanded, EmptyHandedEffect
  <2>7. ASSUME NEW t \in Beat, ReadyListed(t) \/ Rechecked(t)
        PROVE  Keeps /\ Effect
    <3>1. UNCHANGED <<sessions, now>> /\ EmptyHanded(t)
      BY <1>1, <2>7, SearchIsEmptyHanded
    <3>2. NoneLaunched
      BY <1>1, <3>1, UnchangedLaunchesNone
    <3>3. QED
      BY <1>3, <3>1, <3>2, EmptyHandedEffect
  <2>8. ASSUME NEW t \in Beat, ClaimTried(t, TRUE) \/ ClaimNoted(t, TRUE)
        PROVE  Keeps /\ Effect
    <3>1. ~BrainFails(t)
      BY <2>8 DEF ClaimTried, ClaimNoted, BrainFails
    <3>2. QED
      BY <1>3, <2>8, <3>1, ClaimEffect
  <2>9. QED
    BY <1>3, <2>1, <2>2, <2>3, <2>4, <2>5, <2>6, <2>7, <2>8 DEF HeartbeatStep
<1>4. ASSUME NEW t \in Beat, FailedCall(t), UNCHANGED byTool,
             dropped' = dropped \cup {b \in Bead : Holds(t, b) \/ beads'[b] # beads[b]}
      PROVE  Keeps /\ Effect
  <2>1. ClaimTried(t, FALSE) \/ ClaimNoted(t, FALSE) \/ BrainFails(t)
    BY <1>4 DEF FailedCall
  <2>2. \A b \in Bead : Holds(t, b) \/ beads'[b] # beads[b] => b \in dropped'
    BY <1>4
  <2>3. QED
    BY <1>4, <2>1, <2>2, ClaimEffect
<1>5. QED
  BY <1>2, <1>3, <1>4 DEF HeartbeatNext

(* The histories only add what they are to remember. *)
LEMMA HistoryStep ==
  ASSUME HeartbeatInv, HeartbeatNext
  PROVE  /\ dropped \subseteq dropped' /\ dropped' \subseteq Bead
         /\ renudged' \in [Beat -> SUBSET Session]
<1>1. dropped \subseteq Bead /\ renudged \in [Beat -> SUBSET Session]
  BY DEF HeartbeatInv, HeartbeatTypeOK
<1>2. dropped \subseteq dropped' /\ dropped' \subseteq Bead
  BY <1>1 DEF HeartbeatNext
<1>3. NudgedNow \subseteq Session
  BY DEF NudgedNow
<1>4. renudged' = [t \in Beat |->
        (renudged[t] \cup NudgedNow) \cap ticks[t].release \cap ticks'[t].release]
  BY DEF HeartbeatNext
<1> DEFINE next(t) == (renudged[t] \cup NudgedNow) \cap ticks[t].release \cap ticks'[t].release
<1>5. \A t \in Beat : next(t) \in SUBSET Session
  BY <1>1, <1>3
<1> HIDE DEF next
<1>6. [t \in Beat |-> next(t)] \in [Beat -> SUBSET Session]
  BY <1>5
<1>7. QED
  BY <1>2, <1>4, <1>6 DEF next

LEMMA InvInit == HeartbeatInit => HeartbeatInv
<1> SUFFICES ASSUME HeartbeatInit PROVE HeartbeatInv
  OBVIOUS
<1>1. TypeOK
  <2>1. \A b \in Bead : Fresh(b) \in WorkerSession
    BY SupervisorAssumption DEF Fresh, WorkerSession, Untracked, Time
  <2>2. QED
    BY <2>1, SupervisorAssumption DEF HeartbeatInit, Init, TypeOK, Time
<1>2. ticks \in [Beat -> TickRecord] /\ TicksKnown
  BY Tick0IsKnown DEF HeartbeatInit, TicksKnown
<1>3. \A t \in Beat : \A b : ~Holds(t, b)
  BY DEF HeartbeatInit, Holds, Tick0
<1>4. \A s \in Session : sessions[s].state = "unused"
  BY DEF HeartbeatInit, Init, Fresh
<1>5. QED
  BY <1>1, <1>2, <1>3, <1>4
  DEF HeartbeatInv, HeartbeatTypeOK, HeartbeatInit, ClaimsHeld, WorkIsClaimed, WorkStarted

LEMMA InvStep == HeartbeatInv /\ [HeartbeatNext]_hvars => HeartbeatInv'
<1> SUFFICES ASSUME HeartbeatInv, [HeartbeatNext]_hvars PROVE HeartbeatInv'
  OBVIOUS
<1>0. /\ ClaimsHeld /\ WorkIsClaimed /\ beads \in [Bead -> {"open", "claimed", "taken"}]
  BY DEF HeartbeatInv, HeartbeatTypeOK
<1>1. CASE UNCHANGED hvars
  BY <1>1 DEF HeartbeatInv, HeartbeatTypeOK, TypeOK, TicksKnown, ClaimsHeld, WorkIsClaimed,
              Holds, WorkStarted, hvars
<1>2. CASE HeartbeatNext
  <2>1. HeartbeatTypeOK' /\ TicksKnown' /\ Effect
    BY <1>2, StepEffect, HistoryStep DEF Keeps, WorkTypeOK, HeartbeatTypeOK
  <2>2. ClaimsHeld' /\ WorkIsClaimed'
    <3>1. CASE Nothing
      BY <1>0, <3>1 DEF Nothing, HoldsSame, WorkSame, ClaimsHeld, WorkIsClaimed
    <3>2. CASE LosesBead
      BY <1>0, <3>2 DEF LosesBead, HoldsSame, WorkSame, ClaimsHeld, WorkIsClaimed
    <3>3. CASE ClaimsBead
      BY <1>0, <3>3 DEF ClaimsBead, WorkSame, ClaimsHeld, WorkIsClaimed
    <3>4. CASE GivesUpBead
      BY <1>0, <3>4 DEF GivesUpBead, PutsDown, WorkSame, ClaimsHeld, WorkIsClaimed
    <3>5. CASE StartsWork
      <4>1. PICK t \in Beat, s \in Session :
              /\ PutsDown(t, sessions[s].bead)
              /\ \/ WorkSame
                 \/ \A c \in Bead : WorkStarted(c)' <=> WorkStarted(c) \/ c = sessions[s].bead
        BY <3>5 DEF StartsWork
      <4>2. sessions[s].bead \in Bead
        BY DEF HeartbeatInv, HeartbeatTypeOK, TypeOK, WorkerSession
      <4>3. QED
        BY <1>0, <4>1, <4>2 DEF PutsDown, WorkSame, ClaimsHeld, WorkIsClaimed
    <3>6. QED
      BY <2>1, <3>1, <3>2, <3>3, <3>4, <3>5 DEF Effect
  <2>3. QED
    BY <2>1, <2>2 DEF HeartbeatInv
<1>3. QED
  BY <1>1, <1>2

LEMMA InvHolds == HeartbeatSpec => []HeartbeatInv
BY InvInit, InvStep, PTL DEF HeartbeatSpec

(* Sessions, beads and the local state of every tick keep their types, for     *)
(* any number of ticks under way and whatever the brain and bd answer.        *)
THEOREM HeartbeatTypeCorrect == HeartbeatSpec => []HeartbeatTypeOK
<1>1. HeartbeatInv => HeartbeatTypeOK
  BY DEF HeartbeatInv
<1>2. QED
  BY <1>1, InvHolds, PTL

(* A bead that a tick claimed and has not launched a worker for is in no other *)
(* tick's hands, and no worker was launched for it but by the brain itself:    *)
(* the recheck before the claim may be stale, the claim alone decides.         *)
THEOREM ClaimsAreExclusive == HeartbeatSpec => []ExclusiveClaim
<1>1. HeartbeatInv => ExclusiveClaim
  BY DEF HeartbeatInv, ClaimsHeld, ExclusiveClaim, WorkStarted
<1>2. QED
  BY <1>1, InvHolds, PTL

(* A bead the heartbeat claimed has or had a worker, or a tick is about to      *)
(* launch one, or a call to bd or to the brain failed on the way from its      *)
(* claim to the launch: no decision, stop, full capacity or concurrent tick   *)
(* makes the heartbeat forget a claim, and each failure forgets at most the    *)
(* one bead in the hands of its tick.                                         *)
THEOREM NoClaimForgotten == HeartbeatSpec => []NoOrphanClaim
<1>1. HeartbeatInit => NoOrphanClaim
  BY DEF HeartbeatInit, NoOrphanClaim
<1>2. HeartbeatInv /\ NoOrphanClaim /\ [HeartbeatNext]_hvars => NoOrphanClaim'
  <2> SUFFICES ASSUME HeartbeatInv, NoOrphanClaim, [HeartbeatNext]_hvars,
                      NEW b \in Bead, beads'[b] = "claimed"
               PROVE  \/ b \in dropped'
                      \/ \E s \in Session : sessions'[s].bead = b /\ sessions'[s].state # "unused"
                      \/ \E t \in Beat : Holds(t, b)'
    BY DEF NoOrphanClaim
  <2>1. CASE UNCHANGED hvars
    BY <2>1 DEF NoOrphanClaim, Holds, hvars
  <2>2. CASE HeartbeatNext
    <3>1. Keeps /\ Effect /\ dropped \subseteq dropped'
      BY <2>2, StepEffect, HistoryStep
    <3>2. \A s \in Session : sessions[s].state # "unused"
            => sessions'[s].bead = sessions[s].bead /\ sessions'[s].state # "unused"
      BY <3>1, StartedStays DEF Keeps, NoneLaunched, OneLaunched, ContinueAll, Continues
    <3>3. beads \in [Bead -> {"open", "claimed", "taken"}]
      BY DEF HeartbeatInv, HeartbeatTypeOK
    <3>4. CASE Nothing \/ LosesBead
      BY <3>1, <3>2, <3>3, <3>4 DEF Nothing, LosesBead, HoldsSame, NoOrphanClaim
    <3>5. CASE ClaimsBead
      BY <3>1, <3>2, <3>3, <3>5 DEF ClaimsBead, NoOrphanClaim
    <3>6. CASE StartsWork
      BY <3>1, <3>2, <3>3, <3>6 DEF StartsWork, OneLaunched, PutsDown, NoOrphanClaim
    <3>7. CASE GivesUpBead
      BY <3>1, <3>2, <3>3, <3>7 DEF GivesUpBead, PutsDown, NoOrphanClaim
    <3>8. QED
      BY <3>1, <3>4, <3>5, <3>6, <3>7 DEF Effect
  <2>3. QED
    BY <2>1, <2>2
<1>3. QED
  BY <1>1, <1>2, InvHolds, PTL DEF HeartbeatSpec
-----------------------------------------------------------------------------
(* The refinement.  At most one tick holds a bead, so the number of claimants  *)
(* is 0 or 1.                                                                 *)
LEMMA AtMostOneCounted ==
  ASSUME NEW H, \A t, u \in H : t = u
  PROVE  Cardinality(H) = IF H = {} THEN 0 ELSE 1
<1>1. CASE H = {}
  BY <1>1, FS_EmptySet
<1>2. ASSUME NEW t \in H
      PROVE  Cardinality(H) = 1
  <2>1. H = {t}
    OBVIOUS
  <2>2. QED
    BY <2>1, FS_Singleton
<1>3. QED
  BY <1>1, <1>2

Held(b) == \E t \in Beat : Holds(t, b)
HoldersMap == [b \in Bead |-> Claimants(b)]
StartedMap == [b \in Bead |-> WorkStarted(b)]

LEMMA ClaimantsCounted ==
  ASSUME HeartbeatInv, HeartbeatInv'
  PROVE  /\ HoldersMap = [b \in Bead |-> IF Held(b) THEN 1 ELSE 0]
         /\ HoldersMap' = [b \in Bead |-> IF Held(b)' THEN 1 ELSE 0]
<1>1. ASSUME NEW b \in Bead
      PROVE  Claimants(b) = IF Held(b) THEN 1 ELSE 0
  <2>1. \A t, u \in {v \in Beat : Holds(v, b)} : t = u
    BY DEF HeartbeatInv, ClaimsHeld
  <2>2. QED
    BY <2>1, AtMostOneCounted DEF Claimants, Held
<1>2. ASSUME NEW b \in Bead
      PROVE  Claimants(b)' = IF Held(b)' THEN 1 ELSE 0
  <2>1. \A t, u \in {v \in Beat : Holds(v, b)'} : t = u
    BY DEF HeartbeatInv, ClaimsHeld
  <2>2. QED
    BY <2>1, AtMostOneCounted DEF Claimants, Held
<1>3. QED
  BY <1>1, <1>2 DEF HoldersMap

(* The derived variable after a step that changes it at one bead, or nowhere. *)
LEMMA HoldersAfter ==
  ASSUME HeartbeatInv, HeartbeatInv'
  PROVE  /\ HoldsSame => HoldersMap' = HoldersMap
         /\ \A t \in Beat, b \in Bead :
              (\A u \in Beat, c \in Bead : Holds(u, c)' <=> Holds(u, c) \/ (u = t /\ c = b))
                => HoldersMap' = [HoldersMap EXCEPT ![b] = 1]
         /\ \A t \in Beat, b \in Bead :
              PutsDown(t, b) => HoldersMap[b] = 1 /\ HoldersMap' = [HoldersMap EXCEPT ![b] = 0]
<1>1. ASSUME HoldsSame
      PROVE  HoldersMap' = HoldersMap
  BY <1>1, ClaimantsCounted DEF HoldsSame, Held
<1>2. ASSUME NEW t \in Beat, NEW b \in Bead,
             \A u \in Beat, c \in Bead : Holds(u, c)' <=> Holds(u, c) \/ (u = t /\ c = b)
      PROVE  HoldersMap' = [HoldersMap EXCEPT ![b] = 1]
  <2>1. \A c \in Bead : Held(c)' <=> Held(c) \/ c = b
    BY <1>2 DEF Held
  <2>2. QED
    BY <2>1, ClaimantsCounted
<1>3. ASSUME NEW t \in Beat, NEW b \in Bead, PutsDown(t, b)
      PROVE  HoldersMap[b] = 1 /\ HoldersMap' = [HoldersMap EXCEPT ![b] = 0]
  <2>1. \A u \in Beat : Holds(u, b) => u = t
    BY <1>3 DEF PutsDown, HeartbeatInv, ClaimsHeld
  <2>2. Held(b) /\ \A c \in Bead : Held(c)' <=> Held(c) /\ c # b
    BY <1>3, <2>1 DEF PutsDown, Held
  <2>3. QED
    BY <2>2, ClaimantsCounted
<1>4. QED
  BY <1>1, <1>2, <1>3

LEMMA StartedAfter ==
  /\ WorkSame => StartedMap' = StartedMap
  /\ \A b \in Bead :
        (\A c \in Bead : WorkStarted(c)' <=> WorkStarted(c) \/ c = b)
          => StartedMap' = [StartedMap EXCEPT ![b] = TRUE]
<1>1. \A c : WorkStarted(c) \in BOOLEAN /\ WorkStarted(c)' \in BOOLEAN
  BY DEF WorkStarted
<1>2. ASSUME WorkSame
      PROVE  StartedMap' = StartedMap
  <2>1. \A c \in Bead : WorkStarted(c)' = WorkStarted(c)
    BY <1>1, <1>2 DEF WorkSame
  <2>2. QED
    BY <2>1 DEF StartedMap
<1>3. ASSUME NEW b \in Bead, \A c \in Bead : WorkStarted(c)' <=> WorkStarted(c) \/ c = b
      PROVE  StartedMap' = [StartedMap EXCEPT ![b] = TRUE]
  <2>1. \A c \in Bead : WorkStarted(c)' = IF c = b THEN TRUE ELSE WorkStarted(c)
    BY <1>1, <1>3
  <2>2. QED
    BY <2>1 DEF StartedMap
<1>4. QED
  BY <1>2, <1>3

(* Whoever else claims work, whichever calls fail and however ticks overlap,   *)
(* the heartbeat hands a bead out once, and starts work only on a bead a tick  *)
(* claimed, by that tick (selectAndClaimBeadsWork, dispatchReadyBeadsWork):    *)
(* every step is a step of WorkAssignment or leaves its variables alone.      *)
THEOREM AssignmentIsImplemented == HeartbeatSpec => ImplementsAssignment
<1>1. HeartbeatInit => Assignment!Init
  <2> SUFFICES ASSUME HeartbeatInit PROVE Assignment!Init
    OBVIOUS
  <2>1. \A t \in Beat : \A b : ~Holds(t, b)
    BY DEF HeartbeatInit, Holds, Tick0
  <2>2. \A b : {t \in Beat : Holds(t, b)} = {}
    BY <2>1
  <2>3. \A b : Claimants(b) = 0
    BY <2>2, FS_EmptySet DEF Claimants
  <2>4. \A s \in Session : sessions[s].state = "unused"
    BY DEF HeartbeatInit, Init, Fresh
  <2>5. \A b : WorkStarted(b) = FALSE
    BY <2>4 DEF WorkStarted
  <2>6. QED
    BY <2>3, <2>5 DEF Assignment!Init, HeartbeatInit
<1>2. HeartbeatInv /\ HeartbeatInv' /\ [HeartbeatNext]_hvars
        => [Assignment!Next]_<<beads, [b \in Bead |-> Claimants(b)], [b \in Bead |-> WorkStarted(b)]>>
  <2> SUFFICES ASSUME HeartbeatInv, HeartbeatInv', [HeartbeatNext]_hvars
               PROVE  Assignment!Next \/ UNCHANGED <<beads, HoldersMap, StartedMap>>
    BY DEF HoldersMap, StartedMap
  <2>1. /\ beads \in [Bead -> {"open", "claimed", "taken"}]
        /\ ClaimsHeld /\ HoldersMap = [b \in Bead |-> IF Held(b) THEN 1 ELSE 0]
        /\ \A b \in Bead : StartedMap[b] = WorkStarted(b)
    BY ClaimantsCounted DEF HeartbeatInv, HeartbeatTypeOK, StartedMap
  <2>2. CASE UNCHANGED hvars
    BY <2>2 DEF hvars, HoldersMap, StartedMap, Claimants, Holds, WorkStarted
  <2>3. CASE HeartbeatNext
    <3>1. Effect
      BY <2>3, StepEffect
    <3>2. CASE Nothing
      BY <3>2, HoldersAfter, StartedAfter DEF Nothing
    <3>3. CASE LosesBead
      <4>1. PICK b \in Bead : /\ beads[b] = "open"
                              /\ beads' \in {[beads EXCEPT ![b] = o] : o \in {"taken", "claimed"}}
        BY <3>3 DEF LosesBead
      <4>2. UNCHANGED <<HoldersMap, StartedMap>>
        BY <3>3, HoldersAfter, StartedAfter DEF LosesBead
      <4>3. Assignment!Lose(b)
        BY <4>1, <4>2 DEF Assignment!Lose, HoldersMap, StartedMap
      <4>4. QED
        BY <4>3 DEF Assignment!Next
    <3>4. CASE ClaimsBead
      <4>1. PICK t \in Beat, b \in Bead :
              /\ beads[b] = "open" /\ beads' = [beads EXCEPT ![b] = "claimed"]
              /\ \A u \in Beat, c \in Bead : Holds(u, c)' <=> Holds(u, c) \/ (u = t /\ c = b)
        BY <3>4 DEF ClaimsBead
      <4>2. HoldersMap[b] = 0
        BY <2>1, <4>1 DEF ClaimsHeld, Held
      <4>3. HoldersMap' = [HoldersMap EXCEPT ![b] = 1] /\ StartedMap' = StartedMap
        BY <3>4, <4>1, HoldersAfter, StartedAfter DEF ClaimsBead
      <4>4. Assignment!Claim(b)
        BY <4>1, <4>2, <4>3 DEF Assignment!Claim, HoldersMap, StartedMap
      <4>5. QED
        BY <4>4 DEF Assignment!Next
    <3>5. ASSUME NEW t \in Beat, NEW b \in Bead, PutsDown(t, b)
          PROVE  /\ beads' = beads /\ beads[b] = "claimed" /\ StartedMap[b] = FALSE
                 /\ HoldersMap[b] = 1 /\ HoldersMap' = [HoldersMap EXCEPT ![b] = 0]
      <4>1. beads[b] = "claimed" /\ ~WorkStarted(b)
        BY <2>1, <3>5 DEF PutsDown, ClaimsHeld
      <4>2. WorkStarted(b) \in BOOLEAN
        BY DEF WorkStarted
      <4>3. StartedMap[b] = FALSE
        BY <2>1, <4>1, <4>2
      <4>4. QED
        BY <3>5, <4>1, <4>3, HoldersAfter DEF PutsDown
    <3>6. ASSUME NEW t \in Beat, NEW b \in Bead, PutsDown(t, b), WorkSame
          PROVE  Assignment!Next
      <4>1. Assignment!GiveUp(b)
        BY <3>5, <3>6, StartedAfter DEF Assignment!GiveUp, Assignment!LetGo, HoldersMap, StartedMap
      <4>2. QED
        BY <4>1 DEF Assignment!Next
    <3>7. CASE GivesUpBead
      BY <3>6, <3>7 DEF GivesUpBead
    <3>8. CASE StartsWork
      <4>1. PICK t \in Beat, s \in Session :
              /\ PutsDown(t, sessions[s].bead)
              /\ \/ WorkSame
                 \/ \A c \in Bead : WorkStarted(c)' <=> WorkStarted(c) \/ c = sessions[s].bead
        BY <3>8 DEF StartsWork
      <4> DEFINE b == sessions[s].bead
      <4>2. b \in Bead
        BY DEF HeartbeatInv, HeartbeatTypeOK, TypeOK, WorkerSession
      <4>3. CASE WorkSame
        BY <3>6, <4>1, <4>2, <4>3
      <4>4. CASE \A c \in Bead : WorkStarted(c)' <=> WorkStarted(c) \/ c = b
        <5>1. StartedMap' = [StartedMap EXCEPT ![b] = TRUE]
          BY <4>2, <4>4, StartedAfter
        <5> HIDE DEF b
        <5>2. Assignment!StartWork(b)
          BY <3>5, <4>1, <4>2, <5>1
          DEF Assignment!StartWork, Assignment!LetGo, HoldersMap, StartedMap, b
        <5>3. QED
          BY <4>2, <5>2 DEF Assignment!Next
      <4>5. QED
        BY <4>1, <4>3, <4>4
    <3>9. QED
      BY <3>1, <3>2, <3>3, <3>4, <3>7, <3>8 DEF Effect
  <2>4. QED
    BY <2>2, <2>3
<1>3. QED
  BY <1>1, <1>2, InvHolds, PTL DEF HeartbeatSpec, ImplementsAssignment, Assignment!Spec
-----------------------------------------------------------------------------
(* One tick at a time, which the code does not see to: its timer and tool start  *)
(* another while one waits.  A tick then has at most one worker per bead to look *)
(* after, and launches within the capacity it counted.                           *)
OneTickAtATime == \A t, u \in Beat : t = u
LaunchesForWorkOnly == "launch" \notin BrainTools /\ "launch_review_worker" \notin BrainActions

(* The workers a tick has yet to ask the brain about. *)
Asks(r, s) == s \in r.consult \/ (r.pc = "deciding" /\ r.worker = s)
(* The workers that count: active, or about to be asked about, though they may *)
(* have ended since they were seen stalled.                                  *)
Engaged == {s \in Session : ActiveWorker(sessions[s]) \/ \E t \in Beat : Asks(ticks[t], s)}

Dispatching(r) == r.pc \in {"ready", "show", "claim", "note", "brief"}
(* A tick asks about a worker once, and looks for work only below capacity.   *)
Careful(r) ==
    /\ r.pc = "deciding" => r.worker \notin r.consult
    /\ r.pc \in {"show", "claim", "note", "brief"} => ~r.full

(* Tick t goes on without taking in a worker or recounting. *)
GoesOn(t) ==
    /\ \A s : Asks(ticks'[t], s) => Asks(ticks[t], s)
    /\ ticks'[t].release \subseteq ticks[t].release
    /\ Careful(ticks[t]) => Careful(ticks'[t])
    /\ Dispatching(ticks'[t]) => Dispatching(ticks[t]) /\ ticks'[t].full = ticks[t].full

LEMMA MovedTo ==
  ASSUME HeartbeatTypeOK, NEW t \in Beat, NEW r, Move(t, r)
  PROVE  ticks'[t] = r
BY DEF HeartbeatTypeOK, Move

LEMMA EndGoesOn ==
  ASSUME HeartbeatTypeOK, NEW t \in Beat, Move(t, Tick0)
  PROVE  GoesOn(t)
BY MovedTo DEF GoesOn, Asks, Careful, Dispatching, Tick0

LEMMA StepGoesOn ==
  ASSUME HeartbeatTypeOK, NEW t \in Beat, NEW pc \in {"claim", "note", "brief"},
         Move(t, [ticks[t] EXCEPT !.pc = pc]), ticks[t].pc \in {"show", "claim", "note"}
  PROVE  GoesOn(t)
<1> DEFINE r == [ticks[t] EXCEPT !.pc = pc]
<1>1. /\ r.pc = pc /\ r.consult = ticks[t].consult /\ r.full = ticks[t].full
      /\ r.release = ticks[t].release
  BY DEF HeartbeatTypeOK, TickRecord
<1>2. ticks'[t] = r
  BY MovedTo
<1> HIDE DEF r
<1>3. QED
  BY <1>1, <1>2 DEF GoesOn, Asks, Careful, Dispatching

LEMMA ClaimGoesOn ==
  ASSUME HeartbeatTypeOK, NEW t \in Beat, NEW ok \in BOOLEAN,
         ClaimTried(t, ok) \/ ClaimNoted(t, ok) \/ BrainFails(t)
  PROVE  GoesOn(t)
<1>1. \/ EndTick(t)
      \/ /\ ticks[t].pc \in {"claim", "note"}
         /\ \E pc \in {"note", "brief"} : Move(t, [ticks[t] EXCEPT !.pc = pc])
  BY DEF ClaimTried, ClaimNoted, BrainFails
<1>2. QED
  BY <1>1, EndGoesOn, StepGoesOn DEF EndTick

LEMMA LaunchGoesOn ==
  ASSUME HeartbeatTypeOK, NEW t \in Beat, NEW s \in Session, LaunchForBead(t, s)
  PROVE  GoesOn(t)
BY EndGoesOn DEF LaunchForBead, EndTick

LEMMA SearchGoesOn ==
  ASSUME HeartbeatTypeOK, TicksKnown, NEW t \in Beat, ReadyListed(t) \/ Rechecked(t)
  PROVE  GoesOn(t)
<1>1. /\ TypeOK /\ ticks[t] \in TickRecord /\ KnownTick(ticks[t], sessions)
  BY DEF HeartbeatTypeOK, TicksKnown
<1>2. ASSUME NEW candidates \in SUBSET Bead, SelectFrom(t, candidates), sessions' = sessions,
             ticks[t].pc \in {"ready", "show"}
      PROVE  GoesOn(t)
  <2>1. PICK r :
          /\ MovesTo(t, r) /\ r.release \subseteq ticks[t].release
          /\ \/ r.pc = "show" /\ r.full = ticks[t].full /\ ~r.full /\ r.consult = ticks[t].consult
             \/ r.pc = "ready" /\ r.full = ticks[t].full /\ r.consult = ticks[t].consult
             \/ r = Tick0
    BY <1>1, <1>2, SelectMovesTo
  <2>2. ticks'[t] = r /\ Move(t, r)
    BY <2>1, MovedTo DEF MovesTo
  <2>3. CASE r = Tick0
    BY <2>2, <2>3, EndGoesOn
  <2>4. CASE r # Tick0
    BY <1>2, <2>1, <2>2, <2>4 DEF GoesOn, Asks, Careful, Dispatching
  <2>5. QED
    BY <2>3, <2>4
<1>3. CASE ReadyListed(t)
  <2>1. {b \in StageBeads(ticks[t].stage) : beads[b] = "open"} \in SUBSET Bead
    BY HeartbeatAssumption DEF StageBeads
  <2>2. QED
    BY <1>2, <1>3, <2>1 DEF ReadyListed
<1>4. CASE Rechecked(t)
  <2>1. ticks[t].pc = "show" /\ sessions' = sessions
    BY <1>4 DEF Rechecked
  <2>2. \/ Move(t, [ticks[t] EXCEPT !.pc = "claim"])
        \/ SelectFrom(t, ticks[t].remaining \ {ticks[t].bead})
    BY <1>4 DEF Rechecked
  <2>3. ticks[t].remaining \ {ticks[t].bead} \in SUBSET Bead
    BY <1>1 DEF TickRecord
  <2>4. QED
    BY <1>2, <2>1, <2>2, <2>3, StepGoesOn
<1>5. QED
  BY <1>3, <1>4

LEMMA FollowUpGoesOn ==
  ASSUME HeartbeatTypeOK, NEW t \in Beat, NEW s \in Session,
         ReleaseCapacity(t, s) \/ AskBrain(t, s)
  PROVE  GoesOn(t)
<1>1. ticks[t] \in TickRecord /\ ticks[t].pc = "followups"
  BY DEF HeartbeatTypeOK, ReleaseCapacity, AskBrain
<1>2. CASE EndTick(t)
  BY <1>2, EndGoesOn DEF EndTick
<1>3. CASE Move(t, [ticks[t] EXCEPT !.release = @ \ {s}])
  <2> DEFINE r == [ticks[t] EXCEPT !.release = @ \ {s}]
  <2>1. /\ r.pc = "followups" /\ r.consult = ticks[t].consult
        /\ r.release \subseteq ticks[t].release
    BY <1>1 DEF TickRecord
  <2>2. ticks'[t] = r
    BY <1>3, MovedTo
  <2> HIDE DEF r
  <2>3. QED
    BY <2>1, <2>2 DEF GoesOn, Asks, Careful, Dispatching
<1>4. CASE AskBrain(t, s)
  <2> DEFINE r == [ticks[t] EXCEPT !.pc = "deciding", !.worker = s, !.consult = @ \ {s}]
  <2>1. /\ r.pc = "deciding" /\ r.worker = s /\ r.consult = ticks[t].consult \ {s}
        /\ r.release = ticks[t].release
    BY <1>1 DEF TickRecord
  <2>2. ticks'[t] = r /\ s \in ticks[t].consult
    BY <1>4, MovedTo DEF AskBrain
  <2> HIDE DEF r
  <2>3. QED
    BY <2>1, <2>2 DEF GoesOn, Asks, Careful, Dispatching
<1>5. QED
  BY <1>2, <1>3, <1>4 DEF ReleaseCapacity

(* After the brain's decision its worker is no longer asked about. *)
LEMMA BrainActsGoesOn ==
  ASSUME HeartbeatTypeOK, NEW t \in Beat, NEW action, BrainActs(t, action)
  PROVE  /\ GoesOn(t)
         /\ Careful(ticks[t]) => ~Asks(ticks'[t], ticks[t].worker)
<1>1. ticks[t] \in TickRecord /\ ticks[t].pc = "deciding"
  BY DEF HeartbeatTypeOK, BrainActs
<1>2. CASE EndTick(t)
  <2>1. GoesOn(t) /\ ticks'[t] = Tick0
    BY <1>2, EndGoesOn, MovedTo DEF EndTick
  <2>2. ~Asks(Tick0, ticks[t].worker)
    BY DEF Asks, Tick0
  <2>3. QED
    BY <2>1, <2>2
<1>3. CASE Move(t, [ticks[t] EXCEPT !.pc = "followups", !.worker = NoSession])
  <2> DEFINE r == [ticks[t] EXCEPT !.pc = "followups", !.worker = NoSession]
  <2>1. /\ r.pc = "followups" /\ r.consult = ticks[t].consult
        /\ r.release = ticks[t].release
    BY <1>1 DEF TickRecord
  <2>2. ticks'[t] = r
    BY <1>3, MovedTo
  <2> HIDE DEF r
  <2>3. QED
    BY <1>1, <2>1, <2>2 DEF GoesOn, Asks, Careful, Dispatching
<1>4. QED
  BY <1>2, <1>3 DEF BrainActs

(* A tick starts with stalled workers to ask about, which are active. *)
LEMMA StartAsksActive ==
  ASSUME HeartbeatTypeOK, NEW t \in Beat, NEW P, StartTick(t, P)
  PROVE  /\ \A s : Asks(ticks'[t], s) => s \in Session /\ ActiveWorker(sessions'[s])
         /\ Careful(ticks'[t]) /\ ~Dispatching(ticks'[t])
<1> DEFINE S == RecoveredAndCleaned(P)
           stalled == {s \in Session : S[s].state = "stalled"}
           r == [Tick0 EXCEPT
                   !.pc = "followups",
                   !.release = {s \in stalled : DueForRelease(S[s])},
                   !.consult = IF BrainActions = {} THEN {}
                               ELSE {s \in stalled : S[s].attempts = 0}]
<1>1. sessions' = S /\ Move(t, r)
  BY DEF StartTick, RecoveredAndCleaned
<1>2. r.pc = "followups" /\ r.consult \subseteq stalled
  BY DEF Tick0
<1>3. ticks'[t] = r
  BY <1>1, MovedTo
<1> HIDE DEF r, S
<1>4. QED
  BY <1>1, <1>2, <1>3 DEF Asks, Careful, Dispatching, ActiveWorker, Active

(* The count of the workers before the dispatch. *)
LEMMA CountIsExact ==
  ASSUME HeartbeatTypeOK, NEW t \in Beat, CountWorkers(t)
  PROVE  /\ \A s : ~Asks(ticks'[t], s)
         /\ ticks'[t].pc = "ready" /\ ticks'[t].release = {}
         /\ ticks'[t].full =
              (Cardinality({s \in Session : ActiveWorker(sessions'[s])}) >= MaxConcurrent)
<1> DEFINE full == Cardinality({s \in Session : ActiveWorker(RefreshDetachedAgents(sessions)[s])})
                     >= MaxConcurrent
           r == [ticks[t] EXCEPT !.pc = "ready", !.full = full]
<1>1. /\ ticks[t] \in TickRecord /\ ticks[t].consult = {} /\ ticks[t].release = {} /\ Move(t, r)
      /\ sessions' = RefreshDetachedAgents(sessions)
  BY DEF CountWorkers, HeartbeatTypeOK
<1>2. full = (Cardinality({s \in Session : ActiveWorker(sessions'[s])}) >= MaxConcurrent)
  BY <1>1
<1> HIDE DEF full
<1>3. r.pc = "ready" /\ r.consult = {} /\ r.release = {} /\ r.full = full
  BY <1>1 DEF TickRecord
<1>4. ticks'[t] = r
  BY <1>1, MovedTo
<1> HIDE DEF r
<1>5. QED
  BY <1>2, <1>3, <1>4 DEF Asks

(* The four ways in which the engaged workers change: none is added; none is   *)
(* added and they are counted; one takes the place of another; one is added   *)
(* by a tick that had counted them.                                          *)
DispatchKept == \A t \in Beat : Dispatching(ticks'[t])
                    => Dispatching(ticks[t]) /\ ticks'[t].full = ticks[t].full
Shrinks == Engaged' \subseteq Engaged /\ DispatchKept
Recounted ==
    /\ Engaged' \subseteq Engaged
    /\ \A t \in Beat : ticks'[t].full = (Cardinality(Engaged') >= MaxConcurrent)
Replaced ==
    /\ \E s \in Engaged, r \in Session :
          /\ sessions[r].bead = sessions[s].bead
          /\ Engaged' \subseteq (Engaged \ {s}) \cup {r}
    /\ DispatchKept /\ \A t \in Beat : ~Dispatching(ticks[t])
Extended ==
    /\ \E t \in Beat, s \in Session :
          /\ ticks[t].pc = "brief" /\ Holds(t, sessions[s].bead) /\ sessions[s].bead \in Bead
          /\ Engaged' \subseteq Engaged \cup {s}
    /\ \A t \in Beat : ~Dispatching(ticks'[t])

AllCareful == \A t \in Beat : Careful(ticks[t])

LEMMA GoesOnShrinks ==
  ASSUME OneTickAtATime, AllCareful, NoneLaunched, NEW t \in Beat, GoesOn(t)
  PROVE  Shrinks /\ AllCareful'
<1>1. \A u \in Beat : u = t
  BY DEF OneTickAtATime
<1>2. \A s \in Session : ActiveWorker(sessions'[s]) => ActiveWorker(sessions[s])
  BY DEF NoneLaunched, ContinueAll, Continues
<1>3. Engaged' \subseteq Engaged
  BY <1>1, <1>2 DEF Engaged, GoesOn
<1>4. QED
  BY <1>1, <1>3 DEF Shrinks, DispatchKept, AllCareful, GoesOn

LEMMA UnmovedShrinks ==
  ASSUME AllCareful, NoneLaunched, UNCHANGED ticks
  PROVE  Shrinks /\ AllCareful'
<1>1. \A s \in Session : ActiveWorker(sessions'[s]) => ActiveWorker(sessions[s])
  BY DEF NoneLaunched, ContinueAll, Continues
<1>2. Engaged' \subseteq Engaged
  BY <1>1 DEF Engaged
<1>3. QED
  BY <1>2 DEF Shrinks, DispatchKept, AllCareful

LEMMA StartShrinks ==
  ASSUME HeartbeatTypeOK, OneTickAtATime, NEW t \in Beat, NEW P, StartTick(t, P), NoneLaunched
  PROVE  Shrinks /\ AllCareful'
<1>1. \A u \in Beat : u = t
  BY DEF OneTickAtATime
<1>2. \A s \in Session : ActiveWorker(sessions'[s]) => ActiveWorker(sessions[s])
  BY DEF NoneLaunched, ContinueAll, Continues
<1>3. /\ \A s : Asks(ticks'[t], s) => s \in Session /\ ActiveWorker(sessions'[s])
      /\ Careful(ticks'[t]) /\ ~Dispatching(ticks'[t])
  BY StartAsksActive
<1>4. Engaged' \subseteq Engaged
  BY <1>1, <1>2, <1>3 DEF Engaged
<1>5. QED
  BY <1>1, <1>3, <1>4 DEF Shrinks, DispatchKept, AllCareful

LEMMA CountRecounts ==
  ASSUME HeartbeatTypeOK, OneTickAtATime, NEW t \in Beat, CountWorkers(t), NoneLaunched
  PROVE  Recounted /\ AllCareful'
<1>1. \A u \in Beat : u = t
  BY DEF OneTickAtATime
<1>2. \A s \in Session : ActiveWorker(sessions'[s]) => ActiveWorker(sessions[s])
  BY DEF NoneLaunched, ContinueAll, Continues
<1>3. /\ \A s : ~Asks(ticks'[t], s)
      /\ ticks'[t].pc = "ready"
      /\ ticks'[t].full =
           (Cardinality({s \in Session : ActiveWorker(sessions'[s])}) >= MaxConcurrent)
  BY CountIsExact
<1>4. Engaged' = {s \in Session : ActiveWorker(sessions'[s])}
  BY <1>1, <1>3 DEF Engaged
<1>5. Engaged' \subseteq Engaged
  BY <1>2, <1>4 DEF Engaged
<1>6. QED
  BY <1>1, <1>3, <1>4, <1>5 DEF Recounted, AllCareful, Careful

LEMMA BrainActsReplaces ==
  ASSUME HeartbeatInv, OneTickAtATime, LaunchesForWorkOnly, AllCareful,
         NEW t \in Beat, NEW action \in BrainActions, BrainActs(t, action)
  PROVE  (Shrinks \/ Replaced) /\ AllCareful'
<1> DEFINE s == ticks[t].worker
<1>1. \A u \in Beat : u = t
  BY DEF OneTickAtATime
<1>2. /\ ticks[t].pc = "deciding" /\ s \in Session
      /\ NoneLaunched \/ LaunchesBeside(s, action)
  BY BrainActsEmptyHanded DEF HeartbeatInv
<1>3. GoesOn(t) /\ ~Asks(ticks'[t], s)
  BY BrainActsGoesOn DEF HeartbeatInv, AllCareful
<1>4. CASE NoneLaunched
  BY <1>3, <1>4, GoesOnShrinks
<1>5. CASE LaunchesBeside(s, action)
  <2>1. action = "relaunch_stronger_model"
    BY <1>5 DEF LaunchesBeside, LaunchesForWorkOnly
  <2>2. PICK r \in Session \ {s} :
          /\ OneLaunched(r) /\ sessions[r].bead = sessions[s].bead /\ ~ActiveWorker(sessions'[s])
    BY <1>5, <2>1 DEF LaunchesBeside
  <2>3. s \in Engaged
    BY <1>2 DEF Engaged, Asks
  <2>4. \A q \in Session \ {r} : ActiveWorker(sessions'[q]) => ActiveWorker(sessions[q])
    BY <2>2 DEF OneLaunched, Continues
  <2>5. Engaged' \subseteq (Engaged \ {s}) \cup {r}
    BY <1>1, <1>3, <2>2, <2>4 DEF Engaged, GoesOn
  <2>6. DispatchKept /\ AllCareful' /\ \A u \in Beat : ~Dispatching(ticks[u])
    BY <1>1, <1>2, <1>3 DEF DispatchKept, GoesOn, AllCareful, Dispatching
  <2> HIDE DEF s
  <2>7. QED
    BY <2>2, <2>3, <2>5, <2>6 DEF Replaced
<1>6. QED
  BY <1>2, <1>4, <1>5

LEMMA LaunchExtends ==
  ASSUME HeartbeatInv, OneTickAtATime, AllCareful, NEW t \in Beat, NEW s \in Session,
         LaunchForBead(t, s)
  PROVE  Extended /\ AllCareful'
<1>1. \A u \in Beat : u = t
  BY DEF OneTickAtATime
<1>2. HeartbeatTypeOK /\ TicksKnown
  BY DEF HeartbeatInv
<1>3. OneLaunched(s) /\ sessions[s].bead = ticks[t].bead /\ ticks[t].pc = "brief"
  BY <1>2, LaunchStep DEF LaunchForBead
<1>4. GoesOn(t) /\ ticks'[t] = Tick0
  BY <1>2, LaunchGoesOn, MovedTo DEF LaunchForBead, EndTick
<1>5. \A q \in Session \ {s} : ActiveWorker(sessions'[q]) => ActiveWorker(sessions[q])
  BY <1>3 DEF OneLaunched, Continues
<1>6. Engaged' \subseteq Engaged \cup {s}
  BY <1>1, <1>4, <1>5 DEF Engaged, GoesOn
<1>7. sessions[s].bead \in Bead /\ Holds(t, sessions[s].bead)
  BY <1>2, <1>3 DEF TicksKnown, KnownTick, Holds
<1>8. \A u \in Beat : ~Dispatching(ticks'[u])
  BY <1>1, <1>4 DEF Dispatching, Tick0
<1>9. AllCareful'
  BY <1>1, <1>4 DEF AllCareful, GoesOn
<1>10. QED
  BY <1>3, <1>6, <1>7, <1>8, <1>9 DEF Extended

(* Nothing but a tick's own launches adds a worker. *)
LEMMA EngagedStep ==
  ASSUME HeartbeatInv, OneTickAtATime, LaunchesForWorkOnly, AllCareful, byTool = {}, HeartbeatNext
  PROVE  (Shrinks \/ Recounted \/ Replaced \/ Extended) /\ AllCareful' /\ byTool' = {}
<1>1. HeartbeatTypeOK /\ TicksKnown /\ TypeOK
  BY DEF HeartbeatInv, HeartbeatTypeOK
<1>0. ASSUME NEW t \in Beat, NEW ok \in BOOLEAN,
             ClaimTried(t, ok) \/ ClaimNoted(t, ok) \/ BrainFails(t)
      PROVE  Shrinks /\ AllCareful'
  <2>1. NoneLaunched
    BY <1>1, <1>0, ClaimSteps, UnchangedLaunchesNone
  <2>2. QED
    BY <1>1, <1>0, <2>1, ClaimGoesOn, GoesOnShrinks
<1>2. ASSUME NEW t \in Beat, NEW s \in Session, NEW tool \in BrainTools, BrainCallsTool(t, s, tool)
      PROVE  Shrinks /\ AllCareful' /\ byTool' = {}
  <2>1. tool # "launch"
    BY DEF LaunchesForWorkOnly
  <2>2. ToolActs(s, tool) /\ UNCHANGED ticks /\ byTool' = {}
    BY <1>2, <2>1 DEF BrainCallsTool
  <2>3. QED
    BY <1>1, <2>1, <2>2, ToolLaunches, UnmovedShrinks
<1>3. CASE HeartbeatStep /\ byTool' = byTool \cup HelpersOfThose
  <2>1. byTool' = {}
    BY <1>3 DEF HelpersOfThose
  <2>2. CASE WorkerStep
    BY <1>1, <2>1, <2>2, WorkerStepLaunchesNone, UnmovedShrinks DEF WorkerStep
  <2>3. CASE \E b \in Bead : ForeignClaim(b)
    BY <1>1, <2>1, <2>3, UnchangedLaunchesNone, UnmovedShrinks DEF ForeignClaim
  <2>4. ASSUME NEW t \in Beat, NEW P \in SUBSET Session, StartTick(t, P)
        PROVE  Shrinks /\ AllCareful'
    BY <1>1, <2>4, StartIsEmptyHanded, StartShrinks
  <2>5. ASSUME NEW t \in Beat, NEW s \in Session, ReleaseCapacity(t, s) \/ AskBrain(t, s)
        PROVE  Shrinks /\ AllCareful'
    BY <1>1, <2>5, FollowUpsAreEmptyHanded, FollowUpGoesOn, GoesOnShrinks
  <2>6. ASSUME NEW t \in Beat, NEW s \in Session, LaunchForBead(t, s)
        PROVE  Extended /\ AllCareful'
    BY <2>6, LaunchExtends
  <2>7. ASSUME NEW t \in Beat, NEW action \in BrainActions, BrainActs(t, action)
        PROVE  (Shrinks \/ Replaced) /\ AllCareful'
    BY <2>7, BrainActsReplaces
  <2>8. ASSUME NEW t \in Beat, CountWorkers(t)
        PROVE  Recounted /\ AllCareful'
    BY <1>1, <2>8, CountIsEmptyHanded, CountRecounts
  <2>9. ASSUME NEW t \in Beat, ReadyListed(t) \/ Rechecked(t)
        PROVE  Shrinks /\ AllCareful'
    <3>1. NoneLaunched
      BY <1>1, <2>9, SearchIsEmptyHanded, UnchangedLaunchesNone
    <3>2. QED
      BY <1>1, <2>9, <3>1, SearchGoesOn, GoesOnShrinks
  <2>10. ASSUME NEW t \in Beat, ClaimTried(t, TRUE) \/ ClaimNoted(t, TRUE)
         PROVE  Shrinks /\ AllCareful'
    BY <1>0, <2>10
  <2>11. QED
    BY <1>3, <2>1, <2>2, <2>3, <2>4, <2>5, <2>6, <2>7, <2>8, <2>9, <2>10 DEF HeartbeatStep
<1>4. ASSUME NEW t \in Beat, FailedCall(t), UNCHANGED byTool
      PROVE  Shrinks /\ AllCareful' /\ byTool' = {}
  BY <1>0, <1>4 DEF FailedCall
<1>5. QED
  BY <1>2, <1>3, <1>4 DEF HeartbeatNext

LEMMA EngagedInit ==
  ASSUME HeartbeatInit
  PROVE  Engaged = {} /\ AllCareful /\ byTool = {} /\ \A t \in Beat : ~Dispatching(ticks[t])
<1>1. \A t \in Beat : \A s : ~Asks(ticks[t], s) /\ Careful(ticks[t]) /\ ~Dispatching(ticks[t])
  BY DEF HeartbeatInit, Tick0, Asks, Careful, Dispatching
<1>2. \A s \in Session : ~ActiveWorker(sessions[s])
  BY DEF HeartbeatInit, Init, Fresh, ActiveWorker, Active
<1>3. QED
  BY <1>1, <1>2 DEF Engaged, AllCareful, HeartbeatInit

LEMMA ReplacementCounted ==
  ASSUME NEW E, NEW F, NEW s \in E, NEW r, IsFiniteSet(E), F \subseteq (E \ {s}) \cup {r}
  PROVE  Cardinality(F) <= Cardinality(E)
<1> DEFINE R == (E \ {s}) \cup {r}
<1>1. IsFiniteSet(E \ {s}) /\ Cardinality(E \ {s}) = Cardinality(E) - 1
  BY FS_RemoveElement
<1>2. IsFiniteSet(R) /\ Cardinality(R) <= Cardinality(E \ {s}) + 1
  <2>1. Cardinality(E \ {s}) \in Nat
    BY <1>1, FS_CardinalityType
  <2>2. QED
    BY <1>1, <2>1, FS_AddElement
<1>3. Cardinality(F) <= Cardinality(R)
  BY <1>2, FS_Subset
<1>4. Cardinality(E) \in Nat /\ Cardinality(R) \in Nat /\ Cardinality(F) \in Nat
  BY <1>2, FS_CardinalityType, FS_Subset
<1>5. QED
  BY <1>1, <1>2, <1>3, <1>4

LEMMA ExtensionCounted ==
  ASSUME NEW E, NEW F, NEW s, IsFiniteSet(E), F \subseteq E \cup {s}
  PROVE  Cardinality(F) <= Cardinality(E) + 1
<1>1. IsFiniteSet(E \cup {s}) /\ Cardinality(E \cup {s}) <= Cardinality(E) + 1
  <2>1. Cardinality(E) \in Nat
    BY FS_CardinalityType
  <2>2. QED
    BY <2>1, FS_AddElement
<1>2. Cardinality(F) <= Cardinality(E \cup {s})
  BY <1>1, FS_Subset
<1>3. Cardinality(E) \in Nat /\ Cardinality(E \cup {s}) \in Nat /\ Cardinality(F) \in Nat
  BY <1>1, FS_CardinalityType, FS_Subset
<1>4. QED
  BY <1>1, <1>2, <1>3

(* The engaged workers never exceed the limit, and a tick that is looking for   *)
(* work with room to spare really has room.                                   *)
CapacityInv ==
    /\ AllCareful /\ byTool = {}
    /\ Cardinality(Engaged) <= MaxConcurrent
    /\ \A t \in Beat : Dispatching(ticks[t])
                           => ticks[t].full \/ Cardinality(Engaged) < MaxConcurrent

LEMMA CapacityStep ==
  ASSUME IsFiniteSet(Session), OneTickAtATime, LaunchesForWorkOnly,
         HeartbeatInv, CapacityInv, HeartbeatNext
  PROVE  CapacityInv'
<1>1. (Shrinks \/ Recounted \/ Replaced \/ Extended) /\ AllCareful' /\ byTool' = {}
  BY EngagedStep DEF CapacityInv
<1>2. /\ IsFiniteSet(Engaged) /\ Cardinality(Engaged) \in Nat
      /\ IsFiniteSet(Engaged') /\ Cardinality(Engaged') \in Nat
  <2>1. Engaged \subseteq Session /\ Engaged' \subseteq Session
    BY DEF Engaged
  <2>2. QED
    BY <2>1, FS_Subset, FS_CardinalityType
<1>3. MaxConcurrent \in Nat
  BY HeartbeatAssumption
<1>4. Engaged' \subseteq Engaged => Cardinality(Engaged') <= Cardinality(Engaged)
  BY <1>2, FS_Subset
<1>5. CASE Shrinks
  BY <1>1, <1>2, <1>3, <1>4, <1>5 DEF Shrinks, DispatchKept, CapacityInv
<1>6. CASE Recounted
  <2>1. ASSUME NEW t \in Beat, ~(Cardinality(Engaged') < MaxConcurrent)
        PROVE  ticks'[t].full
    <3>1. Cardinality(Engaged') >= MaxConcurrent
      BY <1>2, <1>3, <2>1
    <3>2. ticks'[t].full = (Cardinality(Engaged') >= MaxConcurrent)
      BY <1>6 DEF Recounted
    <3>3. QED
      BY <3>1, <3>2, Zenon
  <2>2. Cardinality(Engaged') <= MaxConcurrent
    BY <1>2, <1>3, <1>4, <1>6 DEF Recounted, CapacityInv
  <2>3. QED
    BY <1>1, <2>1, <2>2 DEF CapacityInv
<1>7. CASE Replaced
  <2>1. Cardinality(Engaged') <= Cardinality(Engaged)
    BY <1>2, <1>7, ReplacementCounted DEF Replaced
  <2>2. QED
    BY <1>1, <1>2, <1>3, <1>7, <2>1 DEF Replaced, DispatchKept, CapacityInv
<1>8. CASE Extended
  <2>1. PICK t \in Beat, s \in Session : ticks[t].pc = "brief" /\ Engaged' \subseteq Engaged \cup {s}
    BY <1>8 DEF Extended
  <2>2. Cardinality(Engaged) < MaxConcurrent
    BY <2>1 DEF CapacityInv, AllCareful, Careful, Dispatching
  <2>3. Cardinality(Engaged') <= Cardinality(Engaged) + 1
    BY <1>2, <2>1, ExtensionCounted
  <2>4. QED
    BY <1>1, <1>2, <1>3, <1>8, <2>2, <2>3 DEF Extended, CapacityInv
<1>9. QED
  BY <1>1, <1>5, <1>6, <1>7, <1>8

(* With one tick at a time, which counts the workers before it looks for work, *)
(* the heartbeat stays within heartbeat.preemptiveWork.maxConcurrent for any   *)
(* limit and any number of workers, a replaced worker included.  Two ticks     *)
(* overlapping break this, and so does a brain that launches workers itself.   *)
THEOREM CapacityRespected ==
  ASSUME IsFiniteSet(Session), OneTickAtATime, LaunchesForWorkOnly
  PROVE  HeartbeatSpec => []WithinCapacity
<1>1. HeartbeatInit => CapacityInv
  BY EngagedInit, FS_EmptySet, HeartbeatAssumption DEF CapacityInv
<1>2. HeartbeatInv /\ CapacityInv /\ [HeartbeatNext]_hvars => CapacityInv'
  <2> SUFFICES ASSUME HeartbeatInv, CapacityInv, [HeartbeatNext]_hvars PROVE CapacityInv'
    OBVIOUS
  <2>1. CASE UNCHANGED hvars
    BY <2>1 DEF CapacityInv, AllCareful, Engaged, hvars
  <2>2. QED
    BY <2>1, CapacityStep
<1>3. CapacityInv => WithinCapacity
  <2> SUFFICES ASSUME CapacityInv PROVE WithinCapacity
    OBVIOUS
  <2> DEFINE A == {s \in Session : ActiveWorker(sessions[s])}
  <2>1. A \subseteq Engaged /\ Engaged \subseteq Session
    BY DEF Engaged
  <2>2. /\ IsFiniteSet(Engaged) /\ Cardinality(A) <= Cardinality(Engaged)
        /\ Cardinality(A) \in Nat /\ Cardinality(Engaged) \in Nat
    BY <2>1, FS_Subset, FS_CardinalityType
  <2>3. QED
    BY <2>2, HeartbeatAssumption DEF CapacityInv, WithinCapacity
<1>4. QED
  BY <1>1, <1>2, <1>3, InvHolds, PTL DEF HeartbeatSpec

LEMMA EngagedAreStarted ==
  ASSUME HeartbeatInv, NEW s \in Engaged
  PROVE  sessions[s].state # "unused"
<1>1. CASE ActiveWorker(sessions[s])
  BY <1>1 DEF ActiveWorker, Active
<1>2. CASE \E t \in Beat : Asks(ticks[t], s)
  BY <1>2 DEF HeartbeatInv, TicksKnown, KnownTick, Asks
<1>3. QED
  BY <1>1, <1>2 DEF Engaged

OneEngaged ==
    /\ AllCareful /\ byTool = {}
    /\ \A r, s \in Engaged : sessions[r].bead = sessions[s].bead => r = s

LEMMA OneEngagedStep ==
  ASSUME OneTickAtATime, LaunchesForWorkOnly, HeartbeatInv, OneEngaged, HeartbeatNext
  PROVE  OneEngaged'
<1>1. (Shrinks \/ Recounted \/ Replaced \/ Extended) /\ AllCareful' /\ byTool' = {}
  BY EngagedStep DEF OneEngaged
<1>2. \A s \in Session : sessions'[s].bead = sessions[s].bead
  BY StepEffect DEF Keeps, NoneLaunched, OneLaunched, ContinueAll, Continues
<1>3. Engaged \subseteq Session /\ Engaged' \subseteq Session
  BY DEF Engaged
<1>4. CASE Engaged' \subseteq Engaged
  BY <1>1, <1>2, <1>3, <1>4 DEF OneEngaged
<1>5. CASE Replaced
  BY <1>1, <1>2, <1>3, <1>5 DEF Replaced, OneEngaged
<1>6. CASE Extended
  <2>1. PICK t \in Beat, s \in Session :
          /\ Holds(t, sessions[s].bead) /\ sessions[s].bead \in Bead
          /\ Engaged' \subseteq Engaged \cup {s}
    BY <1>6 DEF Extended
  <2>2. ~WorkStarted(sessions[s].bead)
    BY <2>1 DEF HeartbeatInv, ClaimsHeld
  <2>3. \A q \in Engaged : sessions[q].bead # sessions[s].bead
    BY <1>3, <2>2, EngagedAreStarted DEF WorkStarted, OneEngaged
  <2>4. QED
    BY <1>1, <1>2, <1>3, <2>1, <2>3 DEF OneEngaged
<1>7. QED
  BY <1>1, <1>4, <1>5, <1>6 DEF Shrinks, Recounted

(* With one tick at a time no bead ever has two active workers: the heartbeat  *)
(* launches only for a bead it claimed, and replaces a stalled worker only     *)
(* after stopping it, although it judges the worker on a snapshot.            *)
THEOREM BeadHasOneWorker ==
  ASSUME OneTickAtATime, LaunchesForWorkOnly
  PROVE  HeartbeatSpec => []OneWorkerPerBead
<1>1. HeartbeatInit => OneEngaged
  BY EngagedInit DEF OneEngaged
<1>2. HeartbeatInv /\ OneEngaged /\ [HeartbeatNext]_hvars => OneEngaged'
  <2> SUFFICES ASSUME HeartbeatInv, OneEngaged, [HeartbeatNext]_hvars PROVE OneEngaged'
    OBVIOUS
  <2>1. CASE UNCHANGED hvars
    BY <2>1 DEF OneEngaged, AllCareful, Engaged, hvars
  <2>2. QED
    BY <2>1, OneEngagedStep
<1>3. OneEngaged => OneWorkerPerBead
  BY DEF OneEngaged, OneWorkerPerBead, Engaged, ActiveWorker
<1>4. QED
  BY <1>1, <1>2, <1>3, InvHolds, PTL DEF HeartbeatSpec
-----------------------------------------------------------------------------
(* What a tick does to the list of the sessions it will release: a tick that   *)
(* starts makes it, and afterwards it only grows shorter.                     *)
ReleaseMade(t) ==
    \A s \in ticks'[t].release : s \in Session /\ DueForRelease(sessions[s])'
ReleaseShrinks == \A t \in Beat : ticks'[t].release \subseteq ticks[t].release

LEMMA OneMoved ==
  ASSUME HeartbeatTypeOK, NEW t \in Beat, NEW r, Move(t, r), r.release \subseteq ticks[t].release
  PROVE  ReleaseShrinks
BY DEF Move, HeartbeatTypeOK, ReleaseShrinks

LEMMA EndShrinks ==
  ASSUME HeartbeatTypeOK, NEW t \in Beat, EndTick(t)
  PROVE  ReleaseShrinks
BY OneMoved DEF EndTick, Tick0

LEMMA SelectShrinks ==
  ASSUME HeartbeatTypeOK, NEW t \in Beat, NEW C, SelectFrom(t, C)
  PROVE  ReleaseShrinks
<1>1. ticks[t] \in TickRecord
  BY DEF HeartbeatTypeOK
<1>2. PICK r : Move(t, r) /\ r.release \subseteq ticks[t].release
  <2>1. \A b : [ticks[t] EXCEPT !.pc = "show", !.remaining = C, !.bead = b].release
                = ticks[t].release
    BY <1>1 DEF TickRecord
  <2>2. [ticks[t] EXCEPT !.pc = "ready", !.stage = "fallback", !.remaining = {},
                         !.bead = NoBead].release = ticks[t].release
    BY <1>1 DEF TickRecord
  <2>3. Tick0.release \subseteq ticks[t].release
    BY DEF Tick0
  <2>4. QED
    BY <2>1, <2>2, <2>3 DEF SelectFrom, EndTick
<1>3. QED
  BY <1>2, OneMoved

LEMMA StartMakes ==
  ASSUME HeartbeatTypeOK, NEW t \in Beat, NEW P, StartTick(t, P)
  PROVE  /\ ReleaseMade(t)
         /\ \A u \in Beat \ {t} : ticks'[u] = ticks[u]
<1> DEFINE S == RecoveredAndCleaned(P)
           stalled == {s \in Session : S[s].state = "stalled"}
           r == [Tick0 EXCEPT
                   !.pc = "followups",
                   !.release = {s \in stalled : DueForRelease(S[s])},
                   !.consult = IF BrainActions = {} THEN {}
                               ELSE {s \in stalled : S[s].attempts = 0}]
<1>1. sessions' = S /\ Move(t, r) /\ now' = now
  BY DEF StartTick, RecoveredAndCleaned
<1>2. r.release = {s \in stalled : DueForRelease(S[s])}
  BY DEF Tick0
<1>3. ticks'[t] = r /\ \A u \in Beat \ {t} : ticks'[u] = ticks[u]
  BY <1>1 DEF Move, HeartbeatTypeOK
<1> HIDE DEF r, S
<1>4. \A s \in r.release : s \in Session /\ DueForRelease(S[s])
  BY <1>2
<1>5. \A s \in Session : DueForRelease(S[s]) => DueForRelease(sessions[s])'
  BY <1>1 DEF DueForRelease
<1>6. QED
  BY <1>1, <1>3, <1>4, <1>5 DEF ReleaseMade

LEMMA OthersShrink ==
  ASSUME HeartbeatTypeOK, HeartbeatNext,
         \A t \in Beat, P \in SUBSET Session : ~StartTick(t, P)
  PROVE  ReleaseShrinks
<1>0. \A t \in Beat : ticks[t] \in TickRecord
  BY DEF HeartbeatTypeOK
<1>1. CASE UNCHANGED ticks
  BY <1>1 DEF ReleaseShrinks
<1>2. ASSUME NEW t \in Beat, NEW s \in Session,
             ReleaseCapacity(t, s) \/ AskBrain(t, s) \/ LaunchForBead(t, s)
      PROVE  ReleaseShrinks
  <2>1. /\ [ticks[t] EXCEPT !.release = @ \ {s}].release \subseteq ticks[t].release
        /\ [ticks[t] EXCEPT !.pc = "deciding", !.worker = s, !.consult = @ \ {s}].release
              = ticks[t].release
    BY <1>0 DEF TickRecord
  <2>2. QED
    BY <1>2, <2>1, OneMoved, EndShrinks DEF ReleaseCapacity, AskBrain, LaunchForBead
<1>3. ASSUME NEW t \in Beat, NEW action \in BrainActions, BrainActs(t, action)
      PROVE  ReleaseShrinks
  <2>1. [ticks[t] EXCEPT !.pc = "followups", !.worker = NoSession].release = ticks[t].release
    BY <1>0 DEF TickRecord
  <2>2. QED
    BY <1>3, <2>1, OneMoved, EndShrinks DEF BrainActs
<1>4. ASSUME NEW t \in Beat, CountWorkers(t)
      PROVE  ReleaseShrinks
  <2>1. \A full : [ticks[t] EXCEPT !.pc = "ready", !.full = full].release = ticks[t].release
    BY <1>0 DEF TickRecord
  <2>2. QED
    BY <1>4, <2>1, OneMoved DEF CountWorkers
<1>5. ASSUME NEW t \in Beat, ReadyListed(t) \/ Rechecked(t)
      PROVE  ReleaseShrinks
  <2>1. [ticks[t] EXCEPT !.pc = "claim"].release = ticks[t].release
    BY <1>0 DEF TickRecord
  <2>2. QED
    BY <1>5, <2>1, OneMoved, SelectShrinks DEF ReadyListed, Rechecked
<1>6. ASSUME NEW t \in Beat, NEW ok \in BOOLEAN,
             ClaimTried(t, ok) \/ ClaimNoted(t, ok) \/ BrainFails(t)
      PROVE  ReleaseShrinks
  <2>1. \A pc : [ticks[t] EXCEPT !.pc = pc].release = ticks[t].release
    BY <1>0 DEF TickRecord
  <2>2. QED
    BY <1>6, <2>1, OneMoved, EndShrinks DEF ClaimTried, ClaimNoted, BrainFails
<1>7. CASE HeartbeatStep
  BY <1>1, <1>2, <1>3, <1>4, <1>5, <1>6, <1>7 DEF HeartbeatStep, WorkerStep, ForeignClaim
<1>8. CASE \E t \in Beat : FailedCall(t)
  BY <1>6, <1>8 DEF FailedCall
<1>9. CASE \E t \in Beat, s \in Session, tool \in BrainTools : BrainCallsTool(t, s, tool)
  BY <1>1, <1>9 DEF BrainCallsTool
<1>10. QED
  BY <1>7, <1>8, <1>9 DEF HeartbeatNext

(* The workers a tick will release were nudged a grace period ago, but for    *)
(* those nudged again since.                                                  *)
ReleasesDue(t) ==
    \A s \in ticks[t].release : s \in Session /\ (s \in renudged[t] \/ DueForRelease(sessions[s]))
GraceInv == \A t \in Beat : ReleasesDue(t)

LEMMA TimeGrows ==
  ASSUME HeartbeatTypeOK, HeartbeatTypeOK', HeartbeatNext
  PROVE  now \in Nat /\ now' \in Nat /\ now <= now'
<1>1. now \in Nat /\ now' \in Nat
  BY DEF HeartbeatTypeOK, TypeOK, Time
<1>2. now' = now \/ Tick
  BY DEF HeartbeatNext, HeartbeatStep, WorkerStep, LauncherExits, OnExit, Heartbeat, ForeignClaim,
         StartTick, ReleaseCapacity, AskBrain, LaunchForBead, BrainActs, BrainFails, CountWorkers,
         ReadyListed, Rechecked, ClaimTried, ClaimNoted, BrainCallsTool, FailedCall
<1>3. QED
  BY <1>1, <1>2 DEF Tick

LEMMA DueStaysDue ==
  ASSUME HeartbeatInv, HeartbeatTypeOK', HeartbeatNext, NEW s \in Session,
         sessions[s].state # "unused", s \notin NudgedNow, DueForRelease(sessions[s])
  PROVE  DueForRelease(sessions[s])'
<1>1. sessions[s].attempts > 0 /\ sessions[s].nudged + Grace <= now
  BY DEF DueForRelease
<1>2. Continues(sessions[s], sessions'[s])
  BY StepEffect DEF Keeps, NoneLaunched, OneLaunched, ContinueAll
<1>3. sessions'[s].attempts > 0
  BY <1>1, <1>2 DEF Continues
<1>4. sessions'[s].nudged = sessions[s].nudged
  BY DEF NudgedNow
<1>5. now \in Nat /\ now' \in Nat /\ now <= now' /\ sessions[s].nudged \in Nat
  BY TimeGrows DEF HeartbeatInv, HeartbeatTypeOK, TypeOK, WorkerSession, Time
<1>6. sessions'[s].nudged + Grace <= now'
  BY <1>1, <1>4, <1>5, HeartbeatAssumption
<1>7. QED
  BY <1>3, <1>6 DEF DueForRelease

LEMMA ListedStaysDue ==
  ASSUME HeartbeatInv, HeartbeatTypeOK', HeartbeatNext, NEW t \in Beat, ReleasesDue(t),
         ticks'[t].release \subseteq ticks[t].release
  PROVE  ReleasesDue(t)'
<1> SUFFICES ASSUME NEW s \in ticks'[t].release
             PROVE  s \in Session /\ (s \in renudged'[t] \/ DueForRelease(sessions[s])')
  BY DEF ReleasesDue
<1>1. s \in Session /\ (s \in renudged[t] \/ DueForRelease(sessions[s]))
  BY DEF ReleasesDue
<1>2. renudged'[t] = (renudged[t] \cup NudgedNow) \cap ticks[t].release \cap ticks'[t].release
  BY DEF HeartbeatNext
<1>3. sessions[s].state # "unused"
  BY DEF HeartbeatInv, TicksKnown, KnownTick
<1>4. QED
  BY <1>1, <1>2, <1>3, DueStaysDue

LEMMA GraceStep ==
  ASSUME HeartbeatInv, HeartbeatTypeOK', GraceInv, HeartbeatNext
  PROVE  GraceInv'
<1>1. HeartbeatTypeOK
  BY DEF HeartbeatInv
<1>2. ASSUME NEW t \in Beat, NEW P \in SUBSET Session, StartTick(t, P), NEW u \in Beat
      PROVE  ReleasesDue(u)'
  <2>1. CASE u = t
    BY <1>1, <1>2, <2>1, StartMakes DEF ReleaseMade, ReleasesDue
  <2>2. CASE u # t
    <3>1. ticks'[u].release \subseteq ticks[u].release
      BY <1>1, <1>2, <2>2, StartMakes
    <3>2. QED
      BY <3>1, ListedStaysDue DEF GraceInv
  <2>3. QED
    BY <2>1, <2>2
<1>3. ASSUME \A t \in Beat, P \in SUBSET Session : ~StartTick(t, P), NEW u \in Beat
      PROVE  ReleasesDue(u)'
  BY <1>1, <1>3, OthersShrink, ListedStaysDue DEF ReleaseShrinks, GraceInv
<1>4. QED
  BY <1>2, <1>3 DEF GraceInv

(* However many ticks overlap and whatever the brain does meanwhile, a worker  *)
(* is stopped to free capacity only when a whole grace period has passed since *)
(* its latest nudge, or it was nudged again after the tick had decided so     *)
(* (decideFollowUps judges a snapshot and never looks again).                 *)
THEOREM GraceKept == HeartbeatSpec => GraceHonoured
<1>1. HeartbeatInit => GraceInv
  BY DEF HeartbeatInit, Tick0, GraceInv, ReleasesDue
<1>2. HeartbeatInv /\ HeartbeatInv' /\ GraceInv /\ [HeartbeatNext]_hvars => GraceInv'
  <2> SUFFICES ASSUME HeartbeatInv, HeartbeatInv', GraceInv, [HeartbeatNext]_hvars PROVE GraceInv'
    OBVIOUS
  <2>1. CASE UNCHANGED hvars
    BY <2>1 DEF GraceInv, ReleasesDue, DueForRelease, hvars
  <2>2. QED
    BY <2>1, GraceStep DEF HeartbeatInv
<1>3. GraceInv => \A t \in Beat, s \in Session : Releases(t, s) /\ s \notin renudged[t] =>
                      sessions[s].attempts > 0 /\ sessions[s].nudged + Grace <= now
  BY DEF GraceInv, ReleasesDue, DueForRelease, Releases
<1>4. QED
  BY <1>1, <1>2, <1>3, InvHolds, PTL DEF HeartbeatSpec, GraceHonoured
================================================================================
