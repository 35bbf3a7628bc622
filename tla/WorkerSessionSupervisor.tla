----------------------- MODULE WorkerSessionSupervisor -----------------------
(***************************************************************************)
(* The worker sessions Ciclo launches and supervises (class                 *)
(* WorkerSessionSupervisor, src/src/worker-session-supervisor.ts).          *)
(*                                                                          *)
(* The supervisor is synchronous: each public method runs to completion, so *)
(* each is one operator on the session map and one action here.  What is    *)
(* concurrent is the world it looks at: launcher processes, agents running  *)
(* in Herdr panes or as Claude background sessions, their worktrees.  One   *)
(* record per session holds both; the fields of the world are marked (*w*). *)
(* The world does not wait for an operation to end: between the git status  *)
(* that finds a worktree clean and the git worktree remove --force after it *)
(* the worker may still write, so an operation that removes a worktree is   *)
(* two actions, and the supervisor does nothing else in between.            *)
(***************************************************************************)
EXTENDS Naturals, FiniteSets

CONSTANTS
    Session,      \* session ids; each is drawn at most once (randomUUID)
    Bead,         \* Beads issues sessions work on
    Kind,         \* subset of {"process", "claude", "herdr"} that may be launched
    StaleAfter,   \* silence after which a running session is stalled
    MaxTime,      \* bound on the clock
    MaxAttempts,  \* bound on recorded nudges
    Reliable,     \* TRUE: herdr and git commands never fail
    LateReports,  \* TRUE: a worker may still report after its session ended
    ForeignGc     \* TRUE: "ciclo gc workspaces" also runs from another process

ASSUME SupervisorAssumption ==
    /\ Kind \subseteq {"process", "claude", "herdr"}
    /\ StaleAfter \in Nat \ {0}
    /\ MaxTime \in Nat /\ MaxAttempts \in Nat
    /\ {Reliable, LateReports, ForeignGc} \subseteq BOOLEAN

VARIABLES sessions, now
svars == <<sessions, now>>

Active == {"running", "waiting_on_operator", "stalled"}
Terminal == {"completed", "failed", "stopped"}
Tracked == Active \cup Terminal \cup {"planned"}
Untracked == {"unused", "forgotten", "lost"}
AgentAlive == {"listed", "working", "waiting", "idle"}
Time == 0..MaxTime

WorkerSession ==
    [state    : Tracked \cup Untracked,
     kind     : {"process", "claude", "herdr"},
     bead     : Bead,
     handle   : BOOLEAN,          \* the supervisor holds a process handle
     beat     : Time,             \* lastHeartbeatAt
     attempts : 0..MaxAttempts,   \* recoveryAttempts
     nudged   : Time,             \* lastRecoveryAt, 0 when never
     isolated : BOOLEAN,          \* launched in a git worktree of its own
     proc     : {"none", "up", "term", "ok", "bad", "reaped"},      (*w*)
     agent    : AgentAlive \cup {"none", "done", "failed", "killed"},  (*w*)
     agentAt  : Time,             \* statusUpdatedAt of the registry   (*w*)
     tree     : {"none", "clean", "dirty", "late"},                    (*w*)
     removal  : {"none", "stop", "keep", "forget"},
     collecting : BOOLEAN,
     reported : Time]             \* history: last report of the worker

(* removal: stop() or a cleanup found the worktree clean and removes it next; *)
(* a cleanup then keeps or forgets the session.  collecting: the same of a    *)
(* garbage collection.  A tree is late when its uncommitted work was written  *)
(* since such a check, and dirty otherwise; git status sees no difference.    *)
Pending(w) == w.removal # "none" \/ w.collecting

TypeOK == sessions \in [Session -> WorkerSession] /\ now \in Time

Fresh(b) ==
    [state |-> "unused", kind |-> "process", bead |-> b, handle |-> FALSE, beat |-> 0,
     attempts |-> 0, nudged |-> 0, isolated |-> FALSE, proc |-> "none", agent |-> "none",
     agentAt |-> 0, tree |-> "none", removal |-> "none", collecting |-> FALSE,
     reported |-> 0]

Init ==
    /\ sessions \in [Session -> {Fresh(b) : b \in Bead}]
    /\ now = 0

-----------------------------------------------------------------------------
(* Operations of the supervisor on one session or on the whole map.           *)

(* Outcomes of the external commands of one cleanup: resolving the Herdr      *)
(* pane, closing pane and workspace, git status; then git worktree remove and *)
(* prune.                                                                     *)
Outcome(commands) ==
    IF Reliable THEN [commands -> {TRUE}] ELSE [commands -> BOOLEAN]
Outcomes == Outcome({"lookup", "close", "status"})
RemovalOutcomes == Outcome({"remove", "prune"})
AllGood == [c \in {"lookup", "close", "status", "remove", "prune"} |-> TRUE]

(* The operators named Bug... are the definition after them with a defect,    *)
(* used only to show that the properties notice it.                           *)
BugIdleIsDone(w) ==
    CASE w.agent = "waiting"           -> "waiting_on_operator"
      [] w.agent = "failed"            -> "failed"
      [] w.agent = "killed"            -> "stopped"
      [] w.agent \in {"done", "idle"}  -> "completed"
      [] w.agent = "working"           -> "running"
      [] OTHER                         -> w.state

StateFromClaudeStatus(w) ==
    CASE w.agent = "waiting"           -> "waiting_on_operator"
      [] w.agent = "failed"            -> "failed"
      [] w.agent = "killed"            -> "stopped"
      [] w.agent = "done"              -> "completed"
      [] w.agent \in {"working", "idle"} -> "running"
      [] OTHER                         -> w.state

BugRefreshesEnded(w) ==
    IF w.kind = "claude" /\ w.state \in Tracked /\ w.agent # "none"
    THEN [w EXCEPT !.state = StateFromClaudeStatus(w), !.beat = w.agentAt] ELSE w

(* A detached Claude session takes state and last activity from the registry. *)
RefreshDetachedAgent(w) ==
    IF w.kind = "claude" /\ w.state \in Tracked \ Terminal /\ w.agent # "none"
    THEN [w EXCEPT !.state = StateFromClaudeStatus(w), !.beat = w.agentAt]
    ELSE w

RefreshDetachedAgents(S) == [s \in DOMAIN S |-> RefreshDetachedAgent(S[s])]

RefreshStalled(S, t) ==
    [s \in DOMAIN S |->
        IF S[s].state = "running" /\ S[s].beat + StaleAfter <= t
        THEN [S[s] EXCEPT !.state = "stalled"] ELSE S[s]]

PlannedSession(w, k, iso) ==
    [w EXCEPT !.state = "planned", !.kind = k, !.isolated = iso]

(* The worktree could not be created, or it was and the MCP configuration     *)
(* could not be installed in it: the worktree then stays.                     *)
FailedLaunch(w, k, iso, treeMade) ==
    [w EXCEPT !.state = "failed", !.kind = k, !.isolated = iso,
              !.tree = IF iso /\ treeMade THEN "clean" ELSE "none"]

StartedSession(w, k, iso, t) ==
    [w EXCEPT !.state = "running", !.kind = k, !.isolated = iso,
              !.handle = TRUE, !.beat = t, !.reported = t, !.proc = "up",
              !.tree = IF iso THEN "clean" ELSE "none"]

(* The launcher's exit event.  A launcher of a pane or of a background agent  *)
(* that exits with 0 leaves the session running, without a handle.            *)
ExitHandled(w) ==
    IF w.state \notin Active THEN [w EXCEPT !.proc = "reaped"]
    ELSE IF w.kind # "process" /\ w.proc = "ok"
    THEN [w EXCEPT !.proc = "reaped", !.handle = FALSE]
    ELSE [w EXCEPT !.proc = "reaped", !.handle = FALSE,
                   !.state = IF w.proc = "ok" THEN "completed" ELSE "failed"]

BugUnknownIsSafe(w, ok) == ~ok.status \/ w.tree \in {"none", "clean"}

(* worktreeSafeToRemove: no worktree, or git status shows no changes in it.   *)
WorktreeSafe(w, ok) == w.tree = "none" \/ (ok.status /\ w.tree = "clean")
RemovalDue(w, ok) == w.tree # "none" /\ WorktreeSafe(w, ok)

(* cleanupSessionResources as far as git status: a pane is closed, a launcher *)
(* gets a signal, a Claude agent goes on.                                     *)
SkipsWorkingAgent(w, ok) == w.kind = "herdr" /\ ok.lookup /\ w.agent = "working"
ClosesPane(w, ok) == w.kind = "herdr" /\ (ok.lookup \/ w.isolated)
PaneDealtWith(w, ok) == ClosesPane(w, ok) => ok.close

ResourcesReleased(w, ok, closeProcessHandle) ==
    [w EXCEPT !.agent = IF ClosesPane(w, ok) /\ ok.close /\ @ \in AgentAlive
                        THEN "killed" ELSE @,
              !.proc = IF closeProcessHandle /\ w.kind # "herdr" /\ w.handle /\ @ = "up"
                       THEN "term" ELSE @]

BugAwaitsLauncher(w, ok) ==
    IF w.state # "completed" \/ w.handle \/ SkipsWorkingAgent(w, ok) THEN w
    ELSE IF RemovalDue(w, ok)
    THEN [ResourcesReleased(w, ok, FALSE) EXCEPT
             !.removal = IF PaneDealtWith(w, ok) THEN "forget" ELSE "keep"]
    ELSE IF PaneDealtWith(w, ok) /\ WorktreeSafe(w, ok)
    THEN [ResourcesReleased(w, ok, FALSE) EXCEPT !.state = "forgotten"]
    ELSE ResourcesReleased(w, ok, FALSE)

(* The session afterwards; what is to be removed is not forgotten yet.        *)
CleanedUp(w, ok) ==
    IF w.state # "completed" \/ SkipsWorkingAgent(w, ok) THEN w
    ELSE IF RemovalDue(w, ok)
    THEN [ResourcesReleased(w, ok, FALSE) EXCEPT
             !.removal = IF PaneDealtWith(w, ok) THEN "forget" ELSE "keep"]
    ELSE IF PaneDealtWith(w, ok) /\ WorktreeSafe(w, ok)
    THEN [ResourcesReleased(w, ok, FALSE) EXCEPT !.state = "forgotten", !.handle = FALSE]
    ELSE ResourcesReleased(w, ok, FALSE)

CleanupCompleted(S, ok) ==
    [s \in DOMAIN S |-> CleanedUp(RefreshDetachedAgent(S[s]), ok[s])]

(* stop() releases resources only for an active session. *)
Stopped(w, ok) ==
    IF w.state \notin Active
    THEN [w EXCEPT !.state = IF w.state = "planned" THEN "stopped" ELSE @]
    ELSE IF RemovalDue(w, ok)
    THEN [ResourcesReleased(w, ok, TRUE) EXCEPT !.removal = "stop"]
    ELSE [ResourcesReleased(w, ok, TRUE) EXCEPT !.state = "stopped", !.handle = FALSE]

(* git worktree remove --force asks nobody: what is late is deleted.  A tree  *)
(* that stays is no longer late when nobody is about to remove it.            *)
TreeAfter(w, ok, pending) ==
    IF ok.remove THEN "none"
    ELSE IF w.tree = "late" /\ ~pending THEN "dirty" ELSE w.tree

BugRemovalIgnored(w, ok) == ok.prune

TreeGone(w, ok) == w.tree = "none" \/ (ok.remove /\ ok.prune)

(* The rest of cleanupSessionResources and of the operation that called it.   *)
RemovalEnded(w, ok) ==
    LET v == [w EXCEPT !.tree = TreeAfter(w, ok, w.collecting), !.removal = "none"]
    IN  CASE w.removal = "stop" -> [v EXCEPT !.state = "stopped", !.handle = FALSE]
          [] w.removal = "forget" /\ TreeGone(w, ok) ->
                [v EXCEPT !.state = "forgotten", !.handle = FALSE]
          [] OTHER -> v

(* heartbeat(): an explicit state is taken whatever the session's state is.   *)
Reported(w, requested, t) ==
    LET next == IF requested # "none" THEN requested
                ELSE IF w.state = "stalled" THEN "running" ELSE w.state
    IN  [w EXCEPT !.beat = t, !.reported = t, !.state = next]

Nudged(w, t) == [w EXCEPT !.nudged = t, !.attempts = @ + 1]

(* A visible unsent prompt was submitted in the worker's pane. *)
PromptSubmitted(w, t) ==
    IF w.kind = "herdr" /\ w.state \in Active
    THEN [w EXCEPT !.beat = t, !.nudged = t] ELSE w

(* recoverPendingHerdrInputs: P are the workers whose prompt was visible and  *)
(* unsent, and could be submitted.                                            *)
PromptsSubmitted(S, P, t) ==
    [s \in DOMAIN S |-> IF s \in P THEN PromptSubmitted(S[s], t) ELSE S[s]]

(* A match names a session, a bead, or (neither) every session. *)
Matches(s, w, match) == match \in {s, w.bead, "any"}

MarkWaitingOnOperator(S, match) ==
    LET R == RefreshDetachedAgents(S)
    IN  [s \in DOMAIN S |->
            IF R[s].state \in Active /\ Matches(s, R[s], match)
            THEN [R[s] EXCEPT !.state = "waiting_on_operator"] ELSE R[s]]

BugBeatNotReset(S, match, t) ==
    LET R == RefreshDetachedAgents(S)
    IN  [s \in DOMAIN S |->
            IF R[s].state = "waiting_on_operator" /\ Matches(s, R[s], match)
            THEN [R[s] EXCEPT !.state = "running", !.reported = t] ELSE R[s]]

ResumeAfterOperator(S, match, t) ==
    LET R == RefreshDetachedAgents(S)
    IN  [s \in DOMAIN S |->
            IF R[s].state = "waiting_on_operator" /\ Matches(s, R[s], match)
            THEN [R[s] EXCEPT !.state = "running", !.beat = t, !.reported = t] ELSE R[s]]

AgentExitRecorded(w, code) ==
    [w EXCEPT !.state = IF code = "ok" THEN "completed" ELSE "failed", !.handle = FALSE]

(* gcOrphanedWorkspaces on the pane of one session that is not tracked by     *)
(* the process running it: skipped when working, dirty or without worktree;   *)
(* its pane is closed, and its tree removed next.                             *)
Collected(w, ok) ==
    IF /\ w.kind = "herdr" /\ w.isolated /\ w.agent \notin {"none", "killed", "working"}
       /\ w.tree = "clean" /\ ok.status
    THEN [w EXCEPT !.agent = IF ok.close THEN "killed" ELSE @, !.collecting = TRUE]
    ELSE w

CollectionEnded(w, ok) ==
    [w EXCEPT !.tree = TreeAfter(w, ok, w.removal # "none"), !.collecting = FALSE]

(* The process of the supervisor ends, in the middle of an operation or not.  *)
Lost(w) ==
    [w EXCEPT !.state = "lost", !.handle = FALSE, !.removal = "none",
              !.tree = TreeAfter(w, [remove |-> FALSE], w.collecting)]

BugCollectsTracked(S, ok) == [s \in DOMAIN S |-> Collected(S[s], ok[s])]

CollectedAll(S, ok) ==
    [s \in DOMAIN S |-> IF S[s].state \in Untracked THEN Collected(S[s], ok[s]) ELSE S[s]]
-----------------------------------------------------------------------------
(* The world: launchers, agents, worktrees, time.                             *)

Set(s, w) == sessions' = [sessions EXCEPT ![s] = w]

(* The worker itself, as opposed to the command that launches an agent. *)
Working(w) == IF w.kind = "process" THEN w.proc \in {"up", "term"} ELSE w.agent \in AgentAlive

(* A launched command of a detached worker brings up the agent itself. *)
AgentStarts(s) ==
    LET w == sessions[s] IN
    /\ w.kind # "process" /\ w.proc = "up" /\ w.agent = "none"
    /\ Set(s, [w EXCEPT !.agent = "listed", !.agentAt = now])
    /\ UNCHANGED now

LauncherExits(s, code) ==
    LET w == sessions[s] IN
    /\ w.proc \in {"up", "term"}
    /\ code = "ok" => w.proc = "up" /\ (w.kind # "process" => w.agent # "none")
    /\ Set(s, [w EXCEPT !.proc = code])
    /\ UNCHANGED now

(* The agent works, asks or pauses; the registry notes when. *)
AgentActs(s, status) ==
    LET w == sessions[s] IN
    /\ w.agent \in AgentAlive
    /\ Set(s, [w EXCEPT !.agent = status, !.agentAt = now])
    /\ UNCHANGED now

AgentEnds(s, status) ==
    LET w == sessions[s] IN
    /\ w.agent \in AgentAlive
    /\ Set(s, [w EXCEPT !.agent = status, !.agentAt = now])
    /\ UNCHANGED now

(* The worker changes files in its worktree, or commits them. *)
EditsTree(s) ==
    LET w == sessions[s] IN
    /\ Working(w) /\ w.tree # "none"
    /\ Set(s, [w EXCEPT !.tree = IF @ # "clean" THEN "clean"
                                 ELSE IF Pending(w) THEN "late" ELSE "dirty"])
    /\ UNCHANGED now

Tick == now < MaxTime /\ now' = now + 1 /\ UNCHANGED sessions

World == Tick \/ \E s \in Session :
    \/ AgentStarts(s) \/ EditsTree(s)
    \/ \E code \in {"ok", "bad"} : LauncherExits(s, code)
    \/ \E status \in {"working", "waiting", "idle"} : AgentActs(s, status)
    \/ \E status \in {"done", "failed", "killed"} : AgentEnds(s, status)
-----------------------------------------------------------------------------
(* The public methods of the supervisor and its exit listeners: none begins   *)
(* while another is about to remove a worktree.                               *)
Busy == \E s \in Session : sessions[s].removal # "none"

LaunchDryRun(s, k, iso) ==
    /\ ~Busy /\ sessions[s].state = "unused"
    /\ Set(s, PlannedSession(sessions[s], k, iso))
    /\ UNCHANGED now

LaunchFails(s, k, iso, treeMade) ==
    /\ ~Busy /\ ~Reliable /\ sessions[s].state = "unused"
    /\ Set(s, FailedLaunch(sessions[s], k, iso, treeMade))
    /\ UNCHANGED now

LaunchStarts(s, k, iso) ==
    /\ ~Busy /\ sessions[s].state = "unused"
    /\ Set(s, StartedSession(sessions[s], k, iso, now))
    /\ UNCHANGED now

(* The listener lives in the process that launched the worker. *)
OnExit(s) ==
    /\ ~Busy /\ sessions[s].proc \in {"ok", "bad"}
    /\ sessions[s].state # "lost"
    /\ Set(s, ExitHandled(sessions[s]))
    /\ UNCHANGED now

RefreshDetached == ~Busy /\ sessions' = RefreshDetachedAgents(sessions) /\ UNCHANGED now

StallSilent == ~Busy /\ sessions' = RefreshStalled(sessions, now) /\ UNCHANGED now

Cleanup(ok) == ~Busy /\ sessions' = CleanupCompleted(sessions, ok) /\ UNCHANGED now

Stop(s, ok) ==
    /\ ~Busy /\ sessions[s].state \in Tracked
    /\ Set(s, Stopped(sessions[s], ok))
    /\ UNCHANGED now

Heartbeat(s, requested) ==
    /\ ~Busy /\ sessions[s].state \in (IF LateReports THEN Tracked ELSE Active)
    /\ Set(s, Reported(sessions[s], requested, now))
    /\ UNCHANGED now

Nudge(s) ==
    /\ ~Busy /\ sessions[s].state \in Tracked
    /\ sessions[s].attempts < MaxAttempts
    /\ Set(s, Nudged(sessions[s], now))
    /\ UNCHANGED now

RecoverPendingInputs(P) ==
    ~Busy /\ sessions' = PromptsSubmitted(sessions, P, now) /\ UNCHANGED now

AskOperator(match) ==
    ~Busy /\ sessions' = MarkWaitingOnOperator(sessions, match) /\ UNCHANGED now

AnswerOperator(match) ==
    ~Busy /\ sessions' = ResumeAfterOperator(sessions, match, now) /\ UNCHANGED now

(* recordAgentExit, public but called by tests only: of a Claude agent that   *)
(* ended, or of a Herdr agent whatever its pane shows.                        *)
RecordAgentExit(s, code) ==
    /\ ~Busy /\ sessions[s].state \in Tracked
    /\ \/ sessions[s].kind = "herdr"
       \/ sessions[s].kind = "claude" /\ sessions[s].agent \in {"done", "failed", "killed"}
    /\ Set(s, AgentExitRecorded(sessions[s], code))
    /\ UNCHANGED now

FinishRemoval(s, ok) ==
    /\ sessions[s].removal # "none"
    /\ Set(s, RemovalEnded(sessions[s], ok))
    /\ UNCHANGED now

CollectGarbage(ok) == ~Busy /\ sessions' = CollectedAll(sessions, ok) /\ UNCHANGED now

(* "ciclo gc workspaces" runs in a process of its own, whose supervisor       *)
(* tracks nothing.                                                            *)
CollectFromCli(ok) ==
    /\ ForeignGc
    /\ sessions' = [s \in Session |-> Collected(sessions[s], ok[s])]
    /\ UNCHANGED now

(* Either collection comes to the worktree.  The supervisor's own keeps it    *)
(* busy as well, but touches only sessions the supervisor does not track.     *)
FinishCollection(s, ok) ==
    /\ sessions[s].collecting
    /\ Set(s, CollectionEnded(sessions[s], ok))
    /\ UNCHANGED now

(* The MCP process ends; the map and the handles were only in its memory. *)
Restart ==
    /\ sessions' = [s \in Session |->
          IF sessions[s].state \in Tracked THEN Lost(sessions[s]) ELSE sessions[s]]
    /\ UNCHANGED now

Launch(s) == \E k \in Kind, iso \in BOOLEAN :
    \/ LaunchDryRun(s, k, iso) \/ LaunchStarts(s, k, iso)
    \/ \E treeMade \in BOOLEAN : LaunchFails(s, k, iso, treeMade)

Next ==
    \/ World
    \/ \E s \in Session :
         \/ Launch(s) \/ OnExit(s) \/ Nudge(s)
         \/ \E ok \in Outcomes : Stop(s, ok)
         \/ \E ok \in RemovalOutcomes : FinishRemoval(s, ok) \/ FinishCollection(s, ok)
         \/ \E requested \in {"none", "running", "waiting_on_operator"} : Heartbeat(s, requested)
         \/ \E code \in {"ok", "bad"} : RecordAgentExit(s, code)
    \/ RefreshDetached \/ StallSilent \/ Restart
    \/ \E ok \in [Session -> Outcomes] :
         Cleanup(ok) \/ CollectGarbage(ok) \/ CollectFromCli(ok)
    \/ \E P \in SUBSET Session : RecoverPendingInputs(P)
    \/ \E match \in Session \cup Bead \cup {"any"} : AskOperator(match) \/ AnswerOperator(match)

Spec == Init /\ [][Next]_svars

(* The leader's interval timer keeps calling cleanupCompleted while the       *)
(* external commands work again and again, a removal begun is ended, and Node *)
(* delivers the exit events; nothing else is assumed to happen.               *)
FairSpec ==
    /\ Spec
    /\ SF_svars(Cleanup([s \in Session |-> AllGood]))
    /\ \A s \in Session : /\ SF_svars(FinishRemoval(s, AllGood))
                          /\ WF_svars(\E ok \in RemovalOutcomes : FinishRemoval(s, ok))
                          /\ WF_svars(OnExit(s))
-----------------------------------------------------------------------------
(* "stale_after_ms to mark silent running workers as `stalled`"               *)
(* (docs/getting-started.md): only a worker that has been silent that long is *)
(* marked; a stalled worker gets nudged and then stopped by the heartbeat.    *)
(* Detached Claude sessions are excepted: the registry's time replaces theirs.*)
OnlySilentWorkersStall ==
    [][\A s \in Session :
         sessions[s].kind # "claude" /\ sessions[s].state # "stalled"
         /\ sessions'[s].state = "stalled"
           => sessions[s].reported + StaleAfter <= now]_svars

(* An active worker launched in a worktree of its own still has it: no        *)
(* cleanup, stop or garbage collection pulled it from under the agent.        *)
ActiveWorkerHasItsTree ==
    \A s \in Session : sessions[s].isolated /\ sessions[s].state \in Active
                           => sessions[s].tree # "none"

(* A forgotten session left no worktree behind, whatever commands failed: its *)
(* record was the only pointer to it.                                         *)
ForgottenLeavesNoTree ==
    \A s \in Session : sessions[s].state = "forgotten" => sessions[s].tree = "none"

(* A forgotten session has no worker running any more, for nothing would ever *)
(* stop it.  Panes are excepted: one that could not be looked up stays open.  *)
ForgottenIsDown ==
    \A s \in Session :
        sessions[s].state = "forgotten" /\ sessions[s].kind # "herdr"
          => ~Working(sessions[s])

(* Uncommitted work is deleted only when it was written between the git       *)
(* status of a removal and that removal, by a worker still running then: what *)
(* a worker left uncommitted before stays, by any order of stops, cleanups,   *)
(* collections from two processes and restarts, whatever commands fail.       *)
NoDirtyTreeRemoved ==
    [][\A s \in Session : sessions[s].tree = "dirty" => sessions'[s].tree # "none"]_svars

(* A session that ended stays ended: no registry refresh, exit event, answer  *)
(* or stall check makes it active again.                                      *)
TerminalIsFinal ==
    [][\A s \in Session : sessions[s].state \in Terminal => sessions'[s].state \notin Active]_svars

(* A completed session is eventually forgotten, unless its agent goes on      *)
(* working or leaves uncommitted changes.                                     *)
CleanupDue(s) ==
    /\ sessions[s].state = "completed"
    /\ sessions[s].tree \notin {"dirty", "late"} /\ sessions[s].agent # "working"
CompletedIsForgotten == \A s \in Session : CleanupDue(s) ~> ~CleanupDue(s)
=============================================================================
