# Ciclo, specified in TLA+

Ciclo babysits coding agents: an MCP server that launches worker sessions (local processes, Claude
background agents, agents in Herdr panes), gives them Beads issues to work on, watches them through
an internal heartbeat, and carries questions between them and the operator. These modules specify
the parts of it that keep state and decide, check them with TLC on small instances and prove the
main facts with TLAPS. All source paths below are relative to `src/src/` (the TypeScript
implementation) unless they start with another directory of the repository.

## 1. The system

| Component | State | Operations | What makes it correct |
|---|---|---|---|
| Leadership, `mcp-leadership.ts` | `.lock` and `.json` files of one project session | acquire, release | one leader; its files describe it; a follower follows somebody |
| Worker supervisor, `worker-session-supervisor.ts`, `claude-background-agent.ts` | a map of sessions and process handles, in memory | launch, exit listeners, refreshDetachedAgents, refreshStalled, cleanupCompleted, stop, heartbeat, nudge, recoverPendingHerdrInputs, markWaitingOnOperator, resumeAfterOperator, recordAgentExit, gcOrphanedWorkspaces | a session ends once; no uncommitted work deleted; nothing left running or lying around when forgotten; only silent workers stall |
| Internal heartbeat, `internal-heartbeat.ts` | timer, and the local variables of each tick | tick: worker follow-ups, ready-work dispatch, remote sweep, cron, memory | capacity, one worker per bead, grace before a stop |
| Beads work queue, `beads-work-queue.ts`, `beads-adapter.ts` | the Beads database (external `bd`) | list ready, show, claim, note, close | exclusive claims; only a failed call leaves a claim without a worker |
| Operator routing, `operator-routing.ts` | questions and feedback, in memory of one process | ask, answer, submitFeedback | a waiting worker is woken; questions reach the operator |
| Remote registry, `remote-session-registry.ts` | remote session records, in memory | register, assignWork, detach, heartbeat, markExpired | ownership survives disconnection; silence ends in lost |
| MCP server, `mcp-stdio.ts`, `mcp-http.ts`, `mcp-contract.ts` | idempotency table, request loop | the MCP tools | a repeated call does nothing twice |
| Cron, `ciclo-cron.ts` | the last run of each job, in memory and on disk | dueJobs, recordRun, load | a due job runs, and no tick repeats a run on record early |
| Events, `ciclo-events.ts` | append-only log, its copy in each process, cursors of readers | append, poll, load | a reader sees no event twice and none out of order |
| Memory, `ciclo-memory.ts` | the entries in each process, `.ciclo/memory.jsonl` | record, compact, load | a compacted entry is in a summary; no line takes back an earlier one |
| Authentication, `auth-device-flow.ts`, `token-store.ts` | device records and token sets, in memory | start, approve, deny, poll, issue, refresh, revoke | one token set per login, to the approver |
| Access, `access-grants.ts`, `session-access.ts`, `access-enforcement.ts`, `client-auth.ts`, `policy-gate.ts` | the grants of a session | a decision per request, its audit entry, whoami | the decision, the delegation and the view agree |
| Beads tools, `mcp-stdio.ts`, `beads-progress.ts`, `context-compaction.ts`, `task-review-session.ts` | idempotency keys, the bead | claim, update, compact, close and review | an effect once per key, a review per closing |
| Tracker sync, `beads-tracker-sync.ts` | completed keys and retries per target | trigger, triggerTarget | a target reached is left alone |
| Dolt remote and shared server, `beads-remote.ts`, `beads-dolt-sync.ts`, `beads-shared-server.ts`, `beads-remote-health.ts` | the databases of the machines and of the remote | ready, claimAfterRecheck, push | no bead is claimed on two machines |
| Remote runner, `remote-runner.ts`; secrets, `secret-provider.ts`, `secret-env-runtime.ts` | registered plans; the world they build | launch, and the commands and scripts of a plan | a session is reachable, complete and has its secrets |
| Plugins and installed files, `plugin-manager.ts`, `mcp-install.ts`, `skill-install.ts`, `ciclo-config.ts` | files of the project | install, enable, trust, activate | killed anywhere, a start works and a rerun repairs |
| Planner and context, `response-planner.ts`, `response-audit-log.ts`, `context-budget.ts`, `context-classifier.ts`, `context-pack.ts` | none | plan, pack | what spends context fits in it |
| Benchmarks, CLI, Herdr adapter, harnesses and prompts, probes, `ciclo/` (legacy Python) | see `PROJECT.json` | | |

**Interactions.** Each `ciclo mcp` process builds one runtime context (`mcp-stdio.ts`): a supervisor, a question
store, an event store, and a leadership result. Only a leader starts the heartbeat. The heartbeat and the MCP
tools call the supervisor synchronously; the heartbeat awaits `bd`, the brain (a remote model) and remote
probes, and gives up the thread there. Harnesses reach Ciclo through an MCP process of their own (stdio) or the
leader's HTTP endpoint. Worktrees, panes, background agents and the Beads database are shared with the world
outside the process.

**Where it is hard.** Several processes race for the lock files and may die between any two calls. Two ticks may
overlap, because the timer does not wait for the previous one, and others are started by a tool or a command. A
snapshot is used after an await, and a git status after the worker has gone on writing. Lines appended to the shared
files are cut off by failures, and the next line is glued to them. Workers end, ask, pause and write files at any
moment; commands of Herdr and git fail; exit events arrive late; CLI commands act on the same panes with no shared
state. `PROJECT.json` lists each such hazard at its line, with the properties that watch it or the reason why none
does.

## 2. The modules

| Module | Models | Composes |
|---|---|---|
| `McpLeadership` | `acquireMcpSessionLeadership` and `release` | |
| `WorkerSessionSupervisor` | the supervisor, launchers, agents and worktrees | |
| `InternalHeartbeat` | `tick()`: follow-ups, the brain and its tools, dispatch of ready work, and the Beads queue | extends `WorkerSessionSupervisor`, refines `WorkAssignment` |
| `OperatorRouting` | the question stores of several MCP processes and the tools that use them | extends `WorkerSessionSupervisor` |
| `WorkAssignment` | what the assignment of work promises: a bead has one claimant, work starts on a claim, once | |
| `RemoteSessionRegistry` | the registry and the heartbeat's sweep over it | |
| `CicloCron` | the scheduler and the heartbeat's `runDueCronJobs` | |
| `CicloMemory` | the entries each process holds, the file they share, and compaction | |
| `CicloEvents` | the event stores of processes, the file, and its readers | |
| `ClientLogin` | what a login promises: tokens for the approver, once | |
| `DeviceAuthorizationFlow`, `TokenRegistry` | device-code login; token sets | `TokenRegistry` extends the flow |
| `AccessGrants` | roles, grants, scopes, decisions and views, as operators | |
| `ClientAccess` | login, tokens and authorization in one process | extends the three, refines `ClientLogin` |
| `PolicyGate` | `evaluatePolicy` | |
| `BeadsTools` | the tools that change a bead, and tracker sync | extends `PolicyGate` |
| `BeadsRemote` | claims of several machines over one remote or server | |
| `SecretProviders`, `RemoteRunner` | look-up of secrets; launch plans and the workload they start | `RemoteRunner` extends the providers |
| `ProjectFiles` | plugin list, MCP configurations, skills and starter configuration | |
| `ContextPlanning` | budget, classifier, pack and dry-run planner, as operators | instantiates `PolicyGate` |
| `MC...` | instances for TLC: sets of model values | |
| `MCProjectProcesses`, `MCHeartbeatDuties`, `MCMcpServices` | components with no common state, side by side in one run | extend the `MC` modules of their parts |
| `McpLeadershipProofs`, `WorkerSessionProofs`, `InternalHeartbeatProofs`, `ClientAccessProofs` | theorems about the component they are named after | extend its module |
| `DutiesProofs` | theorems about the remote registry, the questions and cron | extends `RemoteSessionRegistry`, `OperatorRouting`, `CicloCron` |
| `ProjectLogProofs` | theorems about the memory and the event file | extends `CicloMemory`, `CicloEvents` |
| `SharedWorkProofs` | theorems about shared claims and the tools | extends `BeadsRemote`, `BeadsTools` |
| `ProjectProofs` | theorems about installed files, the planner and remote sessions | extends `ProjectFiles`, `ContextPlanning`, `RemoteRunner` |

**McpLeadership.** Contenders are operating-system processes, so every file-system call is a step:
`openSync(lock, "wx")`, reading the record, `process.kill(pid, 0)`, the two unlinks, the second open, and
`writeFileSync`, which truncates before it writes (an empty record does not parse, hence `NoProcess`). `pc` is
the position in the function. `Die` leaves the files behind at any point. A `Server` is `ciclo mcp`; a `Command`
is a one-shot CLI process, which builds the same context, may become leader, and ends without `release()`. Pids
are never reused.

**WorkerSessionSupervisor.** The supervisor is synchronous, so a method is one operator from a session record
(or the map) to the next and one action. A record carries what the supervisor keeps (`state`, `handle`, `beat`,
`attempts`, `nudged`, `isolated`) and what is true of the world (`proc` the launched command, `agent` the agent
it brought up, `tree` the worktree). `untracked` sessions are `unused` (not launched), `forgotten` (removed by a
cleanup) or `lost` (the process restarted and its map with it). `ok` is a record of outcomes of the external
commands of an operation: Herdr lookup, close (pane and workspace share one outcome), git status, worktree
remove and prune. A removal of a worktree is two steps, because git status and `git worktree remove --force` are
two commands and the worker is another process, to which a signal was sent at most: the operation that begins
one (`Stopped`, `CleanedUp`, `Collected`) ends with git status, and leaves `removal` or `collecting` set;
`FinishRemoval` and `FinishCollection` remove, prune and forget. What the worker writes in between makes the
tree `late`, what it wrote before `dirty`. `reported` is a history variable.

**InternalHeartbeat.** A tick is a thread that gives up control only at an await: `deciding`, `ready`, `show`,
`claim`, `note` and `brief` are its awaits, and other ticks, requests and exit events run only when every tick
is at one (`Yielded`). `release` and `consult` are the snapshot of the stalled workers that `decideFollowUps`
goes through; `full` is the capacity decision, made once; `remaining` is the list returned by `bd ready`,
filtered. The claim is one call of `bd` that succeeds, is refused or times out with or without effect. What the
brain decides is arbitrary within `BrainActions`; while its answer is awaited it may also work on any worker
through the tools of `BrainTools` (`executeBrainTool`), and `byTool` remembers the workers it launched that way.
`dropped` and `renudged` are history variables: beads whose tick failed between the claim and the launch, and
workers nudged after a tick listed them. The refinement mapping to `WorkAssignment` reads the owner of a bead
from the database, its holders from the ticks past their claim, and the start of work from the sessions. The
cleanup at the head of the tick, and the removals of a stop (`WithRemoval`), work from end to end with commands
that succeed; `WorkerSessionSupervisor` has the two steps, and every combination of failures.

**OperatorRouting.** `questions[p]` is the store of process `p`; `Server[s]` is the process worker `s` talks to;
`Leader` runs the supervisor and talks to the operator. A question is routed to a session, a bead or, without
context, to everybody (`Route`). `Ask` de-duplicates, `Answer` changes the status only of a pending question
with a non-empty answer but resumes workers in any case, as the code does. `unasked` is a history variable:
workers last put to wait by the brain or by a report of their own, rather than by a question.

**RemoteSessionRegistry.** A sweep lists the active sessions, and for each reads the record, awaits the probe
and writes back the record it read; `session` is that copy. Sweeps may overlap. `probing` is chosen initially:
with a client sessions are probed, without one only the time limits apply. `assigned` and `raced` are history
variables.

**CicloMemory.** `mem[p]` is the `entries` map of process `p`, `disk` the last line of each id in the file that
parses, which is what `load` makes of it, and `tail` how the file ends. `upsert` is one step, the assignment and
the append. An append is `written`; or it throws, which ends the operation under way with the map ahead of the
file, and leaves nothing (`refused`), part of a line (`torn`) or a line without its newline (`unended`). The next
line is glued to a line of the last two kinds and lost, and with it what an unended one said. `compact()` is a
sequence of such steps with its position in `work[p].pc`: ages, then for each group the summary, the summary with
its sources and the marks of the sources, then the archiving. Any process may compact (the heartbeat, a tool, a
command), and a step of another, or the end of this one (`Restart`, which loads the file), may come between any two
appends. `Age` is taken at the time `compact()` was called with. The map of groups is computed once in the code
and here when a group is begun: a process is not interrupted in `compact()`, so the two agree. `behind`,
`reverted` and `unnamed` are history variables: the entries a process holds without having seen their last line,
those of which a line was lost or written over by such a process, and those whose naming line was.

**CicloCron.** `Thread` is the set of ticks that may be under way, each in a process `Of[k]`: several in the leader
(the timer, `ciclo_run_due_cron`), one in `ciclo cron run-due`, which is `gone` until it is run. A tick takes its
time (`ahead`), then lists the due jobs once and runs them in order (`todo` holds their positions in `JobOrder`);
it gives up the thread where a job asks the brain (`Consults`, `asking`), and there the other ticks of its process
go on. Only the last finished run of a job is ever looked at, so `last[p]` (memory) and `file` map jobs to its
time. An append may fail once or twice (the catch records the run again), and may leave part of a line (`torn`)
that swallows the next; a process may end at any point and start again from the lines that parse. Jobs have an
interval (`Every`) or minutes of the day (`Minutes`, which stands for `dailyAt` and `cron`). `filed`, `known` and
`crossed` are history variables: the latest run on file, the latest a process recorded or found, and the jobs that
a tick listed while another still owed them or after a run with a later time.

**CicloEvents.** Several processes append to one file. An event is named by the number of events before it; its
cursor is what the code numbers it with, from the largest cursor its process loaded. `append` is memory first,
file second, and may fail in between, or be cut in the middle of a line or before its newline (`ending`), to
which the next line is then glued. `ciclo_poll_events` reads the memory of a process (`Home`),
`ciclo events --follow` loads the file at every poll. `crossed` is a history variable: some process has appended
without having loaded every line of the others, or glued a line to one that could be read.

**DeviceAuthorizationFlow, TokenRegistry, AccessGrants, ClientAccess.** Device records and token sets live in
the memory of one process; a user approves somewhere else. `Polled` is what one poll leaves of a record
(unknown, expired, too early, due, pending), and the same poll stores the tokens. `AccessGrants` has no state:
it translates the decision, the delegation and the view as three walks over the grants, with the two ideas the
code has of the principal's name (`CleanPrincipal` trims it, `ViewPrincipal` does not). `ClientAccess` puts them
together for every grant set up to `MaxGrants` of the pool, every launcher's principal, both modes, both origins
and every bearer token. The mapping to `ClientLogin` is how far a login got, who approved it, and how many of
its token sets are not revoked.

**PolicyGate, BeadsTools.** A request is handled in a thread of its own that yields at every call of `bd`; what
a handler awaits is in `handling[k].await`, and its key is recorded without an await before the answer.
`CommandFails` ends a handler with or without the effect of the call. A sync reads each target's entry before
the first await and writes it back after. Other people claim, close and reopen the bead. A closing is followed by
a review session unless the call switched it off, it is denied, or it cannot be launched. `applied`, `troubled`,
`misled`, `closings`, `reviews`, `overtaken`, `unreviewed` and `synced` are history variables.

**BeadsRemote.** With the Dolt remote every machine has a database of its own, pulled before a selection and
pushed after a claim; with the shared server all work on one. `dolt` refuses a push that is not on top of what
was pulled, and the answer of a push may be lost (`answered`). Machines restart at any point; the health of the
remote changes freely.

**SecretProviders, RemoteRunner.** The plan is what the code decides: `Commands` are the commands of the three
kinds in their order, `ContainerSteps` the script of the workload. The operator runs the commands one by one, a
failing script stops and is run again from its top; the container may be killed, restarted in its pod or in a
new one. What `wg-quick`, `kubectl` and the kubelet do is external. Tunnel keys are numbered, so that a session
is reachable when the number of the runner's keys is the number of the host's interface. Secrets are resolved
one after the other while what stands in their way (`obstacle`) changes.

**ProjectFiles.** One command at a time writes files step by step (truncate and fill, or temporary file and
rename) and may be killed between any two steps; an MCP process may start at any moment and reads the plugin
list and the configuration. `.mcp.json` is merged. Of `config.toml` the installation drops every server table, the
user's too, keeps every other line, and appends its own table; `text` is what a kill left of it: whole, cut in a
table (which goes with the next installation) or torn in a line outside the tables (which stays).

**ContextPlanning.** Pure functions of one call, made once per behaviour: `Response` with its audit record, and
`BuildContextPack` as a fold over the items in the order of their priority, on every input of the instance. The
thresholds of the budget are part of the input, each given or left to its default.

Operators named `Bug...` stand before the definition they are a defective version of (a dropped guard, a
swapped order, an ignored failure). No specification uses them; each property has been seen violated
with one of them put in the place of the real definition.

## 3. What is checked

| Run | Instance | Shows |
|---|---|---|
| `ProjectProcesses` | two parts, below | five properties |
| `WorkerLifecycle` | 1 session of any kind, clock 0..2, failing commands, silent after its end | `ActiveWorkerHasItsTree`, `ForgottenIsDown`, `TerminalIsFinal`, and the liveness property `CompletedIsForgotten` |
| `WorkerHostile` | 1 session of any kind, failing commands, late reports, foreign collection, a worker that writes between git status and the removal | `ForgottenLeavesNoTree`, `NoDirtyTreeRemoved`, `OnlySilentWorkersStall` |
| `HeartbeatSerial` | 2 sessions, 2 beads, 1 tick, capacity 1, clock 0..4, a brain that nudges, stops, asks and relaunches, by its decisions and its tools | `WithinCapacity`, `OneWorkerPerBead`, `GraceHonoured` |
| `HeartbeatOverlap` | 2 sessions, 2 beads, 2 ticks, capacity 2, failing calls, a brain that launches workers itself | `ExclusiveClaim`, `NoOrphanClaim`, and the refinement `ImplementsAssignment` |
| `HeartbeatDuties` | three parts, below | six properties, three of them liveness |
| `McpServices` | eight parts, below | thirteen properties |

`ProjectProcesses`, `HeartbeatDuties` and `McpServices` put components side by side that share no variable: the
value of `shared`, `duty` or `part` is chosen in the initial state, the chosen component runs, and the variables of
the others keep their initial values. The states of such a run are the sum of the components' states, not their
product; a product would add nothing, since no action of one reads or writes a variable of another. `MCMcpServices`
also fixes what the launcher says in single mode, where it is not read.

| Part | Instance | Shows |
|---|---|---|
| `lock` | 3 servers, 1 command, critical sections that do not overlap | `AtMostOneLeader`, `LeaderHoldsFiles`, `FollowerHasLeader` |
| `memory` | 2 processes of which one or both compact, 3 entries of a group, days 0..1, limits of one entry and one day, 2 faults (1 when both compact) | `DetailsSurvive`, `NeverTakenBack` |
| `routing` | 2 workers on a bead, 3 questions, one MCP process for both, workers that report they wait | `WaitingHasQuestion`, `WaitingIsResumed` |
| `remotes` | 1 remote, 2 sweeps, clock 0..3, limits 1 and 2 | `OwnershipKept`, `SilentIsLost` |
| cron: `timer`, `command` | 2 jobs, two overlapping ticks of the leader, or one beside a `ciclo cron run-due`; clock 0..2, 1 fault | `RecordedRunNotRepeated`, `CronJobsRun` |
| `access` | 1 login, 3 token sets, grant sets of up to 2 out of 4, launchers of four names (one with a blank, one blank), clock 0..3 | `ImplementsLogin` (refinement), `GrantViewsAgree` |
| `tools` | 2 handlers, 3 calls out of 10, 2 trackers, 1 fault, others who close and reopen | `AppliedOnce`, `ReviewedOnce`, `TargetsReachedOnce` |
| `events` | 2 writers, a poller and a follower, 5 events, 3 restarts | `EventsInOrder` |
| `runner` | launch requests of all three kinds, 2 secrets, 2 faults | `TunnelMatches`, `SessionIsWhole` |
| `plugins` | 1 package, 5 manifests, commands killed anywhere | `StartNeverFails` |
| `installs` | the installed files, up to 3 cut off | `RerunRepairs` |
| `sharing` | 2 machines, 2 tasks, 6 configurations | `SharedClaimExclusive` |
| `planning` | 6 items of context, 5 goals, 4 choices of thresholds, every planner input | `HeavyPlansFit`, `PackIsBounded` |

Five more runs show that the code does otherwise than a document says. They check one property each
and end in a counterexample:

| Run | Document | Counterexample |
|---|---|---|
| `LeadershipTwoLeaders` | README.md:98, one process is elected | two servers start together: one finds the other's new lock without a record yet, takes it for stale and unlinks it when the other already leads |
| `HeartbeatOverlapCapacity` | README.md:108, the cap on active workers | two ticks count before either launches |
| `HeartbeatOverlapRelaunch` | SPEC-CICLO-001:232, a bead is not assigned to several harnesses | two ticks ask the brain about one stalled worker; each stops it and launches a replacement |
| `RoutingStdioQuestion` | SPEC-CICLO-001:374, questions are surfaced | a worker's own stdio process holds the question in its own store |
| `WorkerGcForeign` | `mcp-contract.ts:802`, orphaned panes and worktrees are reconciled | `ciclo gc workspaces` has an empty supervisor and takes a supervised worker for an orphan |

**Bounds and why they are enough.** The sets of processes, sessions, beads, ticks, questions and remotes are
constants. Leadership needs three contenders for a reclamation during a reclamation, and one command that never
releases. Sessions do not interact inside the supervisor (every operator maps each session by itself), so one
session of each kind suffices there; the heartbeat needs two, on two beads, for capacity, relaunch and review, and
three for two relaunches of one worker; routing needs two for broad answers. `MaxTime` bounds the clock at enough
ticks for silence, a nudge, its grace period and a stop; `MaxAttempts` bounds the nudges recorded. `StaleAfter`,
`RemoteStaleAfter`, `RemoteLostAfter` and `Grace` are one or two ticks, so every comparison is met on both sides. A
registration leaves room on the clock for the session to be lost. The memory needs a source, its summary and an
entry that another process records meanwhile; with `MinCompound = 1` one source makes a summary, and two days put
every age on both sides of the limits. One fault is a cut line with the line glued to it, two add a process that
starts again from what can be read; when both compact, what the second does to the first needs no fault at all. The
services: one login suffices, for a step touches the records of one login, and three token sets allow a refresh of a
refresh; the clock reaches past the code's and both tokens' lifetimes, and grants are taken two at a time because
each walk compares them one by one. Two handlers make every overlap of two tool calls, three requests a repetition
after it, one fault a failure at any await or a restart between any two steps. Five events exceed the poll limit of
two twice, and three restarts let two writers take turns with one of them restarted twice; the run stops at
`crossed`, after which nothing is promised. Two runner faults are a killed container and a rerun that fails again.
Two machines and two tasks make a push refused by a claim of the other task. The planner is checked on every input,
with used tokens on both sides of every default threshold, and with thresholds given all, in part and out of order.
Cron: a job with an interval that asks the brain and one with two minutes that does not, over a minute and a half of
two ticks of the clock each; the fault is a failed or cut append, or a restart. Deadlock is not checked: workers may
all end, the clock reaches its bound, and processes die for good.

**Fairness.** `CompletedIsForgotten`: the leader's interval timer keeps calling `cleanupCompleted`, whose commands
sometimes work (weak fairness of the cleanup with good outcomes), and Node delivers exit events. `WaitingIsResumed`:
the operator answers the questions `ciclo://questions` shows (weak fairness of a non-empty answer to each pending
one). `SilentIsLost`: time passes and the timer sweeps. `CronJobsRun`: the timer begins ticks, a tick gets to its
cron jobs, and one under way goes on (`BeginTick`; `ListDue`; `AskBrain` or `RecordRun`, for each thread), because
the brain's request ends with an answer or an error, which is recorded as a failed run, and files can be written in
the end. That the brain answers is an assumption about the brain's client: Ciclo sets no timeout of its own, and a
request that never ends does keep its job from being recorded. Nothing is assumed of workers, agents, what the brain
decides, readers or other processes. The other runs assume no fairness.

**Conditions on the properties.** They are what the code needs, and the rest is in the hazards:

- `Serial`: critical sections of the election do not overlap. Without it `LeadershipTwoLeaders` applies.
- `TerminalIsFinal` is checked and proved without `LateReports`: a report with an explicit state makes an ended
  session active (`worker-session-supervisor.ts:1662`).
- `NoDirtyTreeRemoved` is about what was uncommitted at the git status. What a worker writes between the git status
  (line 1482, or 2018 in a collection) and `git worktree remove --force` (1566, 2045) is deleted; the model has that
  step (`late`), and the property excepts it.
- `ForgottenIsDown` excepts Herdr panes, which stay open when their lookup fails, and `OnlySilentWorkersStall`
  excepts Claude sessions, whose time comes from the registry.
- `NoOrphanClaim` excepts the beads whose tick failed between the claim and the launch (`dropped`), which nothing
  reopens.
- `WithinCapacity` and `OneWorkerPerBead` are checked and proved with one tick at a time; two violating runs
  show what overlapping ticks do to each.
- `GraceHonoured` excepts workers nudged after the tick listed them (`renudged`), by the brain's tool or another
  tick: the tick goes on with the old record.
- `WaitingHasQuestion` and `WaitingIsResumed` except workers put to wait by the brain or by a report of their own
  (`unasked`): no store holds a question for them.
- `OwnershipKept` excepts sessions changed during a probe of their own (`raced`), whose change the probe overwrites.
- `ExclusiveClaim` and `ImplementsAssignment` leave out workers that the brain launched with its tool (`byTool`)
  and their helpers: the tool claims nothing.
- `RecordedRunNotRepeated` excepts jobs in `crossed`: a tick listed them while another still owed them, or for a time
  before a run on record, and the code runs them twice. A line that lacks only its newline counts as cut.
- `CronJobsRun` is about intervals: a minute that passes while the process is down is not made up for.
- `AppliedOnce`, `ReviewedOnce` and `TargetsReachedOnce` except the calls in `troubled`, which failed after an
  effect or overlapped another call of the same tool: their key is recorded too late to stop the second one.
  `ReviewedOnce` also excepts calls that somebody else overtook between `bd show` and `bd close` (`overtaken`),
  which are reviewed though they closed nothing, and allows a closing without review where the review was switched
  off, denied or could not be launched (`unreviewed`).
- `EventsInOrder` holds until a process appends while the file has lines of another that it has not loaded, or
  glues a line to one that could be read without its newline (`crossed`): from then on cursors are given out twice.
- `GrantViewsAgree` excepts names with blanks around them (`ShownPadded`): the decision trims the name
  (`session-access.ts:77`) and the view does not (`client-auth.ts:239`), so such a session is allowed what its view
  does not show.
- `TunnelMatches` and `SessionIsWhole` are about a session that runs. A pod whose network outlives its container
  does not get past `wg-quick` again, and a clone cut off on a volume is taken for a checkout (`cut`).
- `StartNeverFails` assumes one plugin command at a time, and excepts a starter configuration cut off half-way.
- `RerunRepairs` excepts an `.mcp.json` cut off half-way: the rerun throws on it until it is removed by hand,
  and the servers of other tools in it are gone. It promises `ciclo`'s server in `config.toml`, and the settings that
  were not cut off; not the user's servers there, which every installation drops (`tests-ts/mcp-install.test.ts:237`),
  and not a file that parses when a kill tore a line outside the server tables (`codexLine`): that line stays.
- `SharedClaimExclusive` is about claims made and told under a remote or a shared server; in local mode the
  machines of the model are processes on one database; databases that are not connected are nobody's claim.
- `DetailsSurvive` and `NeverTakenBack` except the entries whose naming line was glued to a cut one (`unnamed`), and
  those of which a line was lost so or written by a process that had not seen the last one (`reverted`).
  `upsert` does not read the file again, so of two processes that compact each can undo what the other said.

## 4. What is proved

For every value of the constants that satisfies the named assumptions.

`McpLeadershipProofs`:
- `TypeCorrect`, `[]ElectionTypeOK`.
- `ElectionCorrect`, `Serial => []ElectionInv`. `AtMostOneLeader` alone is not inductive: a contender at
  `truncate` becomes leader two steps later. `ElectionInv` adds that at most one process is in a critical
  section and what each program point knows: a contender that probes or unlinks has found the lock, one past the
  probe knows that nobody leads, one that holds the lock holds it alone. From it follow `OneLeader`,
  `LeaderIsRecorded` (`LeaderHoldsFiles`, and `AcquireNeverThrows`: the second open meets no lock) and
  `FollowersAreLed`.
- `FollowersDefer`, without the assumption `Serial`: a process that settles for follower read a record naming a
  process that is alive at that moment.

`WorkerSessionProofs`:
- `TypeCorrect`, `[]TypeOK`: one lemma per operator of the module, then one step per action.
- `EndedForGood`, `[]TerminalIsFinal` when `LateReports = FALSE`: every operator leaves an ended session out of
  `Active`.
- `NothingLeftBehind`, `[]ForgottenLeavesNoTree`: inductive with the type invariant (`NoTreeLeft`); a removal ends
  in `forgotten` only when its tree is gone (`TreeGone`), and nothing later makes one.
- `ForgottenWorkersAreDown` (`[]ForgottenIsDown`), `SilenceIsReal` (`OnlySilentWorkersStall`) and
  `UncommittedWorkIsKept` (`NoDirtyTreeRemoved`), whoever else collects garbage and however late reports are. They
  rest on what a record knows of the world, which is inductive: a session not yet launched has started nothing
  (`NothingStarted`), one that completed has no process or agent that works (`SeenToEnd`), the last sign of life on
  record is no older than the last report (`BeatIsNewer`), and a pending removal is of a session that is being
  stopped or has completed (`Removing`). The second states exactly what the two commands of a removal guarantee: a
  tree that was dirty when the removal was decided is not removed by it, nor by another removal, collection or
  restart that overlaps with it. `EverySessionSteps` reduces a step of the map to the step of one record.
- `WorkersKeepTheirTrees` (`[]ActiveWorkerHasItsTree`) when `LateReports` and `ForeignGc` are FALSE: a report
  after the end revives a session whose tree is gone, and `WorkerGcForeign` shows the foreign collection.

`InternalHeartbeatProofs`, for any number of ticks, beads and sessions:
- `HeartbeatTypeCorrect`, `ClaimsAreExclusive` (`[]ExclusiveClaim`) and `AssignmentIsImplemented` (the refinement),
  however ticks overlap and whichever calls fail. A tick holds a bead only between its claim and its launch, so the
  inductive `HeartbeatInv` says what the ticks know (`TicksKnown`: the workers a tick deals with were launched, a
  tick that dispatches has a bead), that a held bead is claimed in the database and in one tick's hands with no
  worker of the heartbeat's own (`ClaimsHeld`), and that a bead with such a worker is claimed (`WorkIsClaimed`).
  Every action is first shown to have one of five effects on beads and workers (nothing, loses, claims, gives up a
  bead, starts work), and the invariant and the refinement are then proved once per effect.
- `NoClaimForgotten` (`[]NoOrphanClaim`), whichever calls fail: a bead without a worker is in a tick's hands, or in
  `dropped`, where only a failure after its claim puts it.
- `CapacityRespected` (`[]WithinCapacity`) and `BeadHasOneWorker` (`[]OneWorkerPerBead`) from `OneTickAtATime` (the
  code does not see to it: `HeartbeatOverlapCapacity` and `HeartbeatOverlapRelaunch` show what overlapping ticks
  do), `LaunchesForWorkOnly` (the brain does not launch workers with its tool, which neither counts nor claims) and,
  for the capacity, finitely many sessions. `WithinCapacity` is not inductive, because the count is taken before the
  awaits: `CapacityInv` is about the `Engaged` workers, which are the active ones and those the tick has yet to ask
  the brain about, and adds that a tick that looks for work found room and still has it. A step shrinks the engaged,
  recounts them, replaces one (a relaunch) or adds one (a launch).
- `GraceKept` (`GraceHonoured`), for any number of overlapping ticks and any brain: `ReleasesDue` says that what a
  tick judged when it began still holds of every worker it has yet to release, save those in `renudged`.

`ProjectLogProofs`:
- `TypeCorrect`, `[]TypeOK`.
- `SummariesSurvive` (`[]DetailsSurvive`) and `NothingTakenBack` (`NeverTakenBack`), for any processes that record
  and compact, with lines refused, cut and glued, from the inductive `RecoveryInv`. `DetailsSurvive` alone is not
  inductive: after a failed append the map is ahead of the file, and the next compaction writes what the map holds.
  `RecoveryInv` adds that an id in use was drawn (`DrawnInv`), that a process knows at least what the file says of
  an entry it is not `behind` on and holds as compacted only what was named (`KnowsInv`), that what an unended line
  said would leave the same true if it were undone (`SurvivalInv`), and what each position in `compact()` relies on
  (`StepInv`). `Extends` is the order in which the versions of an entry grow; `UpsertKeepsInv` is the one argument
  about writing that every writing step is reduced to, and `QuietStep` the one for the others.
- `EventsComeInOrder` (`[]EventsInOrder`), for any number of writers. `EventsInv` says that, until processes cross,
  file and memories are in order of cursor and of writing (`InOrder`), that what the file has beyond a writer's
  memory is later than all it holds (`Remembers`), that a reader was given nothing later than what is beyond its
  cursor (`StandsIn`), and that a follower stands at an event of the file (`Follows`); after a failed write the same
  cursor is given out twice, so cursors alone do not order what a poller was given. `PollReturnsNext` says what the
  filter of a poll returns of events in order; it and the largest cursor need `LeastNumber`, an induction over data
  drawn from the library's theorem that inclusion of finite sets is well-founded. `EventsAfter` places the later
  events by counting, as `SelectSeq` has no definition the prover can use.

`ClientAccessProofs`:
- `TypeCorrect` and `LoginIsImplemented` (the refinement of `ClientLogin`). `LoginInv`
  adds that an approved device and all its token sets name the one who approved it (`Named`) and that a login has
  token sets exactly when it issued them, so that the poll that issues meets an empty chain.
- `GrantsAgree` (`[]GrantViewsAgree`), for any pool of grants, any names and any trimming of them, at any time:
  three walks written separately agree, save on what a name with blanks around it is shown (`ShownPadded`).
  `RequestsMade` assumes that the actions of the requests are those the rights name and that a request let in before
  the login changes nothing, as `ciclo_auth_device_start` and `_poll` do. Without the second part a bootstrap
  request of a read-only session would be allowed and not shown.

`DutiesProofs`:
- `RemoteOwnershipKept` (`[]OwnershipKept`) for any number of overlapping sweeps. A sweep writes back a copy, so
  `RegistryInv` says that the copy a sweep holds while it probes has the bead of the record, unless the session is in
  `raced`.
- `NobodyWaitsForNothing` (`[]WaitingHasQuestion`), whatever workers report of themselves: no step but a question, a
  decision of the brain or such a report puts a worker to wait (`Carries`).
- `RunsOnFileAreNotRepeated` (`RecordedRunNotRepeated`), for any processes and overlapping ticks. `CronInv` says of
  each job not in `crossed` that one tick at most owes it (`OneOwes`), that memory and file hold its latest run
  (`LatestKept`), and that the tick that owes it began no earlier than that (`OwedLater`). The tick's jobs are
  positions rather than a filtered sequence for the sake of this proof.

`SharedWorkProofs`:
- `ClaimsAreShared` (`[]SharedClaimExclusive`) for any number of machines and any configuration. `SharingInv` adds
  that a machine never unmakes an ownership it pulled or pushed (`NothingUnmade`), so a push cannot undo another's
  claim, and that a task just claimed is the machine's own in the database it works on (`OwnsClaimed`).
- `ChangesApplyOnce` (`[]AppliedOnce`), `ClosingsAreReviewed` (`[]ReviewedOnce`), `TargetsAreReachedOnce`
  (`[]TargetsReachedOnce`) for any number of handlers, calls and trackers. `RivalsKnown` says that a key shared by
  two handlers, or used beside another call of its tool, is in `troubled`; `AppliedInv`, `ReviewInv` and `SyncInv`
  say how far each handler got with its effect. `PreviewsApart` is needed by the first: a dry run and its real call
  have different keys, as the derived keys do (`mcp-stdio.ts:638`). A client that gives both the same explicit key
  is told of a change nobody made.

`ProjectProofs`:
- `PluginListStaysReadable` (`[]StartNeverFails`) and `ReinstallRepairs` (`[]RerunRepairs`). Both follow from what
  each position of a command says of the file it is writing (`PluginsInv`, `StartInv`, `InstallInv`).
- `HeavyPlansKeepRoom` (`[]HeavyPlansFit`), arithmetic for every window, reserve, measured size and choice of
  thresholds. The statuses and the responses are chains of conditions in the code; the model has them as chains too,
  because alternatives whose guards overlap left the prover, and a reader, with a choice the code does not have.
- `PacksKeepTheirSize` (`[]PackIsBounded`), for every set of items, every size and every redaction. A fold
  is a `CHOOSE` of a function that satisfies its recursion equation: `FoldExists` gives such a function for a finite
  set, `FoldsAgree` makes it the only one, and `MinimalSubset` takes the place of an induction theorem. From these
  the sum of a set does not depend on the order (`SumWithout`), each pack is the pack of the more important
  items and one item more (`PackUnfolds`), and `PackInv` is carried from one to the next (`ItemPacked`).
  `Before` is shown strict and total from distinct names, which `PlanningAssumption` states of the items: two
  items of one id are kept by the code in the order of the request.
- `SessionsStartWhole` (`[]SessionIsWhole`): the position in the workload's script says what the pod has.
- `SessionsAreReachable` (`[]TunnelMatches`): the keys differ for a while after each bootstrap. `KeysInv`
  says for each position in the plan which of the host's file, the interface, the secret and the pod have the
  keys of the last bootstrap, for which the lemmas about `Commands` show that each command occurs
  once and the workload last.

**Only model-checked.** The liveness properties (`CompletedIsForgotten`, `WaitingIsResumed`, `SilentIsLost`,
`CronJobsRun`): neither fairness nor `ENABLED` is within the prover's reach.

## 5. Not modelled, and the plan

- `submitFeedback` (the shape of a question, but no worker waits for it) and the remote handoff, which files its
  summary as feedback and keeps no state.
- In the heartbeat: metrics and the Claude channel; the scoring and filters of ready work (any ready bead may be
  chosen); the choice of harness and model, and the prompts.
- The election of a second leader in a worker's worktree (several project roots).
- JSON-RPC framing and HTTP sessions of the MCP server, argument parsing and printing of the CLI, the parsing of
  the configuration, the text of manifests and scripts: conversions without state or decisions of their own.
- The Herdr adapter and notifier wrap an external program, whose outcomes are nondeterministic in the
  supervisor.
- A cron line that lacks only its newline counts as cut, although a process that starts before the next append
  would read it.
- Benchmarks, probes, the demo and the Python core are not part of the running system.

Next:

1. `WorkerSessionSupervisor` and `InternalHeartbeat`: action properties that relate the records of a session
   before and after an await.
