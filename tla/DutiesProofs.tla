------------------------------ MODULE DutiesProofs ------------------------------
(***************************************************************************)
(* Proofs about what the heartbeat attends to besides launching workers:     *)
(* the registry of remote sessions, the questions of waiting workers and the *)
(* cron jobs.                                                                *)
(***************************************************************************)
EXTENDS RemoteSessionRegistry, OperatorRouting, CicloCron, WorkerSessionProofs

(* The remote sessions. *)
SweepRecord == [todo : SUBSET Remote, at : 0..MaxSweepTime,
                probed : Remote \cup {NoRemote}, session : RemoteRecord]

(* A probe under way read the bead the session still has, unless the session  *)
(* was given work during the probe.                                           *)
ProbeOfNow(c, r) == sweeps[c].probed = r => sweeps[c].session.bead = registry[r].bead
RegistryInv ==
    /\ RegistryTypeOK
    /\ \A r \in Remote \ raced :
          /\ registry[r].bead = assigned[r]
          /\ \A c \in Sweep : ProbeOfNow(c, r)

LEMMA UnregisteredType == Unregistered \in RemoteRecord
BY RegistryAssumption DEF Unregistered, RemoteRecord

LEMMA SweepChanges ==
  ASSUME NEW s \in SweepRecord, NEW todo \in SUBSET Remote, NEW at \in 0..MaxSweepTime,
         NEW probed \in Remote \cup {NoRemote}, NEW session \in RemoteRecord
  PROVE  /\ [s EXCEPT !.todo = todo, !.at = at] \in SweepRecord
         /\ [s EXCEPT !.todo = todo, !.probed = probed, !.session = session] \in SweepRecord
         /\ [s EXCEPT !.probed = probed, !.session = session] \in SweepRecord
BY DEF SweepRecord

LEMMA RegistryInitInv == RegistryInit => RegistryInv
<1> SUFFICES ASSUME RegistryInit PROVE RegistryInv
  OBVIOUS
<1>1. Unregistered \in RemoteRecord /\ NotSweeping \in SweepRecord
  BY RegistryAssumption DEF Unregistered, NotSweeping, RemoteRecord, SweepRecord
<1>2. RegistryTypeOK
  BY <1>1, RegistryAssumption DEF RegistryInit, RegistryTypeOK, SweepRecord
<1>3. QED
  BY <1>2, RegistryAssumption
  DEF RegistryInv, RegistryInit, Unregistered, NotSweeping, ProbeOfNow

(* One record changes: a session of the given state, the bead it should have. *)
LEMMA PutKeeps ==
  ASSUME RegistryTypeOK, NEW r \in Remote, NEW w \in RemoteRecord, Put(r, w)
  PROVE  /\ registry' \in [Remote -> RemoteRecord]
         /\ registry'[r] = w /\ \A q \in Remote \ {r} : registry'[q] = registry[q]
BY DEF RegistryTypeOK, Put

LEMMA RegisterStep ==
  ASSUME RegistryInv, NEW r \in Remote, NEW b \in RemoteBead \cup {NoBead}, Register(r, b)
  PROVE  RegistryInv'
<1> DEFINE w == [state |-> "connected", bead |-> b, beat |-> time]
<1>1. RegistryTypeOK /\ w \in RemoteRecord /\ w.bead = b /\ w.state = "connected"
  BY DEF RegistryInv, RegistryTypeOK, RemoteRecord
<1>2. Put(r, w) /\ assigned' = [assigned EXCEPT ![r] = b] /\ UNCHANGED <<probing, time, sweeps>>
  BY DEF Register
<1> HIDE DEF w
<1>3. /\ registry' \in [Remote -> RemoteRecord]
      /\ registry'[r] = w /\ \A q \in Remote \ {r} : registry'[q] = registry[q]
  BY <1>1, <1>2, PutKeeps
<1>4. /\ RegistryTypeOK' /\ assigned'[r] = b /\ \A q \in Remote \ {r} : assigned'[q] = assigned[q]
      /\ raced' \subseteq Remote /\ raced \ {r} = raced' \ {r}
  BY <1>1, <1>2, <1>3 DEF RegistryTypeOK, Register
<1>5. r \notin raced' => \A c \in Sweep : sweeps[c].probed # r
  BY DEF Register, BeingProbed
<1>6. QED
  BY <1>1, <1>2, <1>3, <1>4, <1>5 DEF RegistryInv, ProbeOfNow

LEMMA AssignWorkStep ==
  ASSUME RegistryInv, NEW r \in Remote, NEW b \in RemoteBead, AssignWork(r, b)
  PROVE  RegistryInv'
<1> DEFINE w == [registry[r] EXCEPT !.bead = b]
<1>1. RegistryTypeOK /\ w \in RemoteRecord /\ w.bead = b /\ w.state = registry[r].state
  BY DEF RegistryInv, RegistryTypeOK, RemoteRecord
<1>2. Put(r, w) /\ assigned' = [assigned EXCEPT ![r] = b] /\ UNCHANGED <<probing, time, sweeps>>
  BY DEF AssignWork
<1> HIDE DEF w
<1>3. /\ registry' \in [Remote -> RemoteRecord]
      /\ registry'[r] = w /\ \A q \in Remote \ {r} : registry'[q] = registry[q]
  BY <1>1, <1>2, PutKeeps
<1>4. /\ RegistryTypeOK' /\ assigned'[r] = b /\ \A q \in Remote \ {r} : assigned'[q] = assigned[q]
      /\ raced \subseteq raced' /\ raced' \subseteq raced \cup {r}
  BY <1>1, <1>2, <1>3 DEF RegistryTypeOK, AssignWork
<1>5. r \notin raced' => \A c \in Sweep : sweeps[c].probed # r
  BY DEF AssignWork, BeingProbed
<1>6. QED
  BY <1>1, <1>2, <1>3, <1>4, <1>5 DEF RegistryInv, ProbeOfNow

LEMMA DetachStep ==
  ASSUME RegistryInv, NEW r \in Remote, Detach(r)
  PROVE  RegistryInv'
<1> DEFINE w == [registry[r] EXCEPT !.state = "detached", !.beat = time]
<1>1. RegistryTypeOK /\ w \in RemoteRecord /\ w.bead = registry[r].bead
  BY DEF RegistryInv, RegistryTypeOK, RemoteRecord
<1>2. Put(r, w) /\ UNCHANGED <<probing, time, sweeps, assigned, raced>>
  BY DEF Detach, registryHistory
<1> HIDE DEF w
<1>3. /\ registry' \in [Remote -> RemoteRecord]
      /\ registry'[r] = w /\ \A q \in Remote \ {r} : registry'[q] = registry[q]
  BY <1>1, <1>2, PutKeeps
<1>4. RegistryTypeOK'
  BY <1>1, <1>2, <1>3 DEF RegistryTypeOK
<1>5. QED
  BY <1>1, <1>2, <1>3, <1>4 DEF RegistryInv, ProbeOfNow

LEMMA ExpiredKeeps ==
  ASSUME NEW w \in RemoteRecord, NEW t
  PROVE  Expired(w, t) \in RemoteRecord /\ Expired(w, t).bead = w.bead
BY DEF Expired, RemoteRecord

LEMMA MarkExpiredStep ==
  ASSUME RegistryInv, MarkExpired
  PROVE  RegistryInv'
<1>1. RegistryTypeOK /\ \A r \in Remote : registry[r] \in RemoteRecord
  BY DEF RegistryInv, RegistryTypeOK
<1>2. /\ registry' = [r \in Remote |-> Expired(registry[r], time)]
      /\ UNCHANGED <<probing, time, sweeps, assigned, raced>>
  BY DEF MarkExpired, registryHistory
<1>3. \A r \in Remote :
         registry'[r] \in RemoteRecord /\ registry'[r].bead = registry[r].bead
  BY <1>1, <1>2, ExpiredKeeps
<1>4. RegistryTypeOK'
  BY <1>1, <1>2, <1>3 DEF RegistryTypeOK
<1>5. QED
  BY <1>2, <1>3, <1>4 DEF RegistryInv, ProbeOfNow

LEMMA StartSweepStep ==
  ASSUME RegistryInv, NEW c \in Sweep, StartSweep(c)
  PROVE  RegistryInv'
<1> DEFINE s == [NotSweeping EXCEPT !.todo = {r \in Remote : ActiveRemote(r)}, !.at = time]
<1>1. /\ RegistryTypeOK /\ s \in SweepRecord
      /\ s.probed = NoRemote /\ s.todo = {r \in Remote : ActiveRemote(r)}
  <2>1. RegistryTypeOK /\ time \in 0..MaxSweepTime
    BY DEF RegistryInv, RegistryTypeOK
  <2>2. NotSweeping \in SweepRecord /\ NotSweeping.probed = NoRemote
    BY UnregisteredType, RegistryAssumption DEF NotSweeping, SweepRecord
  <2>3. {r \in Remote : ActiveRemote(r)} \in SUBSET Remote
    OBVIOUS
  <2>4. s \in SweepRecord
    BY <2>1, <2>2, <2>3, UnregisteredType, SweepChanges
  <2>5. s.probed = NoRemote /\ s.todo = {r \in Remote : ActiveRemote(r)}
    BY <2>2 DEF SweepRecord
  <2>6. QED
    BY <2>1, <2>4, <2>5
<1>2. sweeps' = [sweeps EXCEPT ![c] = s] /\ UNCHANGED <<registry, probing, time, assigned, raced>>
  BY DEF StartSweep, registryHistory
<1> HIDE DEF s
<1>3. RegistryTypeOK' /\ sweeps'[c] = s /\ \A d \in Sweep \ {c} : sweeps'[d] = sweeps[d]
  BY <1>1, <1>2 DEF RegistryTypeOK, SweepRecord
<1>4. QED
  BY <1>1, <1>2, <1>3, RegistryAssumption DEF RegistryInv, ProbeOfNow

LEMMA ProbeStep ==
  ASSUME RegistryInv, NEW c \in Sweep, NEW r \in Remote, Probe(c, r)
  PROVE  RegistryInv'
<1> DEFINE s == [sweeps[c] EXCEPT !.todo = @ \ {r}, !.probed = r, !.session = registry[r]]
<1>1. RegistryTypeOK /\ sweeps[c] \in SweepRecord
  BY DEF RegistryInv, RegistryTypeOK, SweepRecord
<1>2. /\ s \in SweepRecord /\ s.probed = r /\ s.session = registry[r] /\ s.todo = sweeps[c].todo \ {r}
  <2>1. /\ registry[r] \in RemoteRecord /\ sweeps[c].todo \ {r} \in SUBSET Remote
        /\ r \in Remote \cup {NoRemote} /\ sweeps[c].at \in 0..MaxSweepTime
    BY <1>1 DEF RegistryTypeOK, SweepRecord
  <2>2. s \in SweepRecord
    BY <1>1, <2>1, SweepChanges, Zenon
  <2>3. s.probed = r /\ s.session = registry[r] /\ s.todo = sweeps[c].todo \ {r}
    BY <1>1 DEF SweepRecord
  <2>4. QED
    BY <2>2, <2>3
<1>3. /\ sweeps' = [sweeps EXCEPT ![c] = s] /\ UNCHANGED <<registry, probing, time, assigned, raced>>
      /\ r \in sweeps[c].todo
  <2>1. sweeps' = [sweeps EXCEPT ![c] = s]
    BY Zenon DEF Probe
  <2>2. QED
    BY <2>1 DEF Probe, registryHistory
<1> HIDE DEF s
<1>4. RegistryTypeOK' /\ sweeps'[c] = s /\ \A d \in Sweep \ {c} : sweeps'[d] = sweeps[d]
  BY <1>1, <1>2, <1>3 DEF RegistryTypeOK, SweepRecord
<1>5. QED
  BY <1>2, <1>3, <1>4 DEF RegistryInv, ProbeOfNow

(* The end of a probe writes back the session it read, in another state.      *)
LEMMA ProbeEndStep ==
  ASSUME RegistryInv, NEW c \in Sweep, sweeps[c].probed # NoRemote,
         NEW w \in RemoteRecord, w.bead = sweeps[c].session.bead,
         Put(sweeps[c].probed, w), EndProbe(c), UNCHANGED <<probing, time, registryHistory>>
  PROVE  RegistryInv'
<1>1. RegistryTypeOK /\ sweeps[c] \in SweepRecord /\ UNCHANGED <<probing, time, assigned, raced>>
  BY DEF RegistryInv, RegistryTypeOK, SweepRecord, registryHistory
<1>2. PICK r \in Remote : r = sweeps[c].probed
  BY <1>1 DEF SweepRecord
<1>3. /\ registry' \in [Remote -> RemoteRecord]
      /\ registry'[r] = w /\ \A q \in Remote \ {r} : registry'[q] = registry[q]
  BY <1>1, <1>2, PutKeeps
<1>4. PICK s \in SweepRecord : /\ sweeps' = [sweeps EXCEPT ![c] = s]
                               /\ s.probed = NoRemote /\ s.todo \subseteq sweeps[c].todo
  <2>1. NotSweeping \in SweepRecord /\ NotSweeping.probed = NoRemote /\ NotSweeping.todo = {}
    BY RegistryAssumption DEF NotSweeping, Unregistered, RemoteRecord, SweepRecord
  <2>2. /\ ProbeDone(c) \in SweepRecord /\ ProbeDone(c).probed = NoRemote
        /\ ProbeDone(c).todo = sweeps[c].todo
    <3>1. ProbeDone(c) \in SweepRecord
      <4>1. /\ sweeps[c].todo \in SUBSET Remote /\ sweeps[c].at \in 0..MaxSweepTime
            /\ NoRemote \in Remote \cup {NoRemote}
        BY <1>1 DEF SweepRecord
      <4>2. QED
        BY <1>1, <4>1, UnregisteredType, SweepChanges, Zenon DEF ProbeDone
    <3>2. ProbeDone(c).probed = NoRemote /\ ProbeDone(c).todo = sweeps[c].todo
      BY <1>1 DEF ProbeDone, SweepRecord
    <3>3. QED
      BY <3>1, <3>2
  <2>3. sweeps' = [sweeps EXCEPT ![c] = IF sweeps[c].todo = {} THEN NotSweeping ELSE ProbeDone(c)]
    BY <1>1 DEF EndProbe, RegistryTypeOK
  <2>4. QED
    BY <2>1, <2>2, <2>3
<1>5. RegistryTypeOK' /\ sweeps'[c] = s /\ \A d \in Sweep \ {c} : sweeps'[d] = sweeps[d]
  BY <1>1, <1>3, <1>4 DEF RegistryTypeOK, SweepRecord
<1>6. r \notin raced => w.bead = registry[r].bead
  BY <1>2 DEF RegistryInv, ProbeOfNow
<1>7. QED
  BY <1>1, <1>2, <1>3, <1>4, <1>5, <1>6, RegistryAssumption DEF RegistryInv, ProbeOfNow

LEMMA ObservedStep ==
  ASSUME RegistryInv, NEW c \in Sweep,
         ProbeFailed(c) \/ \E state \in {"connected", "working", "blocked", "done"} : Observed(c, state)
  PROVE  RegistryInv'
<1>1. sweeps[c] \in SweepRecord
  BY DEF RegistryInv, RegistryTypeOK, SweepRecord
<1>2. CASE ProbeFailed(c)
  <2> DEFINE w == [sweeps[c].session EXCEPT !.state = "lost"]
  <2>1. w \in RemoteRecord /\ w.bead = sweeps[c].session.bead
    BY <1>1 DEF SweepRecord, RemoteRecord
  <2>2. QED
    BY <1>2, <2>1, ProbeEndStep DEF ProbeFailed
<1>3. ASSUME NEW state \in {"connected", "working", "blocked", "done"}, Observed(c, state)
      PROVE  RegistryInv'
  <2> DEFINE w == [sweeps[c].session EXCEPT !.state = state, !.beat = sweeps[c].at]
  <2>1. w \in RemoteRecord /\ w.bead = sweeps[c].session.bead
    BY <1>1 DEF SweepRecord, RemoteRecord
  <2>2. QED
    BY <1>3, <2>1, ProbeEndStep DEF Observed
<1>4. QED
  BY <1>2, <1>3

LEMMA RegistryStep == RegistryInv /\ [RegistryNext]_registryVars => RegistryInv'
<1> SUFFICES ASSUME RegistryInv, [RegistryNext]_registryVars PROVE RegistryInv'
  OBVIOUS
<1>1. CASE TimePasses
  <2>1. RegistryTypeOK'
    BY <1>1, RegistryAssumption DEF TimePasses, registryHistory, RegistryInv, RegistryTypeOK
  <2>2. QED
    BY <1>1, <2>1 DEF TimePasses, registryHistory, RegistryInv, ProbeOfNow
<1>2. CASE MarkExpired
  BY <1>2, MarkExpiredStep
<1>3. CASE \E r \in Remote : Detach(r) \/ \E b \in RemoteBead : AssignWork(r, b)
  BY <1>3, DetachStep, AssignWorkStep
<1>4. CASE \E r \in Remote, b \in RemoteBead \cup {NoBead} : Register(r, b)
  BY <1>4, RegisterStep
<1>5. CASE \E c \in Sweep : StartSweep(c) \/ \E r \in Remote : Probe(c, r)
  BY <1>5, StartSweepStep, ProbeStep
<1>6. CASE \E c \in Sweep : \/ ProbeFailed(c)
                            \/ \E state \in {"connected", "working", "blocked", "done"} : Observed(c, state)
  BY <1>6, ObservedStep
<1>7. CASE UNCHANGED registryVars
  BY <1>7 DEF registryVars, registryHistory, RegistryInv, RegistryTypeOK, ProbeOfNow
<1>8. QED
  BY <1>1, <1>2, <1>3, <1>4, <1>5, <1>6, <1>7 DEF RegistryNext

LEMMA RegistryInvariant == RegistrySpec => []RegistryInv
BY RegistryInitInv, RegistryStep, PTL DEF RegistrySpec

(* The registry names the bead each session was given last, whatever sweeps,   *)
(* silence and detachment do to it (PUT of the probe in checkRemoteSessions,   *)
(* markExpired, detach), unless the session was changed during its own probe.  *)
THEOREM RemoteOwnershipKept == RegistrySpec => []OwnershipKept
<1>1. RegistryInv => OwnershipKept
  BY DEF RegistryInv, OwnershipKept
<1>2. QED
  BY <1>1, RegistryInvariant, PTL

-----------------------------------------------------------------------------
(* The questions of waiting workers.  The workers of this part are plain       *)
(* processes: no registry of agents gives them a state.                        *)
RoutingInv ==
    /\ RoutingTypeOK
    /\ \A s \in Session : sessions[s].kind = "process"
    /\ WaitingHasQuestion

(* What a step does to a worker that no question is asked about. *)
Carries(w, v) ==
    /\ v \in WorkerSession /\ v.kind = w.kind /\ v.bead = w.bead
    /\ v.state = "waiting_on_operator" => w.state = "waiting_on_operator"

LEMMA OperatorsCarry ==
  ASSUME NEW w \in WorkerSession, NEW t \in Time
  PROVE  /\ Carries(w, w)
         /\ Carries(w, ExitHandled(w))
         /\ \A ok : Carries(w, Stopped(w, ok))
         /\ \A code \in {"ok", "bad"} : Carries(w, [w EXCEPT !.proc = code])
         /\ \A requested \in {"none", "running"} : Carries(w, Reported(w, requested, t))
         /\ Carries(w, [w EXCEPT !.state = "stalled"])
<1>1. Carries(w, ExitHandled(w))
  <2>1. ExitHandled(w) \in WorkerSession
    BY ExitedIsSession
  <2>2. QED
    BY <2>1 DEF Carries, ExitHandled, WorkerSession
<1>2. ASSUME NEW ok PROVE Carries(w, Stopped(w, ok))
  <2> DEFINE released == ResourcesReleased(w, ok, TRUE)
  <2>1. Stopped(w, ok) \in WorkerSession /\ released \in WorkerSession
    BY StoppedIsSession, ReleasedIsSession
  <2>2. released.kind = w.kind /\ released.bead = w.bead
    BY DEF ResourcesReleased, WorkerSession
  <2>5. released.state = w.state
    BY ReleasedIsSession
  <2> HIDE DEF released
  <2>3. CASE w.state \in Active
    <3>1. Stopped(w, ok) \in {[released EXCEPT !.state = "stopped", !.handle = FALSE],
                              [released EXCEPT !.removal = "stop"]}
      BY <2>3 DEF Stopped, released
    <3>2. QED
      BY <2>1, <2>2, <2>5, <3>1 DEF Carries, WorkerSession
  <2>4. CASE w.state \notin Active
    BY <2>1, <2>4 DEF Carries, Stopped, WorkerSession
  <2>6. QED
    BY <2>3, <2>4
<1>3. \A code \in {"ok", "bad"} : Carries(w, [w EXCEPT !.proc = code])
  BY DEF Carries, WorkerSession
<1>4. ASSUME NEW requested \in {"none", "running"} PROVE Carries(w, Reported(w, requested, t))
  <2>1. Reported(w, requested, t) \in WorkerSession
    BY ReportedIsSession
  <2>2. QED
    BY <2>1 DEF Carries, Reported, WorkerSession
<1>5. Carries(w, [w EXCEPT !.state = "stalled"])
  BY StateNames DEF Carries, WorkerSession, State
<1>6. QED
  BY <1>1, <1>2, <1>3, <1>4, <1>5 DEF Carries

(* A step that asks and answers nothing. *)
LEMMA CarriedInv ==
  ASSUME RoutingInv, Unasked({}), questions' = questions, now' \in Time,
         sessions' \in [Session -> WorkerSession],
         \A s \in Session : Carries(sessions[s], sessions'[s])
  PROVE  RoutingInv'
<1>1. RoutingTypeOK'
  BY DEF RoutingInv, RoutingTypeOK, TypeOK, Unasked
<1>2. \A s \in Session : sessions'[s].kind = "process"
  BY DEF RoutingInv, Carries
<1>3. WaitingHasQuestion'
  BY DEF RoutingInv, WaitingHasQuestion, Carries, Matches, PendingQuestion, Unasked, Waits
<1>4. QED
  BY <1>1, <1>2, <1>3 DEF RoutingInv

LEMMA OneWorkerStep ==
  ASSUME RoutingInv, NEW s \in Session, NEW w, Carries(sessions[s], w), Set(s, w),
         Unasked({}), UNCHANGED <<now, questions>>
  PROVE  RoutingInv'
<1>1. sessions \in [Session -> WorkerSession] /\ now \in Time /\ w \in WorkerSession
  BY DEF RoutingInv, RoutingTypeOK, TypeOK, Carries
<1>2. /\ sessions' \in [Session -> WorkerSession] /\ sessions'[s] = w
      /\ \A q \in Session \ {s} : sessions'[q] = sessions[q]
  BY <1>1 DEF Set
<1>3. \A q \in Session : Carries(sessions[q], sessions'[q])
  BY <1>1, <1>2 DEF Carries
<1>4. QED
  BY <1>1, <1>2, <1>3, CarriedInv

(* The refresh that precedes a question or an answer leaves processes alone.   *)
LEMMA MarkedWaiting ==
  ASSUME RoutingInv, NEW match
  PROVE  LET M == MarkWaitingOnOperator(sessions, match)
             U == ResumeAfterOperator(sessions, match, now)
         IN  /\ M \in [Session -> WorkerSession] /\ U \in [Session -> WorkerSession]
             /\ \A s \in Session :
                  /\ M[s].kind = "process" /\ M[s].bead = sessions[s].bead
                  /\ M[s].state = "waiting_on_operator" =>
                       \/ sessions[s].state = "waiting_on_operator"
                       \/ Matches(s, sessions[s], match)
                  /\ Carries(sessions[s], U[s])
                  /\ U[s].state = "waiting_on_operator" => ~Matches(s, sessions[s], match)
<1>1. /\ sessions \in [Session -> WorkerSession] /\ now \in Time
      /\ \A s \in Session : sessions[s] \in WorkerSession /\ sessions[s].kind = "process"
  BY DEF RoutingInv, RoutingTypeOK, TypeOK
<1>2. RefreshDetachedAgents(sessions) = sessions
  BY <1>1 DEF RefreshDetachedAgents, RefreshDetachedAgent
<1>3. /\ MarkWaitingOnOperator(sessions, match) \in [Session -> WorkerSession]
      /\ ResumeAfterOperator(sessions, match, now) \in [Session -> WorkerSession]
  BY <1>1, MapsAreTyped
<1>4. ASSUME NEW s \in Session
      PROVE  LET v == MarkWaitingOnOperator(sessions, match)[s]
             IN  /\ v.kind = "process" /\ v.bead = sessions[s].bead
                 /\ v.state = "waiting_on_operator" =>
                       \/ sessions[s].state = "waiting_on_operator"
                       \/ Matches(s, sessions[s], match)
  BY <1>1, <1>2 DEF MarkWaitingOnOperator, WorkerSession
<1>5. ASSUME NEW s \in Session
      PROVE  LET v == ResumeAfterOperator(sessions, match, now)[s]
             IN  /\ Carries(sessions[s], v)
                 /\ v.state = "waiting_on_operator" => ~Matches(s, sessions[s], match)
  <2>1. ResumeAfterOperator(sessions, match, now)[s] \in WorkerSession
    BY <1>3
  <2>2. QED
    BY <1>1, <1>2, <2>1 DEF ResumeAfterOperator, Carries, WorkerSession
<1>6. QED
  BY <1>3, <1>4, <1>5

LEMMA RecordKeeps ==
  ASSUME RoutingInv, NEW p \in McpProcess, NEW q \in Question,
         NEW status \in {"none", "pending", "answered"}, Record(p, q, status)
  PROVE  /\ questions' \in [McpProcess -> [Question -> {"none", "pending", "answered"}]]
         /\ questions'[p][q] = status
         /\ \A o \in Question \ {q} : questions'[p][o] = questions[p][o]
         /\ \A o \in McpProcess \ {p} : questions'[o] = questions[o]
BY DEF RoutingInv, RoutingTypeOK, Record

LEMMA AskStep ==
  ASSUME RoutingInv, NEW q \in Question, Ask(q)
  PROVE  RoutingInv'
<1>1. PICK p \in McpProcess : p = Server[Asker[q]]
  BY RoutingAssumption
<1>2. /\ questions' \in [McpProcess -> [Question -> {"none", "pending", "answered"}]]
      /\ questions'[p][q] = "pending"
      /\ \A o \in Question \ {q} : questions'[p][o] = questions[p][o]
      /\ \A o \in McpProcess \ {p} : questions'[o] = questions[o]
  BY <1>1, RecordKeeps DEF Ask
<1>3. /\ Unasked({}) /\ now' = now
      /\ sessions' = IF p = Leader THEN MarkWaitingOnOperator(sessions, Route[q]) ELSE sessions
  BY <1>1 DEF Ask
<1>4. /\ sessions \in [Session -> WorkerSession] /\ now \in Time /\ unasked \subseteq Session
      /\ \A s \in Session : sessions[s] \in WorkerSession /\ sessions[s].kind = "process"
  BY DEF RoutingInv, RoutingTypeOK, TypeOK
<1>5. /\ sessions' \in [Session -> WorkerSession]
      /\ \A s \in Session :
            /\ sessions'[s].kind = "process" /\ sessions'[s].bead = sessions[s].bead
            /\ sessions'[s].state = "waiting_on_operator" =>
                 \/ sessions[s].state = "waiting_on_operator"
                 \/ p = Leader /\ Matches(s, sessions[s], Route[q])
  BY <1>3, <1>4, MarkedWaiting
<1>6. \A o \in Question : PendingQuestion(Leader, o) => PendingQuestion(Leader, o)'
  BY <1>2, RoutingAssumption DEF PendingQuestion
<1>7. p = Leader => PendingQuestion(Leader, q)'
  BY <1>2 DEF PendingQuestion
<1>8. WaitingHasQuestion'
  BY <1>3, <1>5, <1>6, <1>7 DEF WaitingHasQuestion, RoutingInv, Matches, Unasked, Waits
<1>9. QED
  BY <1>2, <1>3, <1>4, <1>5, <1>8 DEF RoutingInv, RoutingTypeOK, TypeOK, Unasked

(* An answer may end the pending question of several workers; it resumes       *)
(* every one of them.                                                          *)
LEMMA AnswerStep ==
  ASSUME RoutingInv, NEW q \in Question, NEW empty \in BOOLEAN, Answer(q, empty)
  PROVE  RoutingInv'
<1>1. PICK status \in {"none", "pending", "answered"} :
        status = IF empty THEN questions[Leader][q] ELSE "answered"
  BY RoutingAssumption DEF RoutingInv, RoutingTypeOK
<1>2. /\ questions' \in [McpProcess -> [Question -> {"none", "pending", "answered"}]]
      /\ \A o \in Question \ {q} : questions'[Leader][o] = questions[Leader][o]
  BY <1>1, RecordKeeps, RoutingAssumption DEF Answer
<1>3. Unasked({}) /\ now' = now /\ sessions' = ResumeAfterOperator(sessions, Route[q], now)
  BY DEF Answer
<1>4. now \in Time /\ unasked \subseteq Session
  BY DEF RoutingInv, RoutingTypeOK, TypeOK
<1>5. /\ sessions' \in [Session -> WorkerSession]
      /\ \A s \in Session :
            /\ Carries(sessions[s], sessions'[s])
            /\ sessions'[s].state = "waiting_on_operator" => ~Matches(s, sessions[s], Route[q])
  BY <1>3, MarkedWaiting
<1>6. WaitingHasQuestion'
  <2> SUFFICES ASSUME NEW s \in Session \ unasked', sessions'[s].state = "waiting_on_operator"
               PROVE  \E o \in Question : PendingQuestion(Leader, o)' /\ Matches(s, sessions'[s], Route[o])
    BY DEF WaitingHasQuestion, Matches, Waits
  <2>1. PICK o \in Question : PendingQuestion(Leader, o) /\ Matches(s, sessions[s], Route[o])
    BY <1>3, <1>5 DEF RoutingInv, WaitingHasQuestion, Carries, Unasked, Waits
  <2>2. o # q
    BY <1>5, <2>1
  <2>3. QED
    BY <1>2, <1>5, <2>1, <2>2 DEF PendingQuestion, Matches, Carries
<1>7. QED
  BY <1>2, <1>3, <1>4, <1>5, <1>6 DEF RoutingInv, RoutingTypeOK, TypeOK, Carries, Unasked

LEMMA BrainAsksStep ==
  ASSUME RoutingInv, NEW b \in Session, BrainAsksAbout(b)
  PROVE  RoutingInv'
<1>1. /\ sessions' = MarkWaitingOnOperator(sessions, b)
      /\ Unasked({b}) /\ UNCHANGED <<now, questions>>
  BY DEF BrainAsksAbout
<1>2. /\ sessions' \in [Session -> WorkerSession]
      /\ \A s \in Session :
            /\ sessions'[s].kind = "process" /\ sessions'[s].bead = sessions[s].bead
            /\ sessions'[s].state = "waiting_on_operator" =>
                 sessions[s].state = "waiting_on_operator" \/ Matches(s, sessions[s], b)
  BY <1>1, MarkedWaiting
<1>3. \A s \in Session : Matches(s, sessions[s], b) => s = b
  BY RoutingAssumption DEF Matches, RoutingInv, RoutingTypeOK, TypeOK, WorkerSession
<1>4. WaitingHasQuestion'
  BY <1>1, <1>2, <1>3 DEF RoutingInv, WaitingHasQuestion, Matches, PendingQuestion, Unasked, Waits
<1>5. QED
  BY <1>1, <1>2, <1>4 DEF RoutingInv, RoutingTypeOK, TypeOK, Unasked

(* A worker that reports that it waits is excepted, unless it waited before.   *)
LEMMA ReportStep ==
  ASSUME RoutingInv, NEW s \in Session, NEW r \in ReportStates, Report(s, r)
  PROVE  RoutingInv'
<1> DEFINE w == Reported(sessions[s], r, now)
<1>1. /\ sessions \in [Session -> WorkerSession] /\ now \in Time /\ sessions[s] \in WorkerSession
      /\ r \in {"none", "running", "waiting_on_operator"}
  BY RoutingAssumption DEF RoutingInv, RoutingTypeOK, TypeOK
<1>2. w \in WorkerSession /\ w.kind = sessions[s].kind /\ w.bead = sessions[s].bead
  <2>1. w \in WorkerSession
    BY <1>1, ReportedIsSession
  <2>2. QED
    BY <1>1, <2>1 DEF Reported, WorkerSession
<1>3. /\ sessions' = [sessions EXCEPT ![s] = w] /\ UNCHANGED <<now, questions>>
      /\ unasked' = {n \in unasked \cup {m \in {s} : ~Waits(sessions[m])} : Waits(sessions'[n])}
  BY DEF Report, Heartbeat, Set, Unasked
<1> HIDE DEF w
<1>4. /\ sessions' \in [Session -> WorkerSession] /\ sessions'[s] = w
      /\ \A q \in Session \ {s} : sessions'[q] = sessions[q]
  BY <1>1, <1>2, <1>3
<1>5. \A q \in Session \ unasked' : Waits(sessions'[q]) => q \notin unasked /\ Waits(sessions[q])
  BY <1>3, <1>4
<1>6. \A q \in Session : sessions'[q].bead = sessions[q].bead /\ sessions'[q].kind = "process"
  BY <1>2, <1>4 DEF RoutingInv
<1>7. WaitingHasQuestion'
  BY <1>3, <1>5, <1>6 DEF RoutingInv, WaitingHasQuestion, Matches, PendingQuestion
<1>8. RoutingTypeOK'
  BY <1>1, <1>3, <1>4 DEF RoutingInv, RoutingTypeOK, TypeOK
<1>9. QED
  BY <1>6, <1>7, <1>8 DEF RoutingInv

LEMMA RoutingStep ==
  ASSUME RoutingInv, [RoutingNext]_rvars
  PROVE  RoutingInv'
<1>1. /\ sessions \in [Session -> WorkerSession] /\ now \in Time
      /\ \A s \in Session : sessions[s] \in WorkerSession
      /\ \A s \in Session : Carries(sessions[s], sessions[s])
  BY OperatorsCarry DEF RoutingInv, RoutingTypeOK, TypeOK
<1>2. CASE \E q \in Question : Ask(q) \/ \E empty \in BOOLEAN : Answer(q, empty)
  BY <1>2, AskStep, AnswerStep
<1>3. CASE \E s \in Session : BrainAsksAbout(s)
  BY <1>3, BrainAsksStep
<1>4. ASSUME NEW s \in Session, NEW r \in ReportStates, Report(s, r) PROVE RoutingInv'
  BY <1>4, ReportStep
<1>5. CASE SupervisorStep
  <2>1. questions' = questions /\ Unasked({})
    BY <1>5 DEF SupervisorStep
  <2>2. CASE Tick
    <3>1. now' \in Time /\ sessions' = sessions
      BY <1>1, <2>2, SupervisorAssumption DEF Tick, Time
    <3>2. QED
      BY <1>1, <2>1, <3>1, CarriedInv
  <2>3. CASE StallSilent
    <3>1. sessions' \in [Session -> WorkerSession] /\ now' = now
      BY <1>1, <2>3, MapsAreTyped DEF StallSilent
    <3>2. \A s \in Session : sessions'[s] \in {sessions[s], [sessions[s] EXCEPT !.state = "stalled"]}
      BY <1>1, <2>3 DEF StallSilent, RefreshStalled
    <3>3. \A s \in Session : Carries(sessions[s], sessions'[s])
      BY <1>1, <3>2, OperatorsCarry
    <3>4. QED
      BY <1>1, <2>1, <3>1, <3>3, CarriedInv
  <2>4. ASSUME NEW s \in Session,
               OnExit(s) \/ Stop(s, AllGood) \/ \E code \in {"ok", "bad"} : LauncherExits(s, code)
        PROVE  RoutingInv'
    BY <1>1, <2>1, <2>4, OperatorsCarry, OneWorkerStep DEF OnExit, Stop, LauncherExits
  <2>5. QED
    BY <1>5, <2>2, <2>3, <2>4 DEF SupervisorStep
<1>6. CASE UNCHANGED rvars
  BY <1>1, <1>6 DEF rvars, RoutingInv, RoutingTypeOK, TypeOK, WaitingHasQuestion, Matches,
                    PendingQuestion, Waits
<1>7. QED
  BY <1>2, <1>3, <1>4, <1>5, <1>6 DEF RoutingNext

LEMMA RoutingInitInv == RoutingInit => RoutingInv
<1> SUFFICES ASSUME RoutingInit PROVE RoutingInv
  OBVIOUS
<1>1. \A b \in Bead : Fresh(b) \in WorkerSession
  BY SupervisorAssumption DEF Fresh, WorkerSession, Untracked, Time
<1>2. \A b \in Bead : StartedSession(Fresh(b), "process", FALSE, 0) \in WorkerSession
  <2>1. 0 \in Time
    BY SupervisorAssumption DEF Time
  <2>2. \A w \in WorkerSession : StartedSession(w, "process", FALSE, 0) \in WorkerSession
    BY <2>1, StateNames DEF StartedSession, WorkerSession, State
  <2>3. QED
    BY <1>1, <2>2
<1>3. \A b \in Bead : /\ StartedSession(Fresh(b), "process", FALSE, 0).kind = "process"
                      /\ StartedSession(Fresh(b), "process", FALSE, 0).state = "running"
  BY <1>1 DEF StartedSession, WorkerSession
<1>4. sessions \in [Session -> WorkerSession]
      /\ \A s \in Session : sessions[s].kind = "process" /\ sessions[s].state = "running"
  BY <1>2, <1>3 DEF RoutingInit
<1>5. RoutingTypeOK
  BY <1>4, SupervisorAssumption DEF RoutingTypeOK, TypeOK, RoutingInit, Time
<1>6. QED
  BY <1>4, <1>5 DEF RoutingInv, WaitingHasQuestion, Waits

(* A worker waits for the operator only while the leader holds a pending       *)
(* question whose answer is routed to it (ciclo_ask_operator,                  *)
(* ciclo_answer_question), however questions about sessions, beads and         *)
(* everybody overlap and whatever workers report; those that the brain or such *)
(* a report put to wait are excepted until they are resumed.                   *)
THEOREM NobodyWaitsForNothing == RoutingSpec => []WaitingHasQuestion
<1>1. RoutingInit => RoutingInv
  BY RoutingInitInv
<1>2. RoutingInv /\ [RoutingNext]_rvars => RoutingInv'
  BY RoutingStep
<1>3. RoutingInv => WaitingHasQuestion
  BY DEF RoutingInv
<1>4. QED
  BY <1>1, <1>2, <1>3, PTL DEF RoutingSpec
-----------------------------------------------------------------------------
(* The cron scheduler.  Of a job that no two ticks had in hand at once and     *)
(* that was never run out of order, memory and file hold the latest run, and   *)
(* the tick that owes it began no earlier than that.                           *)
Run == Nat \cup {NoTime}
TickRecord == [pc : {"gone", "idle", "ahead", "running", "asking"},
               at : Nat, todo : SUBSET DOMAIN JobOrder]

CronTypes ==
    /\ clock \in Nat
    /\ last \in [Scheduler -> [Job -> Run]] /\ known \in [Scheduler -> [Job -> Run]]
    /\ file \in [Job -> Run] /\ filed \in [Job -> Run]
    /\ tick \in [Thread -> TickRecord]

NoLater(run, at) == run = NoTime \/ run <= at

OneOwes(j) == \A k, m \in Thread : Owes(k, j) /\ Owes(m, j) => k = m
LatestKept(j) == filed[j] = file[j] /\ \A p \in Scheduler : known[p][j] = last[p][j]
OwedLater(j) ==
    \A k \in Thread : Owes(k, j) =>
        /\ NoLater(file[j], tick[k].at)
        /\ \A p \in Scheduler : NoLater(last[p][j], tick[k].at)

CronInv ==
    /\ CronTypes
    /\ \A j \in Job \ crossed : OneOwes(j) /\ LatestKept(j) /\ OwedLater(j)

LEMMA MinutesGrow ==
    ASSUME NEW s \in Nat, NEW t \in Nat, s <= t
    PROVE  s \div MinuteLength <= t \div MinuteLength
BY CronAssumption

(* A job that may run after its last run is not too soon after it. *)
LEMMA DueIsNotTooSoon ==
    ASSUME NEW j \in Job, NEW run \in Nat, NEW t \in Nat, run <= t, MayRun(j, run, t)
    PROVE  ~TooSoon(j, run, t)
<1>1. run # NoTime /\ Every[j] \in Nat \cup {NoTime}
  BY CronAssumption DEF Job
<1>2. CASE Elapsed(j, run, t)
  <2>1. Every[j] \in Nat /\ t - run >= Every[j] /\ Every[j] # NoTime
    BY <1>1, <1>2 DEF Elapsed
  <2>2. t >= run + Every[j]
    BY <2>1
  <2> QED
    BY <2>1, <2>2 DEF TooSoon
<1>3. CASE Matched(j, run, t)
  BY <1>1, <1>3 DEF Matched, TooSoon
<1> QED
  BY <1>2, <1>3 DEF MayRun

LEMMA RestIsTick == Idle \in TickRecord /\ \A p : Rested(p) \in TickRecord /\ Rested(p).todo = {}
BY DEF Idle, Gone, Rested, TickRecord

LEMMA CronBegins == CronInit => CronInv
<1> SUFFICES ASSUME CronInit PROVE CronInv
  OBVIOUS
<1>1. \A k \in Thread : tick[k] \in TickRecord /\ tick[k].todo = {}
  BY RestIsTick DEF CronInit
<1>2. CronTypes
  BY <1>1 DEF CronInit, CronTypes, Run
<1>3. \A j \in Job : OneOwes(j) /\ LatestKept(j) /\ OwedLater(j)
  BY <1>1 DEF CronInit, OneOwes, LatestKept, OwedLater, Owes
<1> QED
  BY <1>2, <1>3 DEF CronInv

(* A tick that goes on owes no more than before. *)
LEMMA OwesLess ==
    ASSUME CronInv, NEW k \in Thread, NEW t \in TickRecord, tick' = [tick EXCEPT ![k] = t],
           t.todo \subseteq tick[k].todo, t.todo # {} => t.at = tick[k].at
    PROVE  /\ tick' \in [Thread -> TickRecord]
           /\ \A m \in Thread : /\ tick'[m].todo \subseteq tick[m].todo
                                /\ tick'[m].todo # {} => tick'[m].at = tick[m].at
BY DEF CronInv, CronTypes

(* Nothing is recorded, and no tick owes more. *)
LEMMA QuietStep ==
    ASSUME CronInv, tick' \in [Thread -> TickRecord],
           \A m \in Thread : /\ tick'[m].todo \subseteq tick[m].todo
                             /\ tick'[m].todo # {} => tick'[m].at = tick[m].at,
           clock' \in Nat, UNCHANGED <<last, file, filed, known, crossed>>
    PROVE  CronInv'
<1>1. CronTypes'
  BY DEF CronInv, CronTypes
<1>2. \A k \in Thread, j \in Job : Owes(k, j)' => Owes(k, j) /\ tick'[k].at = tick[k].at
  BY DEF Owes
<1>3. \A j \in Job \ crossed : OneOwes(j)' /\ LatestKept(j)' /\ OwedLater(j)'
  BY <1>2 DEF CronInv, OneOwes, LatestKept, OwedLater, NoLater
<1> QED
  BY <1>1, <1>3 DEF CronInv

LEMMA ListDueKeeps ==
    ASSUME CronInv, NEW k \in Thread, ListDue(k)
    PROVE  /\ CronInv'
           /\ \A i \in tick'[k].todo :
                 LET j == JobOrder[i]  run == known[Of[k]][j] IN
                 j \notin crossed' /\ run # NoTime => ~TooSoon(j, run, tick'[k].at)
<1> DEFINE at == tick[k].at
           due == DueJobs(Of[k], at)
           t == IF due = {} THEN Rested(Of[k]) ELSE [pc |-> "running", at |-> at, todo |-> due]
<1>1. /\ CronTypes /\ at \in Nat /\ Of[k] \in Scheduler
  BY CronAssumption DEF CronInv, CronTypes, TickRecord
<1>2. /\ due \subseteq DOMAIN JobOrder
      /\ \A i \in due : JobOrder[i] \in Job /\ MayRun(JobOrder[i], last[Of[k]][JobOrder[i]], at)
  BY DEF DueJobs, Job, Range
<1>3. /\ tick' = [tick EXCEPT ![k] = t] /\ UNCHANGED <<clock, last, file, filed, known>>
      /\ crossed' = crossed \cup {j \in {JobOrder[i] : i \in due} :
             Overtaken(j, at) \/ \E other \in Thread \ {k} : Owes(other, j)}
  BY DEF ListDue
<1> HIDE DEF due
<1>4. t \in TickRecord /\ t.todo = due /\ (due # {} => t.at = at)
  BY <1>1, <1>2, RestIsTick DEF TickRecord
<1> HIDE DEF t
<1>5. /\ CronTypes' /\ tick'[k] = t /\ \A m \in Thread \ {k} : tick'[m] = tick[m]
  BY <1>1, <1>3, <1>4 DEF CronTypes
<1>6. ASSUME NEW j \in Job \ crossed', Owes(k, j)'
      PROVE  /\ \A m \in Thread \ {k} : ~Owes(m, j)
             /\ NoLater(file[j], at) /\ \A p \in Scheduler : NoLater(last[p][j], at)
  <2>1. PICK i \in due : JobOrder[i] = j
    BY <1>4, <1>5, <1>6 DEF Owes
  <2>2. ~Overtaken(j, at) /\ \A m \in Thread \ {k} : ~Owes(m, j)
    BY <1>3, <2>1
  <2>3. LatestKept(j)
    BY <1>3 DEF CronInv
  <2>4. \A run \in Run : ~(run # NoTime /\ run > at) => NoLater(run, at)
    BY <1>1 DEF NoLater, Run
  <2>5. file[j] \in Run /\ \A p \in Scheduler : last[p][j] \in Run
    BY <1>1 DEF CronTypes
  <2>6. ~(file[j] # NoTime /\ file[j] > at) /\ \A p \in Scheduler : ~(last[p][j] # NoTime /\ last[p][j] > at)
    BY <2>2, <2>3 DEF Overtaken, LatestKept
  <2> QED
    BY <2>2, <2>4, <2>5, <2>6
<1>7. ASSUME NEW j \in Job \ crossed'
      PROVE  OneOwes(j)' /\ LatestKept(j)' /\ OwedLater(j)'
  <2>1. j \notin crossed /\ OneOwes(j) /\ LatestKept(j) /\ OwedLater(j)
    BY <1>3 DEF CronInv
  <2>2. \A m \in Thread \ {k} : Owes(m, j)' <=> Owes(m, j)
    BY <1>5 DEF Owes
  <2>3. OneOwes(j)'
    BY <1>6, <2>1, <2>2 DEF OneOwes
  <2>4. LatestKept(j)'
    BY <1>3, <2>1 DEF LatestKept
  <2>5. ASSUME NEW m \in Thread, Owes(m, j)'
        PROVE  NoLater(file[j], tick'[m].at) /\ \A p \in Scheduler : NoLater(last[p][j], tick'[m].at)
    <3>1. CASE m = k
      <4>1. tick'[k].at = at
        BY <1>4, <1>5, <2>5, <3>1 DEF Owes
      <4> QED
        BY <1>6, <2>5, <3>1, <4>1
    <3>2. CASE m # k
      BY <1>5, <2>1, <2>2, <2>5, <3>2 DEF OwedLater
    <3> QED
      BY <3>1, <3>2
  <2>6. OwedLater(j)'
    BY <1>3, <2>5 DEF OwedLater
  <2> QED
    BY <2>3, <2>4, <2>6
<1>8. ASSUME NEW i \in tick'[k].todo, JobOrder[i] \notin crossed',
             known[Of[k]][JobOrder[i]] # NoTime
      PROVE  ~TooSoon(JobOrder[i], known[Of[k]][JobOrder[i]], tick'[k].at)
  <2> DEFINE j == JobOrder[i]
             run == last[Of[k]][j]
  <2>1. i \in due /\ j \in Job \ crossed' /\ MayRun(j, run, at) /\ tick'[k].at = at
    BY <1>2, <1>4, <1>5, <1>8
  <2>2. Owes(k, j)'
    BY <1>8 DEF Owes
  <2>3. NoLater(run, at)
    BY <1>1, <1>6, <2>1, <2>2
  <2>4. known[Of[k]][j] = run /\ run \in Run
    BY <1>1, <1>3, <2>1 DEF CronInv, LatestKept, CronTypes
  <2>5. run \in Nat /\ run <= at /\ at \in Nat
    BY <1>1, <1>8, <2>3, <2>4 DEF NoLater, Run
  <2> HIDE DEF run, j
  <2>6. ~TooSoon(j, run, at)
    BY <2>1, <2>5, DueIsNotTooSoon
  <2> QED
    BY <2>1, <2>4, <2>6 DEF j
<1> QED
  BY <1>5, <1>7, <1>8 DEF CronInv

(* A record of a job that its tick owes, in memory and perhaps on file. *)
LEMMA RecordedLater ==
    ASSUME NEW run \in Run, NEW at \in Nat, NoLater(run, at)
    PROVE  Later(run, at) = at /\ at \in Run /\ NoLater(at, at)
BY DEF NoLater, Later, Run

LEMMA CronRecordKeeps ==
    ASSUME CronInv, NEW k \in Thread, NEW i \in DOMAIN JobOrder, AtRecord(k, i),
           Remember(Of[k], JobOrder[i], tick[k].at),
           \/ \E glued \in BOOLEAN : AppendRun(JobOrder[i], tick[k].at, glued)
           \/ UNCHANGED <<file, filed>>,
           tick' \in [Thread -> TickRecord],
           \A m \in Thread : /\ tick'[m].todo \subseteq tick[m].todo
                             /\ tick'[m].todo # {} => tick'[m].at = tick[m].at,
           UNCHANGED <<clock, crossed>>
    PROVE  CronInv'
<1> DEFINE at == tick[k].at
           j == JobOrder[i]
           p == Of[k]
<1>1. /\ CronTypes /\ at \in Nat /\ j \in Job /\ p \in Scheduler /\ Owes(k, j)
  BY CronAssumption DEF CronInv, CronTypes, TickRecord, Job, Range, AtRecord, First, Owes
<1>2. /\ last' = [last EXCEPT ![p][j] = at]
      /\ known' = [known EXCEPT ![p][j] = Later(known[p][j], at)]
  BY <1>1 DEF Remember, CronTypes
<1>3. \/ /\ file' = [file EXCEPT ![j] = at]
         /\ filed' = [filed EXCEPT ![j] = Later(filed[j], at)]
      \/ UNCHANGED <<file, filed>>
  BY <1>1 DEF AppendRun, CronTypes
<1> HIDE DEF at, j, p
<1>4. \A run \in Run : Later(run, at) \in Run
  BY <1>1 DEF Later, Run
<1>5. at \in Run
  BY <1>1 DEF Run
<1>6. CronTypes'
  <2>1. last' \in [Scheduler -> [Job -> Run]]
    BY <1>1, <1>2, <1>5 DEF CronTypes
  <2>2. known' \in [Scheduler -> [Job -> Run]]
    <3>1. known[p][j] \in Run
      BY <1>1 DEF CronTypes
    <3>2. Later(known[p][j], at) \in Run
      BY <1>4, <3>1
    <3> QED
      BY <1>1, <1>2, <3>2 DEF CronTypes
  <2>3. file' \in [Job -> Run] /\ filed' \in [Job -> Run]
    <3>1. filed[j] \in Run
      BY <1>1 DEF CronTypes
    <3>2. Later(filed[j], at) \in Run
      BY <1>4, <3>1
    <3> QED
      BY <1>1, <1>3, <1>5, <3>2 DEF CronTypes
  <2> QED
    BY <1>1, <2>1, <2>2, <2>3 DEF CronTypes
<1>7. \A m \in Thread, o \in Job : Owes(m, o)' => Owes(m, o) /\ tick'[m].at = tick[m].at
  BY DEF Owes
<1>8. ASSUME NEW o \in Job \ crossed, o # j
      PROVE  OneOwes(o)' /\ LatestKept(o)' /\ OwedLater(o)'
  <2>1. OneOwes(o) /\ LatestKept(o) /\ OwedLater(o)
    BY DEF CronInv
  <2>2. /\ file'[o] = file[o] /\ filed'[o] = filed[o]
        /\ \A q \in Scheduler : last'[q][o] = last[q][o] /\ known'[q][o] = known[q][o]
    BY <1>1, <1>2, <1>3, <1>8 DEF CronTypes
  <2> QED
    BY <1>7, <2>1, <2>2 DEF OneOwes, LatestKept, OwedLater
<1>9. ASSUME j \notin crossed
      PROVE  OneOwes(j)' /\ LatestKept(j)' /\ OwedLater(j)'
  <2>1. OneOwes(j) /\ LatestKept(j) /\ OwedLater(j)
    BY <1>1, <1>9 DEF CronInv
  <2>2. NoLater(file[j], at) /\ \A q \in Scheduler : NoLater(last[q][j], at)
    BY <1>1, <2>1 DEF OwedLater, at
  <2>3. /\ file[j] \in Run /\ filed[j] = file[j] /\ last[p][j] \in Run /\ known[p][j] = last[p][j]
    BY <1>1, <2>1 DEF CronTypes, LatestKept
  <2>4. Later(filed[j], at) = at /\ Later(known[p][j], at) = at /\ NoLater(at, at)
    BY <1>1, <2>2, <2>3, RecordedLater
  <2>5. /\ last'[p][j] = at /\ known'[p][j] = at
        /\ \A q \in Scheduler \ {p} : last'[q][j] = last[q][j] /\ known'[q][j] = known[q][j]
        /\ filed'[j] = file'[j] /\ file'[j] \in {file[j], at}
    BY <1>1, <1>2, <1>3, <2>3, <2>4 DEF CronTypes
  <2>6. \A m \in Thread : Owes(m, j)' => m = k /\ tick'[m].at = at
    BY <1>1, <1>7, <2>1 DEF OneOwes, at
  <2>7. OneOwes(j)'
    BY <2>6 DEF OneOwes
  <2>8. LatestKept(j)'
    BY <2>1, <2>5 DEF LatestKept
  <2>9. OwedLater(j)'
    BY <2>2, <2>4, <2>5, <2>6 DEF OwedLater
  <2> QED
    BY <2>7, <2>8, <2>9
<1> QED
  BY <1>6, <1>8, <1>9 DEF CronInv

(* A process starts with what the file holds; whatever it owed is forgotten.   *)
LEMMA LoadKeeps ==
    ASSUME CronInv, NEW p \in Scheduler, Load(p), tick' \in [Thread -> TickRecord],
           \A m \in Thread : /\ tick'[m].todo \subseteq tick[m].todo
                             /\ tick'[m].todo # {} => tick'[m].at = tick[m].at,
           UNCHANGED <<clock, file, filed, crossed>>
    PROVE  CronInv'
<1>1. CronTypes
  BY DEF CronInv
<1>2. /\ last'[p] = file /\ known'[p] = filed
      /\ \A q \in Scheduler \ {p} : last'[q] = last[q] /\ known'[q] = known[q]
  BY <1>1 DEF Load, CronTypes
<1>3. CronTypes'
  BY <1>1 DEF Load, CronTypes
<1>4. \A m \in Thread, o \in Job : Owes(m, o)' => Owes(m, o) /\ tick'[m].at = tick[m].at
  BY DEF Owes
<1>5. ASSUME NEW j \in Job \ crossed
      PROVE  OneOwes(j)' /\ LatestKept(j)' /\ OwedLater(j)'
  <2>1. OneOwes(j) /\ LatestKept(j) /\ OwedLater(j)
    BY DEF CronInv
  <2>2. OneOwes(j)'
    BY <1>4, <2>1 DEF OneOwes
  <2>3. LatestKept(j)'
    BY <1>2, <2>1 DEF LatestKept
  <2>4. OwedLater(j)'
    BY <1>2, <1>4, <2>1 DEF OwedLater
  <2> QED
    BY <2>2, <2>3, <2>4
<1> QED
  BY <1>3, <1>5 DEF CronInv

LEMMA RemainingTick ==
    ASSUME CronInv, NEW k \in Thread, NEW i
    PROVE  /\ Remaining(k, i) \in TickRecord /\ Remaining(k, i).todo \subseteq tick[k].todo
           /\ Remaining(k, i).todo # {} => Remaining(k, i).at = tick[k].at
<1> DEFINE rest == tick[k].todo \ {i}
<1>1. tick[k] \in TickRecord
  BY DEF CronInv, CronTypes
<1>2. rest \subseteq tick[k].todo /\ rest \subseteq DOMAIN JobOrder /\ tick[k].at \in Nat
  BY <1>1 DEF TickRecord
<1> HIDE DEF rest
<1>3. Remaining(k, i) \in {Rested(Of[k]), [pc |-> "running", at |-> tick[k].at, todo |-> rest]}
  BY DEF Remaining, rest
<1> QED
  BY <1>2, <1>3, RestIsTick DEF TickRecord

(* What a step does to the ticks and, unless it lists the due jobs, to the rest. *)
LEMMA CronStepKeeps ==
    ASSUME CronInv, [CronNext]_cronVars
    PROVE  CronInv'
<1>1. /\ CronTypes /\ clock \in Nat /\ \A k \in Thread : tick[k] \in TickRecord
  BY DEF CronInv, CronTypes
<1>2. ASSUME NEW k \in Thread, BeginTick(k) PROVE CronInv'
  <2> DEFINE t == [Idle EXCEPT !.pc = "ahead", !.at = clock]
  <2>1. t \in TickRecord /\ t.todo = {}
    BY <1>1 DEF Idle, TickRecord
  <2>2. tick' = [tick EXCEPT ![k] = t] /\ UNCHANGED <<clock, last, file, filed, known, crossed>>
    BY <1>2 DEF BeginTick, cronHistory
  <2> HIDE DEF t
  <2> QED
    BY <1>1, <2>1, <2>2, OwesLess, QuietStep
<1>3. ASSUME NEW k \in Thread, ListDue(k) PROVE CronInv'
  BY <1>3, ListDueKeeps
<1>4. ASSUME NEW k \in Thread, AskBrain(k) PROVE CronInv'
  <2> DEFINE t == [tick[k] EXCEPT !.pc = "asking"]
  <2>1. t \in TickRecord /\ t.todo = tick[k].todo /\ t.at = tick[k].at
    BY <1>1 DEF TickRecord
  <2>2. tick' = [tick EXCEPT ![k] = t] /\ UNCHANGED <<clock, last, file, filed, known, crossed>>
    BY <1>1, <1>4 DEF AskBrain, cronHistory, CronTypes
  <2> HIDE DEF t
  <2> QED
    BY <1>1, <2>1, <2>2, OwesLess, QuietStep
<1>5. ASSUME NEW k \in Thread, RecordRun(k) PROVE CronInv'
  <2>1. PICK i \in DOMAIN JobOrder :
          /\ AtRecord(k, i) /\ Remember(Of[k], JobOrder[i], tick[k].at)
          /\ AppendRun(JobOrder[i], tick[k].at, torn)
          /\ tick' = [tick EXCEPT ![k] = Remaining(k, i)] /\ UNCHANGED <<clock, crossed>>
    BY <1>5 DEF RecordRun
  <2>2. \/ \E glued \in BOOLEAN : AppendRun(JobOrder[i], tick[k].at, glued)
        \/ UNCHANGED <<file, filed>>
    <3>1. \/ AppendRun(JobOrder[i], tick[k].at, TRUE) \/ AppendRun(JobOrder[i], tick[k].at, FALSE)
      BY <2>1 DEF AppendRun
    <3> QED
      BY <3>1
  <2>3. /\ tick' \in [Thread -> TickRecord]
        /\ \A m \in Thread : /\ tick'[m].todo \subseteq tick[m].todo
                             /\ tick'[m].todo # {} => tick'[m].at = tick[m].at
    BY <2>1, RemainingTick, OwesLess
  <2> QED
    BY <2>1, <2>2, <2>3, CronRecordKeeps
<1>6. ASSUME NEW k \in Thread, RecordFails(k) PROVE CronInv'
  <2>1. PICK i \in DOMAIN JobOrder :
          /\ AtRecord(k, i) /\ Remember(Of[k], JobOrder[i], tick[k].at)
          /\ \/ /\ \E glued \in {torn, TRUE} : AppendRun(JobOrder[i], tick[k].at, glued)
                /\ tick' = [tick EXCEPT ![k] = Remaining(k, i)]
             \/ /\ tick' = [tick EXCEPT ![k] = Rested(Of[k])] /\ UNCHANGED <<file, filed>>
          /\ UNCHANGED <<clock, crossed>>
    BY <1>6 DEF RecordFails
  <2>2. \/ \E glued \in BOOLEAN : AppendRun(JobOrder[i], tick[k].at, glued)
        \/ UNCHANGED <<file, filed>>
    <3>1. \A glued : AppendRun(JobOrder[i], tick[k].at, glued)
             => AppendRun(JobOrder[i], tick[k].at, TRUE) \/ AppendRun(JobOrder[i], tick[k].at, FALSE)
      BY DEF AppendRun
    <3> QED
      BY <2>1, <3>1
  <2>3. /\ tick' \in [Thread -> TickRecord]
        /\ \A m \in Thread : /\ tick'[m].todo \subseteq tick[m].todo
                             /\ tick'[m].todo # {} => tick'[m].at = tick[m].at
    BY <2>1, RemainingTick, RestIsTick, OwesLess
  <2> QED
    BY <2>1, <2>2, <2>3, CronRecordKeeps
<1>7. ASSUME NEW k \in Thread, TickFails(k) PROVE CronInv'
  <2>1. /\ tick' = [tick EXCEPT ![k] = Rested(Of[k])]
        /\ UNCHANGED <<clock, last, file, filed, known, crossed>>
    BY <1>7 DEF TickFails, cronHistory
  <2> QED
    BY <1>1, <2>1, RestIsTick, OwesLess, QuietStep
<1>8. ASSUME NEW k \in Thread, StartCommand(k) PROVE CronInv'
  <2>1. /\ tick' = [tick EXCEPT ![k] = Idle] /\ Idle.todo = {} /\ Load(Of[k])
        /\ UNCHANGED <<clock, file, filed, crossed>>
    BY <1>8 DEF StartCommand, Idle
  <2>2. Of[k] \in Scheduler
    BY CronAssumption
  <2>3. /\ tick' \in [Thread -> TickRecord]
        /\ \A m \in Thread : /\ tick'[m].todo \subseteq tick[m].todo
                             /\ tick'[m].todo # {} => tick'[m].at = tick[m].at
    BY <2>1, RestIsTick, OwesLess
  <2> QED
    BY <2>1, <2>2, <2>3, LoadKeeps
<1>9. ASSUME NEW p \in Scheduler, RestartScheduler(p) PROVE CronInv'
  <2>1. /\ tick' = [k \in Thread |-> IF Of[k] = p THEN Rested(p) ELSE tick[k]] /\ Load(p)
        /\ UNCHANGED <<clock, file, filed, crossed>>
    BY <1>9 DEF RestartScheduler
  <2>2. \A k \in Thread : tick'[k] = Rested(p) \/ tick'[k] = tick[k]
    BY <2>1
  <2>3. tick' \in [Thread -> TickRecord]
    BY <1>1, <2>1, RestIsTick
  <2>4. \A m \in Thread : /\ tick'[m].todo \subseteq tick[m].todo
                          /\ tick'[m].todo # {} => tick'[m].at = tick[m].at
    BY <2>2, RestIsTick
  <2> QED
    BY <2>1, <2>3, <2>4, LoadKeeps
<1>10. CASE PassTime
  <2>1. clock' = clock + 1 /\ UNCHANGED <<last, file, filed, known, crossed, tick>>
    BY <1>10 DEF PassTime, cronHistory
  <2>2. clock' \in Nat /\ tick' \in [Thread -> TickRecord]
    BY <1>1, <2>1 DEF CronTypes
  <2> QED
    BY <2>1, <2>2, QuietStep
<1>11. CASE UNCHANGED cronVars
  <2>1. UNCHANGED <<clock, last, file, filed, known, crossed, tick>>
    BY <1>11 DEF cronVars, cronHistory
  <2> QED
    BY <1>1, <2>1, QuietStep DEF CronTypes
<1> QED
  BY <1>2, <1>3, <1>4, <1>5, <1>6, <1>7, <1>8, <1>9, <1>10, <1>11, Zenon DEF CronNext

(* Only ListDue gives a tick jobs to run. *)
LEMMA OnlyListingAdds ==
    ASSUME CronInv, CronNext, NEW k \in Thread, NEW i \in tick'[k].todo \ tick[k].todo
    PROVE  ListDue(k)
<1>1. \A m \in Thread : tick[m] \in TickRecord
  BY DEF CronInv, CronTypes
<1> DEFINE Less == tick'[k].todo \subseteq tick[k].todo
<1>2. ASSUME NEW m \in Thread, NEW t, t.todo \subseteq tick[m].todo, tick' = [tick EXCEPT ![m] = t]
      PROVE  Less
  BY <1>2 DEF CronInv, CronTypes
<1>3. ASSUME NEW m \in Thread, BeginTick(m) \/ TickFails(m) \/ StartCommand(m) PROVE Less
  <2>1. PICK t : t.todo = {} /\ tick' = [tick EXCEPT ![m] = t]
    BY <1>3, RestIsTick DEF BeginTick, TickFails, StartCommand, Idle
  <2> QED
    BY <1>2, <2>1
<1>4. ASSUME NEW m \in Thread, AskBrain(m) PROVE Less
  BY <1>1, <1>4 DEF AskBrain, CronInv, CronTypes, TickRecord
<1>5. ASSUME NEW m \in Thread, RecordRun(m) \/ RecordFails(m) PROVE Less
  <2>1. \E o \in DOMAIN JobOrder : \/ tick' = [tick EXCEPT ![m] = Remaining(m, o)]
                                   \/ tick' = [tick EXCEPT ![m] = Rested(Of[m])]
    BY <1>5 DEF RecordRun, RecordFails
  <2> QED
    BY <1>2, <2>1, RemainingTick, RestIsTick
<1>6. ASSUME NEW p \in Scheduler, RestartScheduler(p) PROVE Less
  BY <1>6, RestIsTick DEF RestartScheduler
<1>7. ASSUME NEW m \in Thread, ListDue(m), m # k PROVE Less
  BY <1>7 DEF ListDue, CronInv, CronTypes
<1>8. CASE PassTime
  BY <1>8 DEF PassTime
<1> QED
  BY <1>3, <1>4, <1>5, <1>6, <1>7, <1>8 DEF CronNext

(* A job is not repeated in the same minute or before its interval is over     *)
(* after a run that the process of the tick recorded or found on file          *)
(* (CicloCronScheduler.dueReason, load and recordRun): for any number of       *)
(* processes and overlapping ticks, wherever they die and whichever appends    *)
(* fail or are cut; unless the job was listed while a tick still owed it, or   *)
(* out of order.                                                               *)
THEOREM RunsOnFileAreNotRepeated == CronSpec => RecordedRunNotRepeated
<1>1. CronInit => CronInv
  BY CronBegins
<1>2. CronInv /\ [CronNext]_cronVars => CronInv'
  BY CronStepKeeps
<1>3. CronInv /\ [CronNext]_cronVars =>
        [\A k \in Thread :
           \A i \in tick'[k].todo \ tick[k].todo :
             LET j == JobOrder[i]  run == known[Of[k]][j] IN
             j \notin crossed' /\ run # NoTime => ~TooSoon(j, run, tick'[k].at)]_cronVars
  BY OnlyListingAdds, ListDueKeeps
<1> QED
  BY <1>1, <1>2, <1>3, PTL DEF CronSpec, RecordedRunNotRepeated
================================================================================
