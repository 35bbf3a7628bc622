------------------------- MODULE RemoteSessionRegistry -------------------------
(***************************************************************************)
(* The registry of remote Herdr sessions (class RemoteSessionRegistry,       *)
(* src/src/remote-session-registry.ts) and the heartbeat's sweep over it     *)
(* (checkRemoteSessions, src/src/internal-heartbeat.ts).                     *)
(*                                                                          *)
(* With a probing client a sweep lists the active sessions, then probes them *)
(* one after the other; the thread is given up during a probe, and the probe *)
(* writes back the record it read before it.  Without a client a sweep only  *)
(* applies the time limits.                                                  *)
(***************************************************************************)
EXTENDS Naturals, FiniteSets

CONSTANTS
    Remote, NoRemote,
    RemoteBead, NoBead,
    Sweep,        \* sweeps that may be under way at once
    RemoteStaleAfter, RemoteLostAfter,
    MaxSweepTime       \* bound on the clock

ASSUME RegistryAssumption ==
    /\ NoRemote \notin Remote /\ NoBead \notin RemoteBead
    /\ RemoteStaleAfter \in Nat /\ RemoteLostAfter \in Nat /\ MaxSweepTime \in Nat
    /\ RemoteStaleAfter <= RemoteLostAfter

VARIABLES
    registry,   \* the record of each remote session
    probing,    \* is a remoteHeartbeatClient configured: never changes
    time,
    sweeps,     \* progress of each sweep
    assigned,   \* history: the bead last given to each session
    raced       \* history: sessions given work while being probed

registryHistory == <<assigned, raced>>
registryVars == <<registry, probing, time, sweeps, registryHistory>>

RemoteRecord ==
    [state : {"none", "connected", "working", "blocked", "done", "detached", "stale", "lost"},
     bead  : RemoteBead \cup {NoBead},   \* activeBeadId
     beat  : 0..MaxSweepTime]           \* lastHeartbeatAt

Unregistered == [state |-> "none", bead |-> NoBead, beat |-> 0]
NotSweeping == [todo |-> {}, at |-> 0, probed |-> NoRemote, session |-> Unregistered]

RegistryTypeOK ==
    /\ registry \in [Remote -> RemoteRecord]
    /\ time \in 0..MaxSweepTime
    /\ sweeps \in [Sweep -> [todo : SUBSET Remote, at : 0..MaxSweepTime,
                             probed : Remote \cup {NoRemote}, session : RemoteRecord]]
    /\ probing \in BOOLEAN
    /\ assigned \in [Remote -> RemoteBead \cup {NoBead}]
    /\ raced \subseteq Remote

RegistryInit ==
    /\ registry = [r \in Remote |-> Unregistered]
    /\ time = 0
    /\ sweeps = [c \in Sweep |-> NotSweeping]
    /\ probing \in BOOLEAN
    /\ assigned = [r \in Remote |-> NoBead]
    /\ raced = {}

Registered(r) == registry[r].state # "none"

(* The operators named Bug... are the definition after them with a defect,    *)
(* used only to show that the properties notice it.                           *)
ActiveRemote(r) == registry[r].state \notin {"none", "detached", "lost", "done"}
Sweeping(c) == sweeps[c] # NotSweeping
BeingProbed(r) == \E c \in Sweep : sweeps[c].probed = r
Put(r, session) == registry' = [registry EXCEPT ![r] = session]
-----------------------------------------------------------------------------
(* Registration, also of a known id: the record is made anew. *)
Register(r, b) ==
    /\ time + RemoteLostAfter <= MaxSweepTime
    /\ Put(r, [state |-> "connected", bead |-> b, beat |-> time])
    /\ assigned' = [assigned EXCEPT ![r] = b]
    /\ raced' = IF BeingProbed(r) THEN raced \cup {r} ELSE raced \ {r}
    /\ UNCHANGED <<probing, time, sweeps>>

AssignWork(r, b) ==
    /\ Registered(r)
    /\ Put(r, [registry[r] EXCEPT !.bead = b])
    /\ assigned' = [assigned EXCEPT ![r] = b]
    /\ raced' = IF BeingProbed(r) THEN raced \cup {r} ELSE raced
    /\ UNCHANGED <<probing, time, sweeps>>

Detach(r) ==
    /\ Registered(r)
    /\ Put(r, [registry[r] EXCEPT !.state = "detached", !.beat = time])
    /\ UNCHANGED <<probing, time, sweeps, registryHistory>>

BugExpiryReleases(w, t) ==
    IF w.state \in {"none", "detached", "lost"} THEN w
    ELSE IF w.beat + RemoteLostAfter <= t THEN [w EXCEPT !.state = "lost", !.bead = NoBead]
    ELSE IF w.beat + RemoteStaleAfter <= t THEN [w EXCEPT !.state = "stale"]
    ELSE w

BugStaleIsFinal(w, t) ==
    IF w.state \in {"none", "detached", "lost", "stale"} THEN w
    ELSE IF w.beat + RemoteLostAfter <= t THEN [w EXCEPT !.state = "lost"]
    ELSE IF w.beat + RemoteStaleAfter <= t THEN [w EXCEPT !.state = "stale"]
    ELSE w

(* What markExpired makes of one record. *)
Expired(w, t) ==
    IF w.state \in {"none", "detached", "lost"} THEN w
    ELSE IF w.beat + RemoteLostAfter <= t THEN [w EXCEPT !.state = "lost"]
    ELSE IF w.beat + RemoteStaleAfter <= t THEN [w EXCEPT !.state = "stale"]
    ELSE w

MarkExpired ==
    /\ ~probing
    /\ registry' = [r \in Remote |-> Expired(registry[r], time)]
    /\ UNCHANGED <<probing, time, sweeps, registryHistory>>

StartSweep(c) ==
    /\ probing /\ ~Sweeping(c)
    /\ \E r \in Remote : ActiveRemote(r)
    /\ sweeps' = [sweeps EXCEPT ![c] = [NotSweeping EXCEPT
          !.todo = {r \in Remote : ActiveRemote(r)}, !.at = time]]
    /\ UNCHANGED <<registry, probing, time, registryHistory>>

(* The probe of the next session listed starts from its record of now. *)
Probe(c, r) ==
    /\ sweeps[c].probed = NoRemote /\ r \in sweeps[c].todo
    /\ sweeps' = [sweeps EXCEPT ![c] = [sweeps[c] EXCEPT
          !.todo = @ \ {r}, !.probed = r, !.session = registry[r]]]
    /\ UNCHANGED <<registry, probing, time, registryHistory>>

ProbeDone(c) == [sweeps[c] EXCEPT !.probed = NoRemote, !.session = Unregistered]
EndProbe(c) ==
    sweeps' = [sweeps EXCEPT ![c] = IF @.todo = {} THEN NotSweeping ELSE ProbeDone(c)]

(* Herdr's observation: idle and unknown count as connected. *)
Observed(c, state) ==
    /\ sweeps[c].probed # NoRemote
    /\ Put(sweeps[c].probed, [sweeps[c].session EXCEPT !.state = state, !.beat = sweeps[c].at])
    /\ EndProbe(c)
    /\ UNCHANGED <<probing, time, registryHistory>>

ProbeFailed(c) ==
    /\ sweeps[c].probed # NoRemote
    /\ Put(sweeps[c].probed, [sweeps[c].session EXCEPT !.state = "lost"])
    /\ EndProbe(c)
    /\ UNCHANGED <<probing, time, registryHistory>>

TimePasses == time < MaxSweepTime /\ time' = time + 1 /\ UNCHANGED <<registry, probing, sweeps, registryHistory>>

RegistryNext ==
    \/ TimePasses \/ MarkExpired
    \/ \E r \in Remote : Detach(r) \/ \E b \in RemoteBead : AssignWork(r, b)
    \/ \E r \in Remote, b \in RemoteBead \cup {NoBead} : Register(r, b)
    \/ \E c \in Sweep :
         \/ StartSweep(c) \/ ProbeFailed(c)
         \/ \E r \in Remote : Probe(c, r)
         \/ \E state \in {"connected", "working", "blocked", "done"} : Observed(c, state)

RegistrySpec == RegistryInit /\ [][RegistryNext]_registryVars

(* Time passes and the heartbeat's interval timer goes on sweeping. *)
FairRegistrySpec == RegistrySpec /\ WF_registryVars(TimePasses) /\ WF_registryVars(MarkExpired)
-----------------------------------------------------------------------------
(* "Preserve loop and Beads ownership when a remote session disconnects"      *)
(* (SPEC-CICLO-001): whatever a session goes through (silence, observations   *)
(* and failures of overlapping sweeps, detachment in the middle of a probe)   *)
(* the registry names the bead last given to it.  Only work given during a    *)
(* probe of the very session can be lost, as the probe writes back the record *)
(* it started from.  See raced.                                               *)
OwnershipKept == \A r \in Remote \ raced : registry[r].bead = assigned[r]

(* Without a client a silent session does not block its bead for ever: it is  *)
(* eventually lost, if it is not detached.                                    *)
SilentIsLost ==
    \A r \in Remote : Registered(r) /\ ~probing ~> registry[r].state \in {"lost", "detached"}
================================================================================
