------------------------------- MODULE BeadsRemote -------------------------------
(***************************************************************************)
(* Coordinating the claims of several machines over one Beads database: the  *)
(* Dolt remote (DoltRemoteSyncCoordinator, beads-dolt-sync.ts) or a shared   *)
(* Dolt server (SharedDoltServerCoordinator, beads-shared-server.ts), as     *)
(* configured (beads-remote.ts), and what its health lets a loop do          *)
(* (beads-remote-health.ts).                                                *)
(*                                                                          *)
(* bd and dolt are external: a database holds the owner of each bead; with   *)
(* the remote each machine has a database of its own, pulled and pushed.     *)
(***************************************************************************)
CONSTANTS
    Machine, Task, NoMachine,
    Configuration   \* raw configurations, records [mode, require, configured, off]:
                    \*   off are the flags set to false, the others default to true

ASSUME RemoteAssumption == NoMachine \notin Machine

VARIABLES
    cfg,       \* the configuration all machines share
    central,   \* the remote, or the shared server's database
    local,     \* each machine's database (with dolt_remote_sync)
    base,      \* the remote's content each machine pulled or pushed last
    reach,     \* the health of the remote: what a probe or a call meets
    work,      \* where each machine is in its selection and claim
    result     \* tasks each machine was told it claimed and shared

remoteVars == <<cfg, central, local, base, reach, work, result>>

Unowned == [t \in Task |-> NoMachine]
Resting == [pc |-> "idle", task |-> "none"]

RemoteInit ==
    /\ cfg \in Configuration
    /\ central = Unowned
    /\ local = [n \in Machine |-> Unowned]
    /\ base = [n \in Machine |-> Unowned]
    /\ reach \in {"healthy", "degraded", "unavailable"}
    /\ work = [n \in Machine |-> Resting]
    /\ result = [n \in Machine |-> {}]
-----------------------------------------------------------------------------
(* The operators named Bug... are the definition after them with a defect,    *)
(* used only to show that the properties notice it.                           *)

On(flag) == flag \notin cfg.off

(* detectBeadsRemoteMode *)
CoordinationMode == IF On("enabled") THEN cfg.mode ELSE "local"

DetectedHealth ==
    IF CoordinationMode = "local" THEN "healthy" ELSE IF cfg.configured THEN "unknown" ELSE "unavailable"

CoordinationRequired ==
    CASE CoordinationMode = "local"              -> cfg.require
      [] CoordinationMode = "shared_dolt_server" -> TRUE
      [] CoordinationMode = "dolt_remote_sync"   -> cfg.require \/ (cfg.configured /\ On("failClosed"))

(* evaluateBeadsRemoteHealth: what was detected and the problems found since.  *)
Blocking(problems) == problems \cap {"conflict", "schema_skew"}

DispatchAllowed(health, problems) ==
    ~(CoordinationRequired /\ health = "unavailable") /\ Blocking(problems) = {}

(* The database bd works on. *)
Database(n) == IF CoordinationMode = "dolt_remote_sync" THEN local[n] ELSE central
SetOwner(n, t, owner) ==
    IF CoordinationMode = "dolt_remote_sync"
    THEN local' = [local EXCEPT ![n][t] = owner] /\ UNCHANGED central
    ELSE central' = [central EXCEPT ![t] = owner] /\ UNCHANGED local

(* An error is wrapped and thrown: the machine gives up. *)
At(n, pc, t) == work' = [work EXCEPT ![n] = [pc |-> pc, task |-> t]]
GivesUp(n) == work' = [work EXCEPT ![n] = Resting]

(* The shared server is probed first; only an unavailable one is refused.      *)
ServerRefused == CoordinationMode = "shared_dolt_server" /\ reach = "unavailable" /\ On("failClosed")

(* ready(), where the health and the problems met so far let the loop dispatch: *)
(* the remote is pulled first.  dolt merges, unless a bead was changed on both *)
(* sides.                                                                     *)
Conflicting(n) == {t \in Task : local[n][t] # base[n][t] /\ central[t] # base[n][t]
                                /\ local[n][t] # central[t]}
Pulls == CoordinationMode = "dolt_remote_sync" /\ On("pullBeforeSelect")

Ready(n, problems) ==
    /\ work[n].pc = "idle" /\ DispatchAllowed(DetectedHealth, problems)
    /\ IF ServerRefused \/ (Pulls /\ (reach = "unavailable" \/ Conflicting(n) # {}))
       THEN GivesUp(n) /\ UNCHANGED <<local, base>>
       ELSE /\ local' = IF Pulls THEN [local EXCEPT ![n] = [t \in Task |->
                            IF local[n][t] # base[n][t] THEN local[n][t] ELSE central[t]]]
                        ELSE local
            /\ base' = IF Pulls THEN [base EXCEPT ![n] = central] ELSE base
            /\ LET open == {t \in Task :
                              (IF CoordinationMode = "dolt_remote_sync" THEN local'[n][t] ELSE central[t])
                                = NoMachine}
               IN  IF open = {} THEN GivesUp(n) ELSE \E t \in open : At(n, "selected", t)
    /\ UNCHANGED <<cfg, central, reach, result>>

(* claimAfterRecheck: bd show, bd update --claim, and the push.  Each may fail *)
(* when the server is out of reach.                                          *)
Recheck(n) ==
    LET t == work[n].task IN
    /\ work[n].pc = "selected"
    /\ IF ServerRefused \/ Database(n)[t] # NoMachine
       THEN GivesUp(n) ELSE At(n, "rechecked", t)
    /\ UNCHANGED <<cfg, central, local, base, reach, result>>

Claim(n) ==
    LET t == work[n].task IN
    /\ work[n].pc = "rechecked"
    /\ IF Database(n)[t] = NoMachine
       THEN SetOwner(n, t, n) /\ At(n, "claimed", t)
       ELSE GivesUp(n) /\ UNCHANGED <<central, local>>
    /\ UNCHANGED <<cfg, base, reach, result>>

(* dolt push succeeds only on top of what this machine pulled; an answer may   *)
(* get lost after the push was done.                                          *)
PushAccepted(n) == reach # "unavailable" /\ central = base[n]

BugPushErrorIgnored(n, answered) ==
    LET t == work[n].task IN
    /\ work[n].pc = "claimed"
    /\ IF PushAccepted(n)
       THEN central' = local[n] /\ base' = [base EXCEPT ![n] = local[n]]
       ELSE UNCHANGED <<central, base>>
    /\ result' = [result EXCEPT ![n] = @ \cup {t}]
    /\ GivesUp(n)
    /\ UNCHANGED <<cfg, local, reach>>

Push(n, answered) ==
    LET t == work[n].task IN
    /\ work[n].pc = "claimed"
    /\ IF CoordinationMode = "dolt_remote_sync" /\ On("pushAfterClaim")
       THEN IF PushAccepted(n)
            THEN /\ central' = local[n]
                 /\ base' = [base EXCEPT ![n] = local[n]]
                 /\ result' = IF answered THEN [result EXCEPT ![n] = @ \cup {t}] ELSE result
            ELSE UNCHANGED <<central, base, result>>
       ELSE /\ result' = IF CoordinationMode = "dolt_remote_sync" THEN result
                         ELSE [result EXCEPT ![n] = @ \cup {t}]
            /\ UNCHANGED <<central, base>>
    /\ GivesUp(n)
    /\ UNCHANGED <<cfg, local, reach>>

(* pushAfterUpdate, after a note: it pushes whatever the machine has, a claim    *)
(* whose own push failed included.                                            *)
PushAfterUpdate(n) ==
    /\ work[n].pc = "idle" /\ CoordinationMode = "dolt_remote_sync" /\ On("pushAfterUpdate")
    /\ PushAccepted(n) /\ local[n] # base[n]
    /\ central' = local[n]
    /\ base' = [base EXCEPT ![n] = local[n]]
    /\ UNCHANGED <<cfg, local, reach, work, result>>

(* The network and the server come and go; a machine may be restarted anywhere. *)
ReachChanges(health) ==
    /\ reach' = health
    /\ UNCHANGED <<cfg, central, local, base, work, result>>

Restart(n) ==
    /\ work[n].pc # "idle"
    /\ GivesUp(n)
    /\ UNCHANGED <<cfg, central, local, base, reach, result>>

RemoteNext ==
    \/ \E n \in Machine :
          \/ \E problem \in {"none", "connectivity", "divergence", "conflict", "schema_skew"} :
                Ready(n, {problem})
          \/ Recheck(n) \/ Claim(n) \/ PushAfterUpdate(n) \/ Restart(n)
          \/ \E answered \in BOOLEAN : Push(n, answered)
    \/ \E health \in {"healthy", "degraded", "unavailable"} \ {reach} : ReachChanges(health)

RemoteSpec == RemoteInit /\ [][RemoteNext]_remoteVars
-----------------------------------------------------------------------------
(* No two machines are told that they claimed and shared the same bead, with a *)
(* remote or with a shared server, whatever is pushed in which order, lost or  *)
(* restarted in between; and the claim told is the one the others see.         *)
SharedClaimExclusive ==
    \A n \in Machine : \A t \in result[n] :
        /\ central[t] = n
        /\ \A m \in Machine \ {n} : t \notin result[m]
================================================================================
