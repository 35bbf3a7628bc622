-------------------------- MODULE MCProjectProcesses --------------------------
(* What the Ciclo processes of one project share through its files without     *)
(* talking to each other: the lock that makes one of them the leader, and the   *)
(* memory they all append to.  The two keep no state in common, so every        *)
(* behaviour is one of `shared`'s and the other rests.                         *)
EXTENDS MCMcpLeadership, MCCicloMemory

VARIABLE shared

ProjectInit ==
    /\ shared \in {"lock", "memory"}
    /\ ElectionInit /\ MCInit
    /\ shared = "lock" => compacting = MCProcess

ProjectNext ==
    /\ UNCHANGED shared
    /\ \/ shared = "lock" /\ ElectionNext /\ UNCHANGED <<vars, compacting>>
       \/ shared = "memory" /\ MCNext /\ UNCHANGED electionVars

ProjectSpec == ProjectInit /\ [][ProjectNext]_<<electionVars, vars, compacting, shared>>
================================================================================
