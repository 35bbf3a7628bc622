----------------------------- MODULE MCCicloMemory -----------------------------
(* Model-checking instance of CicloMemory: two processes that record, entries   *)
(* of one group, and one process that compacts, or both.                       *)
EXTENDS CicloMemory, TLC

CONSTANTS p1, p2, e1, e2, e3

MCProcess == {p1, p2}
MCId == {e1, e2, e3}
MCGroup == [i \in MCId |-> "model-fit"]
MCRemembered == {[kind |-> "detail", high |-> TRUE], [kind |-> "detail", high |-> FALSE],
                 [kind |-> "summary", high |-> FALSE]}
MCSymmetry == Permutations(MCId) \cup Permutations(MCProcess)

\* The processes that compact: a leader with its heartbeat, and perhaps somebody
\* who runs "ciclo memory compact".
VARIABLE compacting

\* Bound on the faults when two compact, one of which is then spent on what the
\* second one loads.
MaxFaultsOfTwo == 1

MCInit == Init /\ compacting \in SUBSET MCProcess /\ compacting # {}

MCNext ==
    /\ Next /\ UNCHANGED compacting
    /\ \A p \in MCProcess \ compacting : work'[p].pc = "idle"
    /\ compacting = MCProcess => faults' <= MaxFaultsOfTwo

MCSpec == MCInit /\ [][MCNext]_<<vars, compacting>>
================================================================================
