------------------------------- MODULE ClientLogin -------------------------------
(***************************************************************************)
(* What a login promises (SPEC-CICLO-001, "bind the token to the approved    *)
(* principal"): tokens follow an approval, name the one who approved, are   *)
(* handed out once, replace each other when refreshed, so that there is     *)
(* never more than one valid set, and never come back after the last set    *)
(* was revoked.                                                             *)
(***************************************************************************)
EXTENDS Naturals

CONSTANTS Device, Client, NoOne

VARIABLES
    phase,   \* phase[d]: how far login d got
    by,      \* by[d]: who approved it
    live     \* live[d]: the number of token sets of the login not revoked

Init ==
    /\ phase = [d \in Device |-> "waiting"]
    /\ by = [d \in Device |-> NoOne]
    /\ live = [d \in Device |-> 0]

Becomes(d, p) == phase' = [phase EXCEPT ![d] = p]

Approve(d) ==
    /\ phase[d] = "waiting" /\ Becomes(d, "approved")
    /\ by' \in {[by EXCEPT ![d] = c] : c \in Client}
    /\ UNCHANGED live

\* Denied, or too late.
Close(d) ==
    /\ phase[d] \in {"waiting", "approved"} /\ Becomes(d, "closed")
    /\ UNCHANGED <<by, live>>

HandOut(d) ==
    /\ phase[d] = "approved" /\ Becomes(d, "handed_out")
    /\ live' = [live EXCEPT ![d] = 1]
    /\ UNCHANGED by

Revoke(d) ==
    /\ phase[d] = "handed_out" /\ live[d] = 1
    /\ live' = [live EXCEPT ![d] = 0]
    /\ UNCHANGED <<phase, by>>

Next == \E d \in Device : Approve(d) \/ Close(d) \/ HandOut(d) \/ Revoke(d)

Spec == Init /\ [][Next]_<<phase, by, live>>
=============================================================================
