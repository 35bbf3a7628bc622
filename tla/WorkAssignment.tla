----------------------------- MODULE WorkAssignment -----------------------------
(***************************************************************************)
(* What the assignment of ready work promises (README.md and                 *)
(* SPEC-CICLO-001): a bead has at most one claimant, nobody claims what      *)
(* somebody else took, work starts on a claimed bead only, by the one who    *)
(* claimed it, and no bead is ever handed out a second time.                 *)
(***************************************************************************)
EXTENDS Naturals

CONSTANT Bead

VARIABLES
    owner,     \* owner[b]: "open", "claimed" by Ciclo, or "taken" by others
    holders,   \* holders[b]: how many are about to start work on b
    started    \* started[b]: work on b was started

Init ==
    /\ owner = [b \in Bead |-> "open"]
    /\ holders = [b \in Bead |-> 0]
    /\ started = [b \in Bead |-> FALSE]

\* An open bead goes to somebody else, or to a claimant who never learns of it.
Lose(b) ==
    /\ owner[b] = "open" /\ owner' \in {[owner EXCEPT ![b] = o] : o \in {"taken", "claimed"}}
    /\ UNCHANGED <<holders, started>>

Claim(b) ==
    /\ owner[b] = "open" /\ owner' = [owner EXCEPT ![b] = "claimed"]
    /\ holders[b] = 0 /\ holders' = [holders EXCEPT ![b] = 1]
    /\ UNCHANGED started

LetGo(b) == holders[b] = 1 /\ holders' = [holders EXCEPT ![b] = 0]

StartWork(b) ==
    /\ owner[b] = "claimed" /\ LetGo(b)
    /\ ~started[b] /\ started' = [started EXCEPT ![b] = TRUE]
    /\ UNCHANGED owner

GiveUp(b) == owner[b] = "claimed" /\ LetGo(b) /\ ~started[b] /\ UNCHANGED <<owner, started>>

Next == \E b \in Bead : Lose(b) \/ Claim(b) \/ StartWork(b) \/ GiveUp(b)

Spec == Init /\ [][Next]_<<owner, holders, started>>
=============================================================================
