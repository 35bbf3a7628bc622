--------------------------- MODULE MCOperatorRouting ---------------------------
(* Model-checking instances of OperatorRouting: two workers, and questions    *)
(* about one worker, about a bead, and without any context.                   *)
EXTENDS OperatorRouting, TLC

CONSTANTS w1, w2, b1, p1, p2, q1, q2, q3

MCSession == {w1, w2}
MCBead == {b1}
MCKind == {"process"}
MCProcesses == {p1, p2}
MCQuestion == {q1, q2, q3}
MCAsker == (q1 :> w1 @@ q2 :> w2 @@ q3 :> w2)
MCRoute == (q1 :> w1 @@ q2 :> b1 @@ q3 :> "any")
MCOneServer == [s \in MCSession |-> p1]
MCOwnServer == (w1 :> p1 @@ w2 :> p2)
MCHeartbeats == {"none", "running", "waiting_on_operator"}
MCSilent == {"none"}
================================================================================
