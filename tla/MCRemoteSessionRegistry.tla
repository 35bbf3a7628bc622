------------------------ MODULE MCRemoteSessionRegistry ------------------------
(* Model-checking instance of RemoteSessionRegistry: one session, for records *)
(* of different sessions do not interact, and two sweeps that may overlap.    *)
EXTENDS RemoteSessionRegistry, TLC

CONSTANTS r1, rb1, c1, c2

MCOneRemote == {r1}
MCOneBead == {rb1}
MCTwoSweeps == {c1, c2}
================================================================================
