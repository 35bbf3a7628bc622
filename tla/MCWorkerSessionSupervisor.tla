----------------------- MODULE MCWorkerSessionSupervisor -----------------------
(* Model-checking instances of WorkerSessionSupervisor. *)
EXTENDS WorkerSessionSupervisor, TLC

CONSTANTS w1, b1

MCOneSession == {w1}
MCOneBead == {b1}
MCEveryKind == {"process", "claude", "herdr"}
MCHerdr == {"herdr"}
================================================================================
