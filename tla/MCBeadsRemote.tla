----------------------------- MODULE MCBeadsRemote ------------------------------
(* The model-checking instance of BeadsRemote. *)
EXTENDS BeadsRemote

CONSTANTS m1, m2, c1, c2

MCMachines == {m1, m2}
MCTasks == {c1, c2}

Raw(mode, require, configured, off) ==
    [mode |-> mode, require |-> require, configured |-> configured, off |-> off]

MCConfigurations ==
    {Raw("local", FALSE, FALSE, {}),
     Raw("shared_dolt_server", FALSE, TRUE, {}),
     Raw("shared_dolt_server", FALSE, FALSE, {}),
     Raw("dolt_remote_sync", FALSE, TRUE, {}),
     Raw("dolt_remote_sync", FALSE, TRUE, {"pullBeforeSelect"}),
     Raw("dolt_remote_sync", TRUE, TRUE, {"failClosed", "pushAfterUpdate"})}
================================================================================
