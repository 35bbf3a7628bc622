----------------------------- MODULE MCProjectFiles -----------------------------
(* The model-checking instance of ProjectFiles. *)
EXTENDS ProjectFiles

CONSTANT p1

MCPackages == {p1}

Ships(capabilities, kinds, relative, named) ==
    [capabilities |-> capabilities, runnerKinds |-> kinds, strategies |-> kinds,
     secretKinds |-> kinds, relative |-> relative, named |-> named]

MCManifests ==
    {Ships({"remote-runner", "secret-provider"}, TRUE, TRUE, TRUE),
     Ships({"image-resolver"}, FALSE, TRUE, TRUE),
     Ships({"secret-provider"}, TRUE, FALSE, TRUE),
     Ships({"mcp-server"}, TRUE, TRUE, TRUE),
     Ships({"remote-runner"}, TRUE, TRUE, FALSE)}
================================================================================
