--------------------------- MODULE MCMcpLeadership ---------------------------
(* Model-checking instance of McpLeadership: a few servers and CLI commands. *)
EXTENDS McpLeadership, TLC

CONSTANTS s1, s2, s3, c1

MCServer == {s1, s2, s3}
MCCommand == {c1}
MCTwoServers == {s1, s2}
MCNoCommand == {}
=============================================================================
