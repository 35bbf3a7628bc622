--------------------------- MODULE MCContextPlanning ----------------------------
(* The model-checking instance of ContextPlanning: six items of context, one    *)
(* of them old, one a duplicate, one sensitive; a window of 100 tokens.         *)
EXTENDS ContextPlanning

Item(name, source, age, duplicate, sensitive, tokens) ==
    [name |-> name, source |-> source, age |-> age, duplicate |-> duplicate,
     sensitive |-> sensitive, onBead |-> source = "beads", tokens |-> tokens]

MCItems ==
    {Item(1, "beads", 0, FALSE, FALSE, 4), Item(2, "beads", 9, TRUE, TRUE, 2),
     Item(3, "spec", 30, FALSE, FALSE, 1), Item(4, "repo", 0, FALSE, FALSE, 3),
     Item(5, "remote_session", 0, FALSE, FALSE, 5), Item(6, "transcript", 1, FALSE, FALSE, 2)}

MCPackSizes == {0, 4, 6, 9}
MCUsedTokens == {0, 44, 45, 59, 60, 71, 72, 90}
\* none, all three, one alone, and two whose order is turned round
MCThresholds ==
    {<<>>, [warn |-> 60, compactAfterTask |-> 75, forceCompact |-> 90], [warn |-> 90],
     [warn |-> 80, forceCompact |-> 64]}

Goal(complete, risky, deploys, within) ==
    [complete |-> complete, risky |-> risky, deploys |-> deploys, within |-> within]

MCGoals ==
    {Goal(TRUE, FALSE, FALSE, TRUE), Goal(FALSE, FALSE, FALSE, TRUE),
     Goal(TRUE, TRUE, FALSE, TRUE), Goal(TRUE, FALSE, TRUE, TRUE), Goal(TRUE, FALSE, FALSE, FALSE)}
MCNone == {}
================================================================================
