---------------------------- MODULE MCClientAccess ----------------------------
EXTENDS ClientAccess, TLC
CONSTANTS d1, t1, t2, t3, alice, bob, aliceBlank, blanks, fieldBead, bead1, bead2

Text(b) == [f \in TextField |-> IF f = fieldBead THEN b ELSE None]
Scope(b, labels, classes) == [text |-> Text(b), labels |-> labels, classes |-> classes]
Grant(p, role, caps, scope, expires) ==
    [principal |-> p, role |-> role, capabilities |-> caps, scope |-> scope, expiresAt |-> expires]

\* CICLO_PRINCIPAL_ID as it may be set: "alice ", or blanks only.
MCTrimmed == (alice :> alice) @@ (bob :> bob) @@ (aliceBlank :> alice) @@ (blanks :> None)

MCGrantPool == {
    Grant(bob, "operator", {}, Scope(None, {}, {"test"}), 1),
    Grant(bob, "owner", {}, Scope(bead1, {}, {}), None),
    Grant(alice, "contributor", {}, Scope(bead1, {}, {}), 2),
    Grant(alice, None, {"work.close"}, Scope(None, {"docs"}, {}), None)}

Ask(action, scope) == [action |-> action, scope |-> scope, bootstrap |-> FALSE]

MCRequest == {
    Ask("claim_beads_task", Scope(bead1, {}, {})),
    Ask("claim_beads_task", Scope(bead2, {}, {})),
    Ask("close_beads_task", Scope(bead1, {"docs"}, {})),
    Ask("run_command", Scope(bead2, {}, {"test"})),
    Ask("run_command", Scope(bead1, {}, {})),
    Ask("read_status", Scope(None, {}, {}))}
=============================================================================
