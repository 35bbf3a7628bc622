-------------------------- MODULE MCInternalHeartbeat --------------------------
(* Model-checking instances of InternalHeartbeat. *)
EXTENDS InternalHeartbeat, TLC

CONSTANTS w1, w2, w3, b1, b2, t1, t2

MCTwoSessions == {w1, w2}
MCThreeSessions == {w1, w2, w3}
MCTwoBeads == {b1, b2}
MCPrimary == {b1}
MCOneTick == {t1}
MCTwoTicks == {t1, t2}
MCProcess == {"process"}
MCQuietTools == {"list", "ask_operator", "stop", "nudge"}
MCBoldTools == {"nudge", "launch"}
MCSymmetry == Permutations(MCTwoSessions) \cup Permutations(MCTwoTicks)
MCNoTools == {}
MCNoBrain == {}
MCRelaunchingBrain == {"relaunch_stronger_model"}
MCCarefulBrain == {"wait", "nudge", "stop", "ask_operator", "relaunch_stronger_model"}
MCBoldBrain == {"relaunch_stronger_model", "launch_review_worker"}
================================================================================
