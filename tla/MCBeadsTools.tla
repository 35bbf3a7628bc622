----------------------------- MODULE MCBeadsTools -----------------------------
EXTENDS BeadsTools
CONSTANTS k1, k2, jira, linear
Asked(action, dryRun, evidence) == [action |-> action, dryRun |-> dryRun,
    evidence |-> evidence, deterministic |-> FALSE, command |-> "none"]
Plain(tool, key, policy) == [tool |-> tool, key |-> key, policy |-> policy,
                             preview |-> FALSE, force |-> FALSE, review |-> tool = "close"]
MCToolRequest ==
    LET sync == Plain("sync", "sync:all:false", Asked("remote_tracker_sync", FALSE, FALSE))
    IN  {Plain("claim", "claim:b1", Asked("claim_beads_task", FALSE, FALSE)),
         Plain("update", "update:b1:tests", Asked("update_beads_progress", FALSE, FALSE)),
         Plain("update", "update:b1:dry", Asked("update_beads_progress", TRUE, FALSE)),
         Plain("compact", "compact:b1:completed", Asked("update_beads_progress", FALSE, FALSE)),
         Plain("close", "close:b1:done", Asked("close_beads_task", FALSE, TRUE)),
         [Plain("close", "close:b1:quiet", Asked("close_beads_task", FALSE, TRUE))
            EXCEPT !.review = FALSE],
         Plain("close", "close:b1:unproven", Asked("close_beads_task", FALSE, FALSE)),
         sync, [sync EXCEPT !.key = "sync:all:true", !.preview = TRUE],
         [sync EXCEPT !.key = "sync:b1:false", !.force = TRUE]}
MCConfigured == {"send_prompt", "remote_tracker_sync"}
=============================================================================
