------------------------------- MODULE PolicyGate -------------------------------
(***************************************************************************)
(* The policy gate (evaluatePolicy, policy-gate.ts): what a loop may do, by *)
(* the mode of the loop, what has been configured for the project and what  *)
(* the operator wants to be asked about.  A request is a record             *)
(*   [action, dryRun, evidence, deterministic, command].                    *)
(***************************************************************************)

CONSTANTS
    Configured,       \* what is set up: subset of the actions that need it
    ApprovalFor,      \* actions the operator has to approve
    AllowedCommands   \* policy.allow_commands

PolicyAction ==
    {"create_beads_task", "pull_beads_ready", "claim_beads_task",
     "update_beads_progress", "close_beads_task", "send_prompt", "run_test",
     "run_command", "deploy", "approve_permission", "register_remote_session",
     "remote_tracker_sync", "answer_agent_question"}

MutatingActions == PolicyAction \ {"pull_beads_ready"}

NeedsConfiguration ==
    {"send_prompt", "run_test", "deploy", "register_remote_session", "remote_tracker_sync"}
MayNeedApproval == {"close_beads_task", "send_prompt", "deploy", "remote_tracker_sync"}

Denied(r) ==
    \/ r.action = "approve_permission"
    \/ r.action \in NeedsConfiguration \ Configured
    \/ r.action \in {"run_test", "run_command"} /\ r.command \notin AllowedCommands
    \/ r.action = "close_beads_task" /\ ~r.evidence

AskedFirst(r) ==
    \/ r.action \in MayNeedApproval \cap ApprovalFor
    \/ r.action = "answer_agent_question" /\ ~r.deterministic

\* The order matters: a dry-run loop is not even told what it would be denied.
EvaluatePolicy(r) ==
    IF r.dryRun /\ r.action \in MutatingActions THEN "dry_run_only"
    ELSE IF Denied(r) THEN "deny"
    ELSE IF AskedFirst(r) THEN "ask_operator" ELSE "allow"
=============================================================================
