----------------------------- MODULE ContextPlanning -----------------------------
(***************************************************************************)
(* What a loop plans next, and what of its context a harness gets: the        *)
(* context budget (context-budget.ts), the classification of context items   *)
(* and the pack built from them (context-classifier.ts, context-pack.ts), the *)
(* dry-run planner (response-planner.ts) and its audit record                *)
(* (response-audit-log.ts).  Every call is a function of its input.           *)
(*                                                                          *)
(* Sizes are in tokens; ratios are compared as percentages.                  *)
(***************************************************************************)
EXTENDS Integers, SequencesExt

CONSTANTS
    Items,         \* context items, records [name, source, age (in hours),
                   \*   duplicate, sensitive, onBead, tokens]
    PackSizes,     \* maxTokens of the packs asked for
    MaxTokens,     \* the size of the context window
    Reserved,      \* the sum of the reserves
    UsedTokens,    \* measured sizes
    Thresholds,    \* thresholds a caller gives, percentages: functions from names to Nat
    Placeholder,   \* the size of a redacted item
    Goals,         \* proposals, records [complete, risky, deploys, within]
    PlannerApprovals, PlannerCommands

ASSUME PlanningAssumption ==
    /\ MaxTokens \in Nat \ {0} /\ Reserved \in Nat /\ Placeholder \in Nat
    /\ UsedTokens \subseteq Nat /\ PackSizes \subseteq Nat
    /\ \A given \in Thresholds :
          /\ DOMAIN given \subseteq {"warn", "compactAfterTask", "forceCompact"}
          /\ \A t \in DOMAIN given : given[t] \in Nat
    /\ IsFiniteSet(Items) /\ \A i, j \in Items : i.name = j.name => i = j
    /\ Items \subseteq [name : Nat, source : {"spec", "beads", "audit", "repo", "herdr", "mcp",
                                             "remote_session", "transcript"},
                       age : Nat, duplicate : BOOLEAN, sensitive : BOOLEAN, onBead : BOOLEAN,
                       tokens : Nat]

VARIABLE call   \* the last call and what it returned

Policy(configured) == INSTANCE PolicyGate WITH
    Configured <- configured, ApprovalFor <- PlannerApprovals, AllowedCommands <- PlannerCommands
-----------------------------------------------------------------------------
(* The operators named Bug... are the definition after them with a defect,    *)
(* used only to show that the properties notice it.                           *)
DefaultContextThresholds == [warn |-> 65, compactAfterTask |-> 80, forceCompact |-> 92]

(* A caller may give any of them, in any order of size. *)
ThresholdsWithDefaults(given) ==
    [t \in DOMAIN DefaultContextThresholds |->
        IF t \in DOMAIN given THEN given[t] ELSE DefaultContextThresholds[t]]

(* The reserves count as consumed. *)
AtOrAbove(used, percent) == (used + Reserved) * 100 >= percent * MaxTokens

BugWarnedBeforeForced(used, given) ==
    LET thresholds == ThresholdsWithDefaults(given)
    IN  IF AtOrAbove(used, thresholds.compactAfterTask)
        THEN IF AtOrAbove(used, thresholds.forceCompact) THEN "force_compact" ELSE "compact_after_task"
        ELSE IF AtOrAbove(used, thresholds.warn) THEN "warn" ELSE "ok"

(* buildContextBudgetState, statusForRatio *)
BudgetStatus(used, given) ==
    LET thresholds == ThresholdsWithDefaults(given)
    IN  IF AtOrAbove(used, thresholds.forceCompact) THEN "force_compact"
        ELSE IF AtOrAbove(used, thresholds.compactAfterTask) THEN "compact_after_task"
        ELSE IF AtOrAbove(used, thresholds.warn) THEN "warn" ELSE "ok"

(* evaluateGoalEvolution, for a loop of some kind. *)
GoalAllowed(kind, goal) ==
    goal.complete /\ ~goal.risky /\ (goal.deploys => kind = "deploy") /\ goal.within

BaseResponse(in) ==
    IF ~in.remoteAllows THEN "stop_loop"
    ELSE CASE in.event = "agent_working"                           -> "wait"
           [] in.event \in {"agent_done", "loop_exit_success"}     -> "summarize"
           [] in.event = "agent_idle"                              -> "nudge"
           [] in.event = "agent_blocked"                           -> "ask_user"
           [] in.event = "beads_ready"             -> IF in.selected THEN "claim_task" ELSE "wait"
           [] in.event = "repo_dirty_without_task"                 -> "create_task"
           [] in.event = "goal_drift_detected"     ->
                  IF \E g \in in.goal : ~GoalAllowed(in.loopKind, g)
                  THEN "ask_user" ELSE "update_loop_goal"
           [] in.event = "loop_exit_failure"                       -> "stop_loop"

ContextHeavy == {"summarize", "nudge", "claim_task", "create_task", "update_loop_goal"}

(* in.used is the set of the measured size, {} when nothing was measured; so is *)
(* in.goal for the proposed goal.  in.given: the thresholds the caller gave.   *)
Response(in) ==
    LET base == BaseResponse(in)
        status == {BudgetStatus(used, in.given) : used \in in.used}
    IN  IF base \in {"stop_loop", "wait", "ask_user"} THEN base
        ELSE IF in.used = {} /\ base \in ContextHeavy THEN "measure_context"
        ELSE IF status = {"force_compact"} THEN IF in.override THEN base ELSE "smart_compact"
        ELSE IF status = {"compact_after_task"} THEN "smart_compact"
        ELSE IF status = {"warn"} THEN "build_context_pack"
        ELSE base

ActionFor(response) ==
    CASE response \in {"wait", "measure_context", "build_context_pack", "summarize", "stop_loop"}
                                                            -> "pull_beads_ready"
      [] response \in {"smart_compact", "update_loop_goal"} -> "update_beads_progress"
      [] response = "nudge"                                 -> "send_prompt"
      [] response = "ask_user"                              -> "answer_agent_question"
      [] response = "claim_task"                            -> "claim_beads_task"
      [] response = "create_task"                           -> "create_beads_task"

PolicyFor(in, response) ==
    LET configured == IF in.promptSend THEN {"send_prompt"} ELSE {}
    IN  Policy(configured)!EvaluatePolicy(
            [action |-> ActionFor(response), dryRun |-> in.dryRun, evidence |-> in.evidence,
             deterministic |-> FALSE, command |-> "none"])

ResponseDecision(policy) == IF policy \in {"deny", "ask_operator"} THEN "denied" ELSE "dry_run"

(* The record of a plan: what was done with it follows from the policy only.   *)
AuditRecord(in, response) ==
    [action |-> response, policy |-> PolicyFor(in, response),
     decision |-> ResponseDecision(PolicyFor(in, response))]

(* planDryRunResponseWithAudit *)
Plan(in) ==
    call' = [op |-> "plan", in |-> in, response |-> Response(in),
             audit |-> AuditRecord(in, Response(in))]
-----------------------------------------------------------------------------
SourceTags(source) ==
    CASE source = "beads"                    -> {"active", "durable"}
      [] source \in {"spec", "audit"}        -> {"durable"}
      [] source \in {"repo", "herdr", "mcp"} -> {"active"}
      [] source = "remote_session"           -> {"active", "sensitive"}
      [] source = "transcript"               -> {"stale"}

SourcePriority(source) ==
    CASE source = "spec" -> 70 [] source = "beads" -> 95 [] source = "audit" -> 65
      [] source = "repo" -> 80 [] source = "herdr" -> 85 [] source = "transcript" -> 35
      [] source \in {"mcp", "remote_session"} -> 75

Tags(i) ==
    SourceTags(i.source)
    \cup (IF i.age >= 24 THEN {"stale", "discardable"} ELSE IF i.age >= 8 THEN {"stale"} ELSE {})
    \cup (IF i.duplicate THEN {"redundant"} ELSE {})
    \cup (IF i.sensitive THEN {"sensitive"} ELSE {})

Adjustment ==
    [active |-> 5, durable |-> 5, stale |-> -20, redundant |-> -30, discardable |-> -30,
     sensitive |-> 0]

Priority(i) ==
    LET own == SourcePriority(i.source) + (IF i.source = "beads" /\ i.onBead THEN 5 ELSE 0)
        adjusted == own + SumFunctionOnSet(Adjustment, Tags(i))
    IN  Max({0, Min({100, adjusted})})

(* redactBeforePersist *)
Redacted(i) == "sensitive" \in Tags(i) \/ i.source \in {"remote_session", "transcript"}

Skipped(i) ==
    \/ "discardable" \in Tags(i)
    \/ "redundant" \in Tags(i) /\ "active" \notin Tags(i)

Before(i, j) ==
    Priority(i) > Priority(j) \/ (Priority(i) = Priority(j) /\ i.name < j.name)

Tokens(i, includeSensitive) ==
    IF Redacted(i) /\ ~includeSensitive THEN Placeholder ELSE i.tokens

BugLastOneOver(pack, i, size, includeSensitive) ==
    IF Skipped(i) \/ pack.used > size THEN pack
    ELSE [used |-> pack.used + Tokens(i, includeSensitive),
          included |-> pack.included \cup
                           {[item |-> i, redacted |-> Redacted(i) /\ ~includeSensitive]}]

(* One item, in the order of priority: an item that does not fit is left out    *)
(* and the next ones are tried.                                               *)
Packed(pack, i, size, includeSensitive) ==
    IF Skipped(i) \/ pack.used + Tokens(i, includeSensitive) > size THEN pack
    ELSE [used |-> pack.used + Tokens(i, includeSensitive),
          included |-> pack.included \cup
                           {[item |-> i, redacted |-> Redacted(i) /\ ~includeSensitive]}]

LastOf(items) == CHOOSE i \in items : \A j \in items \ {i} : Before(j, i)

EmptyPack == [used |-> 0, included |-> {}]
PackOf(items, size, includeSensitive) ==
    MapThenFoldSet(LAMBDA i, pack : Packed(pack, i, size, includeSensitive), EmptyPack,
                   LAMBDA i : i, LastOf, items)

(* buildContextPack: the items one by one, the most important first. *)
BuildContextPack(items, size, includeSensitive) ==
    call' = [op |-> "pack", items |-> items, size |-> size, includeSensitive |-> includeSensitive,
             pack |-> PackOf(items, size, includeSensitive)]

PlannerInputs ==
    [event : {"agent_working", "agent_done", "agent_idle", "agent_blocked", "beads_ready",
              "repo_dirty_without_task", "goal_drift_detected", "loop_exit_success",
              "loop_exit_failure"},
     loopKind : {"deploy", "review"}, dryRun : BOOLEAN, remoteAllows : BOOLEAN,
     selected : BOOLEAN, used : {{u} : u \in UsedTokens} \cup {{}}, given : Thresholds,
     override : BOOLEAN,
     promptSend : BOOLEAN, evidence : {FALSE}, goal : {{g} : g \in Goals} \cup {{}}]

PlanningInit == call = [op |-> "none"]

PlanningNext ==
    /\ call.op = "none"
    /\ \/ \E in \in PlannerInputs : Plan(in)
       \/ \E items \in SUBSET Items, size \in PackSizes, includeSensitive \in BOOLEAN :
             BuildContextPack(items, size, includeSensitive)

PlanningSpec == PlanningInit /\ [][PlanningNext]_call
-----------------------------------------------------------------------------
(* With the thresholds of a call, whatever their order, there is room left      *)
(* below each of them, and with the default ones more than a third of the      *)
(* window, reserves included.                                                 *)
RoomLeft(used, given) ==
    /\ \A t \in DOMAIN given : ~AtOrAbove(used, given[t])
    /\ DOMAIN given = {} => (MaxTokens - used - Reserved) * 3 > MaxTokens

Overruled(in, used) ==
    in.override /\ AtOrAbove(used, IF "forceCompact" \in DOMAIN in.given
                                 THEN in.given["forceCompact"] ELSE 92)

(* A plan that spends context (a prompt, a claim, a new task, a new goal) leaves *)
(* the room the caller asked for, or the operator has overruled a compaction    *)
(* that was forced and no lesser one; and it never goes out while the Beads     *)
(* remote forbids dispatch.                                                   *)
HeavyPlansFit ==
    call.op = "plan" /\ call.response \in ContextHeavy =>
        /\ call.in.remoteAllows
        /\ \E used \in call.in.used : RoomLeft(used, call.in.given) \/ Overruled(call.in, used)

EntryTokens(e) == IF e.redacted THEN Placeholder ELSE e.item.tokens

(* A pack is within its size although redaction changes the sizes of items; it  *)
(* holds no remote, raw or sensitive text unless that was asked for; and an     *)
(* item of current work that is left out would not have fitted beside the more *)
(* important ones.                                                            *)
PackIsBounded ==
    call.op = "pack" =>
        LET included == call.pack.included
            size(S) == SumFunctionOnSet([e \in S |-> EntryTokens(e)], S)
        IN  /\ size(included) <= call.size
            /\ \A e \in included : e.item.sensitive \/ e.item.source \in {"remote_session", "transcript"}
                                     => e.redacted \/ call.includeSensitive
            /\ \A i \in call.items : i.source = "beads" /\ i.age < 24
                 /\ (\A e \in included : e.item # i) =>
                     size({e \in included : Before(e.item, i)}) + Tokens(i, call.includeSensitive)
                       > call.size
================================================================================
