----------------------------- MODULE AccessGrants -----------------------------
(***************************************************************************)
(* Who may do what in a Ciclo session: grants and their scopes             *)
(* (access-grants.ts), the actions and the principal of a request          *)
(* (session-access.ts), the decision (access-enforcement.ts), the entry    *)
(* point of the MCP server and the views of one's own access               *)
(* (client-auth.ts).  Everything here is a function of its arguments.      *)
(***************************************************************************)
EXTENDS Naturals

CONSTANTS
    None,        \* a field that is not set
    Trimmed,     \* [a principal id as it was given -> trimmed, None when nothing is left]
    Owner,       \* the session's ownerPrincipalId
    TextField    \* the scope fields compared as strings: session, loop, bead...

Capability == {"status.read", "work.claim", "work.update", "work.close",
    "command.approve", "question.answer", "remote.register", "secret.read",
    "brain.decide", "access.admin"}

RoleCapabilities == [
    owner         |-> Capability,
    operator      |-> {"status.read", "question.answer", "command.approve",
                       "remote.register", "brain.decide"},
    maintainer    |-> {"status.read", "work.claim", "work.update", "work.close",
                       "question.answer", "secret.read", "brain.decide"},
    contributor   |-> {"status.read", "work.claim", "work.update"},
    viewer        |-> {"status.read"},
    agent_service |-> {"status.read", "work.update", "question.answer",
                       "secret.read", "brain.decide"}]

EffectiveCapabilities(grant) ==
    grant.capabilities \cup
        IF grant.role = None THEN {} ELSE RoleCapabilities[grant.role]

\* A grant expires only for a caller who says what time it is.
Expired(grant, time) ==
    time # None /\ grant.expiresAt # None /\ grant.expiresAt <= time

\* Labels must all be present; every command class asked for must be granted.
ScopeMatches(granted, asked) ==
    /\ \A f \in TextField : granted.text[f] \in {None, asked.text[f]}
    /\ granted.labels \subseteq asked.labels
    /\ \/ granted.classes = {}
       \/ asked.classes # {} /\ asked.classes \subseteq granted.classes

EvaluateAccessGrant(grants, principal, capability, scope, time) ==
    \E g \in grants :
        /\ g.principal = principal
        /\ ~Expired(g, time)
        /\ capability \in EffectiveCapabilities(g)
        /\ ScopeMatches(g.scope, scope)

-----------------------------------------------------------------------------
ActionCapability == [
    read_status |-> "status.read", read_loop |-> "status.read",
    read_ready_work |-> "status.read", create_beads_task |-> "work.update",
    claim_beads_task |-> "work.claim", update_beads_progress |-> "work.update",
    close_beads_task |-> "work.close", send_prompt |-> "work.update",
    run_test |-> "command.approve", run_command |-> "command.approve",
    deploy |-> "command.approve", approve_permission |-> "command.approve",
    register_remote_session |-> "remote.register",
    remote_tracker_sync |-> "access.admin",
    answer_agent_question |-> "question.answer",
    request_secret |-> "secret.read", use_brain |-> "brain.decide",
    grant_access |-> "access.admin", revoke_access |-> "access.admin"]

Mutating == DOMAIN ActionCapability \ {"read_status", "read_loop", "read_ready_work"}

-----------------------------------------------------------------------------
(* A context has the session's mode, the origin of the request, the         *)
(* principal named by the launcher, and what introspection said of the      *)
(* bearer token: [given, active, principal].                                *)

RequiresBearer(ctx) == ctx.mode = "multiuser" /\ ctx.origin \in {"mcp_http", "api"}

BearerMissing(ctx) == RequiresBearer(ctx) /\ ~ctx.token.given

InactiveToken(ctx) == ctx.mode = "multiuser" /\ ctx.token.given /\ ~ctx.token.active

WrongPrincipal(ctx) ==
    /\ ctx.mode = "multiuser" /\ ctx.token.active
    /\ ctx.principal # None /\ ctx.principal # ctx.token.principal

CleanPrincipal(given) == IF given = None THEN None ELSE Trimmed[given]

\* The decision trims: the launcher's word comes first, then the token's.
Principal(ctx) ==
    CASE ctx.mode = "single" -> Owner
      [] ctx.mode # "single" /\ ctx.principal = None /\ ctx.token.active
           -> CleanPrincipal(ctx.token.principal)
      [] OTHER -> CleanPrincipal(ctx.principal)

Granted(ctx, grants, request) ==
    \/ ctx.mode = "single"
    \/ request.action \notin Mutating
    \/ EvaluateAccessGrant(grants, Principal(ctx), ActionCapability[request.action],
                           request.scope, ctx.now)

AuthorizeClientRequest(ctx, grants, request) ==
    \/ BearerMissing(ctx) /\ request.bootstrap
    \/ /\ ~BearerMissing(ctx) /\ ~InactiveToken(ctx) /\ ~WrongPrincipal(ctx)
       /\ Principal(ctx) # None
       /\ Granted(ctx, grants, request)

\* Any grant with the capability counts as an operator's.
BugAnyoneRoutes(ctx, grants, request) ==
    IF BearerMissing(ctx) \/ InactiveToken(ctx) \/ WrongPrincipal(ctx) THEN {}
    ELSE {g.principal : g \in {x \in grants :
            /\ x.principal # Principal(ctx) /\ x.role \in {"owner", "operator"}
            /\ ActionCapability[request.action] \in EffectiveCapabilities(x)}}

\* Whom a denied request is referred to: operators who hold the capability.
OperatorRoutes(ctx, grants, request) ==
    IF BearerMissing(ctx) \/ InactiveToken(ctx) \/ WrongPrincipal(ctx) THEN {}
    ELSE {g.principal : g \in {x \in grants :
            /\ x.principal # Principal(ctx) /\ x.role \in {"owner", "operator"}
            /\ ~Expired(x, ctx.now)
            /\ ActionCapability[request.action] \in EffectiveCapabilities(x)
            /\ ScopeMatches(x.scope, request.scope)}}

AuditDecision(ctx, grants, request) ==
    CASE AuthorizeClientRequest(ctx, grants, request) -> "accepted"
      [] ~AuthorizeClientRequest(ctx, grants, request)
         /\ OperatorRoutes(ctx, grants, request) # {} -> "delegated"
      [] OTHER -> "denied"

-----------------------------------------------------------------------------
\* ciclo_whoami and ciclo://session/access: an active token comes first here,
\* and a name that is not blank is shown, and looked up, as it was given.
ViewPrincipal(ctx) ==
    CASE ctx.mode = "single" -> Owner
      [] ctx.mode # "single" /\ ctx.token.active -> ctx.token.principal
      [] OTHER -> IF CleanPrincipal(ctx.principal) = None THEN None ELSE ctx.principal

\* The view looks for a name that the decision has trimmed.
ShownPadded(ctx) ==
    ctx.mode = "multiuser" /\ CleanPrincipal(ViewPrincipal(ctx)) # ViewPrincipal(ctx)

ViewCapabilities(ctx, grants) ==
    IF ViewPrincipal(ctx) = Owner /\ ctx.mode = "single" THEN Capability
    ELSE UNION {EffectiveCapabilities(g) :
                g \in {x \in grants : x.principal = ViewPrincipal(ctx)}}
=============================================================================
