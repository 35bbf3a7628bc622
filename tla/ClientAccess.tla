------------------------------ MODULE ClientAccess ------------------------------
(***************************************************************************)
(* Login, tokens and grants of one MCP process together: the handlers of   *)
(* ciclo_auth_device_start and _poll, the registry behind them, and the    *)
(* authorization of every request that arrives (handleMcpRequest).  The    *)
(* approval comes from outside the process; so do refresh and revocation.  *)
(***************************************************************************)
EXTENDS TokenRegistry, AccessGrants, FiniteSets

CONSTANTS
    GrantPool,       \* grants the session may be configured with
    MaxGrants,       \* bound on their number
    Launcher,        \* principal ids a launcher may give, as they are given
    Request          \* [action, scope, bootstrap] of the requests considered

\* session: mode, grants, the launcher's principal and whether the context
\* tells the time.  approver[d] is who approved device d.
VARIABLES session, approver

vars == <<now, device, token, session, approver>>

Introspected(t) ==
    IF t = None THEN [given |-> FALSE, active |-> FALSE, principal |-> None]
    ELSE [given |-> TRUE, active |-> Active(t),
          principal |-> IF Fresh(t) THEN None ELSE token[t].principal]

Origin == {"mcp_stdio", "mcp_http"}

\* A request arrives from an origin, with a token or without one.
Context(origin, t) ==
    [mode |-> session.mode, origin |-> origin, principal |-> session.launcher,
     token |-> Introspected(t), now |-> IF session.clock THEN now ELSE None]
Contexts == {Context(o, t) : o \in Origin, t \in Token \cup {None}}

Bootstrap == [action |-> "read_status", bootstrap |-> TRUE,
              scope |-> [text |-> [f \in TextField |-> None], labels |-> {}, classes |-> {}]]
MayLogIn == \E ctx \in Contexts : AuthorizeClientRequest(ctx, session.grants, Bootstrap)

TypeOK ==
    /\ DeviceTypeOK /\ TokenTypeOK
    /\ session \in [mode : {"single", "multiuser"}, grants : SUBSET GrantPool,
                    launcher : Launcher \cup {None}, clock : BOOLEAN]
    /\ approver \in [Device -> Client \cup {NoOne}]

Init ==
    /\ now = 0
    /\ device = [d \in Device |-> Unstarted]
    /\ token = [t \in Token |-> Unissued]
    /\ session \in [mode : {"single", "multiuser"},
                    grants : {G \in SUBSET GrantPool : \E n \in 0..MaxGrants :
                        \E f \in [1..n -> GrantPool] : G = {f[i] : i \in 1..n}},
                    launcher : Launcher \cup {None}, clock : BOOLEAN]
    /\ approver = [d \in Device |-> NoOne]

-----------------------------------------------------------------------------
Start(d) ==
    /\ MayLogIn
    /\ DeviceStart(d)
    /\ UNCHANGED <<now, token, session, approver>>

Approve(d, c) ==
    /\ DeviceApprove(d, c)
    /\ approver' = [approver EXCEPT ![d] = c]
    /\ UNCHANGED <<now, token, session>>

Deny(d) ==
    /\ DeviceDeny(d)
    /\ UNCHANGED <<now, token, session, approver>>

\* ciclo_auth_device_poll stores the set that the poll issues.
Poll(d) ==
    /\ MayLogIn
    /\ device' = Polled(d)
    /\ IF TokensDue(d)
         THEN \E t \in Token : Fresh(t) /\
                token' = [token EXCEPT ![t] = TokenSet(device[d].by, d)]
         ELSE UNCHANGED token
    /\ UNCHANGED <<now, session, approver>>

RefreshToken(t, new) ==
    /\ Refresh(t, new)
    /\ UNCHANGED <<now, device, session, approver>>

RevokeToken(t) ==
    /\ Revoke(t)
    /\ UNCHANGED <<now, device, session, approver>>

Tick ==
    /\ now < MaxTime
    /\ now' = now + 1
    /\ UNCHANGED <<device, token, session, approver>>

Next ==
    \/ \E d \in Device : Start(d) \/ Deny(d) \/ Poll(d)
    \/ \E d \in Device, c \in Client : Approve(d, c)
    \/ \E t, new \in Token : RefreshToken(t, new)
    \/ \E t \in Token : RevokeToken(t)
    \/ Tick

Spec == Init /\ [][Next]_vars

-----------------------------------------------------------------------------
Chain(d) == {t \in Token : ~Fresh(t) /\ token[t].device = d}

(* The device flow and the registry together keep the promise of            *)
(* ClientLogin: a login hands out tokens once, after an approval and to the *)
(* one who approved; they are replaced, never multiplied, and none comes    *)
(* back after the last was revoked.  Polls are repeated when an answer was  *)
(* lost, and codes expire at any point (poll, refresh, revoke).             *)
LoginPhase(d) ==
    CASE device[d].status \in {"unstarted", "pending"} -> "waiting"
      [] device[d].status \in {"denied", "expired"} -> "closed"
      [] device[d].status = "approved" /\ Chain(d) = {} -> "approved"
      [] OTHER -> "handed_out"

NamedBy(d) == IF \E t \in Chain(d) : token[t].principal # approver[d] THEN NoOne ELSE approver[d]
LiveSets(d) == Cardinality({t \in Chain(d) : token[t].status = "stored"})

Login == INSTANCE ClientLogin WITH
    phase <- [d \in Device |-> LoginPhase(d)],
    by <- [d \in Device |-> NamedBy(d)],
    live <- [d \in Device |-> LiveSets(d)]
ImplementsLogin == Login!Spec

(* The three walks over the grants agree on principal, expiry, capability   *)
(* and scope.  A denial recorded as delegated names operators who could do  *)
(* the thing themselves (operatorRoutes and evaluateAccessGrant); and what  *)
(* a principal is allowed to do is among the capabilities that              *)
(* ciclo://session/access shows for the same request context - unless the   *)
(* name has blanks around it, which the decision trims (cleanPrincipal) and *)
(* the view keeps (principalFromContext): then the thing is done, and the   *)
(* view shows no grant at all.                                              *)
GrantViewsAgree ==
    \A ctx \in Contexts, r \in Request :
        /\ AuditDecision(ctx, session.grants, r) = "delegated" =>
             \A p \in OperatorRoutes(ctx, session.grants, r) :
                EvaluateAccessGrant(session.grants, p, ActionCapability[r.action], r.scope, ctx.now)
        /\ AuthorizeClientRequest(ctx, session.grants, r) /\ r.action \in Mutating
                /\ ~ShownPadded(ctx)
             => ActionCapability[r.action] \in ViewCapabilities(ctx, session.grants)
=============================================================================
