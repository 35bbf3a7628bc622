----------------------------- MODULE TokenRegistry -----------------------------
(***************************************************************************)
(* The token sets a process has issued (token-store.ts).  A token set is   *)
(* named by its access token; its refresh token finds the same record.     *)
(* Records are never removed: a revoked one keeps its mark.                *)
(***************************************************************************)
EXTENDS DeviceAuthorizationFlow

CONSTANTS Token, AccessTtl, RefreshTtl
ASSUME TokenAssumption == AccessTtl \in Nat /\ RefreshTtl \in Nat

\* token[t]: "device" is the login the set descends from (for the properties).
VARIABLE token

Unissued == [status |-> "unissued"]
TokenTypeOK ==
    token \in [Token -> {Unissued} \cup
        [status : {"stored", "revoked"}, principal : Client, device : Device,
         expiresAt : Nat, refreshExpiresAt : Nat]]

Fresh(t) == token[t].status = "unissued"

\* introspect(): stored, and the access token has not expired.
Active(t) == token[t].status = "stored" /\ token[t].expiresAt > now

TokenSet(principal, d) ==
    [status |-> "stored", principal |-> principal, device |-> d,
     expiresAt |-> now + AccessTtl, refreshExpiresAt |-> now + RefreshTtl]

\* A refresh only looks at the time, or only at the revocation.
BugRefreshesRevoked(t) == ~Fresh(t) /\ token[t].refreshExpiresAt > now
Refreshable(t) == token[t].status = "stored" /\ token[t].refreshExpiresAt > now

\* refresh(): the replacement is stored, then the old record is marked.
Refresh(t, new) ==
    /\ Refreshable(t) /\ Fresh(new)
    /\ token' = [token EXCEPT
            ![new] = TokenSet(token[t].principal, token[t].device),
            ![t].status = "revoked"]

\* revoke(), by either of the two tokens; again is harmless.
Revoke(t) ==
    /\ token[t].status \in {"stored", "revoked"}
    /\ token' = [token EXCEPT ![t].status = "revoked"]
=============================================================================
