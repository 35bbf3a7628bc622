----------------------------- MODULE SecretProviders -----------------------------
(***************************************************************************)
(* Secrets are handed to processes by reference: a binding names a variable *)
(* and where its value is kept, and "ciclo secret exec" looks the values up *)
(* one after the other just before it starts the process                    *)
(* (secret-provider.ts, secret-env-runtime.ts).  What stands in the way of  *)
(* a look-up may change from one moment to the next.                        *)
(***************************************************************************)
EXTENDS Naturals, Sequences

CONSTANTS
    Bindings,    \* the bindings of a process, in order: records of BindingFields
    Obstacles    \* what may be in the way at some time: subset of AnyObstacle

ProviderKind == {"openbao", "onepassword", "onepassword-connect"}
BindingFields == [name : STRING, provider : ProviderKind \cup {"unknown"}]

\* What each provider refuses to go on with, in the order it looks.
Refuses == [
    openbao |-> {"no_field", "command_fails"},
    onepassword |-> {"command_fails"},
    \* the Connect server is asked over HTTP
    connect |-> {"bad_ref", "no_field", "no_endpoint", "no_token", "request_fails",
                 "bad_status", "bad_json", "field_absent"}]
AnyObstacle == {"none"} \cup Refuses.openbao \cup Refuses.connect

ASSUME SecretsAssumption ==
    /\ \A i \in DOMAIN Bindings : Bindings[i] \in BindingFields
    /\ Obstacles \subseteq AnyObstacle

VARIABLE obstacle    \* what is in the way at the moment

OpenBaoFails == obstacle \in Refuses.openbao
OnePasswordFails == obstacle \in Refuses.onepassword
ConnectFails == obstacle \in Refuses.connect

\* An unknown provider is an exception, to the caller the same as no value.
Resolves(binding) ==
    CASE binding.provider = "openbao" -> ~OpenBaoFails
      [] binding.provider = "onepassword" -> ~OnePasswordFails
      [] binding.provider = "onepassword-connect" -> ~ConnectFails
      [] OTHER -> FALSE

SecretNames == {Bindings[i].name : i \in DOMAIN Bindings}
=============================================================================
