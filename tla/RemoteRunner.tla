------------------------------ MODULE RemoteRunner ------------------------------
(***************************************************************************)
(* Remote runners (remote-runner.ts): ciclo_launch_remote_runner turns a    *)
(* request into a plan of commands and scripts, which the operator runs one *)
(* after the other, and which start a workload in the provider's cloud.     *)
(* The plan is what the code decides.  What bash, kubectl, wg-quick and the *)
(* kubelet make of it is modelled from the scripts' use of them.            *)
(*                                                                          *)
(* The tunnel works when the runner's configuration and the host's          *)
(* interface come from one pair of keys.  Keys are numbered: NoKey, Given   *)
(* for the caller's material, and one per run of the bootstrap script.      *)
(***************************************************************************)
EXTENDS SecretProviders, FiniteSets, SequencesExt

CONSTANTS
    Launch,       \* the requests, records of LaunchFields
    MaxLaunchFaults, MaxKeys    \* bounds on failures and kills, on keys generated

LaunchFields == [kind : {"kubernetes", "aws-lambda", "cloudflare"},
    mode : {"statefulset", "job"}, preflight : BOOLEAN, preflightOnly : BOOLEAN,
    existing : BOOLEAN,     \* the runner's configuration is in a Secret already
    runnerKeys : BOOLEAN, hostKeys : BOOLEAN,     \* key material in the request
    storage : BOOLEAN, egress : BOOLEAN, clones : BOOLEAN,
    image : BOOLEAN, strategy : {"static", "variant", "nixery"},
    placeholders : 0..2]    \* most secrets in one variable of an MCP server
ASSUME RunnerAssumption ==
    /\ \A l \in Launch : l \in LaunchFields
    /\ MaxLaunchFaults \in Nat /\ MaxKeys \in Nat

NoKey == 0
Given == 1
RunnerKey == 0..(MaxKeys + 1)

VARIABLES
    request,      \* the request, and whether a plan of it is registered
    registered,
    at,           \* the operator's place in the plan: command and step of it
    host,         \* host.conf: keys in the host's file; host.up: of its interface
    cluster,      \* the objects created
    conf,         \* keys in the runner's configuration
    generated,    \* key pairs generated so far
    pod,          \* the container: its place in its script, tunnel, checkout, env
    launchFaults,
    cut           \* history: a container was killed while it cloned to storage
runnerVars == <<obstacle, request, registered, at, host, cluster, conf, generated,
                pod, launchFaults, cut>>

-----------------------------------------------------------------------------
(* The plan. *)
Mode(l) == IF l.preflightOnly THEN "job" ELSE l.mode
GeneratesSecret(l) == ~l.existing /\ l.runnerKeys
Bootstraps(l) == ~l.existing /\ ~l.runnerKeys
When(condition, command) == IF condition THEN <<command>> ELSE <<>>

HostSetup == <<"host_conf", "host_up">>
BootstrapScript == <<"new_keys", "host_up", "namespace", "generated_secret">>

KubernetesCommands(l) ==
    <<(<<"namespace">>)>>
    \o When(l.preflight, <<"configmap">>)
    \o When(GeneratesSecret(l), <<"secret">>)
    \o When(Bootstraps(l), BootstrapScript)
    \o When(l.egress, <<"policy">>)
    \o When(Mode(l) # "job", <<"service">>)
    \o <<(<<"workload">>)>>

LambdaCommands == <<(<<"image">>), (<<"workload">>)>>
CloudflareCommands == <<(<<"put_secret">>), (<<"deploy">>)>>

Commands(l) ==
    When(l.hostKeys, HostSetup)
    \o CASE l.kind = "kubernetes" -> KubernetesCommands(l)
         [] l.kind = "aws-lambda" -> LambdaCommands
         [] OTHER -> CloudflareCommands

Mounts(l) ==
    IF l.kind = "kubernetes"
    THEN {"secret"} \cup (IF l.preflight THEN {"configmap"} ELSE {}) ELSE {}

\* The script of the container, or of the microVM; the checks never fail it.
ContainerSteps(l) ==
    IF l.kind = "kubernetes"
    THEN When(l.clones, "checkout")
         \o (IF l.preflightOnly THEN <<"exit">> ELSE <<"tunnel", "secrets", "session">>)
    ELSE <<"tunnel", "secrets", "session">>

\* Requests that end in an exception instead of a plan.
Acceptable(l) == (l.image \/ l.strategy # "static") /\ l.placeholders <= 1

-----------------------------------------------------------------------------
NoPod == [step |-> 0, tunnel |-> NoKey, checkout |-> "none", env |-> {}]
RunnerTypeOK ==
    /\ obstacle \in Obstacles /\ request \in Launch /\ registered \in BOOLEAN
    /\ host \in [conf : RunnerKey, up : RunnerKey] /\ conf \in RunnerKey
    /\ pod \in [step : 0..5, tunnel : RunnerKey, env : SUBSET SecretNames,
                checkout : {"none", "partial", "full"}]
    /\ generated \in 0..MaxKeys /\ launchFaults \in 0..MaxLaunchFaults /\ cut \in BOOLEAN

\* Material that is not in the plan is in place already, by the operator's hand.
RunnerInit ==
    /\ obstacle \in Obstacles
    /\ request \in Launch /\ registered = FALSE
    /\ at = [command |-> 1, step |-> 1]
    /\ host = [conf |-> NoKey,
               up |-> IF Bootstraps(request) \/ request.hostKeys THEN NoKey ELSE Given]
    /\ cluster = IF request.existing THEN {"secret"} ELSE {}
    /\ conf = IF request.existing \/ (request.kind = "aws-lambda" /\ request.runnerKeys)
              THEN Given ELSE NoKey
    /\ generated = 0 /\ pod = NoPod /\ launchFaults = 0 /\ cut = FALSE

(* ciclo_launch_remote_runner: the plan is registered.  Every secret of it   *)
(* has to be granted, or the call ends in an exception.                      *)
LaunchRunner(granted) ==
    /\ ~registered /\ Acceptable(request)
    /\ granted \/ Bindings = <<>>
    /\ registered' = TRUE
    /\ UNCHANGED <<obstacle, request, at, host, cluster, conf, generated, pod, launchFaults, cut>>

CommandsLeft == registered /\ at.command <= Len(Commands(request))
NextStep == Commands(request)[at.command][at.step]
StepDone ==
    at' = IF at.step < Len(Commands(request)[at.command])
          THEN [at EXCEPT !.step = @ + 1]
          ELSE [command |-> at.command + 1, step |-> 1]

Kubectl == {"namespace", "configmap", "secret", "policy", "service", "workload",
            "image", "put_secret", "deploy"}

\* What the operator runs: applied objects, keys and the host's interface.
RunKubectl ==
    /\ CommandsLeft /\ NextStep \in Kubectl
    /\ cluster' = cluster \cup {NextStep}
    /\ conf' = IF NextStep = "secret" THEN Given ELSE conf
    /\ StepDone
    /\ UNCHANGED <<obstacle, request, registered, host, generated, pod, launchFaults, cut>>

InstallHostConf ==
    /\ CommandsLeft /\ NextStep \in {"host_conf", "new_keys"}
    /\ NextStep = "new_keys" => generated < MaxKeys
    /\ generated' = IF NextStep = "new_keys" THEN generated + 1 ELSE generated
    /\ host' = [host EXCEPT !.conf = IF NextStep = "new_keys" THEN Given + generated' ELSE Given]
    /\ StepDone
    /\ UNCHANGED <<obstacle, request, registered, cluster, conf, pod, launchFaults, cut>>

\* wg-quick's complaint that the interface exists does not stop the script.
BugFailureIgnored ==
    /\ CommandsLeft /\ NextStep = "host_up"
    /\ host' = IF host.up = NoKey THEN [host EXCEPT !.up = host.conf] ELSE host
    /\ StepDone
    /\ UNCHANGED <<obstacle, request, registered, cluster, conf, generated, pod, launchFaults, cut>>

\* wg-quick up, which refuses when the interface is up.
HostUp ==
    /\ CommandsLeft /\ NextStep = "host_up" /\ host.up = NoKey
    /\ host' = [host EXCEPT !.up = host.conf]
    /\ StepDone
    /\ UNCHANGED <<obstacle, request, registered, cluster, conf, generated, pod, launchFaults, cut>>

CreateSecret ==
    /\ CommandsLeft /\ NextStep = "generated_secret"
    /\ cluster' = cluster \cup {"secret"}
    /\ conf' = Given + generated
    /\ StepDone
    /\ UNCHANGED <<obstacle, request, registered, host, generated, pod, launchFaults, cut>>

\* A step fails; a script stops there (set -e) and is run again from its top.
StepFails ==
    /\ CommandsLeft
    /\ \/ NextStep = "host_up" /\ host.up # NoKey /\ UNCHANGED launchFaults
       \/ launchFaults < MaxLaunchFaults /\ launchFaults' = launchFaults + 1
    /\ at.step > 1
    /\ at' = [at EXCEPT !.step = 1]
    /\ UNCHANGED <<obstacle, request, registered, host, cluster, conf, generated, pod, cut>>

-----------------------------------------------------------------------------
(* The container. *)
Starts == "workload" \in cluster /\ request.kind # "cloudflare"
Running(what) ==
    /\ pod.step \in DOMAIN ContainerSteps(request)
    /\ ContainerSteps(request)[pod.step] = what
StepOn(p) == pod' = [p EXCEPT !.step = pod.step + 1]

StartContainer ==
    /\ Starts /\ Mounts(request) \subseteq cluster /\ pod.step = 0
    /\ pod' = [pod EXCEPT !.step = 1]
    /\ UNCHANGED <<obstacle, request, registered, at, host, cluster, conf, generated, launchFaults, cut>>

\* A directory with a .git in it counts as a checkout; fetch may fail.
Checkout ==
    /\ Running("checkout")
    /\ StepOn([pod EXCEPT !.checkout = IF @ = "none" THEN "full" ELSE @])
    /\ UNCHANGED <<obstacle, request, registered, at, host, cluster, conf, generated, launchFaults, cut>>

Tunnel ==
    /\ Running("tunnel") /\ pod.tunnel = NoKey /\ conf # NoKey
    /\ StepOn([pod EXCEPT !.tunnel = conf])
    /\ UNCHANGED <<obstacle, request, registered, at, host, cluster, conf, generated, launchFaults, cut>>

NextBinding == Bindings[Cardinality(pod.env) + 1]

\* A secret that is not resolved is left out.
BugUnresolvedSkipped ==
    /\ Running("secrets")
    /\ pod' = [pod EXCEPT !.step = @ + 1,
            !.env = {Bindings[i].name : i \in {k \in DOMAIN Bindings : Resolves(Bindings[k])}}]
    /\ UNCHANGED <<obstacle, request, registered, at, host, cluster, conf, generated, launchFaults, cut>>

\* One secret at a time; without the last one there is no session.
ResolveSecret ==
    /\ Running("secrets")
    /\ \/ pod.env = SecretNames /\ StepOn(pod)
       \/ /\ pod.env # SecretNames /\ Resolves(NextBinding)
          /\ pod' = [pod EXCEPT !.env = @ \cup {NextBinding.name}]
    /\ UNCHANGED <<obstacle, request, registered, at, host, cluster, conf, generated, launchFaults, cut>>

\* herdr session start, or the end of a run that only checks.
StartSession ==
    /\ Running("session") \/ Running("exit")
    /\ StepOn(pod)
    /\ UNCHANGED <<obstacle, request, registered, at, host, cluster, conf, generated, launchFaults, cut>>

\* A new container in the pod keeps its network, and what is on its volume.
InSamePod(p) == [NoPod EXCEPT !.tunnel = p.tunnel,
                              !.checkout = IF request.storage THEN p.checkout ELSE "none"]
InNewPod(p) == [NoPod EXCEPT !.checkout = IF request.storage THEN p.checkout ELSE "none"]
After(p) == IF Mode(request) = "statefulset" /\ request.kind = "kubernetes"
            THEN {InSamePod(p), InNewPod(p)} ELSE {InNewPod(p)}

\* wg-quick finds the interface up, no keys, or a secret is missing.
ContainerFails ==
    /\ \/ Running("tunnel") /\ (pod.tunnel # NoKey \/ conf = NoKey)
       \/ Running("secrets") /\ pod.env # SecretNames /\ ~Resolves(NextBinding)
    /\ launchFaults < MaxLaunchFaults /\ launchFaults' = launchFaults + 1
    /\ pod' \in After(pod)
    /\ UNCHANGED <<obstacle, request, registered, at, host, cluster, conf, generated, cut>>

\* The container is killed, or the pod deleted, at any point.
KillContainer ==
    /\ pod.step > 0 /\ launchFaults < MaxLaunchFaults
    /\ launchFaults' = launchFaults + 1
    /\ LET cloning == Running("checkout") /\ pod.checkout = "none" IN
        /\ pod' \in After(IF cloning THEN [pod EXCEPT !.checkout = "partial"] ELSE pod)
        /\ cut' = (cut \/ (cloning /\ request.storage))
    /\ UNCHANGED <<obstacle, request, registered, at, host, cluster, conf, generated>>

ObstacleChanges ==
    /\ obstacle' \in Obstacles \ {obstacle}
    /\ UNCHANGED <<request, registered, at, host, cluster, conf, generated, pod, launchFaults, cut>>

RunnerNext ==
    \/ \E granted \in BOOLEAN : LaunchRunner(granted)
    \/ RunKubectl \/ InstallHostConf \/ HostUp \/ CreateSecret \/ StepFails
    \/ StartContainer \/ Checkout \/ Tunnel \/ ResolveSecret \/ StartSession
    \/ ContainerFails \/ KillContainer \/ ObstacleChanges

RunnerSpec == RunnerInit /\ [][RunnerNext]_runnerVars

-----------------------------------------------------------------------------
InSession ==
    ~request.preflightOnly /\ pod.step > Len(ContainerSteps(request))

(* A session that runs can be reached: the keys of its tunnel belong to the  *)
(* interface that is up on the host, however often the scripts failed and    *)
(* were run again (the bootstrap script of kubernetesArtifacts).  When the   *)
(* request gives keys for the host alone, the plan sets the host up with     *)
(* them and never gets past its bootstrap script.                            *)
TunnelMatches == InSession => pod.tunnel = host.up

(* A session starts with all of its secrets and in a complete checkout, or   *)
(* not at all, when secrets come and go during the look-up and containers    *)
(* are killed and restarted anywhere.  A clone cut short on a volume that    *)
(* survives is excepted: its .git is taken for a checkout.                   *)
SessionIsWhole ==
    InSession =>
        /\ pod.env = SecretNames
        /\ "checkout" \in Range(ContainerSteps(request)) /\ ~cut => pod.checkout = "full"
=============================================================================
