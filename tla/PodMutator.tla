---------------------------- MODULE PodMutator ----------------------------
(***************************************************************************)
(* The mutating admission webhook (pkg/webhook/webhook.go).  One pod is    *)
(* taken through admission: the API server calls the webhook, may let      *)
(* other webhooks change the pod, and then calls the webhook again         *)
(* (reinvocationPolicy=IfNeeded), each time at any replica.  Replicas      *)
(* differ in what they found out when they started (useNativeSidecar) and  *)
(* in how far their service account informer lags behind the API server.   *)
(*                                                                         *)
(* A call of Handle is one step: it reads one service account and computes *)
(* one patch.  Of a container the model keeps its name, who added it, the  *)
(* environment variables the webhook knows and whether the reserved volume *)
(* is mounted; of the pod's volumes, the reserved one.                     *)
(***************************************************************************)
EXTENDS Integers, Sequences, Functions

CONSTANTS
    Replicas,         \* the webhook's pods
    NativeChoices,    \* which replicas may find a server version >= 1.32
    Pods,             \* pods that are submitted
    Accounts,         \* annotations the service account may carry
    Added,            \* containers another webhook may add
    Config,           \* the webhook's configuration, see ConfigAssumption
    Text,             \* strings: names and values
    MaxUpdates,       \* bound on the changes of the service account
    Absent,           \* no such annotation, volume, variable or object
    Junk              \* an annotation that does not parse, or an error

\* A variable of a container holds a value, Empty (present with value "") or
\* Absent.
Empty == ""

EnvVars == {"client", "tenant", "file", "host", "tokenProxy", "sni", "caFile", "caData"}

ProxyInit == "azwi-proxy-init"
Proxy == "azwi-proxy"

\* The value of a variable or an annotation.
Values == Text \cup {Absent}
Numbers == Int \cup {Absent, Junk}

Containers ==
    [name : Text, from : {"user", "other", "azwi"}, mount : {"none", "other", "reserved"},
     env : [EnvVars -> Values]]

Volumes == [expiration : Int, audience : Text, ca : Text]

\* Of a pod also the annotations: the proxy's and its port, the expiration of the
\* token, the custom endpoint, the containers to skip.
PodSpecs ==
    [inits : Seq(Containers), ctrs : Seq(Containers),
     volume : Volumes \cup {Absent},
     inject : Values, port : Numbers, expiry : Numbers, custom : Values,
     skip : SUBSET Text, hostNetwork : BOOLEAN]

AccountSpecs == [client : Text, tenant : Values, expiry : Numbers]

\* Config: the fields of config.Config and the flags the mutator reads, with ""
\* for what is not set; caSource names the one CA field that is (validateConfig).
ASSUME ConfigAssumption ==
    /\ NativeChoices \subseteq SUBSET Replicas
    /\ Config \in [tenantID : Text \ {Empty}, authorityHost : Text, customEndpoint : BOOLEAN,
                   tokenProxy : Text, sniName : Text,
                   caSource : {"none", "data", "configMap", "trustBundle"}]

\* What is submitted, and what other webhooks add.
ASSUME PodAssumption ==
    /\ {Empty, ProxyInit, Proxy, "tokenFile", "caFile", "caData", "custom", "default", "true",
        "none", "data", "configMap", "trustBundle"} \subseteq Text
    /\ Absent \notin Text \cup Int \cup {Junk} \cup AccountSpecs \cup Volumes
    /\ Junk \notin Int
    /\ Accounts \subseteq AccountSpecs
    /\ Pods \subseteq PodSpecs
    /\ \A p \in Pods : \A c \in Range(p.inits) \cup Range(p.ctrs) : c.from = "user"
    /\ Added \subseteq {c \in Containers : c.from = "other"}
    /\ MaxUpdates \in Nat

VARIABLES
    native,     \* the replicas with useNativeSidecar, fixed when they start
    pod,        \* the pod as admission has it now
    admission,  \* "mutating", "created" or "rejected"
    calls,      \* calls of the webhook for this pod
    touched,    \* another webhook changed the pod since the last call
    account,    \* the service account in the API server, or Absent
    cached,     \* cached[m]: the account in replica m's informer, or Absent
    updates,    \* changes of the account so far
    last        \* the account and replica of the last call (history)

vars == <<native, pod, admission, calls, touched, account, cached, updates, last>>
accountVars == <<native, account, cached, updates>>

Names(list) == {list[i].name : i \in DOMAIN list}
AllContainers(p) == p.inits \o p.ctrs

\* A container the webhook injects, before mutateContainers sees it.
Injected(name) ==
    [name |-> name, from |-> "azwi", mount |-> "none",
     env |-> [v \in EnvVars |-> Absent]]

(***************************************************************************)
(* Reading the pod's and the account's annotations.                        *)
(***************************************************************************)
\* shouldInjectProxySidecar: the annotation is there, whatever it says.
ShouldInjectProxySidecar(p) == p.inject # Absent

IsUsingCustomTokenEndpoint(p) == Config.customEndpoint /\ p.custom = "true"

\* getProxyPort: only what does not parse is an error.
ProxyPort(p) == IF p.port = Absent THEN 8000 ELSE p.port

MinServiceAccountTokenExpiration == 3600
MaxServiceAccountTokenExpiration == 86400
DefaultServiceAccountTokenExpiration == 3600

\* The pod's annotation, else the account's, else the default; Junk when it
\* does not parse or is out of range.
TokenExpiration(p, a) ==
    LET e == CASE p.expiry # Absent -> p.expiry
               [] p.expiry = Absent /\ a.expiry # Absent -> a.expiry
               [] OTHER -> DefaultServiceAccountTokenExpiration
    IN  IF /\ e # Junk
           /\ e <= MaxServiceAccountTokenExpiration
           /\ e >= MinServiceAccountTokenExpiration
        THEN e ELSE Junk

\* An annotation that is there wins, even when it is empty.
TenantID(a) == IF a.tenant # Absent THEN a.tenant ELSE Config.tenantID

(***************************************************************************)
(* The parts of the mutation.                                              *)
(***************************************************************************)
InjectProxyInit(list) ==
    IF ProxyInit \in Names(list) THEN list ELSE Append(list, Injected(ProxyInit))

\* Mutant: the proxy is injected whether or not there is one.
InjectAgain(list) == <<Injected(Proxy)>> \o list

\* Mutant: the proxy goes to the back, where azwi podidentity detect puts it.
InjectLast(list) ==
    IF Proxy \in Names(list) THEN list ELSE Append(list, Injected(Proxy))

\* The proxy goes to the front of the list it is injected into; only that list
\* is searched for one.
InjectProxySidecar(list) ==
    IF Proxy \in Names(list) THEN list ELSE <<Injected(Proxy)>> \o list

WithProxy(p, m) ==
    IF ~ShouldInjectProxySidecar(p) THEN p
    ELSE LET inits == InjectProxyInit(p.inits) IN
         IF m \in native
         THEN [p EXCEPT !.inits = InjectProxySidecar(inits)]
         ELSE [p EXCEPT !.inits = inits, !.ctrs = InjectProxySidecar(@)]

\* The variables a container should have and their values.
DesiredEnv(a, custom) ==
    [v \in EnvVars |->
        CASE v = "client" -> a.client
          [] v = "tenant" -> TenantID(a)
          [] v = "file" -> "tokenFile"
          [] v = "host" -> Config.authorityHost
          [] v = "tokenProxy" /\ custom -> Config.tokenProxy
          [] v = "sni" /\ custom -> Config.sniName
          [] v = "caFile" /\ custom -> "caFile"
          [] v = "caData" /\ custom /\ Config.caSource = "data" -> "caData"
          [] OTHER -> Empty]

\* Mutant: the webhook's value replaces what is there.
ReplaceEnvironmentVariables(c, desired) ==
    [c EXCEPT !.env =
        [v \in EnvVars |-> IF desired[v] # Empty THEN desired[v] ELSE @[v]]]

\* addEnvironmentVariables: what is there stays, what is empty is not added.
AddEnvironmentVariables(c, desired) ==
    [c EXCEPT !.env =
        [v \in EnvVars |-> IF @[v] = Absent /\ desired[v] # Empty
                           THEN desired[v] ELSE @[v]]]

\* addProjectedVolumeMount: a mount of the reserved volume is replaced.
AddProjectedVolumeMount(c) == [c EXCEPT !.mount = "reserved"]

MutateContainers(list, desired, skip) ==
    [i \in DOMAIN list |->
        IF list[i].name \in skip THEN list[i]
        ELSE AddProjectedVolumeMount(AddEnvironmentVariables(list[i], desired))]

\* The reserved volume, replaced when it is there.
ProjectedVolume(p, a) ==
    [expiration |-> TokenExpiration(p, a),
     audience |-> IF IsUsingCustomTokenEndpoint(p) THEN "custom" ELSE "default",
     ca |-> IF /\ IsUsingCustomTokenEndpoint(p)
               /\ Config.caSource \in {"configMap", "trustBundle"}
            THEN Config.caSource ELSE "none"]

\* Mutant: the error of getServiceAccountTokenExpiration is not looked at.
InvalidForProxyOnly(p, a) ==
    ShouldInjectProxySidecar(p) /\ (p.hostNetwork \/ ProxyPort(p) = Junk)

\* Handle refuses pod p with service account a.
Invalid(p, a) ==
    \/ ShouldInjectProxySidecar(p) /\ (p.hostNetwork \/ ProxyPort(p) = Junk)
    \/ TokenExpiration(p, a) = Junk

\* Mutant: containers of the pod, but not its init containers.
MutatedMainOnly(p, a, m) ==
    LET q == WithProxy(p, m)
        desired == DesiredEnv(a, IsUsingCustomTokenEndpoint(p))
    IN  [q EXCEPT !.ctrs = MutateContainers(@, desired, p.skip),
                  !.volume = ProjectedVolume(p, a)]

\* Mutant: the account is read once for each list.
MutatedReadTwice(p, a, m) ==
    LET q == WithProxy(p, m)
        b == IF account = Absent THEN a ELSE account
        custom == IsUsingCustomTokenEndpoint(p)
    IN  [q EXCEPT !.inits = MutateContainers(@, DesiredEnv(a, custom), p.skip),
                  !.ctrs = MutateContainers(@, DesiredEnv(b, custom), p.skip),
                  !.volume = ProjectedVolume(p, a)]

\* What Handle makes of pod p with service account a at replica m.
Mutated(p, a, m) ==
    LET q == WithProxy(p, m)
        desired == DesiredEnv(a, IsUsingCustomTokenEndpoint(p))
    IN  [q EXCEPT !.inits = MutateContainers(@, desired, p.skip),
                  !.ctrs = MutateContainers(@, desired, p.skip),
                  !.volume = ProjectedVolume(p, a)]

(***************************************************************************)
(* Admission.                                                              *)
(***************************************************************************)
Init ==
    /\ native \in NativeChoices
    /\ pod \in Pods
    /\ admission = "mutating"
    /\ calls = 0
    /\ touched = FALSE
    /\ account \in Accounts \cup {Absent}
    /\ cached \in [Replicas -> {Absent, account}]
    /\ updates = 0
    /\ last = Absent

Reject ==
    /\ admission' = "rejected"
    /\ UNCHANGED <<pod, touched, last>>

\* Mutant: no second read, from the API server.
AccountInCache(m) == cached[m]

\* The account Handle works with: the informer's, and the API server's when the
\* informer has none.
AccountRead(m) == IF cached[m] # Absent THEN cached[m] ELSE account

\* The webhook is called: once, and again when the pod changed since.
Due == admission = "mutating" /\ (calls = 0 \/ (calls = 1 /\ touched))

Handle(m) ==
    LET a == AccountRead(m) IN
    /\ Due
    /\ calls' = calls + 1
    /\ IF a = Absent THEN Reject
       ELSE IF Invalid(pod, a) THEN Reject
       ELSE /\ pod' = Mutated(pod, a, m)
            /\ touched' = FALSE
            /\ last' = [account |-> a, replica |-> m]
            /\ UNCHANGED admission
    /\ UNCHANGED accountVars

\* The call does not reach a replica, times out, cannot be decoded, or a read
\* of the account fails for another reason than NotFound: failurePolicy=fail.
CallFails ==
    /\ Due
    /\ calls' = calls + 1
    /\ Reject
    /\ UNCHANGED accountVars

\* Another webhook adds a container to one of the lists, at either end.
OtherWebhook ==
    /\ admission = "mutating" /\ calls <= 1 /\ ~touched
    /\ \E c \in Added :
        /\ c.name \notin Names(AllContainers(pod))
        /\ \/ pod' = [pod EXCEPT !.inits = Append(@, c)]
           \/ pod' = [pod EXCEPT !.inits = <<c>> \o @]
           \/ pod' = [pod EXCEPT !.ctrs = Append(@, c)]
           \/ pod' = [pod EXCEPT !.ctrs = <<c>> \o @]
    /\ touched' = TRUE
    /\ UNCHANGED <<admission, calls, last, accountVars>>

\* Or it sets the annotation of the custom token endpoint.
AnnotateEndpoint ==
    /\ admission = "mutating" /\ calls <= 1 /\ ~touched
    /\ pod.custom = Absent
    /\ pod' = [pod EXCEPT !.custom = "true"]
    /\ touched' = TRUE
    /\ UNCHANGED <<admission, calls, last, accountVars>>

\* Container names must differ across the whole pod.
DistinctNames(p) ==
    \A i, j \in DOMAIN AllContainers(p) :
        AllContainers(p)[i].name = AllContainers(p)[j].name => i = j

\* Mutation is over; the API server validates the pod and stores it.
Persist ==
    /\ admission = "mutating" /\ calls > 0 /\ ~Due
    /\ admission' = IF DistinctNames(pod) THEN "created" ELSE "rejected"
    /\ UNCHANGED <<pod, calls, touched, last, accountVars>>

\* The service account is created, changed or deleted.
UpdateAccount ==
    /\ admission = "mutating" /\ updates < MaxUpdates
    /\ \E a \in (Accounts \cup {Absent}) \ {account} : account' = a
    /\ updates' = updates + 1
    /\ UNCHANGED <<native, pod, admission, calls, touched, cached, last>>

\* An informer catches up.
SyncCache(m) ==
    /\ admission = "mutating" /\ cached[m] # account
    /\ cached' = [cached EXCEPT ![m] = account]
    /\ UNCHANGED <<native, pod, admission, calls, touched, account, updates, last>>

Next ==
    \/ \E m \in Replicas : Handle(m) \/ SyncCache(m)
    \/ CallFails
    \/ OtherWebhook \/ AnnotateEndpoint
    \/ Persist
    \/ UpdateAccount

Spec == Init /\ [][Next]_vars

(***************************************************************************)
(* Properties.                                                             *)
(***************************************************************************)
TypeOK ==
    /\ native \in SUBSET Replicas
    /\ pod \in PodSpecs
    /\ admission \in {"mutating", "created", "rejected"}
    /\ calls \in 0 .. 2
    /\ touched \in BOOLEAN
    /\ account \in Accounts \cup {Absent}
    /\ cached \in [Replicas -> Accounts \cup {Absent}]
    /\ updates \in 0 .. MaxUpdates

\* A pod that was created is fully configured: each container that is not to be
\* skipped, the injected ones and those another webhook added between two
\* calls included, mounts the reserved volume, the volume is in the pod with a
\* lifetime of the token that kubelet and Azure accept, whatever pod, account
\* and volume said, and the pod's own when it asks for one, every variable the
\* last call had a value for is there, and the audience of the token fits the
\* endpoint the container is told to exchange it at, also when the endpoint was
\* asked for after the first call.
EveryContainerConfigured ==
    admission = "created" =>
        /\ pod.volume # Absent
        /\ pod.volume.expiration \in
              MinServiceAccountTokenExpiration .. MaxServiceAccountTokenExpiration
        /\ pod.expiry # Absent => pod.volume.expiration = pod.expiry
        /\ \A c \in Range(AllContainers(pod)) : c.name \notin pod.skip =>
              /\ c.mount = "reserved"
              /\ LET desired == DesiredEnv(last.account, IsUsingCustomTokenEndpoint(pod))
                 IN  \A v \in EnvVars : desired[v] # Empty => c.env[v] # Absent
              /\ Config.tokenProxy # Empty =>
                    (pod.volume.audience = "custom" <=> c.env["tokenProxy"] = Config.tokenProxy)

\* Calling the webhook again, with nothing changed, changes nothing.
ReinvocationIdempotent ==
    admission = "mutating" /\ calls > 0 /\ ~touched =>
        Mutated(pod, last.account, last.replica) = pod

\* The webhook makes no valid pod invalid: it never adds a container whose name
\* the pod already has.
NamesStayDistinct == DistinctNames(pod)

\* No container that was submitted is in front of the proxy that was injected
\* into its list, so none is started before the proxy's postStart probe ran.
ProxyStartsFirst ==
    \A list \in {pod.inits, pod.ctrs} : \A i, j \in DOMAIN list :
        /\ list[i].name = Proxy /\ list[i].from = "azwi"
        /\ list[j].from = "user"
        => i < j

\* The containers a pod was submitted with, and the injected ones, get one
\* client ID, whatever happens to the service account and to the informers
\* during admission; "preset" is a value the user wrote into the container.
OneIdentity ==
    admission = "created" =>
        \A c, d \in {e \in Range(AllContainers(pod)) : e.from # "other"} :
            {c.env["client"], d.env["client"]} \cap {Absent, Empty, "preset"} = {}
                => c.env["client"] = d.env["client"]

\* Containers stay, in their order, and keep every variable they have.
Kept(old, new) ==
    \E d \in {0, 1} :
        /\ Len(old) + d <= Len(new)
        /\ \A i \in DOMAIN old :
              /\ new[i + d].name = old[i].name
              /\ \A v \in EnvVars : old[i].env[v] # Absent =>
                    new[i + d].env[v] = old[i].env[v]

\* No call loses a container or overrides what the user, or an earlier call,
\* put into its environment.
NothingOverridden ==
    [][Kept(pod.inits, pod'.inits) /\ Kept(pod.ctrs, pod'.ctrs)]_vars

\* A lagging informer is no reason to turn a pod away: when the account exists
\* and neither version of it makes the pod invalid, Handle lets the pod pass.
LagIsNoReason ==
    [][\A m \in Replicas :
          /\ Handle(m)
          /\ account # Absent
          /\ \A a \in {account, cached[m]} \ {Absent} : ~Invalid(pod, a)
          => admission' = "mutating"]_vars
============================================================================
