# A verification of Azure Workload Identity

TLA+ models, TLC runs and TLAPS proofs for the programs of this repository: the
mutating webhook, the proxy sidecar and the command `azwi`. Paths below are
relative to the repository; `webhook.go:42` and the like are in the file named
in the same section.

    tlc -workers 2 -config MCCredCache.cfg MCCredCache.tla     # a run
    tlapm CredCache_proofs.tla                                 # the proofs of a module

`PROJECT.json` lists the runs, a mutation of the model for every property that
is checked (the form a plausible bug would take; TLC finds it), the source lines
of every definition, the hazards and the theorems.

## 1. The system

| component | source | state | operations |
|---|---|---|---|
| proxy, credential cache | `pkg/proxy/proxy.go`, `cred_cache.go` | an LRU cache with expiring entries, a singleflight group, one goroutine per request | `msiHandler`, `getOrCreateCred`, `CredCache.Get`, `Add` |
| proxy, HTTP server | `pkg/proxy/proxy.go`, `cmd/proxy/main.go` | listener, requests under way, signal handlers | `mainErr`, `NewProxy`, `Run`, `Shutdown`, forwarding to IMDS, `readyz` |
| proxy, probe | `pkg/proxy/probe.go` | attempts | `Probe`, run as the sidecar's postStart hook |
| mutating webhook | `pkg/webhook/webhook.go`, `consts.go` | the pod in admission, the informer's copy of service accounts, `useNativeSidecar` | `Handle`, called again by the API server |
| webhook startup | `cmd/webhook/main.go` | manager, certificates, registration, `setupFinished` | `mainErr`, `setupWebhook`, `setupProbeEndpoints`, `mgr.Start` |
| webhook configuration | `pkg/config/config.go` | none | `ParseConfig`, `validateConfig` |
| `azwi serviceaccount create` | `pkg/cmd/serviceaccount/create.go`, `phases/create` | `createData` and its caches; Azure and the cluster | four phases, six kinds of calls |
| `azwi serviceaccount delete` | `pkg/cmd/serviceaccount/delete.go`, `phases/delete` | `deleteData` and its cache; Azure and the cluster | four phases |
| phase runner | `pkg/cmd/serviceaccount/phases/workflow/runner.go` | the active phases | `Run`, `--skip-phases`, the `phase` subcommands |
| `azwi` authentication | `pkg/cmd/serviceaccount/auth/provider.go`, `pkg/cloud/azureclient.go` | `authArgs`; the files and the login of the Azure CLI | `Validate`, `getSubFromAzDir`, `GetTenantID`, `NewAzureClientWith...` |
| cloud client | `pkg/cloud` | none of its own | Graph and role assignment calls, classes of errors, retries |
| kubernetes helper | `pkg/kuberneteshelper` | none of its own | reads and writes of service accounts, bindings, owners |
| `azwi podidentity detect` | `pkg/cmd/podidentity/detect.go` | maps of owners and results, the files of the output directory | looks workloads up, writes the migrated objects |
| `azwi jwks`, metrics, version, proxy-init, charts | | | no state that several steps or actors touch |

How they interact. The API server calls the webhook for each labelled pod, and a
second time when another webhook changed the pod in between; the webhook reads the
service account that `azwi serviceaccount create` wrote, from an informer that
lags. The pod it produces contains the proxy, whose probe has to succeed before
the pod's other containers start, and the volume with the token that the proxy
exchanges through the application, credential and role that `create` made.
`create` and `delete` have no memory between runs: all they know of an earlier or
a parallel run is what Azure and the cluster show them. `detect` writes, for
workloads of the predecessor aad-pod-identity, the service accounts and the pods
with a proxy of their own that the webhook will meet.

What is hard, and what makes each part correct:

- **Credential cache.** Requests of one client meet in three critical sections
  that no common lock joins: the first `Get`, the singleflight call, the second
  `Get` with creation and `Add`. Entries expire and are evicted at any point
  between. Right means: a request never gets another client's credential, nor one
  older than the newest when it arrived; a credential that could be used is not
  made a second time; those who wait for a failing creation get its error.
- **Proxy server and probe.** The listener races the probe, the shutdown races the
  requests, signals race their handlers, and IMDS need not answer. Right means:
  the application starts when the proxy can serve it, only what has to be is cut
  off, a broken body is not taken for a whole one, and the process ends.
- **Webhook.** Reinvocation, lagging informers, replicas of different
  configuration, other webhooks between two calls, annotations at the limits of
  their range. Right means: every container ends up configured, once, with
  nothing the user wrote overridden, the submitted ones get one client ID, and the
  pod stays valid.
- **Startup and configuration.** Two goroutines and the kubelet's probes; settings
  that are checked in different places, some only after the server has started.
  Right means: the server does not start before its certificates, nobody waits for
  somebody who waits, what is refused ends the process, and readiness means that
  the mutator is registered.
- **create and delete.** Calls fail, take effect without an answer, listings are
  stale, runs are interrupted, repeated and overlap. Right means: a repeated run
  completes a half finished one and makes nothing twice; what ends well has done
  what it was asked for; the service account never names an application that does
  not trust it or no longer exists.
- **Authentication.** Subscription, tenant and credential are found one after the
  other, from files and a login the user can change meanwhile. Right means: they
  belong together.
- **detect.** Owners disappear while they are looked up, maps are traversed in any
  order, files share names, writes fail in the middle, the command is repeated.
  Right means: nothing is written before the workload of every listed pod was
  found, no file is torn, the two files of a workload fit, and a repetition after
  applying them changes nothing.

## 2. The modules

| module | models | checked by | proofs |
|---|---|---|---|
| `CredStore` | what the proxy promises about credentials (abstract) | as a property of `CredCache` | `CredCache_proofs` |
| `CredCache` | the proxy's credential path | `MCCredCache` | `CredCache_proofs` |
| `ProxyServer` | the proxy's process in its pod, its handlers, the probe | itself | `ProxyServer_proofs` |
| `PodMutator` | a pod's way through admission | `MCPodMutator` | `PodMutator_proofs` |
| `WebhookStartup` | how replicas of the webhook come up, and with which configuration | `MCWebhookStartup` | `WebhookStartup_proofs` |
| `Azure` | cloud and cluster as `azwi` sees them, the phase runner | through the next two | |
| `CreateWorkflow` | runs of `azwi serviceaccount create` | `MCCreateWorkflow` | `CreateWorkflow_proofs` |
| `DeleteWorkflow` | runs of `azwi serviceaccount delete` | `MCDeleteWorkflow` | `DeleteWorkflow_proofs` |
| `AzwiAuth` | how `azwi serviceaccount` gets its Azure client | `MCAzwiAuth` | `AzwiAuth_proofs` |
| `Detect` | runs of `azwi podidentity detect` | `MCDetect` | `Detect_proofs` |

The definitions marked "Mutant" in comments are no part of a specification; they
are the changed forms of the definition after them that `PROJECT.json` lists.

### CredCache and CredStore

`pc[r]` says where request r's goroutine is: `lookup` (the first `Get`), `do`
(`group.Do`), `wait` (in `Do`, for another request's call), `check`, `create`,
`add`, `finish` (inside the function given to `Do`), `token` (the exchange), or how
it ended. Each action is one critical section: `LookupHit/LookupMiss` and
`CheckHit/CheckMiss` are `Get` under the cache's lock, `Add` is `Add`,
`Lead/Join` and `Finish` are the sections of singleflight under the group's lock,
`Create` and `CreateFails` the two outcomes of
`NewWorkloadIdentityCredential`. A call in flight is identified with the request
that leads it. `cache`, `expired` and `order` are the LRU cache, a library;
`Expire` is the clock. The tenant of the key is a field of the proxy and the same
for every request, so a key is a client ID. A credential is its client and its
number among those made for that client: the number is what lets a property speak
of older and newer; `made` counts them and `since` remembers the count at arrival,
and neither influences a step.

`CredStore` is the promise with no cache, lock or goroutine: a client has at most
one live credential, a new one is issued only when none is live, a request is
answered with one at least as new as the newest at its arrival, or refused.
`Abstract` in `CredCache` is the refinement mapping: a credential is live when a
`Get` would return it, or when the request that made it is about to add it.

### ProxyServer

`proc` is where `mainErr` is: `flags` (no handler for signals yet), `setup` (after
`SetupSignalHandler`, before `withShutdownSignal`), `running` (in `Run`), `draining`
(in `Shutdown`). `ListenAndServe` is the goroutine of `Run`, which panics when the
port is taken. There are two handlers for signals: the context of the first
(main.go:45) is used for the log only, the second (main.go:62) ends `Run`. So `Signal`
ends the process before the first is installed, is lost to the server between
the two (`signals` counts it, `heard` stays false, `Kill` is what is left), starts the
shutdown afterwards, and ends the process when it is the second one. `Reasons` says
how many the kubelet has to send: for a failed hook and for the deletion of the
pod. `probe` is one attempt of the postStart hook, in its three outcomes. A request
is `token` (in `msiHandler`), `forward` and `body` (in `defaultPathHandler`, before and
after the answer of IMDS); `reply` keeps every status and piece of a body the
handler writes, in order, since net/http shows the client the first status.
`Kill` assumes a grace period longer than the 5 s of `Run` (the default is 30 s); with
a shorter one `CutOnlyLate` would have one more exception. The flags are those the
webhook and `detect` write, so `mainErr` does not end at `--version` or `--log-level`.
Outside is the kubelet: it starts containers in order, waits for the hook, starts
the application without it when the proxy is an ordinary container, restarts the
proxy, and ends a native sidecar after the application.

### PodMutator

One call of `Handle` is one step: it reads one account and returns one patch. What
is interleaved is what happens around it: another webhook adds a container
(`OtherWebhook`) or the annotation of the custom token endpoint
(`AnnotateEndpoint`), the service account changes (`UpdateAccount`), an informer
catches up (`SyncCache`), the call is repeated at another replica, a call fails.
`native` is the set of replicas with `useNativeSidecar`. A container is its name,
its origin, the known environment variables and whether the reserved volume is
mounted; the pod keeps the annotations the webhook reads. `WithProxy`,
`MutateContainers`, `ProjectedVolume` and `DesiredEnv` are the functions of
`webhook.go` of similar names; `Mutated` is `Handle` from the lookup on. An
annotation can be absent or empty; an empty tenant takes the place of the
cluster's, as in the code.

### WebhookStartup

`conf` is the deployment's configuration: flags and environment, reduced to the
values the code tells apart. `main` is where `mainErr` is (`down`, `flags`, `setup`,
`manager`), `setupFinished` the channel the rotator closes, `added` whether
`GetWebhookServer` has added the server to the manager, `serving` whether it listens,
`hook` where the goroutine of `setupWebhook` is. `SetUp` has the checks of the flags;
`NewPodMutator` has `ParseConfig`, `validateConfig` and the checks of the token
endpoint, in that goroutine and after the server may already serve, and panics
when one fails (`Exit`). `Probe` is the kubelet asking `readyz`: the check waits for
`setupFinished` and then itself calls `GetWebhookServer`; `healthz` has the same check.
`Fail` is the end of the process for another reason, a failing `healthz` among them,
`StartContainer` the kubelet starting it again. `AZURE_KUBERNETES_TOKEN_PROXY` and the
name for SNI are not part of `conf`, as nothing checks them.

### Azure, CreateWorkflow and DeleteWorkflow

`Azure` holds one service account, the applications of one display name and, for
one role, scope and subject, what hangs on them. It also holds the answers to a
listing: any error (`Outage`), nothing (`NotFound`), or any entry of that name,
since the code takes the first one; with `lag` a listing may miss what exists.
`Active`, `Refused` and `Following` are the phase runner: skipped phases, a single
phase, unknown names, and every `PreRun` before the first phase. A run's flags are
`o.given`, the set of those that are set and valid, and the identifiers that flags
give; `AADApplicationName` says when the name of the application is known.

A run's `pc` is a phase, a step inside it, or how the run ended. One action is one
call to Azure or the cluster together with the code up to the next call; calls
that change something have three outcomes: done, failed, and done with the answer
lost. `cachedApp` and `cachedSP` are the caches of `createData`: only the answer of
a listing gets in, never an object the run has created. `IdByFlag` is the choice
between a flag and the cache. `Interrupt` ends a run anywhere. `writer` remembers
the run that last wrote the service account. `DeleteWorkflow` starts from any
remains that `create` may leave.

### AzwiAuth

`ValidateFlags`, `LoadClouds`, `LoadConfig`, `GetTenantID` and `NewAzureClient` are
`Validate`, cut where it reads a file or makes a call. `selected` and `subs` are the
files of the CLI, which `Switch` changes at any time, as `az cloud set` and
`az account set` do. `Call` stands for every later call of a phase: with the CLI's
credential it goes to the tenant of the CLI's login at that moment, with a secret or
a certificate to the tenant the credential was made for. `getClient` may refuse with
every method, for any of the constructors it calls. `reached` and `current`
record what the properties compare.

### Detect

`cluster` maps an object, by kind and name, to its spec; a name is a sequence of
parts, so that the file of one object can coincide with that of another. A run
lists the bindings, the pods of each selector (`ListPods`), resolves the owners one
call at a time (`getOwner`, which follows controllers upwards) and writes two files
for each result (`createServiceAccountFile`, `createResourceFile`), in any order, as Go
traverses maps. Service accounts are read between the writes. Images are compared by
prefix (`IsImage`), and that of `proxy` is one of `proxy-init`. `Delete` removes objects
and accounts meanwhile, `Fails` and
`WriteFails` are errors and interruptions, `Apply` is the user applying the directory,
`Rerun` the command once more.

## 3. The runs

| run | configuration | what it shows |
|---|---|---|
| `cred_cache` | 3 requests, 2 clients, room for 1 entry | types; a request holds its own client's credential, no older than at its arrival (`FreshOwnCred`); a late `Add` never puts an older one into the cache (`CacheHoldsNewest`); nothing is created while an earlier one is of use (`NoNeedlessCreate`); `CredStore` is implemented (`ImplementsCredStore`); `getOrCreateCred` returns to every request, with a credential or an error (`CredReturned`) |
| `proxy_server` | 2 requests, 3 starts, 1 crash, 3 attempts of the probe, ports free and taken, native and not | with a native sidecar and a free port no request is refused (`NoRefusal`), a part of a body comes with an error (`PartialIsError`), requests are cut off only late (`CutOnlyLate`), the process ends (`Terminates`) |
| `pod_mutator` | 2 replicas, 10 pods, 4 accounts, 1 change of the account, 1 container or annotation of another webhook before or between the calls | `EveryContainerConfigured`, `ReinvocationIdempotent`, `NamesStayDistinct`, `ProxyStartsFirst`, `OneIdentity`, `NothingOverridden`, `LagIsNoReason` |
| `proxy_by_hand` | a pod that already has the proxy | violation, see below |
| `webhook_startup` | 2 replicas, 65 configurations, one exit each, with and without rotation | `CertificatesFirst`; a registered handler has a consistent configuration (`RegisteredIsConsistent`); every replica comes to stay ready, or fails again and again when its configuration is refused (`ComesUpOrFails`) |
| `webhook_ready` | 1 replica | violation, see below |
| `create` | 3 runs in sequence with 7 sets of flags, or 2 at once with stale listings; 2 applications, 2 attempts | one application (`OneApplication`) with one principal, completed when half finished (`OnePrincipal`), the client ID is not lost again (`AnnotationKept`), and names an application that trusts the service account (`TrustMatchesAnnotation`) |
| `create_cached`, `create_role` | 1 run | violations, see below |
| `delete` | 2 runs that may overlap, 7 sets of flags, any remains | success means gone (`DoneMeansGone`), the service account goes before its application (`NoDanglingAnnotation`) |
| `auth` | 1 command, every method with complete and incomplete flags, 3 changes of the CLI, 2 calls | calls reach the tenant that is written (`OneTenant`), the subscription is one the CLI had (`SubscriptionWasCurrent`) |
| `detect` | 2 runs, 6 namespaces, 2 sets of bindings, 2 deletions | workloads are looked up before anything is written (`LookupFirst`), the account file comes first (`AccountFirst`), files fit (`DoneMeansMigrated`) and are whole (`WholeFiles`), and stay when the command is repeated (`RerunStable`) |

Every passing run also checks its module's `TypeOK`.

Bounds and why they are enough:

- `cred_cache`: two requests can disagree on everything two goroutines can (one
  leads, one waits, one comes too late); the third makes a second generation and
  the eviction by another client's entry possible while two others are under way.
  One entry instead of 128, so that two clients fight for it. Each request runs
  once, which bounds `made`.
- `proxy_server`: one request of each handler can be under way when a signal, a
  crash or the deadline comes; a failed start, a crashed one and a good one fit in
  three starts; three attempts of the probe are first, middle and last.
- `pod_mutator`: admission calls the webhook at most twice; one change of the
  account and one lagging informer already give the two calls different accounts.
  The pods differ in each annotation, at and just beyond the limits of the
  expiration; one account has an empty tenant. The replicas of this run are of one
  version; `proxy_by_hand` has the other case.
- `webhook_startup`: replicas share no state; two show that the properties are
  those of each. A second exit would start from the state of the first. The
  configurations take each setting through its values, and those that are
  compared with each other (CA sources and selector, suffix and audience)
  through their combinations.
- `create`: the first run can leave every intermediate state, the second can
  resume from it and stop again, the third resumes from what two left. Two
  applications are one more than there should be. Two runs at once are what can
  make the two.
- `delete`: the remains are arbitrary, so longer histories add nothing; the second
  run is what can invalidate what the first has read.
- `auth`: two files are read, so a change before, between and after; three
  subscriptions in two tenants let a change stay in the tenant or leave it.
- `detect`: a rollout (two owners between pod and deployment), two workloads of one
  name, one named like another's account file, a shared account, a pod without and
  one with an owner of an unsupported kind, a container whose image counts as the
  proxy's; two runs for a repetition, two deletions for an owner and an account.

`CHECK_DEADLOCK FALSE` is set where requests, runs, pods and admission end;
`WebhookStartup` goes on for ever and is checked for deadlock.

Fairness. `CredCache!FairSpec` has weak fairness of each request's steps in
`getOrCreateCred`: the Go scheduler runs what can run, and neither the cache nor the
constructor of a credential makes a call over the network. The exchange of the token
that follows has no fairness, as `doTokenRequest` has no deadline of its own; nor have
arrivals and expiry. `WebhookStartup!FairSpec` has weak
fairness of each replica's own goroutines, the rotator and the restart by the kubelet
included, and of its probes, which the kubelet repeats; exits for other reasons are
not fair and are bounded, as a replica that is ended for ever never comes up.
`ProxyServer!FairSpec` has weak fairness of the process's own goroutines and of the
5 s timer, and none of the handlers, of IMDS or of the kubelet: `Terminates` must hold
although a forwarded request is never answered (its client has no deadline).
`PodMutator`, `AzwiAuth`, `Detect` and the two workflows have no fairness: runs may stop
anywhere, calls have no deadline (`context.TODO()` in detect.go), and only safety is
claimed.

### Where code and text disagree

- `webhook_ready` (`cmd/webhook/main.go:205`). The readiness check says it blocks
  "on the mutating webhook being registered", but asks only whether the server
  has started. `setupWebhook` starts it before it asks the API server for its
  version and registers the handler.
- `proxy_by_hand` (`pkg/webhook/webhook.go:295`). A proxy among the pod's
  containers is not seen by a replica with native sidecars, which looks among the
  init containers: the pod gets a second container of the name and is refused.
  `webhook_test.go:1127` expects a proxy that was injected manually to be left as it is.
  `detect` puts the proxy there, but not the inject annotation: a pod needs that
  from somebody else to get here.
- `create_cached` (`pkg/cmd/serviceaccount/create.go:105`). `AADApplication` is said
  to return the cached value if the application was created, but a created
  application is not cached; when the following listing fails, the client ID
  written to the service account is empty and the run goes on.
- `create_role` (`pkg/cloud/roleassignments.go:44`). The retry loop has an `err` of
  its own; after the last failed attempt the outer one, nil, is returned.

Met while modelling, part of the models as they are, and with no run of their own:

- `pkg/cloud/errors.go:44`: `IsFederatedCredentialNotFound` does not recognise the
  error that graph.go returns for a credential that is not listed, so a repeated
  delete fails in the phase that means to tolerate it (`unlisted` in `DeleteWorkflow`).
- `pkg/cmd/serviceaccount/phases/delete/aadapplication.go:56`: a repeated delete
  without an application asks to delete the empty object ID and fails (`gone`).
- `pkg/cmd/serviceaccount/auth/provider.go:184`: a `--subscription-id` that does not
  parse is replaced by the CLI's without a word; an unknown method is refused only
  after the tenant was asked for over the network; the CLI's credential is not
  bound to the tenant that was found (`OneTenant` therefore has a condition).
- `cmd/proxy/main.go:45` and `62`: a signal that arrives between the two handlers is
  not seen by the one that ends the server (`CutOnlyLate` has the exception).
- `pkg/proxy/proxy.go:99`: when another process has the port, the probe may be
  answered by it while the proxy fails (`NoRefusal` is about a free port).
- `pkg/kuberneteshelper/serviceaccount.go:17`: the comment says "If the ServiceAccount
  already exists, error is returned"; the function updates it, as its name says, and so
  does `CreateWorkflow`.
- `pkg/webhook/webhook.go:452`: nothing asks for the URL of a custom token endpoint or
  for its CA. Without the URL a pod gets a token for the endpoint's audience and no
  endpoint (`EveryContainerConfigured` has the condition `Config.tokenProxy # Empty`).
- `pkg/webhook/webhook.go:460`: a variable that is there is kept, while the volume is
  made anew. Were the annotation of the endpoint removed between two calls, the
  containers would keep the endpoint and the audience would be the default one; the
  model has the annotation added only, which is harmless.
- `pkg/cmd/serviceaccount/create.go:171`: with a new `--service-principal-name` a second
  run does not find the principal the first one made and fails when it creates it
  again (`OnePrincipal` excepts that run).
- `pkg/cmd/podidentity/detect.go:368`: `.../proxy` is also a prefix of `.../proxy-init`, so a
  container with the image of proxy-init among the containers keeps the proxy out.
- `pkg/cmd/podidentity/detect.go:445`: of two workloads whose files have the same name,
  one is lost from the directory (`WholeFiles` says that the other one is whole).
- `pkg/cmd/podidentity/detect.go:256`: workloads that share a service account and have
  different identities write it into two files, and the one applied last counts.

## 4. The proofs

Each theorem holds for all values of the constants that satisfy the named
assumptions of its module (`NoneAssumption`, `CacheSizeAssumption`,
`NoCredAssumption`; `StartupAssumption`; `AzureAssumption`, `CreateAssumption`,
`DeleteAssumption`; `ProxyAssumption`; `AuthAssumption`; `ConfigAssumption`,
`PodAssumption`; `DetectAssumption`). They say that sentinels differ from values, that
bounds are numbers and what fields flags, pods, accounts and objects have. TLC evaluates them in the
runs. Three theorems about `PodMutator` have a further hypothesis, which is spelt out
there and which the instance of the run satisfies.

Every inductive invariant below was first checked by TLC as an invariant of the
run of its component, and then proved.

**CredCache_proofs.** `TypeCorrect`, `FreshOwnCredThm`, `CacheHoldsNewestThm`,
`NoNeedlessCreateThm`, for any number of requests and clients and any cache size.
`FreshOwnCred` is not inductive: what a waiter takes depends on what the leader of
its call holds, that on who may be inside the function given to `Do`, and that on
what a `Get` can return. `IInv` adds, in this order: `Accepted` (a request knows its
client, and has a credential only after a `Get` or a call), `LeadersRun` (inside
the function are exactly the leaders of flights, so at most one per client),
`LeaderHoldsNewest` (between second `Get` and `Add` there is no live entry, and what is
about to be handed out is the newest), `NoInventedCred`, `WaitersFit` (a call that is
joined is for the same client and was not over when the waiter arrived) and
`CacheHoldsNewest`. The cache's three operations are seen through lemmas about
`Live`, and for `TypeOK` about the recency list: an operation keeps in it exactly the
keys that have a value, each once, and no more than `CacheSize`. `NoNeedlessCreate` is an action property: at `create` the entry is not
live, and nobody else of that client can be at `add`.

*The refinement.* `ImplementsCredStoreThm`: `CredCache` implements `CredStore`. Under
`IInv`, `Create` is `Issue` (nobody holds a credential of that client, as in
`NoNeedlessCreate`), a result (`LookupHit`, `Finish`, `Wake`) is `Give` or `Refuse`
(the bounds come from `FreshOwnCred` and `NoInventedCred`), `Expire` is `Lose`, and `Add`
is `Lose` of the client it evicts, or nothing when that one had no credential of
use. The other steps are not seen. A credential between creation and `Add`
counts as held, otherwise `Issue` would not be one step.

**WebhookStartup_proofs.** `TypeOKThm`, `CertificatesFirstThm` and
`RegisteredIsConsistentThm`, for any number of replicas and exits and any set of
configurations. `IInv` adds `ServerInv` (a server that serves was added, one that was
added was added after `setupFinished`, and before the set-up there is neither; all are
needed, since the server starts some time after it was added and the probe adds
it too) and `HookInv` (a goroutine that has a mutator has passed every check). That
the checks together give the consistency the handler relies on follows from
`HookInv` and `OneSource`, which turns the count of CA sources into equality.

**CreateWorkflow_proofs.** `TypeOKThm` and `TrustMatchesAnnotationThm`, for any number of
runs with any flags, one after another or not, with stale listings or not. The
argument: what a run writes to the service account and where it adds the
credential is, when it is not empty, the identifier of its flag or the application
it has cached (`IdIsCached`, with `Client` and `Object` for the two), and the cache
never changes once it is filled. So the client ID on the service account is that of
its writer (`Annotated`), and a run past its federated-identity phase has the
application of its object ID trust the service account (`Trusted`); no other run
takes the credential away. `Known` (a cached application exists) and `Counted`
(attempts used up means over) are what the types need. `FollowingCases` is the lemma
about the phase runner: no run gets past an active federated-identity phase without
passing it. `IdByFlagEffect` is the one about flag and cache. `Move` reduces each
action to a short list of facts about what it leaves alone.

*Orderly runs.* `OneApplicationThm`, `OnePrincipalThm` and `AnnotationKeptThm` are about runs
that wait for each other and whose listings are up to date, any number of them with
any flags. `OInv` builds on `IInv`: `Serial` (a run starts when the ones before it are
over, so while one is under way nobody else changes the cloud: lemma `Alone`),
`Single` (one application at most, and the client ID on the service account is its),
and for each run `Informed` (the aad-application phase knows the name it lists by, which
PreRun made sure of), `Missing` (what a run is about to create is not there),
`Equipped` (past that phase the application has its principal) and `Blank`. The last one
is what `AnnotationKept` turns on: the listing of the service-account phase can fail,
and the annotation then is empty; but a run with nothing in its cache created the
application itself, so no client ID could have been there before. `OneApplication` is
about a cardinality and gets it from the facts about singletons of the library.

**DeleteWorkflow_proofs.** `TypeOKThm`, `DoneMeansGoneThm` and `NoDanglingAnnotationThm`, for any
number of runs, overlapping or not, with any flags, failures and stale listings.
`TypeOK` has that the object a run works on is the one of its flag or of its cache.
`IInv` says of each run which phases it can be in (`Placed`: only its own, and its calls are
for the application it was given) and that what it has left behind is gone
(`Passed`). The second depends on the first: the phase of the credential is dropped
when the application is deleted, so a run past it has either deleted it or will
delete the application, which takes it along. Nothing that is gone comes
back, so a run is not disturbed by others. `FollowingCases` and `AfterCases` are the
lemmas about the phase runner, `PhasesOfRun` the one about the dropped phase,
`ObjectIDEffect` the one about flag and listing.

**ProxyServer_proofs.** `TypeOKThm`, `PartialIsErrorThm`, `NoRefusalThm` and `CutOnlyLateThm`, for any
number of requests, attempts of the probe, starts and crashes. `NoRefusal` needs to
know where the process is whenever the application runs: `Shape` ties the listener to
`mainErr`'s position, `Accepted` the requests under way to the listener, `Quiet` says that
a native sidecar is sent no signal before the application has ended or the hook
failed, and `Serves` that with a free port and no crash the listener is open from the
successful probe to the end of the application. `CutOnlyLate` is an action property: the
process ends with a request under way only in `Exit` after the deadline, on a signal
that is not the first or was lost, or in a crash.

**AzwiAuth_proofs.** `TypeOKThm`, `OneTenantThm` and `SubscriptionWasCurrentThm`, for any clouds,
subscriptions, flags and any number of changes of the CLI. The point is `Unchanged`:
between the reads of the two files what was read for a cloud is still what the file
has, or was the CLI's current subscription meanwhile; for a cloud can only change
while it is the selected one. `Remembered` and `Staged` say what is known in each stage,
`Reached` that calls go to the tenant of the credential or, with the CLI's own, to the
tenants it has been in.

**PodMutator_proofs.** For any pods, service accounts, configuration, replicas, other
webhooks and updates of the account. The strings of the model are elements of a
constant set `Text`; the instances give it all strings. The lemmas come first: what
`AddEnvironmentVariables`, the two mounts, the sidecar and the init container do to a
list of containers (which places they keep, which names they add, that doing it
twice is doing it once), then what one call of `Handle` does to a pod. The two steps of
another webhook set `touched`, and what is claimed of a finished call is claimed only
as long as nothing was touched since. From them:

- `ReinvocationIdempotentThm`, `ProxyStartsFirstThm`, `NothingOverriddenThm` (an action
  property) and `LagIsNoReasonThm` (likewise) need no more than `TypeOK`, `First` and `Counted`;
- `EveryContainerConfiguredThm` needs `Ready`: after a call with nothing changed since,
  the pod is complete for the account that call read (which need not be the present
  one). It has the hypothesis `NoOwnEndpoint`: a container that comes with
  `AZURE_KUBERNETES_TOKEN_PROXY` has its endpoint, but the audience of the
  volume is the webhook's, and the two need not fit. The code leaves such a
  variable alone, as any other that is set, and the property is not true of it;
- `NamesStayDistinctThm` has the hypotheses `UniformReplicas` (`useNativeSidecar` is found
  out once per process, from the version of the API server) and `NoProxyYet`. Without
  them it is false: the violated run is the counterexample for the second, and
  replicas started before and after an upgrade of the server for the first.
  `OneProxy` keeps the proxy in the one list that replicas look at;
- `OneIdentityThm` has `UniformReplicas` and `OnlyPresets`. `Identified` says that beside the
  presets there is one client ID, and that after the first call every container that
  is not skipped has one, so that the second call with another account adds
  nothing; `Placed` is why no container is new to the second call.

**Detect_proofs.** `TypeOKThm`, `AccountFirstThm`, `DoneMeansMigratedThm`, `WholeFilesThm`,
`RerunStableThm` and `LookupFirstThm` (an action property), for any namespaces, bindings and identities, any
number of runs and deletions, whatever fails and in whatever order the maps are
traversed. Names are sequences over a constant set `Parts`, so an object's two files
have different names (lemma `TwoFiles`) while those of two objects need not. Of `IInv`,

- `Stages` says what is left to do in each stage, `Covered` that a pod that was listed
  has an entry among owners to be followed or workloads, `Uncontrolled` that
  nothing controls a workload: together they give `LookupFirst`;
- `Paired` and `Written` are about the directory: the account file is there before the
  workload's, and what this run wrote stays as it was, or is written again for another
  pod of the same workload, where only the client ID can differ;
- `Since(C)` is what the others rest on. The specs of an object that are in the
  cluster, under way, in a file or applied are read at different times, some of
  them before and some after the user applied an earlier run's files; all
  have one migrated form, that of the spec in the cluster C of the beginning. It
  is kept because migrating twice is migrating once (`MigKeeps`, from `AddTwice` for the
  containers and from the fact that the account of a migrated workload is not the
  default one). `AccountFirst` and `RerunStable` follow, and that a second pod's write
  of the same workload does not change its file.

`WholeFiles` has an invariant of its own, `Whole`: as long as the command has not failed,
each file that it has written holds what the last write to it gave, of an entry that
is handled or whose account file was just written. It needs no more of `IInv` than the
stages.

That the client ID is that of the first usable binding needs the smallest name of a
set of any size, which the library's well-founded induction gives (`FirstBinding`).

**Only model-checked**: liveness (`CredReturned`, `ComesUpOrFails`, `Terminates`), which
rests on fairness and `ENABLED`, out of the prover's reach.

## 5. What is not modelled

- Proxy: the content of the token exchange, headers, the routes; the LRU cache's own
  code, a library that is modelled as it is used.
- Webhook: the encoding of the patch, pod names and the name of the volume that
  depends on them, ports beyond 65535 (which the API server refuses), the
  environment of AKS, metrics.
- Startup: the rotator's own work, metrics.
- create and delete: `IsNotFound` matches the text of an error, and an outage whose
  text says "not found" is not modelled; what Azure does with the assignments of a
  deleted principal. The two commands are not composed: neither waits for nor looks at
  the other, and of an overlap the code promises nothing; `delete` starts from any
  remains, which covers the runs of `create` before it.
- Authentication: endpoints of the clouds, the parsing of certificates and keys
  beyond its two outcomes.
- detect: the content of objects beyond label, owners, account and containers.
- `azwi jwks` (a function from keys to their encoding by X.509, SHA-256 and base64),
  metrics, version and logging, the iptables script of proxy-init, charts and
  end-to-end tests: no state that several steps or actors touch; see `components` in
  `PROJECT.json`.

## 6. The plan

Built, in this order: `CredCache` with `CredStore`, `PodMutator`, `Azure` with
`CreateWorkflow` and `DeleteWorkflow`, `WebhookStartup`, then the configuration, flags
and identifiers of the commands, `Detect`, `ProxyServer`, `AzwiAuth`.

Proved, in this order: `CredCache` with its refinement, `WebhookStartup`, `CreateWorkflow`,
`AzwiAuth`, `ProxyServer`, `DeleteWorkflow`, `PodMutator`, the orderly runs of
`CreateWorkflow`, and `Detect`. Every safety invariant and action property that a passing
run checks is a theorem; liveness stays with TLC.
