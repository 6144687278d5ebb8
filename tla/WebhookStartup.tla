--------------------------- MODULE WebhookStartup ---------------------------
(***************************************************************************)
(* How a replica of the webhook comes up (src/cmd/webhook/main.go): the    *)
(* main goroutine that checks the flags and starts the manager, the        *)
(* goroutine that waits for the certificates, makes the mutator from the   *)
(* configuration and registers it, and the probes of the kubelet, whose    *)
(* check also starts the webhook server.  A replica may exit at any point, *)
(* does so when its configuration is refused, and is then started again.   *)
(*                                                                         *)
(* External: the kubelet, the certificate rotator, which runs in the       *)
(* manager and closes setupFinished, and the manager, which starts the     *)
(* webhook server when GetWebhookServer has been called and Start has.     *)
(***************************************************************************)
EXTENDS Naturals, FiniteSets

CONSTANTS
    Replicas,
    Configs,      \* flags and environment of the deployment, see below
    MaxRestarts   \* bound on the exits that the configuration does not cause

\* Of a setting the model keeps what the code tells apart: whether it is set,
\* and to what it accepts.  No code checks AZURE_KUBERNETES_TOKEN_PROXY or the
\* name for SNI, so they are not here: an endpoint without a URL is accepted.
ASSUME StartupAssumption ==
    /\ MaxRestarts \in Nat
    /\ \A c \in Configs :
          /\ c.rotation \in BOOLEAN                        \* ~disableCertRotation
          /\ c.tls \in {"1.0", "1.1", "1.2", "1.3", "other"}
          /\ c.backend \in {"prometheus", "other"}
          /\ c.logLevel \in {"known", "other"}
          /\ c.tenant \in {"unset", "empty", "set"}        \* AZURE_TENANT_ID
          /\ c.cloud \in {"known", "other"}                \* AZURE_ENVIRONMENT
          /\ c.ca \subseteq {"data", "configMap", "signer"}
          /\ c.selector \in {"blank", "selector", "other"}
          /\ c.suffix \in {"empty", "valid", "other"}
          /\ c.audience \in {"empty", "default", "custom"} \* of custom token endpoints

VARIABLES
    conf,           \* the deployment's configuration
    main,           \* the process: "down", or where mainErr is
    setupFinished,  \* whether that channel is closed
    added,          \* whether GetWebhookServer was called
    serving,        \* whether the webhook server accepts connections
    hook,           \* the goroutine of setupWebhook
    ready,          \* the answer to the last readiness probe
    restarts

process == <<main, setupFinished, added, serving, hook, ready>>
vars == <<conf, process, restarts>>

TypeOK ==
    /\ conf \in Configs
    /\ main \in [Replicas -> {"down", "flags", "setup", "manager"}]
    /\ \A f \in {setupFinished, added, serving, ready} : f \in [Replicas -> BOOLEAN]
    /\ hook \in [Replicas -> {"none", "waiting", "server", "mutator", "registered"}]
    /\ restarts \in [Replicas -> 0..MaxRestarts]

Init ==
    /\ conf \in Configs
    /\ main = [r \in Replicas |-> "down"]
    /\ setupFinished = [r \in Replicas |-> FALSE]
    /\ added = setupFinished /\ serving = setupFinished /\ ready = setupFinished
    /\ hook = [r \in Replicas |-> "none"]
    /\ restarts = [r \in Replicas |-> 0]

-----------------------------------------------------------------------------
\* The checks of mainErr before it sets anything up.
parseTLSVersion(v) == v \in {"1.0", "1.1", "1.2", "1.3"}

FlagsAccepted(c) ==
    c.logLevel = "known" /\ c.backend = "prometheus" /\ parseTLSVersion(c.tls)

\* Mutant of validateConfig: only one pair of the CA settings is compared.
ValidatePair(c) ==
    /\ c.tenant = "set"
    /\ ~({"data", "configMap"} \subseteq c.ca)
    /\ c.selector = "selector" => "signer" \in c.ca

\* validateConfig: a tenant, at most one source of the CA, and a selector only
\* for a signer.
validateConfig(c) ==
    /\ c.tenant = "set"
    /\ Cardinality(c.ca) <= 1
    /\ c.selector = "selector" => "signer" \in c.ca

\* The decoder of the selector: blank is none, otherwise it must be JSON.
Decode(selector) == selector \in {"blank", "selector"}

\* ParseConfig: the required variable is there, the selector can be decoded, and
\* the configuration is valid.
ParseConfig(c) ==
    c.tenant # "unset" /\ Decode(c.selector) /\ validateConfig(c)

\* The custom token endpoint of NewPodMutator: off when both flags are empty.
EndpointAccepted(c) ==
    \/ c.suffix = "empty" /\ c.audience = "empty"
    \/ c.suffix = "valid" /\ c.audience = "custom"

getAzureAuthorityHost(c) == c.cloud = "known"

MutatorAccepted(c) == ParseConfig(c) /\ EndpointAccepted(c) /\ getAzureAuthorityHost(c)

-----------------------------------------------------------------------------
\* The process ends, and with it all of its goroutines.
Exit(r) ==
    /\ main' = [main EXCEPT ![r] = "down"]
    /\ setupFinished' = [setupFinished EXCEPT ![r] = FALSE]
    /\ added' = [added EXCEPT ![r] = FALSE]
    /\ serving' = [serving EXCEPT ![r] = FALSE]
    /\ hook' = [hook EXCEPT ![r] = "none"]
    /\ ready' = [ready EXCEPT ![r] = FALSE]

\* The kubelet starts the container.
StartContainer(r) ==
    /\ main[r] = "down"
    /\ main' = [main EXCEPT ![r] = "flags"]
    /\ UNCHANGED <<conf, setupFinished, added, serving, hook, ready, restarts>>

\* mainErr up to the goroutine of setupWebhook: the channel is closed at once
\* when there is no rotator to do it.
SetUp(r) ==
    /\ main[r] = "flags"
    /\ IF FlagsAccepted(conf)
       THEN /\ main' = [main EXCEPT ![r] = "setup"]
            /\ setupFinished' = [setupFinished EXCEPT ![r] = ~conf.rotation]
            /\ hook' = [hook EXCEPT ![r] = "waiting"]
            /\ UNCHANGED <<added, serving, ready>>
       ELSE Exit(r)
    /\ UNCHANGED <<conf, restarts>>

\* Mutant of StartManager: setupWebhook is called before it, not started as a
\* goroutine.
StartAfterWebhook(r) ==
    /\ main[r] = "setup"
    /\ hook[r] = "registered"
    /\ main' = [main EXCEPT ![r] = "manager"]
    /\ UNCHANGED <<conf, setupFinished, added, serving, hook, ready, restarts>>

StartManager(r) ==
    /\ main[r] = "setup"
    /\ main' = [main EXCEPT ![r] = "manager"]
    /\ UNCHANGED <<conf, setupFinished, added, serving, hook, ready, restarts>>

\* The rotator has generated and injected the certificates.
FinishSetup(r) ==
    /\ main[r] = "manager" /\ ~setupFinished[r]
    /\ setupFinished' = [setupFinished EXCEPT ![r] = TRUE]
    /\ UNCHANGED <<conf, main, added, serving, hook, ready, restarts>>

\* setupWebhook, in three steps: the wait and GetWebhookServer, NewPodMutator,
\* which also asks the API server for its version, and Register.
GetWebhookServer(r) ==
    /\ hook[r] = "waiting" /\ setupFinished[r]
    /\ added' = [added EXCEPT ![r] = TRUE]
    /\ hook' = [hook EXCEPT ![r] = "server"]
    /\ UNCHANGED <<conf, main, setupFinished, serving, ready, restarts>>

\* Mutant of NewPodMutator: its error leaves a goroutine that no one waits for.
NewPodMutatorHangs(r) ==
    /\ hook[r] = "server"
    /\ hook' = [hook EXCEPT ![r] = IF MutatorAccepted(conf) THEN "mutator" ELSE "hanging"]
    /\ UNCHANGED <<conf, main, setupFinished, added, serving, ready, restarts>>

NewPodMutator(r) ==
    /\ hook[r] = "server"
    /\ IF MutatorAccepted(conf)
       THEN /\ hook' = [hook EXCEPT ![r] = "mutator"]
            /\ UNCHANGED <<main, setupFinished, added, serving, ready>>
       ELSE Exit(r)                                              \* panic
    /\ UNCHANGED <<conf, restarts>>

Register(r) ==
    /\ hook[r] = "mutator"
    /\ hook' = [hook EXCEPT ![r] = "registered"]
    /\ UNCHANGED <<conf, main, setupFinished, added, serving, ready, restarts>>

Serve(r) ==
    /\ main[r] = "manager" /\ added[r] /\ ~serving[r]
    /\ serving' = [serving EXCEPT ![r] = TRUE]
    /\ UNCHANGED <<conf, main, setupFinished, added, hook, ready, restarts>>

\* Mutant of Probe: the check goes to the server's own without the wait.
ProbeServer(r) ==
    /\ main[r] # "down"
    /\ added' = [added EXCEPT ![r] = @ \/ main[r] = "manager"]
    /\ ready' = [ready EXCEPT ![r] = serving[r]]
    /\ UNCHANGED <<conf, main, setupFinished, serving, hook, restarts>>

\* The kubelet asks readyz: no answer before the manager runs, an error until
\* setupFinished is closed, then GetWebhookServer and its StartedChecker.
\* healthz has the same check; a container that fails it for too long is ended
\* by the kubelet, which is a Fail.
Probe(r) ==
    /\ main[r] # "down"
    /\ added' = [added EXCEPT ![r] = @ \/ (main[r] = "manager" /\ setupFinished[r])]
    /\ ready' = [ready EXCEPT ![r] = setupFinished[r] /\ serving[r]]
    /\ UNCHANGED <<conf, main, setupFinished, serving, hook, restarts>>

\* The process ends for another reason: the API server does not tell its
\* version, mgr.Start fails, a signal ends it (the kubelet sends one when
\* healthz keeps failing).
Fail(r) ==
    /\ main[r] # "down"
    /\ restarts[r] < MaxRestarts
    /\ restarts' = [restarts EXCEPT ![r] = @ + 1]
    /\ Exit(r)
    /\ UNCHANGED conf

Progress(r) ==
    \/ StartContainer(r) \/ SetUp(r) \/ StartManager(r) \/ FinishSetup(r) \/ Serve(r)
    \/ GetWebhookServer(r) \/ NewPodMutator(r) \/ Register(r)

Next == \E r \in Replicas : Progress(r) \/ Probe(r) \/ Fail(r)

Spec == Init /\ [][Next]_vars

\* The kubelet starts and goes on probing what is down or runs, the goroutines
\* run, the rotator finishes.
FairSpec ==
    Spec /\ \A r \in Replicas : WF_vars(Progress(r)) /\ WF_vars(Probe(r))

-----------------------------------------------------------------------------
\* The webhook server never starts before the certificates are in place:
\* neither goroutine nor the check that runs beside them calls
\* GetWebhookServer earlier (main.go:183, 204).
CertificatesFirst == \A r \in Replicas : serving[r] => setupFinished[r]

\* What the handler relies on once it is registered, whatever was set where
\* (config.go:45-73 and webhook.go:83-109 check it in between): a tenant, no
\* two sources of the CA, a signer for a selector that parsed, and an audience
\* of its own for an endpoint that has an annotation.  (Not that the endpoint
\* has a URL or a CA: nothing checks these.)
RegisteredIsConsistent ==
    (\E r \in Replicas : hook[r] = "registered") =>
        /\ conf.tenant = "set"
        /\ \A s, t \in conf.ca : s = t
        /\ conf.selector = "blank" \/ conf.ca = {"signer"}
        /\ conf.suffix = "valid" <=> conf.audience # "empty"
        /\ conf.audience # "default"

Accepted == FlagsAccepted(conf) /\ MutatorAccepted(conf)

\* Every replica of an accepted configuration comes to stay ready with its
\* handler registered, with and without certificate rotation: setupWebhook
\* waits for certificates that only a started manager can produce, and so must
\* not hold up mgr.Start.  One of a refused configuration goes down again and
\* again: none stays up, and perhaps ready, without a handler (main.go:190
\* panics in the goroutine, which ends the process).
ComesUpOrFails ==
    \A r \in Replicas :
        /\ Accepted => <>[](ready[r] /\ hook[r] = "registered")
        /\ ~Accepted => []<>(main[r] = "down")

\* What main.go:197 says of the check: "Block readiness on the mutating webhook
\* being registered."
ReadyWhenRegistered == \A r \in Replicas : ready[r] => hook[r] = "registered"
=============================================================================
