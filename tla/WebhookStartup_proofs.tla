----------------------- MODULE WebhookStartup_proofs -----------------------
(***************************************************************************)
(* Proofs about WebhookStartup, for any number of replicas and restarts    *)
(* and any configurations.                                                 *)
(***************************************************************************)
EXTENDS WebhookStartup, FiniteSetTheorems, TLAPS

\* What makes CertificatesFirst inductive: a server that serves was started by
\* GetWebhookServer, which nothing calls before setupFinished is closed, nor
\* before main has come to set anything up.
ServerInv ==
    /\ \A r \in Replicas : main[r] \in {"down", "flags"} => ~added[r] /\ hook[r] = "none"
    /\ \A r \in Replicas : serving[r] => added[r]
    /\ \A r \in Replicas : added[r] => setupFinished[r]

\* Behind RegisteredIsConsistent: a goroutine that has a mutator, registered or
\* not, passed every check on the way.
HookInv ==
    \A r \in Replicas : hook[r] \in {"mutator", "registered"} => MutatorAccepted(conf)

IInv == TypeOK /\ ServerInv /\ HookInv

LEMMA IInvInit == Init => IInv
  BY StartupAssumption, SMT DEF Init, IInv, TypeOK, ServerInv, HookInv

\* A process that ends leaves nothing behind that the invariant speaks of.
LEMMA IInvExit ==
    ASSUME IInv, NEW r \in Replicas, Exit(r), conf' = conf,
           restarts' \in [Replicas -> 0..MaxRestarts]
    PROVE  IInv'
<1> USE DEF IInv, Exit
<1>1. TypeOK'
  <2>1. /\ main' \in [Replicas -> {"down", "flags", "setup", "manager"}]
        /\ hook' \in [Replicas -> {"none", "waiting", "server", "mutator", "registered"}]
    BY DEF TypeOK
  <2>2. /\ setupFinished' \in [Replicas -> BOOLEAN] /\ added' \in [Replicas -> BOOLEAN]
        /\ serving' \in [Replicas -> BOOLEAN] /\ ready' \in [Replicas -> BOOLEAN]
    BY DEF TypeOK
  <2>3. \A f \in {setupFinished', added', serving', ready'} : f \in [Replicas -> BOOLEAN]
    BY <2>2, Zenon
  <2> QED
    BY <2>1, <2>3 DEF TypeOK
<1>2. ServerInv'
  BY DEF TypeOK, ServerInv
<1>3. HookInv'
  BY DEF TypeOK, HookInv, MutatorAccepted, ParseConfig, Decode, validateConfig, EndpointAccepted,
         getAzureAuthorityHost
<1> QED
  BY <1>1, <1>2, <1>3

LEMMA IInvStep == IInv /\ [Next]_vars => IInv'
<1> SUFFICES ASSUME IInv, [Next]_vars PROVE IInv'
  OBVIOUS
<1> DEFINE good == MutatorAccepted(conf)
<1> USE StartupAssumption DEF IInv
<1>0. conf' = conf /\ good' = good
  BY DEF Next, Progress, vars, process, StartContainer, SetUp, StartManager, FinishSetup,
         GetWebhookServer, NewPodMutator, Register, Serve, Probe, Fail, MutatorAccepted,
         ParseConfig, Decode, validateConfig, EndpointAccepted, getAzureAuthorityHost
<1> HIDE DEF good
<1>h. /\ HookInv <=> \A r \in Replicas : hook[r] \in {"mutator", "registered"} => good
      /\ HookInv' <=> \A r \in Replicas : hook'[r] \in {"mutator", "registered"} => good
  BY <1>0 DEF HookInv, good
<1>1. ASSUME NEW r \in Replicas, StartContainer(r) PROVE IInv'
  BY <1>0, <1>1, <1>h DEF StartContainer, TypeOK, ServerInv
<1>2. ASSUME NEW r \in Replicas, SetUp(r) PROVE IInv'
  <2>1. CASE FlagsAccepted(conf)
    <3>1. /\ UNCHANGED <<conf, restarts, added, serving, ready>>
          /\ main' = [main EXCEPT ![r] = "setup"]
          /\ setupFinished' = [setupFinished EXCEPT ![r] = ~conf.rotation]
          /\ hook' = [hook EXCEPT ![r] = "waiting"]
          /\ main[r] = "flags"
      BY <1>2, <2>1 DEF SetUp
    <3>2. TypeOK' /\ HookInv'
      BY <1>h, <3>1 DEF TypeOK
    <3>3. ServerInv'
      BY <3>1 DEF TypeOK, ServerInv
    <3> QED
      BY <3>2, <3>3
  <2>2. CASE ~FlagsAccepted(conf)
    BY <1>2, <2>2, IInvExit DEF SetUp, TypeOK
  <2> QED
    BY <2>1, <2>2
<1>3. ASSUME NEW r \in Replicas, StartManager(r) PROVE IInv'
  BY <1>3, <1>h DEF StartManager, TypeOK, ServerInv
<1>4. ASSUME NEW r \in Replicas, FinishSetup(r) PROVE IInv'
  BY <1>4, <1>h DEF FinishSetup, TypeOK, ServerInv
<1>5. ASSUME NEW r \in Replicas, Serve(r) PROVE IInv'
  BY <1>5, <1>h DEF Serve, TypeOK, ServerInv
<1>6. ASSUME NEW r \in Replicas, GetWebhookServer(r) PROVE IInv'
  BY <1>6, <1>h DEF GetWebhookServer, TypeOK, ServerInv
<1>7. ASSUME NEW r \in Replicas, NewPodMutator(r) PROVE IInv'
  <2>1. CASE MutatorAccepted(conf)
    <3>1. good
      BY <2>1 DEF good
    <3>2. /\ hook[r] = "server"
          /\ hook' = [hook EXCEPT ![r] = "mutator"]
          /\ UNCHANGED <<conf, restarts, main, setupFinished, added, serving, ready>>
      BY <1>7, <2>1 DEF NewPodMutator
    <3> QED
      BY <1>h, <3>1, <3>2 DEF TypeOK, ServerInv
  <2>2. CASE ~MutatorAccepted(conf)
    BY <1>7, <2>2, IInvExit DEF NewPodMutator, TypeOK
  <2> QED
    BY <2>1, <2>2
<1>8. ASSUME NEW r \in Replicas, Register(r) PROVE IInv'
  BY <1>8, <1>h DEF Register, TypeOK, ServerInv
<1>9. ASSUME NEW r \in Replicas, Probe(r) PROVE IInv'
  BY <1>9, <1>h DEF Probe, TypeOK, ServerInv
<1>10. ASSUME NEW r \in Replicas, Fail(r) PROVE IInv'
  <2>1. restarts' \in [Replicas -> 0..MaxRestarts]
    BY <1>10 DEF Fail, TypeOK
  <2> QED
    BY <1>10, <2>1, IInvExit DEF Fail
<1>11. CASE UNCHANGED vars
  BY <1>11, <1>h DEF vars, process, TypeOK, ServerInv
<1> QED
  BY <1>1, <1>2, <1>3, <1>4, <1>5, <1>6, <1>7, <1>8, <1>9, <1>10, <1>11 DEF Next, Progress

\* A set of CA sources that validateConfig counts at most one of has no two.
LEMMA OneSource ==
    ASSUME NEW c \in Configs, Cardinality(c.ca) <= 1
    PROVE  \A s, t \in c.ca : s = t
<1>1. IsFiniteSet(c.ca)
  <2>1. IsFiniteSet({"data", "configMap", "signer"})
    <3>1. /\ IsFiniteSet({"data"}) /\ IsFiniteSet({"configMap"}) /\ IsFiniteSet({"signer"})
      BY FS_Singleton
    <3>2. IsFiniteSet({"data"} \cup {"configMap"})
      BY <3>1, FS_Union
    <3>3. IsFiniteSet(({"data"} \cup {"configMap"}) \cup {"signer"})
      BY <3>1, <3>2, FS_Union
    <3>4. ({"data"} \cup {"configMap"}) \cup {"signer"} = {"data", "configMap", "signer"}
      OBVIOUS
    <3> QED
      BY <3>3, <3>4
  <2> QED
    BY <2>1, FS_Subset, StartupAssumption
<1> SUFFICES ASSUME NEW s \in c.ca, NEW t \in c.ca, s # t PROVE FALSE
  OBVIOUS
<1>2. IsFiniteSet({s, t}) /\ Cardinality({s, t}) = 2
  <2>1. IsFiniteSet({s}) /\ Cardinality({s}) = 1 /\ t \notin {s}
    BY FS_Singleton
  <2>2. /\ IsFiniteSet({s} \cup {t})
        /\ Cardinality({s} \cup {t}) = Cardinality({s}) + 1
    BY <2>1, FS_AddElement
  <2>3. {s} \cup {t} = {s, t}
    OBVIOUS
  <2> QED
    BY <2>1, <2>2, <2>3
<1>3. Cardinality({s, t}) <= Cardinality(c.ca) /\ Cardinality(c.ca) \in Nat
  BY <1>1, FS_Subset, FS_CardinalityType
<1> QED
  BY <1>2, <1>3

\* The state of every replica has its type: in particular no goroutine is left
\* in a state of its own by an error of NewPodMutator (main.go:189).
THEOREM TypeOKThm == Spec => []TypeOK
<1>1. IInv => TypeOK
  BY DEF IInv
<1> QED
  BY IInvInit, IInvStep, <1>1, PTL DEF Spec

\* The webhook server starts only after setupFinished is closed
\* (main.go:183 and 204), whatever the replicas, probes and restarts.
THEOREM CertificatesFirstThm == Spec => []CertificatesFirst
<1>1. IInv => CertificatesFirst
  BY DEF IInv, ServerInv, CertificatesFirst
<1> QED
  BY IInvInit, IInvStep, <1>1, PTL DEF Spec

\* A registered handler has a consistent configuration (config.go:45-73,
\* webhook.go:83-109), whatever combination of settings was given.
THEOREM RegisteredIsConsistentThm == Spec => []RegisteredIsConsistent
<1>1. IInv => RegisteredIsConsistent
  <2> SUFFICES ASSUME IInv, NEW r \in Replicas, hook[r] = "registered"
               PROVE  /\ conf.tenant = "set"
                      /\ \A s, t \in conf.ca : s = t
                      /\ conf.selector = "blank" \/ conf.ca = {"signer"}
                      /\ conf.suffix = "valid" <=> conf.audience # "empty"
                      /\ conf.audience # "default"
    BY DEF RegisteredIsConsistent
  <2>1. conf \in Configs /\ MutatorAccepted(conf)
    BY DEF IInv, TypeOK, HookInv
  <2>2. \A s, t \in conf.ca : s = t
    BY <2>1, OneSource DEF MutatorAccepted, ParseConfig, Decode, validateConfig
  <2>3. conf.selector = "blank" \/ conf.ca = {"signer"}
    BY <2>1, <2>2, StartupAssumption DEF MutatorAccepted, ParseConfig, Decode, validateConfig
  <2>4. /\ conf.suffix = "valid" <=> conf.audience # "empty"
        /\ conf.audience # "default"
    BY <2>1 DEF MutatorAccepted, EndpointAccepted
  <2>5. conf.tenant = "set"
    BY <2>1 DEF MutatorAccepted, ParseConfig, Decode, validateConfig
  <2> QED
    BY <2>2, <2>3, <2>4, <2>5
<1> QED
  BY IInvInit, IInvStep, <1>1, PTL DEF Spec
=============================================================================
