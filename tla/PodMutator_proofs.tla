------------------------- MODULE PodMutator_proofs -------------------------
(***************************************************************************)
(* Proofs about PodMutator for any pods, accounts, configuration, replicas *)
(* and containers of other webhooks.                                       *)
(***************************************************************************)
EXTENDS PodMutator, SequenceTheorems, TLAPS

Lists == Seq(Containers)
Envs == [EnvVars -> Values]
Desired == [EnvVars -> Text]

\* A container that mutateContainers does not skip.
Configured(c, desired) == AddProjectedVolumeMount(AddEnvironmentVariables(c, desired))

\* The containers of a pod.
Members(p) == Range(p.inits) \cup Range(p.ctrs)

-----------------------------------------------------------------------------
\* The constants of the model that proofs tell apart.
LEMMA Constants ==
    /\ Empty \in Text /\ Proxy \in Text /\ ProxyInit \in Text /\ Proxy # ProxyInit
    /\ Absent \notin Text /\ Absent \notin AccountSpecs /\ Absent \notin Volumes
    /\ Accounts \subseteq AccountSpecs /\ Pods \subseteq PodSpecs
    /\ \A c \in Added : c \in Containers /\ c.from = "other"
<1>1. Proxy # ProxyInit
  BY DEF Proxy, ProxyInit
<1> QED
  BY <1>1, PodAssumption

\* Lists, with a container in front or at the end.
LEMMA Prepended ==
    ASSUME NEW l \in Lists, NEW c \in Containers
    PROVE  /\ <<c>> \o l \in Lists
           /\ Len(<<c>> \o l) = Len(l) + 1
           /\ (<<c>> \o l)[1] = c
           /\ \A i \in 1..Len(l) : (<<c>> \o l)[i + 1] = l[i]
           /\ \A i \in 2..Len(l) + 1 : i - 1 \in 1..Len(l) /\ (<<c>> \o l)[i] = l[i - 1]
<1>1. <<c>> \in Seq(Containers) /\ Len(<<c>>) = 1 /\ <<c>>[1] = c
  OBVIOUS
<1>2. <<c>> \o l \in Lists /\ Len(<<c>> \o l) = Len(l) + 1
  BY <1>1 DEF Lists
<1>3. \A i \in 1..Len(l) + 1 :
         (<<c>> \o l)[i] = IF i <= 1 THEN <<c>>[i] ELSE l[i - 1]
  BY <1>1 DEF Lists
<1> QED
  BY <1>1, <1>2, <1>3 DEF Lists

LEMMA Appended ==
    ASSUME NEW l \in Lists, NEW c \in Containers
    PROVE  /\ Append(l, c) \in Lists
           /\ Len(Append(l, c)) = Len(l) + 1
           /\ Append(l, c)[Len(l) + 1] = c
           /\ \A i \in 1..Len(l) : Append(l, c)[i] = l[i]
  BY DEF Lists

LEMMA Listed ==
    ASSUME NEW l \in Lists
    PROVE  /\ Len(l) \in Nat /\ DOMAIN l = 1..Len(l)
           /\ \A i \in 1..Len(l) : l[i] \in Containers
           /\ Range(l) = {l[i] : i \in 1..Len(l)}
           /\ Range(l) \subseteq Containers
           /\ Names(l) = {c.name : c \in Range(l)}
  BY DEF Lists, Range, Names

LEMMA RangeOfPrepended ==
    ASSUME NEW l \in Lists, NEW c \in Containers
    PROVE  Range(<<c>> \o l) = Range(l) \cup {c}
<1> DEFINE k == <<c>> \o l
<1>1. /\ Range(k) = {k[i] : i \in 1..Len(k)} /\ Range(l) = {l[i] : i \in 1..Len(l)}
      /\ Len(k) = Len(l) + 1 /\ Len(l) \in Nat
      /\ k[1] = c
      /\ \A i \in 1..Len(l) : k[i + 1] = l[i]
      /\ \A i \in 2..Len(l) + 1 : i - 1 \in 1..Len(l) /\ k[i] = l[i - 1]
  BY Prepended, Listed
<1> HIDE DEF k
<1>2. ASSUME NEW x \in Range(k) PROVE x \in Range(l) \cup {c}
  <2>1. PICK i \in 1..Len(k) : x = k[i]
    BY <1>1
  <2>2. CASE i = 1
    BY <1>1, <2>1, <2>2
  <2>3. CASE i # 1
    BY <1>1, <2>1, <2>3
  <2> QED
    BY <2>2, <2>3
<1>3. ASSUME NEW x \in Range(l) PROVE x \in Range(k)
  <2>1. PICK i \in 1..Len(l) : x = l[i]
    BY <1>1
  <2>2. i + 1 \in 1..Len(k) /\ x = k[i + 1]
    BY <1>1, <2>1
  <2> QED
    BY <1>1, <2>2
<1>4. c \in Range(k)
  <2>1. 1 \in 1..Len(k)
    BY <1>1
  <2> QED
    BY <1>1, <2>1
<1> QED
  BY <1>2, <1>3, <1>4 DEF k

LEMMA RangeOfAppended ==
    ASSUME NEW l \in Lists, NEW c \in Containers
    PROVE  Range(Append(l, c)) = Range(l) \cup {c}
<1> DEFINE k == Append(l, c)
<1>1. /\ Range(k) = {k[i] : i \in 1..Len(k)} /\ Range(l) = {l[i] : i \in 1..Len(l)}
      /\ Len(k) = Len(l) + 1 /\ Len(l) \in Nat
      /\ k[Len(l) + 1] = c
      /\ \A i \in 1..Len(l) : k[i] = l[i]
  BY Appended, Listed
<1> HIDE DEF k
<1>2. ASSUME NEW x \in Range(k) PROVE x \in Range(l) \cup {c}
  <2>1. PICK i \in 1..Len(k) : x = k[i]
    BY <1>1
  <2> QED
    BY <1>1, <2>1
<1>3. ASSUME NEW x \in Range(l) PROVE x \in Range(k)
  <2>1. PICK i \in 1..Len(l) : x = l[i]
    BY <1>1
  <2>2. i \in 1..Len(k) /\ x = k[i]
    BY <1>1, <2>1
  <2> QED
    BY <1>1, <2>2
<1>4. c \in Range(k)
  <2>1. Len(l) + 1 \in 1..Len(k)
    BY <1>1
  <2> QED
    BY <1>1, <2>1
<1> QED
  BY <1>2, <1>3, <1>4 DEF k

\* The containers of a pod's lists are those of AllContainers.
LEMMA MembersOfPod ==
    ASSUME NEW p \in PodSpecs
    PROVE  Range(AllContainers(p)) = Members(p)
<1> DEFINE u == p.inits
<1> DEFINE v == p.ctrs
<1> DEFINE w == u \o v
<1>1. u \in Lists /\ v \in Lists
  BY DEF PodSpecs, Lists
<1>2. /\ w \in Lists /\ Len(w) = Len(u) + Len(v)
      /\ \A i \in 1..Len(w) : w[i] = IF i <= Len(u) THEN u[i] ELSE v[i - Len(u)]
  <2> HIDE DEF u, v
  <2>1. w \in Lists /\ Len(w) = Len(u) + Len(v)
    BY <1>1 DEF Lists
  <2>2. \A i \in 1..Len(u) + Len(v) : w[i] = IF i <= Len(u) THEN u[i] ELSE v[i - Len(u)]
    BY <1>1 DEF Lists
  <2> QED
    BY <2>1, <2>2
<1>3. /\ Range(w) = {w[i] : i \in 1..Len(w)}
      /\ Range(u) = {u[i] : i \in 1..Len(u)} /\ Range(v) = {v[i] : i \in 1..Len(v)}
      /\ Len(u) \in Nat /\ Len(v) \in Nat
  BY <1>1, <1>2, Listed
<1> HIDE DEF u, v, w
<1>4. ASSUME NEW x \in Range(w) PROVE x \in Range(u) \cup Range(v)
  <2>1. PICK i \in 1..Len(w) : x = w[i]
    BY <1>3
  <2>2. CASE i <= Len(u)
    BY <1>2, <1>3, <2>1, <2>2
  <2>3. CASE ~(i <= Len(u))
    <3>1. i - Len(u) \in 1..Len(v) /\ x = v[i - Len(u)]
      BY <1>2, <1>3, <2>1, <2>3
    <3> QED
      BY <1>3, <3>1
  <2> QED
    BY <2>2, <2>3
<1>5. ASSUME NEW x \in Range(u) PROVE x \in Range(w)
  <2>1. PICK i \in 1..Len(u) : x = u[i]
    BY <1>3
  <2>2. i \in 1..Len(w) /\ x = w[i]
    BY <1>2, <1>3, <2>1
  <2> QED
    BY <1>3, <2>2
<1>6. ASSUME NEW x \in Range(v) PROVE x \in Range(w)
  <2>1. PICK i \in 1..Len(v) : x = v[i]
    BY <1>3
  <2>2. i + Len(u) \in 1..Len(w) /\ x = w[i + Len(u)]
    BY <1>2, <1>3, <2>1
  <2> QED
    BY <1>3, <2>2
<1> QED
  BY <1>4, <1>5, <1>6 DEF AllContainers, Members, u, v, w

-----------------------------------------------------------------------------
\* A container keeps its name and its variables, gets those that are missing, and
\* mounts the volume.
LEMMA ConfiguredEffect ==
    ASSUME NEW c \in Containers, NEW d \in Desired
    PROVE  LET k == Configured(c, d)
           IN  /\ k \in Containers
               /\ k.name = c.name /\ k.from = c.from /\ k.mount = "reserved"
               /\ \A v \in EnvVars :
                     k.env[v] = IF c.env[v] = Absent /\ d[v] # Empty THEN d[v] ELSE c.env[v]
  BY DEF Configured, AddProjectedVolumeMount, AddEnvironmentVariables, Containers, Desired, Values

\* Configuring a container again changes nothing.
LEMMA ConfiguredTwice ==
    ASSUME NEW c \in Containers, NEW d \in Desired
    PROVE  Configured(Configured(c, d), d) = Configured(c, d)
<1> DEFINE k == Configured(c, d)
<1> DEFINE n == Configured(k, d)
<1>1. /\ k \in Containers /\ k.name = c.name /\ k.from = c.from /\ k.mount = "reserved"
      /\ \A v \in EnvVars :
            k.env[v] = IF c.env[v] = Absent /\ d[v] # Empty THEN d[v] ELSE c.env[v]
  BY ConfiguredEffect
<1>2. /\ n \in Containers /\ n.name = k.name /\ n.from = k.from /\ n.mount = "reserved"
      /\ \A v \in EnvVars :
            n.env[v] = IF k.env[v] = Absent /\ d[v] # Empty THEN d[v] ELSE k.env[v]
  BY <1>1, ConfiguredEffect
<1> HIDE DEF k, n
<1>3. \A v \in EnvVars : n.env[v] = k.env[v]
  BY <1>1, <1>2
<1>4. n.env = k.env
  BY <1>1, <1>2, <1>3 DEF Containers
<1> QED
  BY <1>1, <1>2, <1>4 DEF Containers, k, n

LEMMA MutateEffect ==
    ASSUME NEW l \in Lists, NEW d \in Desired, NEW skip
    PROVE  LET k == MutateContainers(l, d, skip)
           IN  /\ k \in Lists /\ Len(k) = Len(l)
               /\ \A i \in 1..Len(l) :
                     k[i] = IF l[i].name \in skip THEN l[i] ELSE Configured(l[i], d)
<1> DEFINE k == MutateContainers(l, d, skip)
<1>1. Len(l) \in Nat /\ DOMAIN l = 1..Len(l) /\ \A i \in 1..Len(l) : l[i] \in Containers
  BY Listed
<1>2. k = [i \in 1..Len(l) |-> IF l[i].name \in skip THEN l[i] ELSE Configured(l[i], d)]
  BY <1>1 DEF MutateContainers, Configured
<1>3. \A i \in 1..Len(l) : k[i] \in Containers
  BY <1>1, <1>2, ConfiguredEffect
<1>4. k \in [1..Len(l) -> Containers]
  BY <1>2, <1>3
<1>5. k \in Lists /\ Len(k) = Len(l)
  BY <1>1, <1>4 DEF Lists
<1> QED
  BY <1>2, <1>5

\* The containers after mutateContainers, as a set.
LEMMA RangeOfMutated ==
    ASSUME NEW l \in Lists, NEW d \in Desired, NEW skip
    PROVE  Range(MutateContainers(l, d, skip))
             = {IF c.name \in skip THEN c ELSE Configured(c, d) : c \in Range(l)}
<1> DEFINE k == MutateContainers(l, d, skip)
<1>1. /\ Range(k) = {k[i] : i \in 1..Len(k)} /\ Range(l) = {l[i] : i \in 1..Len(l)}
      /\ Len(k) = Len(l)
      /\ \A i \in 1..Len(l) : k[i] = IF l[i].name \in skip THEN l[i] ELSE Configured(l[i], d)
  BY MutateEffect, Listed
<1> HIDE DEF k
<1>2. Range(k) = {IF l[i].name \in skip THEN l[i] ELSE Configured(l[i], d) : i \in 1..Len(l)}
  BY <1>1
<1> QED
  BY <1>1, <1>2 DEF k

LEMMA MutateTwice ==
    ASSUME NEW l \in Lists, NEW d \in Desired, NEW skip
    PROVE  LET k == MutateContainers(l, d, skip)
           IN  MutateContainers(k, d, skip) = k
<1> DEFINE k == MutateContainers(l, d, skip)
<1> DEFINE n == MutateContainers(k, d, skip)
<1>1. /\ k \in Lists /\ Len(k) = Len(l)
      /\ \A i \in 1..Len(l) : k[i] = IF l[i].name \in skip THEN l[i] ELSE Configured(l[i], d)
  BY MutateEffect
<1>2. /\ n \in Lists /\ Len(n) = Len(k)
      /\ \A i \in 1..Len(k) : n[i] = IF k[i].name \in skip THEN k[i] ELSE Configured(k[i], d)
  BY <1>1, MutateEffect
<1> HIDE DEF k, n
<1>3. ASSUME NEW i \in 1..Len(l) PROVE n[i] = k[i]
  <2>1. l[i] \in Containers
    BY Listed
  <2>2. CASE l[i].name \in skip
    BY <1>1, <1>2, <2>2
  <2>3. CASE l[i].name \notin skip
    <3>1. k[i] = Configured(l[i], d) /\ k[i].name = l[i].name
      BY <1>1, <2>1, <2>3, ConfiguredEffect
    <3> QED
      BY <1>1, <1>2, <2>1, <2>3, <3>1, ConfiguredTwice
  <2> QED
    BY <2>2, <2>3
<1>4. n = k
  BY <1>1, <1>2, <1>3 DEF Lists
<1> QED
  BY <1>4 DEF k, n

\* What is injected.
LEMMA InjectedContainers ==
    ASSUME NEW name \in Text
    PROVE  /\ Injected(name) \in Containers
           /\ Injected(name).name = name /\ Injected(name).from = "azwi"
           /\ \A v \in EnvVars : Injected(name).env[v] = Absent
  BY DEF Injected, Containers, Values

LEMMA InjectEffect ==
    ASSUME NEW l \in Lists
    PROVE  /\ InjectProxyInit(l) \in Lists /\ InjectProxySidecar(l) \in Lists
           /\ Range(l) \subseteq Range(InjectProxyInit(l))
           /\ Range(InjectProxyInit(l)) \subseteq Range(l) \cup {Injected(ProxyInit)}
           /\ Range(l) \subseteq Range(InjectProxySidecar(l))
           /\ Range(InjectProxySidecar(l)) \subseteq Range(l) \cup {Injected(Proxy)}
           /\ ProxyInit \in Names(InjectProxyInit(l))
           /\ Proxy \in Names(InjectProxySidecar(l))
<1>1. /\ Injected(ProxyInit) \in Containers /\ Injected(ProxyInit).name = ProxyInit
      /\ Injected(Proxy) \in Containers /\ Injected(Proxy).name = Proxy
  BY Constants, InjectedContainers
<1>2. /\ InjectProxyInit(l) \in Lists
      /\ Range(l) \subseteq Range(InjectProxyInit(l))
      /\ Range(InjectProxyInit(l)) \subseteq Range(l) \cup {Injected(ProxyInit)}
      /\ ProxyInit \in Names(InjectProxyInit(l))
  <2>1. CASE ProxyInit \in Names(l)
    BY <2>1 DEF InjectProxyInit
  <2>2. CASE ProxyInit \notin Names(l)
    <3>1. InjectProxyInit(l) = Append(l, Injected(ProxyInit))
      BY <2>2 DEF InjectProxyInit
    <3>2. InjectProxyInit(l) \in Lists /\ Range(InjectProxyInit(l)) = Range(l) \cup {Injected(ProxyInit)}
      BY <1>1, <3>1, Appended, RangeOfAppended
    <3> QED
      BY <1>1, <3>2, Listed
  <2> QED
    BY <2>1, <2>2
<1>3. /\ InjectProxySidecar(l) \in Lists
      /\ Range(l) \subseteq Range(InjectProxySidecar(l))
      /\ Range(InjectProxySidecar(l)) \subseteq Range(l) \cup {Injected(Proxy)}
      /\ Proxy \in Names(InjectProxySidecar(l))
  <2>1. CASE Proxy \in Names(l)
    BY <2>1 DEF InjectProxySidecar
  <2>2. CASE Proxy \notin Names(l)
    <3>1. InjectProxySidecar(l) = <<Injected(Proxy)>> \o l
      BY <2>2 DEF InjectProxySidecar
    <3>2. InjectProxySidecar(l) \in Lists /\ Range(InjectProxySidecar(l)) = Range(l) \cup {Injected(Proxy)}
      BY <1>1, <3>1, Prepended, RangeOfPrepended
    <3> QED
      BY <1>1, <3>2, Listed
  <2> QED
    BY <2>1, <2>2
<1> QED
  BY <1>2, <1>3

\* The fields a call leaves alone.
SameAnnotations(p, q) ==
    /\ q.inject = p.inject /\ q.port = p.port /\ q.expiry = p.expiry
    /\ q.custom = p.custom /\ q.skip = p.skip /\ q.hostNetwork = p.hostNetwork

LEMMA WithProxyEffect ==
    ASSUME NEW p \in PodSpecs, NEW m
    PROVE  LET q == WithProxy(p, m)
               inits == InjectProxyInit(p.inits)
           IN  /\ q \in PodSpecs /\ SameAnnotations(p, q) /\ q.volume = p.volume
               /\ ~ShouldInjectProxySidecar(p) => q = p
               /\ ShouldInjectProxySidecar(p) /\ m \in native
                     => q.inits = InjectProxySidecar(inits) /\ q.ctrs = p.ctrs
               /\ ShouldInjectProxySidecar(p) /\ m \notin native
                     => q.inits = inits /\ q.ctrs = InjectProxySidecar(p.ctrs)
<1> DEFINE inits == InjectProxyInit(p.inits)
<1>1. p.inits \in Lists /\ p.ctrs \in Lists
  BY DEF PodSpecs, Lists
<1>2. /\ inits \in Lists /\ InjectProxySidecar(inits) \in Lists
      /\ InjectProxySidecar(p.ctrs) \in Lists
  BY <1>1, InjectEffect
<1> HIDE DEF inits
<1>3. WithProxy(p, m) =
        IF ~ShouldInjectProxySidecar(p) THEN p
        ELSE IF m \in native THEN [p EXCEPT !.inits = InjectProxySidecar(inits)]
        ELSE [p EXCEPT !.inits = inits, !.ctrs = InjectProxySidecar(p.ctrs)]
  BY <1>1 DEF WithProxy, inits, PodSpecs
<1>4. CASE ~ShouldInjectProxySidecar(p)
  BY <1>3, <1>4 DEF SameAnnotations
<1>5. CASE ShouldInjectProxySidecar(p) /\ m \in native
  BY <1>1, <1>2, <1>3, <1>5 DEF SameAnnotations, PodSpecs, Lists, inits
<1>6. CASE ShouldInjectProxySidecar(p) /\ m \notin native
  BY <1>1, <1>2, <1>3, <1>6 DEF SameAnnotations, PodSpecs, Lists, inits
<1> QED
  BY <1>4, <1>5, <1>6

LEMMA DesiredType ==
    ASSUME NEW a \in AccountSpecs, NEW custom \in BOOLEAN
    PROVE  DesiredEnv(a, custom) \in Desired
<1>1. /\ Config.tenantID \in Text /\ Config.authorityHost \in Text
      /\ Config.tokenProxy \in Text /\ Config.sniName \in Text
  BY ConfigAssumption
<1>2. TenantID(a) \in Text /\ a.client \in Text
  BY <1>1 DEF TenantID, AccountSpecs, Values
<1>3. ASSUME NEW v \in EnvVars PROVE DesiredEnv(a, custom)[v] \in Text
  <2>1. v \in {"client", "tenant", "file", "host", "tokenProxy", "sni", "caFile", "caData"}
    BY DEF EnvVars
  <2>2. {Empty, "tokenFile", "caFile", "caData"} \subseteq Text
    BY PodAssumption
  <2> QED
    BY <1>1, <1>2, <2>1, <2>2 DEF DesiredEnv
<1> QED
  BY <1>3 DEF DesiredEnv, Desired

LEMMA Expirations ==
    {MinServiceAccountTokenExpiration, MaxServiceAccountTokenExpiration,
     DefaultServiceAccountTokenExpiration} \subseteq Int
  BY SMT DEF MinServiceAccountTokenExpiration, MaxServiceAccountTokenExpiration,
             DefaultServiceAccountTokenExpiration

\* The lifetime of the token, when it is not an error.
LEMMA Lifetime ==
    ASSUME NEW p \in PodSpecs, NEW a \in AccountSpecs, TokenExpiration(p, a) # Junk
    PROVE  /\ TokenExpiration(p, a)
                 \in MinServiceAccountTokenExpiration .. MaxServiceAccountTokenExpiration
           /\ p.expiry # Absent => TokenExpiration(p, a) = p.expiry
<1> DEFINE e == CASE p.expiry # Absent -> p.expiry
                  [] p.expiry = Absent /\ a.expiry # Absent -> a.expiry
                  [] OTHER -> DefaultServiceAccountTokenExpiration
<1>1. p.expiry \in Numbers /\ a.expiry \in Numbers
  BY DEF PodSpecs, AccountSpecs
<1>2. e \in Int \cup {Junk}
  BY <1>1, Expirations DEF Numbers
<1>3. TokenExpiration(p, a) = IF /\ e # Junk
                                 /\ e <= MaxServiceAccountTokenExpiration
                                 /\ e >= MinServiceAccountTokenExpiration
                              THEN e ELSE Junk
  BY DEF TokenExpiration
<1>6. p.expiry # Absent => e = p.expiry
  OBVIOUS
<1> HIDE DEF e
<1>4. e # Junk => e \in Int
  BY <1>2
<1>5. TokenExpiration(p, a) = e /\ e # Junk
      /\ e <= MaxServiceAccountTokenExpiration /\ e >= MinServiceAccountTokenExpiration
  BY <1>3
<1> QED
  BY <1>4, <1>5, <1>6, Expirations

\* What a call of Handle makes of a pod.
LEMMA MutatedEffect ==
    ASSUME NEW p \in PodSpecs, NEW a \in AccountSpecs, NEW m, ~Invalid(p, a)
    PROVE  LET q == Mutated(p, a, m)
               w == WithProxy(p, m)
               d == DesiredEnv(a, IsUsingCustomTokenEndpoint(p))
           IN  /\ q \in PodSpecs /\ SameAnnotations(p, q)
               /\ q.volume = ProjectedVolume(p, a) /\ q.volume \in Volumes
               /\ d \in Desired
               /\ w \in PodSpecs
               /\ q.inits = MutateContainers(w.inits, d, p.skip)
               /\ q.ctrs = MutateContainers(w.ctrs, d, p.skip)
<1> DEFINE w == WithProxy(p, m)
<1> DEFINE custom == IsUsingCustomTokenEndpoint(p)
<1> DEFINE d == DesiredEnv(a, custom)
<1>1. custom \in BOOLEAN
  BY DEF IsUsingCustomTokenEndpoint
<1>2. d \in Desired
  BY <1>1, DesiredType
<1>3. w \in PodSpecs /\ SameAnnotations(p, w)
  BY WithProxyEffect
<1>4. w.inits \in Lists /\ w.ctrs \in Lists
  BY <1>3 DEF PodSpecs, Lists
<1>5. ProjectedVolume(p, a) \in Volumes
  <2>1. TokenExpiration(p, a) \in Int
    BY Lifetime, Expirations DEF Invalid
  <2>2. {"custom", "default", "none", Config.caSource} \subseteq Text
    <3>1. Config.caSource \in {"none", "data", "configMap", "trustBundle"}
      BY ConfigAssumption
    <3>2. {"custom", "default", "none", "configMap", "trustBundle", "data"} \subseteq Text
      BY PodAssumption
    <3> QED
      BY <3>1, <3>2
  <2> QED
    BY <2>1, <2>2 DEF ProjectedVolume, Volumes
<1> DEFINE i == MutateContainers(w.inits, d, p.skip)
<1> DEFINE c == MutateContainers(w.ctrs, d, p.skip)
<1> DEFINE v == ProjectedVolume(p, a)
<1>6. i \in Lists /\ c \in Lists
  BY <1>2, <1>4, MutateEffect
<1>7. Mutated(p, a, m) = [w EXCEPT !.inits = i, !.ctrs = c, !.volume = v]
  BY <1>3 DEF Mutated, PodSpecs
<1> HIDE DEF i, c, v, w, d
<1>8. /\ Mutated(p, a, m).inits = i /\ Mutated(p, a, m).ctrs = c /\ Mutated(p, a, m).volume = v
      /\ SameAnnotations(w, Mutated(p, a, m))
      /\ Mutated(p, a, m) \in PodSpecs
  BY <1>3, <1>5, <1>6, <1>7 DEF PodSpecs, SameAnnotations, Lists, v
<1>9. SameAnnotations(p, Mutated(p, a, m))
  BY <1>3, <1>8 DEF SameAnnotations
<1> QED
  BY <1>2, <1>3, <1>5, <1>8, <1>9 DEF i, c, v, w, d

-----------------------------------------------------------------------------
\* The names in lists.
LEMMA NamesOfMutated ==
    ASSUME NEW l \in Lists, NEW d \in Desired, NEW skip
    PROVE  Names(MutateContainers(l, d, skip)) = Names(l)
<1> DEFINE k == MutateContainers(l, d, skip)
<1>1. /\ k \in Lists /\ Len(k) = Len(l) /\ DOMAIN l = 1..Len(l) /\ DOMAIN k = 1..Len(l)
      /\ \A i \in 1..Len(l) : k[i] = IF l[i].name \in skip THEN l[i] ELSE Configured(l[i], d)
      /\ \A i \in 1..Len(l) : l[i] \in Containers
  BY MutateEffect, Listed
<1> HIDE DEF k
<1>2. \A i \in 1..Len(l) : k[i].name = l[i].name
  BY <1>1, ConfiguredEffect
<1> QED
  BY <1>1, <1>2 DEF Names, k

LEMMA NamesGrow ==
    ASSUME NEW l \in Lists, NEW k \in Lists, Range(l) \subseteq Range(k)
    PROVE  Names(l) \subseteq Names(k)
  BY Listed

LEMMA NamesOfLonger ==
    ASSUME NEW l \in Lists, NEW c \in Containers
    PROVE  /\ Names(<<c>> \o l) = Names(l) \cup {c.name}
           /\ Names(Append(l, c)) = Names(l) \cup {c.name}
<1>1. Names(<<c>> \o l) = {x.name : x \in Range(l) \cup {c}}
  BY Prepended, RangeOfPrepended, Listed
<1>2. Names(Append(l, c)) = {x.name : x \in Range(l) \cup {c}}
  BY Appended, RangeOfAppended, Listed
<1>3. Names(l) = {x.name : x \in Range(l)}
  BY Listed
<1> QED
  BY <1>1, <1>2, <1>3

\* The proxies are where replica m puts them.
InPlace(p, m) ==
    ShouldInjectProxySidecar(p) =>
        /\ ProxyInit \in Names(p.inits)
        /\ m \in native => Proxy \in Names(p.inits)
        /\ m \notin native => Proxy \in Names(p.ctrs)

\* A call puts them there, and adds none to those that are.
LEMMA CallInjects ==
    ASSUME NEW p \in PodSpecs, NEW a \in AccountSpecs, NEW m, ~Invalid(p, a)
    PROVE  InPlace(Mutated(p, a, m), m)
<1> DEFINE q == Mutated(p, a, m)
<1> DEFINE w == WithProxy(p, m)
<1> DEFINE d == DesiredEnv(a, IsUsingCustomTokenEndpoint(p))
<1>1. /\ q \in PodSpecs /\ SameAnnotations(p, q) /\ w \in PodSpecs /\ d \in Desired
      /\ q.inits = MutateContainers(w.inits, d, p.skip)
      /\ q.ctrs = MutateContainers(w.ctrs, d, p.skip)
  BY MutatedEffect
<1>2. w.inits \in Lists /\ w.ctrs \in Lists /\ p.inits \in Lists /\ p.ctrs \in Lists
  BY <1>1 DEF PodSpecs, Lists
<1>3. Names(q.inits) = Names(w.inits) /\ Names(q.ctrs) = Names(w.ctrs)
  BY <1>1, <1>2, NamesOfMutated
<1>4. ASSUME ShouldInjectProxySidecar(p)
      PROVE  /\ ProxyInit \in Names(w.inits)
             /\ m \in native => Proxy \in Names(w.inits)
             /\ m \notin native => Proxy \in Names(w.ctrs)
  <2> DEFINE i == InjectProxyInit(p.inits)
  <2>1. i \in Lists /\ ProxyInit \in Names(i)
    BY <1>2, InjectEffect
  <2>2. CASE m \in native
    <3>1. w.inits = InjectProxySidecar(i)
      BY <1>4, <2>2, WithProxyEffect
    <3>2. /\ Range(i) \subseteq Range(InjectProxySidecar(i)) /\ InjectProxySidecar(i) \in Lists
          /\ Proxy \in Names(InjectProxySidecar(i))
      BY <2>1, InjectEffect
    <3> QED
      BY <2>1, <2>2, <3>1, <3>2, NamesGrow
  <2>3. CASE m \notin native
    <3>1. w.inits = i /\ w.ctrs = InjectProxySidecar(p.ctrs)
      BY <1>4, <2>3, WithProxyEffect
    <3> QED
      BY <1>2, <2>1, <2>3, <3>1, InjectEffect
  <2> QED
    BY <2>2, <2>3
<1>5. ShouldInjectProxySidecar(q) = ShouldInjectProxySidecar(p)
  BY <1>1 DEF SameAnnotations, ShouldInjectProxySidecar
<1> HIDE DEF q, w
<1> QED
  BY <1>3, <1>4, <1>5 DEF InPlace, q

LEMMA NothingToInject ==
    ASSUME NEW p \in PodSpecs, NEW m, InPlace(p, m)
    PROVE  WithProxy(p, m) = p
<1>1. CASE ~ShouldInjectProxySidecar(p)
  BY <1>1 DEF WithProxy
<1>2. CASE ShouldInjectProxySidecar(p) /\ m \in native
  <2>1. InjectProxyInit(p.inits) = p.inits /\ InjectProxySidecar(p.inits) = p.inits
    BY <1>2 DEF InPlace, InjectProxyInit, InjectProxySidecar
  <2>2. WithProxy(p, m) = [p EXCEPT !.inits = p.inits]
    BY <1>2, <2>1 DEF WithProxy
  <2> QED
    BY <2>2 DEF PodSpecs
<1>3. CASE ShouldInjectProxySidecar(p) /\ m \notin native
  <2>1. InjectProxyInit(p.inits) = p.inits /\ InjectProxySidecar(p.ctrs) = p.ctrs
    BY <1>3 DEF InPlace, InjectProxyInit, InjectProxySidecar
  <2>2. WithProxy(p, m) = [p EXCEPT !.inits = p.inits, !.ctrs = InjectProxySidecar(p.ctrs)]
    BY <1>3, <2>1 DEF WithProxy, PodSpecs
  <2> QED
    BY <2>1, <2>2 DEF PodSpecs
<1> QED
  BY <1>1, <1>2, <1>3

\* A pod is its fields.
LEMMA SamePod ==
    ASSUME NEW p \in PodSpecs, NEW q \in PodSpecs, SameAnnotations(p, q),
           q.inits = p.inits, q.ctrs = p.ctrs, q.volume = p.volume
    PROVE  q = p
<1>1. ASSUME NEW x \in PodSpecs
      PROVE  x = [inits |-> x.inits, ctrs |-> x.ctrs, volume |-> x.volume, inject |-> x.inject,
                  port |-> x.port, expiry |-> x.expiry, custom |-> x.custom, skip |-> x.skip,
                  hostNetwork |-> x.hostNetwork]
  BY <1>1 DEF PodSpecs
<1> QED
  BY <1>1, Zenon DEF SameAnnotations

\* A call that follows the same call changes nothing.
LEMMA MutatedTwice ==
    ASSUME NEW p \in PodSpecs, NEW a \in AccountSpecs, NEW m, ~Invalid(p, a)
    PROVE  Mutated(Mutated(p, a, m), a, m) = Mutated(p, a, m)
<1> DEFINE q == Mutated(p, a, m)
<1> DEFINE w == WithProxy(p, m)
<1> DEFINE n == Mutated(q, a, m)
<1> DEFINE d == DesiredEnv(a, IsUsingCustomTokenEndpoint(p))
<1>1. /\ q \in PodSpecs /\ SameAnnotations(p, q) /\ w \in PodSpecs /\ d \in Desired
      /\ q.volume = ProjectedVolume(p, a)
      /\ q.inits = MutateContainers(w.inits, d, p.skip)
      /\ q.ctrs = MutateContainers(w.ctrs, d, p.skip)
  BY MutatedEffect
<1>2. WithProxy(q, m) = q
  BY <1>1, CallInjects, NothingToInject
<1>3. /\ TokenExpiration(q, a) = TokenExpiration(p, a)
      /\ IsUsingCustomTokenEndpoint(q) = IsUsingCustomTokenEndpoint(p)
      /\ ShouldInjectProxySidecar(q) = ShouldInjectProxySidecar(p)
      /\ ProxyPort(q) = ProxyPort(p)
  BY <1>1 DEF SameAnnotations, TokenExpiration, IsUsingCustomTokenEndpoint,
              ShouldInjectProxySidecar, ProxyPort
<1>4. ~Invalid(q, a) /\ ProjectedVolume(q, a) = ProjectedVolume(p, a)
  BY <1>1, <1>3 DEF Invalid, ProjectedVolume, SameAnnotations
<1> HIDE DEF q
<1>5. /\ n \in PodSpecs /\ SameAnnotations(q, n)
      /\ n.volume = ProjectedVolume(q, a)
      /\ n.inits = MutateContainers(WithProxy(q, m).inits,
                                    DesiredEnv(a, IsUsingCustomTokenEndpoint(q)), q.skip)
      /\ n.ctrs = MutateContainers(WithProxy(q, m).ctrs,
                                   DesiredEnv(a, IsUsingCustomTokenEndpoint(q)), q.skip)
  BY <1>1, <1>4, MutatedEffect
<1>6. /\ n.inits = MutateContainers(q.inits, d, p.skip)
      /\ n.ctrs = MutateContainers(q.ctrs, d, p.skip)
  BY <1>1, <1>2, <1>3, <1>5 DEF SameAnnotations
<1>7. w.inits \in Lists /\ w.ctrs \in Lists
  BY <1>1 DEF PodSpecs, Lists
<1> HIDE DEF n, w, d
<1>8. n.inits = q.inits /\ n.ctrs = q.ctrs
  BY <1>1, <1>6, <1>7, MutateTwice
<1>9. n.volume = q.volume
  BY <1>1, <1>4, <1>5
<1>10. n = q
  BY <1>1, <1>5, <1>8, <1>9, SamePod
<1> QED
  BY <1>10 DEF n, q

-----------------------------------------------------------------------------
\* The containers of a pod after a call, as a set.
LEMMA MembersOfMutated ==
    ASSUME NEW p \in PodSpecs, NEW a \in AccountSpecs, NEW m, ~Invalid(p, a)
    PROVE  LET w == WithProxy(p, m)
               d == DesiredEnv(a, IsUsingCustomTokenEndpoint(p))
           IN  /\ Members(Mutated(p, a, m))
                     = {IF c.name \in p.skip THEN c ELSE Configured(c, d) : c \in Members(w)}
               /\ Members(w) \subseteq Members(p) \cup {Injected(ProxyInit), Injected(Proxy)}
               /\ Members(w) \subseteq Containers
<1> DEFINE q == Mutated(p, a, m)
<1> DEFINE w == WithProxy(p, m)
<1> DEFINE d == DesiredEnv(a, IsUsingCustomTokenEndpoint(p))
<1>1. /\ w \in PodSpecs /\ d \in Desired
      /\ q.inits = MutateContainers(w.inits, d, p.skip)
      /\ q.ctrs = MutateContainers(w.ctrs, d, p.skip)
  BY MutatedEffect
<1>2. w.inits \in Lists /\ w.ctrs \in Lists /\ p.inits \in Lists /\ p.ctrs \in Lists
  BY <1>1 DEF PodSpecs, Lists
<1>3. /\ Range(q.inits) = {IF c.name \in p.skip THEN c ELSE Configured(c, d) : c \in Range(w.inits)}
      /\ Range(q.ctrs) = {IF c.name \in p.skip THEN c ELSE Configured(c, d) : c \in Range(w.ctrs)}
  BY <1>1, <1>2, RangeOfMutated
<1>4. Members(w) \subseteq Members(p) \cup {Injected(ProxyInit), Injected(Proxy)}
  <2> DEFINE i == InjectProxyInit(p.inits)
  <2>1. i \in Lists /\ Range(i) \subseteq Range(p.inits) \cup {Injected(ProxyInit)}
    BY <1>2, InjectEffect
  <2>2. /\ Range(InjectProxySidecar(i)) \subseteq Range(i) \cup {Injected(Proxy)}
        /\ Range(InjectProxySidecar(p.ctrs)) \subseteq Range(p.ctrs) \cup {Injected(Proxy)}
    BY <1>2, <2>1, InjectEffect
  <2>3. \/ w = p
        \/ w.inits = InjectProxySidecar(i) /\ w.ctrs = p.ctrs
        \/ w.inits = i /\ w.ctrs = InjectProxySidecar(p.ctrs)
    BY WithProxyEffect
  <2> HIDE DEF i, w
  <2> QED
    BY <2>1, <2>2, <2>3 DEF Members
<1>5. Members(w) \subseteq Containers
  BY <1>2, Listed DEF Members
<1> HIDE DEF q, w, d
<1>6. Members(q) = {IF c.name \in p.skip THEN c ELSE Configured(c, d) : c \in Members(w)}
  BY <1>3 DEF Members
<1> QED
  BY <1>4, <1>5, <1>6 DEF q, w, d

\* The proxy in front of the containers that were submitted, in one list.
ProxyFirst(l) ==
    \A i, j \in DOMAIN l :
        l[i].name = Proxy /\ l[i].from = "azwi" /\ l[j].from = "user" => i < j

LEMMA ProxyFirstMutated ==
    ASSUME NEW l \in Lists, NEW d \in Desired, NEW skip, ProxyFirst(l)
    PROVE  ProxyFirst(MutateContainers(l, d, skip))
<1> DEFINE k == MutateContainers(l, d, skip)
<1>1. /\ k \in Lists /\ Len(k) = Len(l) /\ DOMAIN l = 1..Len(l) /\ DOMAIN k = 1..Len(l)
      /\ \A i \in 1..Len(l) : k[i] = IF l[i].name \in skip THEN l[i] ELSE Configured(l[i], d)
      /\ \A i \in 1..Len(l) : l[i] \in Containers
  BY MutateEffect, Listed
<1> HIDE DEF k
<1>2. \A i \in 1..Len(l) : k[i].name = l[i].name /\ k[i].from = l[i].from
  BY <1>1, ConfiguredEffect
<1> QED
  BY <1>1, <1>2 DEF ProxyFirst, k

\* A container that is no proxy of the webhook and none of the user may be put
\* anywhere, the proxy to the front.
LEMMA ProxyFirstLonger ==
    ASSUME NEW l \in Lists, NEW c \in Containers, c.from # "user", ProxyFirst(l)
    PROVE  /\ ProxyFirst(<<c>> \o l)
           /\ c.from = "other" \/ c.name # Proxy => ProxyFirst(Append(l, c))
<1>1. Len(l) \in Nat /\ DOMAIN l = 1..Len(l)
  BY Listed
<1>2. ProxyFirst(<<c>> \o l)
  <2> DEFINE k == <<c>> \o l
  <2>1. /\ k \in Lists /\ Len(k) = Len(l) + 1 /\ k[1] = c /\ DOMAIN k = 1..Len(l) + 1
        /\ \A i \in 2..Len(l) + 1 : i - 1 \in 1..Len(l) /\ k[i] = l[i - 1]
    BY Prepended, Listed
  <2> HIDE DEF k
  <2>2. ASSUME NEW i \in DOMAIN k, NEW j \in DOMAIN k,
               k[i].name = Proxy, k[i].from = "azwi", k[j].from = "user"
        PROVE  i < j
    <3>1. j # 1 /\ j \in 2..Len(l) + 1
      BY <1>1, <2>1, <2>2
    <3>2. CASE i = 1
      BY <1>1, <3>1, <3>2
    <3>3. CASE i # 1
      <4>1. i \in 2..Len(l) + 1
        BY <1>1, <2>1, <3>3
      <4>2. i - 1 < j - 1
        BY <1>1, <2>1, <2>2, <3>1, <4>1 DEF ProxyFirst
      <4> QED
        BY <1>1, <3>1, <4>1, <4>2
    <3> QED
      BY <3>2, <3>3
  <2>3. ProxyFirst(k)
    BY <2>2 DEF ProxyFirst
  <2> QED
    BY <2>3 DEF k
<1>3. ASSUME c.from = "other" \/ c.name # Proxy PROVE ProxyFirst(Append(l, c))
  <2> DEFINE k == Append(l, c)
  <2>1. /\ k \in Lists /\ Len(k) = Len(l) + 1 /\ k[Len(l) + 1] = c /\ DOMAIN k = 1..Len(l) + 1
        /\ \A i \in 1..Len(l) : k[i] = l[i]
    BY Appended, Listed
  <2> HIDE DEF k
  <2>2. ASSUME NEW i \in DOMAIN k, NEW j \in DOMAIN k,
               k[i].name = Proxy, k[i].from = "azwi", k[j].from = "user"
        PROVE  i < j
    <3>1. i # Len(l) + 1 /\ j # Len(l) + 1
      BY <1>3, <2>1, <2>2
    <3>2. i \in 1..Len(l) /\ j \in 1..Len(l)
      BY <1>1, <2>1, <3>1
    <3> QED
      BY <1>1, <2>1, <2>2, <3>2 DEF ProxyFirst
  <2>3. ProxyFirst(k)
    BY <2>2 DEF ProxyFirst
  <2> QED
    BY <2>3 DEF k
<1> QED
  BY <1>2, <1>3

\* A call keeps the proxy in front.
LEMMA CallKeepsProxyFirst ==
    ASSUME NEW p \in PodSpecs, NEW a \in AccountSpecs, NEW m, ~Invalid(p, a),
           ProxyFirst(p.inits), ProxyFirst(p.ctrs)
    PROVE  ProxyFirst(Mutated(p, a, m).inits) /\ ProxyFirst(Mutated(p, a, m).ctrs)
<1> DEFINE q == Mutated(p, a, m)
<1> DEFINE w == WithProxy(p, m)
<1> DEFINE d == DesiredEnv(a, IsUsingCustomTokenEndpoint(p))
<1>1. /\ w \in PodSpecs /\ d \in Desired
      /\ q.inits = MutateContainers(w.inits, d, p.skip)
      /\ q.ctrs = MutateContainers(w.ctrs, d, p.skip)
  BY MutatedEffect
<1>2. w.inits \in Lists /\ w.ctrs \in Lists /\ p.inits \in Lists /\ p.ctrs \in Lists
  BY <1>1 DEF PodSpecs, Lists
<1>3. ASSUME NEW l \in Lists, ProxyFirst(l)
      PROVE  ProxyFirst(InjectProxyInit(l)) /\ ProxyFirst(InjectProxySidecar(l))
  <2>1. /\ Injected(ProxyInit) \in Containers /\ Injected(ProxyInit).name # Proxy
        /\ Injected(ProxyInit).from # "user"
        /\ Injected(Proxy) \in Containers /\ Injected(Proxy).from # "user"
    BY InjectedContainers, Constants
  <2> QED
    BY <1>3, <2>1, ProxyFirstLonger DEF InjectProxyInit, InjectProxySidecar
<1>4. ProxyFirst(w.inits) /\ ProxyFirst(w.ctrs)
  <2> DEFINE i == InjectProxyInit(p.inits)
  <2>1. i \in Lists /\ ProxyFirst(i)
    BY <1>2, <1>3, InjectEffect
  <2>2. ProxyFirst(InjectProxySidecar(i)) /\ ProxyFirst(InjectProxySidecar(p.ctrs))
    BY <1>2, <1>3, <2>1
  <2>3. \/ w = p
        \/ w.inits = InjectProxySidecar(i) /\ w.ctrs = p.ctrs
        \/ w.inits = i /\ w.ctrs = InjectProxySidecar(p.ctrs)
    BY WithProxyEffect
  <2> HIDE DEF i, w
  <2> QED
    BY <2>1, <2>2, <2>3
<1> QED
  BY <1>1, <1>2, <1>4, ProxyFirstMutated

-----------------------------------------------------------------------------
\* Kept with a given shift.
KeptAt(e, old, new) ==
    /\ Len(old) + e <= Len(new)
    /\ \A i \in DOMAIN old :
          /\ new[i + e].name = old[i].name
          /\ \A v \in EnvVars : old[i].env[v] # Absent => new[i + e].env[v] = old[i].env[v]

LEMMA KeptLonger ==
    ASSUME NEW l \in Lists, NEW c \in Containers
    PROVE  /\ KeptAt(0, l, l)
           /\ KeptAt(0, l, Append(l, c))
           /\ KeptAt(1, l, <<c>> \o l)
<1>1. Len(l) \in Nat /\ DOMAIN l = 1..Len(l)
  BY Listed
<1>2. \A i \in 1..Len(l) : i + 0 = i
  BY <1>1
<1>3. KeptAt(0, l, l)
  BY <1>1, <1>2 DEF KeptAt
<1>4. KeptAt(0, l, Append(l, c))
  <2>1. Len(Append(l, c)) = Len(l) + 1 /\ \A i \in 1..Len(l) : Append(l, c)[i] = l[i]
    BY Appended
  <2> QED
    BY <1>1, <1>2, <2>1 DEF KeptAt
<1>5. KeptAt(1, l, <<c>> \o l)
  <2>1. Len(<<c>> \o l) = Len(l) + 1 /\ \A i \in 1..Len(l) : (<<c>> \o l)[i + 1] = l[i]
    BY Prepended
  <2> QED
    BY <1>1, <2>1 DEF KeptAt
<1> QED
  BY <1>3, <1>4, <1>5

LEMMA KeptMutated ==
    ASSUME NEW l \in Lists, NEW k \in Lists, NEW d \in Desired, NEW skip, NEW e \in {0, 1},
           KeptAt(e, l, k)
    PROVE  KeptAt(e, l, MutateContainers(k, d, skip))
<1> DEFINE n == MutateContainers(k, d, skip)
<1>1. /\ n \in Lists /\ Len(n) = Len(k)
      /\ \A i \in 1..Len(k) : n[i] = IF k[i].name \in skip THEN k[i] ELSE Configured(k[i], d)
      /\ \A i \in 1..Len(k) : k[i] \in Containers
      /\ Len(l) \in Nat /\ Len(k) \in Nat /\ DOMAIN l = 1..Len(l)
  BY MutateEffect, Listed
<1> HIDE DEF n
<1>2. ASSUME NEW i \in 1..Len(k)
      PROVE  /\ n[i].name = k[i].name
             /\ \A v \in EnvVars : k[i].env[v] # Absent => n[i].env[v] = k[i].env[v]
  BY <1>1, ConfiguredEffect
<1>3. ASSUME NEW i \in DOMAIN l
      PROVE  /\ n[i + e].name = l[i].name
             /\ \A v \in EnvVars : l[i].env[v] # Absent => n[i + e].env[v] = l[i].env[v]
  <2>1. i + e \in 1..Len(k)
    BY <1>1 DEF KeptAt
  <2>2. /\ n[i + e].name = k[i + e].name
        /\ \A v \in EnvVars : k[i + e].env[v] # Absent => n[i + e].env[v] = k[i + e].env[v]
    BY <1>2, <2>1
  <2>3. /\ k[i + e].name = l[i].name
        /\ \A v \in EnvVars : l[i].env[v] # Absent => k[i + e].env[v] = l[i].env[v]
    BY DEF KeptAt
  <2> QED
    BY <2>2, <2>3, Zenon
<1> QED
  BY <1>1, <1>3 DEF KeptAt, n

LEMMA KeptTwice ==
    ASSUME NEW l \in Lists, NEW k \in Lists, NEW n \in Lists, NEW e \in {0, 1},
           KeptAt(0, l, k), KeptAt(e, k, n)
    PROVE  KeptAt(e, l, n)
<1>1. /\ Len(l) \in Nat /\ Len(k) \in Nat /\ Len(n) \in Nat
      /\ DOMAIN l = 1..Len(l) /\ DOMAIN k = 1..Len(k)
  BY Listed
<1>2. Len(l) + e <= Len(n) /\ \A i \in DOMAIN l : i \in DOMAIN k /\ i + 0 = i
  BY <1>1 DEF KeptAt
<1> QED
  BY <1>2 DEF KeptAt

\* A call keeps what is there.
LEMMA CallKeeps ==
    ASSUME NEW p \in PodSpecs, NEW a \in AccountSpecs, NEW m, ~Invalid(p, a)
    PROVE  Kept(p.inits, Mutated(p, a, m).inits) /\ Kept(p.ctrs, Mutated(p, a, m).ctrs)
<1> DEFINE q == Mutated(p, a, m)
<1> DEFINE w == WithProxy(p, m)
<1> DEFINE d == DesiredEnv(a, IsUsingCustomTokenEndpoint(p))
<1>1. /\ w \in PodSpecs /\ d \in Desired
      /\ q.inits = MutateContainers(w.inits, d, p.skip)
      /\ q.ctrs = MutateContainers(w.ctrs, d, p.skip)
  BY MutatedEffect
<1>2. w.inits \in Lists /\ w.ctrs \in Lists /\ p.inits \in Lists /\ p.ctrs \in Lists
  BY <1>1 DEF PodSpecs, Lists
<1>3. Injected(ProxyInit) \in Containers /\ Injected(Proxy) \in Containers
  BY InjectedContainers, Constants
<1> DEFINE i == InjectProxyInit(p.inits)
<1>4. i \in Lists /\ KeptAt(0, p.inits, i) /\ InjectProxySidecar(i) \in Lists
  BY <1>2, <1>3, InjectEffect, KeptLonger DEF InjectProxyInit
<1>5. ASSUME NEW l \in Lists PROVE \E e \in {0, 1} : KeptAt(e, l, InjectProxySidecar(l))
  BY <1>3, KeptLonger DEF InjectProxySidecar
<1>6. \E e \in {0, 1} : KeptAt(e, p.inits, InjectProxySidecar(i))
  BY <1>2, <1>4, <1>5, KeptTwice
<1>7. \/ w = p
      \/ w.inits = InjectProxySidecar(i) /\ w.ctrs = p.ctrs
      \/ w.inits = i /\ w.ctrs = InjectProxySidecar(p.ctrs)
  BY WithProxyEffect
<1>8. KeptAt(0, p.inits, p.inits) /\ KeptAt(0, p.ctrs, p.ctrs)
  BY <1>2, <1>3, KeptLonger
<1> HIDE DEF i, w, d, q
<1>9. PICK e \in {0, 1} : KeptAt(e, p.inits, w.inits)
  BY <1>4, <1>6, <1>7, <1>8
<1>10. PICK f \in {0, 1} : KeptAt(f, p.ctrs, w.ctrs)
  BY <1>2, <1>5, <1>7, <1>8
<1>11. KeptAt(e, p.inits, q.inits) /\ KeptAt(f, p.ctrs, q.ctrs)
  BY <1>1, <1>2, <1>9, <1>10, KeptMutated
<1> QED
  BY <1>11 DEF Kept, KeptAt, q

-----------------------------------------------------------------------------
\* Distinct names in one list, and in a pod.
Distinct(l) == \A i, j \in DOMAIN l : l[i].name = l[j].name => i = j

LEMMA DistinctMutated ==
    ASSUME NEW l \in Lists, NEW d \in Desired, NEW skip, Distinct(l)
    PROVE  Distinct(MutateContainers(l, d, skip))
<1> DEFINE k == MutateContainers(l, d, skip)
<1>1. /\ k \in Lists /\ Len(k) = Len(l) /\ DOMAIN l = 1..Len(l) /\ DOMAIN k = 1..Len(l)
      /\ \A i \in 1..Len(l) : k[i] = IF l[i].name \in skip THEN l[i] ELSE Configured(l[i], d)
      /\ \A i \in 1..Len(l) : l[i] \in Containers
  BY MutateEffect, Listed
<1> HIDE DEF k
<1>2. \A i \in 1..Len(l) : k[i].name = l[i].name
  BY <1>1, ConfiguredEffect
<1> QED
  BY <1>1, <1>2 DEF Distinct, k

LEMMA DistinctLonger ==
    ASSUME NEW l \in Lists, NEW c \in Containers, c.name \notin Names(l), Distinct(l)
    PROVE  Distinct(<<c>> \o l) /\ Distinct(Append(l, c))
<1>1. /\ Len(l) \in Nat /\ DOMAIN l = 1..Len(l)
      /\ \A i \in 1..Len(l) : l[i].name # c.name
  BY Listed DEF Names
<1>2. Distinct(<<c>> \o l)
  <2> DEFINE k == <<c>> \o l
  <2>1. /\ k \in Lists /\ Len(k) = Len(l) + 1 /\ k[1] = c /\ DOMAIN k = 1..Len(l) + 1
        /\ \A i \in 2..Len(l) + 1 : i - 1 \in 1..Len(l) /\ k[i] = l[i - 1]
    BY Prepended, Listed
  <2> HIDE DEF k
  <2>2. ASSUME NEW i \in DOMAIN k, NEW j \in DOMAIN k, k[i].name = k[j].name
        PROVE  i = j
    <3>1. (i = 1 \/ i \in 2..Len(l) + 1) /\ (j = 1 \/ j \in 2..Len(l) + 1)
      BY <1>1, <2>1
    <3>2. CASE i = 1 \/ j = 1
      BY <1>1, <2>1, <2>2, <3>1, <3>2
    <3>3. CASE i \in 2..Len(l) + 1 /\ j \in 2..Len(l) + 1
      <4>1. i - 1 = j - 1
        BY <1>1, <2>1, <2>2, <3>3 DEF Distinct
      <4> QED
        BY <1>1, <3>3, <4>1
    <3> QED
      BY <3>1, <3>2, <3>3
  <2>3. Distinct(k)
    BY <2>2 DEF Distinct
  <2> QED
    BY <2>3 DEF k
<1>3. Distinct(Append(l, c))
  <2> DEFINE k == Append(l, c)
  <2>1. /\ k \in Lists /\ Len(k) = Len(l) + 1 /\ k[Len(l) + 1] = c /\ DOMAIN k = 1..Len(l) + 1
        /\ \A i \in 1..Len(l) : k[i] = l[i]
    BY Appended, Listed
  <2> HIDE DEF k
  <2>2. ASSUME NEW i \in DOMAIN k, NEW j \in DOMAIN k, k[i].name = k[j].name
        PROVE  i = j
    <3>1. /\ i = Len(l) + 1 \/ i \in 1..Len(l)
          /\ j = Len(l) + 1 \/ j \in 1..Len(l)
      BY <1>1, <2>1
    <3> QED
      BY <1>1, <2>1, <2>2, <3>1 DEF Distinct
  <2>3. Distinct(k)
    BY <2>2 DEF Distinct
  <2> QED
    BY <2>3 DEF k
<1> QED
  BY <1>2, <1>3

LEMMA DistinctInPod ==
    ASSUME NEW p \in PodSpecs
    PROVE  DistinctNames(p) <=> /\ Distinct(p.inits) /\ Distinct(p.ctrs)
                                /\ Names(p.inits) \cap Names(p.ctrs) = {}
<1> DEFINE u == p.inits
<1> DEFINE v == p.ctrs
<1> DEFINE w == u \o v
<1>1. u \in Lists /\ v \in Lists
  BY DEF PodSpecs, Lists
<1> HIDE DEF u, v
<1>2. w \in Lists /\ Len(w) = Len(u) + Len(v)
  BY <1>1 DEF Lists
<1>3. \A i \in 1..Len(u) + Len(v) : w[i] = IF i <= Len(u) THEN u[i] ELSE v[i - Len(u)]
  BY <1>1 DEF Lists
<1>4. /\ Len(u) \in Nat /\ Len(v) \in Nat
      /\ DOMAIN u = 1..Len(u) /\ DOMAIN v = 1..Len(v) /\ DOMAIN w = 1..Len(u) + Len(v)
  BY <1>1, <1>2, Listed
<1> HIDE DEF w
<1>5. /\ \A i \in 1..Len(u) : i \in DOMAIN w /\ w[i] = u[i]
      /\ \A i \in 1..Len(v) : i + Len(u) \in DOMAIN w /\ w[i + Len(u)] = v[i]
  BY <1>3, <1>4
<1>6. ASSUME NEW i \in DOMAIN w
      PROVE  \/ i \in 1..Len(u) /\ w[i] = u[i]
             \/ i - Len(u) \in 1..Len(v) /\ w[i] = v[i - Len(u)]
  BY <1>3, <1>4
<1>7. DistinctNames(p) <=> Distinct(w)
  BY DEF DistinctNames, Distinct, AllContainers, u, v, w
<1>8. ASSUME Distinct(w)
      PROVE  Distinct(u) /\ Distinct(v) /\ Names(u) \cap Names(v) = {}
  <2>1. Distinct(u)
    BY <1>4, <1>5, <1>8 DEF Distinct
  <2>2. Distinct(v)
    <3>1. ASSUME NEW i \in 1..Len(v), NEW j \in 1..Len(v), v[i].name = v[j].name PROVE i = j
      <4>1. i + Len(u) = j + Len(u)
        BY <1>5, <1>8, <3>1 DEF Distinct
      <4> QED
        BY <1>4, <4>1
    <3> QED
      BY <1>4, <3>1 DEF Distinct
  <2>3. ASSUME NEW i \in 1..Len(u), NEW j \in 1..Len(v), u[i].name = v[j].name PROVE FALSE
    <3>1. i = j + Len(u)
      BY <1>5, <1>8, <2>3 DEF Distinct
    <3> QED
      BY <1>4, <3>1
  <2> QED
    BY <1>4, <2>1, <2>2, <2>3 DEF Names
<1>9. ASSUME Distinct(u), Distinct(v), Names(u) \cap Names(v) = {}
      PROVE  Distinct(w)
  <2>1. ASSUME NEW i \in 1..Len(u), NEW j \in 1..Len(v) PROVE u[i].name # v[j].name
    BY <1>4, <1>9 DEF Names
  <2>2. ASSUME NEW i \in DOMAIN w, NEW j \in DOMAIN w, w[i].name = w[j].name PROVE i = j
    <3>1. CASE i \in 1..Len(u) /\ w[i] = u[i] /\ j \in 1..Len(u) /\ w[j] = u[j]
      BY <1>4, <1>9, <2>2, <3>1 DEF Distinct
    <3>2. CASE /\ i - Len(u) \in 1..Len(v) /\ w[i] = v[i - Len(u)]
               /\ j - Len(u) \in 1..Len(v) /\ w[j] = v[j - Len(u)]
      <4>1. i - Len(u) = j - Len(u)
        BY <1>4, <1>9, <2>2, <3>2 DEF Distinct
      <4> QED
        BY <1>4, <4>1
    <3>3. CASE \/ /\ i \in 1..Len(u) /\ w[i] = u[i]
                  /\ j - Len(u) \in 1..Len(v) /\ w[j] = v[j - Len(u)]
               \/ /\ j \in 1..Len(u) /\ w[j] = u[j]
                  /\ i - Len(u) \in 1..Len(v) /\ w[i] = v[i - Len(u)]
      BY <2>1, <2>2, <3>3
    <3> QED
      BY <1>6, <3>1, <3>2, <3>3
  <2> QED
    BY <2>2 DEF Distinct
<1> QED
  BY <1>7, <1>8, <1>9 DEF u, v

-----------------------------------------------------------------------------
\* What some theorems ask of the constants.  The replicas found the same server
\* version.
UniformReplicas == \A n \in NativeChoices : n = {} \/ n = Replicas

\* A pod comes with distinct names, and neither it nor another webhook with a
\* container named like one of the webhook's.
NoProxyYet ==
    /\ \A p \in Pods : /\ DistinctNames(p)
                       /\ {Proxy, ProxyInit} \cap (Names(p.inits) \cup Names(p.ctrs)) = {}
    /\ \A c \in Added : c.name \notin {Proxy, ProxyInit}

\* No container comes with an endpoint of its own.
NoOwnEndpoint ==
    /\ \A p \in Pods : \A c \in Members(p) : c.env["tokenProxy"] = Absent
    /\ \A c \in Added : c.env["tokenProxy"] = Absent

\* The client IDs that containers come with are those the property sets aside.
Presets == {Absent, Empty, "preset"}
OnlyPresets == \A p \in Pods : \A c \in Members(p) : c.env["client"] \in Presets

-----------------------------------------------------------------------------
\* The webhook need not be called again before the pod is stored.
Settled ==
    \/ admission = "created"
    \/ admission = "mutating" /\ calls > 0 /\ ~touched

Counted ==
    /\ native \in NativeChoices
    /\ admission = "mutating" /\ calls = 2 => ~touched
    /\ admission = "created" => calls > 0

\* What the last call left, with the account it read.
Complete(p, a) ==
    /\ a \in AccountSpecs
    /\ p.volume \in Volumes
    /\ p.volume.expiration \in
          MinServiceAccountTokenExpiration .. MaxServiceAccountTokenExpiration
    /\ p.expiry # Absent => p.volume.expiration = p.expiry
    /\ p.volume.audience = "custom" <=> IsUsingCustomTokenEndpoint(p)
    /\ \A c \in Members(p) : c.name \notin p.skip =>
          /\ c.mount = "reserved"
          /\ \A v \in EnvVars :
                DesiredEnv(a, IsUsingCustomTokenEndpoint(p))[v] # Empty => c.env[v] # Absent

Ready == Settled => Complete(pod, last.account)

\* The endpoint is only there when it is the webhook's.
Endpoint ==
    NoOwnEndpoint =>
        \A c \in Members(pod) :
            \/ c.env["tokenProxy"] = Absent
            \/ IsUsingCustomTokenEndpoint(pod) /\ c.env["tokenProxy"] = Config.tokenProxy

First == ProxyFirst(pod.inits) /\ ProxyFirst(pod.ctrs)

\* The proxies are at most in the one place that replicas put them.
OneProxy ==
    UniformReplicas /\ NoProxyYet =>
        /\ DistinctNames(pod)
        /\ ProxyInit \notin Names(pod.ctrs)
        /\ \A m \in Replicas : /\ m \in native => Proxy \notin Names(pod.ctrs)
                               /\ m \notin native => Proxy \notin Names(pod.inits)

Placed ==
    UniformReplicas /\ admission = "mutating" /\ calls > 0 =>
        \A m \in Replicas : InPlace(pod, m)

\* The containers that identity is about.
Own(p) == {c \in Members(p) : c.from # "other"}

\* Beside the presets there is one client ID, and the second call can only add
\* another one when there is none.
Identity(p, n, x) ==
    /\ \A c \in Own(p) : c.env["client"] \in Presets \cup {x}
    /\ \/ x \in Presets \/ n = 2
       \/ \A c \in Own(p) : c.name \notin p.skip => c.env["client"] # Absent

Identified ==
    UniformReplicas /\ OnlyPresets =>
        /\ calls = 0 => \A c \in Own(pod) : c.env["client"] \in Presets
        /\ calls > 0 /\ admission # "rejected" => \E x \in Text : Identity(pod, calls, x)

IInv ==
    /\ TypeOK /\ Counted /\ ReinvocationIdempotent /\ Ready /\ Endpoint /\ First
    /\ OneProxy /\ Placed /\ Identified

-----------------------------------------------------------------------------
\* A container after a call, from the one before it.
LEMMA CallMembers ==
    ASSUME NEW p \in PodSpecs, NEW a \in AccountSpecs, NEW m, ~Invalid(p, a),
           NEW k \in Members(Mutated(p, a, m))
    PROVE  \E c \in Containers :
              LET d == DesiredEnv(a, IsUsingCustomTokenEndpoint(p))
              IN  /\ \/ c \in Members(p)
                     \/ ShouldInjectProxySidecar(p) /\ c.from = "azwi" /\ \A v \in EnvVars : c.env[v] = Absent
                  /\ WithProxy(p, m) = p => c \in Members(p)
                  /\ k \in Containers /\ k.name = c.name /\ k.from = c.from
                  /\ c.name \in p.skip => k = c
                  /\ c.name \notin p.skip =>
                        /\ k.mount = "reserved"
                        /\ \A v \in EnvVars :
                              k.env[v] = IF c.env[v] = Absent /\ d[v] # Empty
                                         THEN d[v] ELSE c.env[v]
<1> DEFINE w == WithProxy(p, m)
<1> DEFINE d == DesiredEnv(a, IsUsingCustomTokenEndpoint(p))
<1>1. d \in Desired
  BY MutatedEffect
<1>2. /\ Members(Mutated(p, a, m))
            = {IF c.name \in p.skip THEN c ELSE Configured(c, d) : c \in Members(w)}
      /\ Members(w) \subseteq Members(p) \cup {Injected(ProxyInit), Injected(Proxy)}
      /\ Members(w) \subseteq Containers
  BY MembersOfMutated
<1>3. ~ShouldInjectProxySidecar(p) => w = p
  BY WithProxyEffect
<1>4. \A c \in {Injected(ProxyInit), Injected(Proxy)} :
         c.from = "azwi" /\ \A v \in EnvVars : c.env[v] = Absent
  BY InjectedContainers, Constants
<1> HIDE DEF w, d
<1>5. PICK c \in Members(w) : k = IF c.name \in p.skip THEN c ELSE Configured(c, d)
  BY <1>2
<1>6. c \in Containers /\ (w = p => c \in Members(p))
  BY <1>2, <1>5
<1>7. \/ c \in Members(p)
      \/ ShouldInjectProxySidecar(p) /\ c.from = "azwi" /\ \A v \in EnvVars : c.env[v] = Absent
  BY <1>2, <1>3, <1>4, <1>5
<1>8. /\ k \in Containers /\ k.name = c.name /\ k.from = c.from
      /\ c.name \in p.skip => k = c
      /\ c.name \notin p.skip =>
            /\ k.mount = "reserved"
            /\ \A v \in EnvVars :
                  k.env[v] = IF c.env[v] = Absent /\ d[v] # Empty THEN d[v] ELSE c.env[v]
  <2>1. CASE c.name \in p.skip
    BY <1>5, <1>6, <2>1
  <2>2. CASE c.name \notin p.skip
    <3>1. k = Configured(c, d)
      BY <1>5, <2>2
    <3> QED
      BY <1>1, <1>6, <2>2, <3>1, ConfiguredEffect
  <2> QED
    BY <2>1, <2>2
<1> QED
  BY <1>6, <1>7, <1>8 DEF w, d

\* A call leaves the pod complete.
LEMMA CallCompletes ==
    ASSUME NEW p \in PodSpecs, NEW a \in AccountSpecs, NEW m, ~Invalid(p, a)
    PROVE  Complete(Mutated(p, a, m), a)
<1> DEFINE q == Mutated(p, a, m)
<1> DEFINE d == DesiredEnv(a, IsUsingCustomTokenEndpoint(p))
<1>1. /\ q \in PodSpecs /\ SameAnnotations(p, q) /\ d \in Desired
      /\ q.volume = ProjectedVolume(p, a) /\ q.volume \in Volumes
  BY MutatedEffect
<1>2. q.skip = p.skip /\ IsUsingCustomTokenEndpoint(q) = IsUsingCustomTokenEndpoint(p)
  BY <1>1 DEF SameAnnotations, IsUsingCustomTokenEndpoint
<1>3. /\ q.volume.expiration = TokenExpiration(p, a)
      /\ q.volume.audience = IF IsUsingCustomTokenEndpoint(p) THEN "custom" ELSE "default"
  BY <1>1 DEF ProjectedVolume
<1>4. /\ q.volume.expiration
           \in MinServiceAccountTokenExpiration .. MaxServiceAccountTokenExpiration
      /\ q.expiry # Absent => q.volume.expiration = q.expiry
  BY <1>1, <1>3, Lifetime DEF Invalid, SameAnnotations
<1>5. q.volume.audience = "custom" <=> IsUsingCustomTokenEndpoint(q)
  BY <1>2, <1>3
<1>6. ASSUME NEW k \in Members(q), k.name \notin q.skip
      PROVE  k.mount = "reserved" /\ \A v \in EnvVars : d[v] # Empty => k.env[v] # Absent
  <2>1. PICK c \in Containers :
          /\ k.name = c.name
          /\ c.name \notin p.skip =>
                /\ k.mount = "reserved"
                /\ \A v \in EnvVars :
                      k.env[v] = IF c.env[v] = Absent /\ d[v] # Empty THEN d[v] ELSE c.env[v]
    BY <1>6, CallMembers
  <2>2. \A v \in EnvVars : d[v] # Absent
    BY <1>1, Constants DEF Desired
  <2> QED
    BY <1>2, <1>6, <2>1, <2>2
<1> HIDE DEF q, d
<1> QED
  BY <1>1, <1>2, <1>4, <1>5, <1>6 DEF Complete, q, d

\* A call adds no endpoint but its own.
LEMMA CallEndpoint ==
    ASSUME NEW p \in PodSpecs, NEW a \in AccountSpecs, NEW m, ~Invalid(p, a),
           \A c \in Members(p) :
              \/ c.env["tokenProxy"] = Absent
              \/ IsUsingCustomTokenEndpoint(p) /\ c.env["tokenProxy"] = Config.tokenProxy,
           NEW k \in Members(Mutated(p, a, m))
    PROVE  \/ k.env["tokenProxy"] = Absent
           \/ IsUsingCustomTokenEndpoint(p) /\ k.env["tokenProxy"] = Config.tokenProxy
<1> DEFINE d == DesiredEnv(a, IsUsingCustomTokenEndpoint(p))
<1>1. "tokenProxy" \in EnvVars
  BY DEF EnvVars
<1>2. d["tokenProxy"] = IF IsUsingCustomTokenEndpoint(p) THEN Config.tokenProxy ELSE Empty
  BY <1>1 DEF DesiredEnv
<1>3. PICK c \in Containers :
        /\ c \in Members(p) \/ \A v \in EnvVars : c.env[v] = Absent
        /\ c.name \in p.skip => k = c
        /\ c.name \notin p.skip =>
              \A v \in EnvVars :
                 k.env[v] = IF c.env[v] = Absent /\ d[v] # Empty THEN d[v] ELSE c.env[v]
  BY CallMembers
<1> HIDE DEF d
<1>4. \/ c.env["tokenProxy"] = Absent
      \/ IsUsingCustomTokenEndpoint(p) /\ c.env["tokenProxy"] = Config.tokenProxy
  BY <1>1, <1>3
<1>5. CASE c.name \in p.skip
  BY <1>3, <1>4, <1>5
<1>6. CASE c.name \notin p.skip
  BY <1>1, <1>2, <1>3, <1>4, <1>6
<1> QED
  BY <1>5, <1>6

\* A call adds the proxies where they are not, when no other replica puts them
\* elsewhere.
LEMMA CallNames ==
    ASSUME NEW p \in PodSpecs, NEW a \in AccountSpecs, NEW m, ~Invalid(p, a),
           DistinctNames(p), ProxyInit \notin Names(p.ctrs),
           m \in native => Proxy \notin Names(p.ctrs),
           m \notin native => Proxy \notin Names(p.inits)
    PROVE  LET q == Mutated(p, a, m)
           IN  /\ DistinctNames(q) /\ ProxyInit \notin Names(q.ctrs)
               /\ m \in native => Proxy \notin Names(q.ctrs)
               /\ m \notin native => Proxy \notin Names(q.inits)
<1> DEFINE q == Mutated(p, a, m)
<1> DEFINE w == WithProxy(p, m)
<1> DEFINE d == DesiredEnv(a, IsUsingCustomTokenEndpoint(p))
<1>1. /\ q \in PodSpecs /\ w \in PodSpecs /\ d \in Desired
      /\ q.inits = MutateContainers(w.inits, d, p.skip)
      /\ q.ctrs = MutateContainers(w.ctrs, d, p.skip)
  BY MutatedEffect
<1>2. w.inits \in Lists /\ w.ctrs \in Lists /\ p.inits \in Lists /\ p.ctrs \in Lists
  BY <1>1 DEF PodSpecs, Lists
<1>3. /\ Names(q.inits) = Names(w.inits) /\ Names(q.ctrs) = Names(w.ctrs)
      /\ Distinct(w.inits) => Distinct(q.inits)
      /\ Distinct(w.ctrs) => Distinct(q.ctrs)
  BY <1>1, <1>2, NamesOfMutated, DistinctMutated
<1>4. Distinct(p.inits) /\ Distinct(p.ctrs) /\ Names(p.inits) \cap Names(p.ctrs) = {}
  BY DistinctInPod
<1>5. ASSUME NEW l \in Lists, Distinct(l)
      PROVE  /\ InjectProxyInit(l) \in Lists /\ Distinct(InjectProxyInit(l))
             /\ Names(InjectProxyInit(l)) \subseteq Names(l) \cup {ProxyInit}
             /\ InjectProxySidecar(l) \in Lists /\ Distinct(InjectProxySidecar(l))
             /\ Names(InjectProxySidecar(l)) \subseteq Names(l) \cup {Proxy}
  <2>1. /\ Injected(ProxyInit) \in Containers /\ Injected(ProxyInit).name = ProxyInit
        /\ Injected(Proxy) \in Containers /\ Injected(Proxy).name = Proxy
    BY InjectedContainers, Constants
  <2>2. InjectProxyInit(l) \in Lists /\ InjectProxySidecar(l) \in Lists
    BY InjectEffect
  <2>3. Distinct(InjectProxyInit(l)) /\ Names(InjectProxyInit(l)) \subseteq Names(l) \cup {ProxyInit}
    BY <1>5, <2>1, DistinctLonger, NamesOfLonger DEF InjectProxyInit
  <2>4. Distinct(InjectProxySidecar(l)) /\ Names(InjectProxySidecar(l)) \subseteq Names(l) \cup {Proxy}
    BY <1>5, <2>1, DistinctLonger, NamesOfLonger DEF InjectProxySidecar
  <2> QED
    BY <2>2, <2>3, <2>4
<1>6. /\ Distinct(w.inits) /\ Distinct(w.ctrs) /\ Names(w.inits) \cap Names(w.ctrs) = {}
      /\ ProxyInit \notin Names(w.ctrs)
      /\ m \in native => Proxy \notin Names(w.ctrs)
      /\ m \notin native => Proxy \notin Names(w.inits)
  <2> DEFINE i == InjectProxyInit(p.inits)
  <2>1. i \in Lists /\ Distinct(i) /\ Names(i) \subseteq Names(p.inits) \cup {ProxyInit}
    BY <1>2, <1>4, <1>5
  <2>2. /\ Distinct(InjectProxySidecar(i))
        /\ Names(InjectProxySidecar(i)) \subseteq Names(i) \cup {Proxy}
        /\ Distinct(InjectProxySidecar(p.ctrs))
        /\ Names(InjectProxySidecar(p.ctrs)) \subseteq Names(p.ctrs) \cup {Proxy}
    BY <1>2, <1>4, <1>5, <2>1
  <2>3. \/ w = p
        \/ m \in native /\ w.inits = InjectProxySidecar(i) /\ w.ctrs = p.ctrs
        \/ m \notin native /\ w.inits = i /\ w.ctrs = InjectProxySidecar(p.ctrs)
    BY WithProxyEffect
  <2> HIDE DEF i, w
  <2>4. CASE w = p
    BY <1>4, <2>4
  <2>5. CASE m \in native /\ w.inits = InjectProxySidecar(i) /\ w.ctrs = p.ctrs
    BY <1>4, <2>1, <2>2, <2>5
  <2>6. CASE m \notin native /\ w.inits = i /\ w.ctrs = InjectProxySidecar(p.ctrs)
    BY <1>4, <2>1, <2>2, <2>6, Constants
  <2> QED
    BY <2>3, <2>4, <2>5, <2>6
<1> HIDE DEF w, d
<1> QED
  BY <1>1, <1>3, <1>6, DistinctInPod

\* The first call gives out one client ID, the second one at most completes it.
LEMMA FirstIdentity ==
    ASSUME NEW p \in PodSpecs, NEW a \in AccountSpecs, NEW m, ~Invalid(p, a),
           \A c \in Own(p) : c.env["client"] \in Presets
    PROVE  \E x \in Text : Identity(Mutated(p, a, m), 1, x)
<1> DEFINE q == Mutated(p, a, m)
<1> DEFINE d == DesiredEnv(a, IsUsingCustomTokenEndpoint(p))
<1>1. "client" \in EnvVars
  BY DEF EnvVars
<1>2. d["client"] = a.client /\ a.client \in Text
  BY <1>1 DEF DesiredEnv, AccountSpecs
<1>3. q.skip = p.skip
  BY MutatedEffect DEF SameAnnotations
<1> HIDE DEF d
<1>4. ASSUME NEW k \in Own(q)
      PROVE  /\ k.env["client"] \in Presets \cup {a.client}
             /\ a.client # Empty /\ k.name \notin q.skip => k.env["client"] # Absent
  <2>1. PICK c \in Containers :
          /\ c \in Members(p) \/ \A v \in EnvVars : c.env[v] = Absent
          /\ k.name = c.name /\ k.from = c.from
          /\ c.name \in p.skip => k = c
          /\ c.name \notin p.skip =>
                \A v \in EnvVars :
                   k.env[v] = IF c.env[v] = Absent /\ d[v] # Empty THEN d[v] ELSE c.env[v]
    BY CallMembers DEF Own, d
  <2>2. c.env["client"] \in Presets
    BY <1>1, <2>1 DEF Own, Presets
  <2>3. CASE c.name \in p.skip
    BY <1>3, <2>1, <2>2, <2>3
  <2>4. CASE c.name \notin p.skip
    <3>1. k.env["client"] = IF c.env["client"] = Absent /\ a.client # Empty
                            THEN a.client ELSE c.env["client"]
      BY <1>1, <1>2, <2>1, <2>4
    <3> QED
      BY <1>2, <2>2, <3>1, Constants
  <2> QED
    BY <2>3, <2>4
<1> HIDE DEF q
<1>5. a.client = Empty => a.client \in Presets
  BY DEF Presets
<1>6. Identity(q, 1, a.client)
  BY <1>4, <1>5 DEF Identity
<1> QED
  BY <1>2, <1>6 DEF q

LEMMA SecondIdentity ==
    ASSUME NEW p \in PodSpecs, NEW a \in AccountSpecs, NEW m, ~Invalid(p, a),
           WithProxy(p, m) = p, NEW x \in Text, Identity(p, 1, x)
    PROVE  \E y \in Text : Identity(Mutated(p, a, m), 2, y)
<1> DEFINE q == Mutated(p, a, m)
<1> DEFINE d == DesiredEnv(a, IsUsingCustomTokenEndpoint(p))
<1>1. "client" \in EnvVars
  BY DEF EnvVars
<1>2. d["client"] = a.client /\ a.client \in Text
  BY <1>1 DEF DesiredEnv, AccountSpecs
<1> HIDE DEF d
<1> DEFINE y == IF x \in Presets THEN a.client ELSE x
<1>3. ASSUME NEW k \in Own(q) PROVE k.env["client"] \in Presets \cup {y}
  <2>1. PICK c \in Containers :
          /\ c \in Members(p)
          /\ k.from = c.from
          /\ c.name \in p.skip => k = c
          /\ c.name \notin p.skip =>
                \A v \in EnvVars :
                   k.env[v] = IF c.env[v] = Absent /\ d[v] # Empty THEN d[v] ELSE c.env[v]
    BY CallMembers DEF Own, d
  <2>2. /\ c.env["client"] \in Presets \cup {x}
        /\ x \in Presets \/ (c.name \notin p.skip => c.env["client"] # Absent)
    BY <2>1 DEF Own, Identity
  <2>3. CASE c.name \in p.skip
    BY <2>1, <2>2, <2>3
  <2>4. CASE c.name \notin p.skip
    <3>1. k.env["client"] = IF c.env["client"] = Absent /\ a.client # Empty
                            THEN a.client ELSE c.env["client"]
      BY <1>1, <1>2, <2>1, <2>4
    <3> QED
      BY <2>2, <2>4, <3>1
  <2> QED
    BY <2>3, <2>4
<1>4. y \in Text
  BY <1>2
<1> HIDE DEF q, y
<1>5. Identity(q, 2, y)
  BY <1>3 DEF Identity
<1> QED
  BY <1>4, <1>5 DEF q

-----------------------------------------------------------------------------
\* A list to which another webhook may have added a container.
LEMMA LongerList ==
    ASSUME NEW l \in Lists, NEW c \in Containers, c.from = "other",
           NEW k, k = l \/ k = Append(l, c) \/ k = <<c>> \o l
    PROVE  /\ k \in Lists
           /\ Range(k) \subseteq Range(l) \cup {c}
           /\ Names(l) \subseteq Names(k) /\ Names(k) \subseteq Names(l) \cup {c.name}
           /\ ProxyFirst(l) => ProxyFirst(k)
           /\ Kept(l, k)
           /\ Distinct(l) /\ c.name \notin Names(l) => Distinct(k)
<1>1. /\ Append(l, c) \in Lists /\ <<c>> \o l \in Lists
      /\ Range(Append(l, c)) = Range(l) \cup {c} /\ Range(<<c>> \o l) = Range(l) \cup {c}
  BY Appended, Prepended, RangeOfAppended, RangeOfPrepended
<1>2. Names(Append(l, c)) = Names(l) \cup {c.name} /\ Names(<<c>> \o l) = Names(l) \cup {c.name}
  BY NamesOfLonger
<1>3. ProxyFirst(l) => ProxyFirst(Append(l, c)) /\ ProxyFirst(<<c>> \o l)
  BY ProxyFirstLonger
<1>4. KeptAt(0, l, l) /\ KeptAt(0, l, Append(l, c)) /\ KeptAt(1, l, <<c>> \o l)
  BY KeptLonger
<1>5. Kept(l, l) /\ Kept(l, Append(l, c)) /\ Kept(l, <<c>> \o l)
  BY <1>4 DEF Kept, KeptAt
<1>6. Distinct(l) /\ c.name \notin Names(l) => Distinct(Append(l, c)) /\ Distinct(<<c>> \o l)
  BY DistinctLonger
<1>7. CASE k = l
  BY <1>5, <1>7
<1>8. CASE k = Append(l, c)
  BY <1>1, <1>2, <1>3, <1>5, <1>6, <1>8
<1>9. CASE k = <<c>> \o l
  BY <1>1, <1>2, <1>3, <1>5, <1>6, <1>9
<1> QED
  BY <1>7, <1>8, <1>9

\* What another webhook does to the pod.
LEMMA OtherEffect ==
    ASSUME TypeOK, OtherWebhook
    PROVE  \E c \in Added :
              /\ c.name \notin Names(pod.inits) \cup Names(pod.ctrs)
              /\ pod' \in PodSpecs /\ SameAnnotations(pod, pod') /\ pod'.volume = pod.volume
              /\ pod'.inits \in {pod.inits, Append(pod.inits, c), <<c>> \o pod.inits}
              /\ pod'.ctrs \in {pod.ctrs, Append(pod.ctrs, c), <<c>> \o pod.ctrs}
              /\ pod'.inits = pod.inits \/ pod'.ctrs = pod.ctrs
<1>1. PICK c \in Added :
        /\ c.name \notin Names(AllContainers(pod))
        /\ \/ pod' = [pod EXCEPT !.inits = Append(@, c)]
           \/ pod' = [pod EXCEPT !.inits = <<c>> \o @]
           \/ pod' = [pod EXCEPT !.ctrs = Append(@, c)]
           \/ pod' = [pod EXCEPT !.ctrs = <<c>> \o @]
  BY DEF OtherWebhook
<1>2. c \in Containers /\ pod \in PodSpecs
  BY Constants DEF TypeOK
<1>3. pod.inits \in Lists /\ pod.ctrs \in Lists
  BY <1>2 DEF PodSpecs, Lists
<1>4. c.name \notin Names(pod.inits) \cup Names(pod.ctrs)
  <2>1. AllContainers(pod) \in Lists
    BY <1>3 DEF AllContainers, Lists
  <2>2. Names(AllContainers(pod)) = {x.name : x \in Members(pod)}
    BY <1>2, <2>1, Listed, MembersOfPod
  <2>3. /\ Names(pod.inits) = {x.name : x \in Range(pod.inits)}
        /\ Names(pod.ctrs) = {x.name : x \in Range(pod.ctrs)}
    BY <1>3, Listed
  <2> QED
    BY <1>1, <2>2, <2>3 DEF Members
<1>5. ASSUME NEW l \in Lists, pod' = [pod EXCEPT !.inits = l]
      PROVE  /\ pod' \in PodSpecs /\ SameAnnotations(pod, pod') /\ pod'.volume = pod.volume
             /\ pod'.inits = l /\ pod'.ctrs = pod.ctrs
  BY <1>2, <1>5 DEF PodSpecs, Lists, SameAnnotations
<1>6. ASSUME NEW l \in Lists, pod' = [pod EXCEPT !.ctrs = l]
      PROVE  /\ pod' \in PodSpecs /\ SameAnnotations(pod, pod') /\ pod'.volume = pod.volume
             /\ pod'.inits = pod.inits /\ pod'.ctrs = l
  BY <1>2, <1>6 DEF PodSpecs, Lists, SameAnnotations
<1>7. /\ Append(pod.inits, c) \in Lists /\ <<c>> \o pod.inits \in Lists
      /\ Append(pod.ctrs, c) \in Lists /\ <<c>> \o pod.ctrs \in Lists
  BY <1>2, <1>3, Appended, Prepended
<1>8. \/ \E l \in {Append(pod.inits, c), <<c>> \o pod.inits} : pod' = [pod EXCEPT !.inits = l]
      \/ \E l \in {Append(pod.ctrs, c), <<c>> \o pod.ctrs} : pod' = [pod EXCEPT !.ctrs = l]
  BY <1>1, <1>2 DEF PodSpecs
<1> QED
  BY <1>1, <1>4, <1>5, <1>6, <1>7, <1>8

-----------------------------------------------------------------------------
LEMMA IInvInit == Init => IInv
<1> SUFFICES ASSUME Init PROVE IInv
  OBVIOUS
<1>1. pod \in Pods /\ pod \in PodSpecs
  BY Constants DEF Init
<1>2. TypeOK
  <2>1. native \in SUBSET Replicas /\ updates \in 0..MaxUpdates
    BY ConfigAssumption, PodAssumption DEF Init
  <2>2. touched \in BOOLEAN
    BY Zenon DEF Init
  <2>4. admission \in {"mutating", "created", "rejected"} /\ calls \in 0..2
    BY DEF Init
  <2>3. account \in Accounts \cup {Absent} /\ cached \in [Replicas -> Accounts \cup {Absent}]
    BY DEF Init
  <2> QED
    BY <1>1, <2>1, <2>2, <2>3, <2>4 DEF TypeOK
<1>3. pod.inits \in Lists /\ pod.ctrs \in Lists
  BY <1>1 DEF PodSpecs, Lists
<1>4. Counted /\ ReinvocationIdempotent /\ Ready /\ Placed
  BY DEF Init, Counted, ReinvocationIdempotent, Ready, Settled, Placed
<1>5. \A c \in Members(pod) : c.from = "user"
  BY <1>1, PodAssumption DEF Members
<1>6. Endpoint
  BY <1>1 DEF Endpoint, NoOwnEndpoint
<1>7. First
  <2>1. ASSUME NEW l \in Lists, \A c \in Range(l) : c.from = "user" PROVE ProxyFirst(l)
    <3>1. \A i \in DOMAIN l : l[i].from = "user"
      BY <2>1, Listed
    <3> QED
      BY <3>1 DEF ProxyFirst
  <2> QED
    BY <1>3, <1>5, <2>1 DEF First, Members
<1>8. OneProxy
  BY <1>1 DEF OneProxy, NoProxyYet
<1>9. Identified
  BY <1>1 DEF Init, Identified, OnlyPresets, Own
<1> QED
  BY <1>2, <1>4, <1>6, <1>7, <1>8, <1>9 DEF IInv

\* A call that changes the pod.
LEMMA HandleStep ==
    ASSUME IInv, NEW m \in Replicas, NEW a \in AccountSpecs,
           Due, ~Invalid(pod, a), pod' = Mutated(pod, a, m),
           calls' = calls + 1, touched' = FALSE, last' = [account |-> a, replica |-> m],
           admission' = admission, UNCHANGED <<native, account, cached, updates>>
    PROVE  IInv'
<1>1. /\ TypeOK /\ pod \in PodSpecs /\ Counted
      /\ admission = "mutating" /\ (calls = 0 \/ calls = 1)
  BY DEF IInv, TypeOK, Due
<1>2. pod' \in PodSpecs /\ SameAnnotations(pod, pod')
  BY <1>1, MutatedEffect
<1>3. TypeOK'
  <2>1. calls' \in 0..2
    BY <1>1
  <2>2. touched' \in BOOLEAN
    BY Zenon
  <2> QED
    BY <1>1, <1>2, <2>1, <2>2 DEF TypeOK
<1>4. Counted'
  BY <1>1 DEF Counted
<1>5. last'.account = a /\ last'.replica = m
  OBVIOUS
<1>6. ReinvocationIdempotent'
  <2>1. Mutated(pod', a, m) = pod'
    BY <1>1, MutatedTwice
  <2>2. Mutated(pod, last.account, last.replica)' = Mutated(pod', last'.account, last'.replica)
    BY DEF Mutated, WithProxy
  <2> QED
    BY <1>5, <2>1, <2>2 DEF ReinvocationIdempotent
<1>7. Ready'
  BY <1>1, <1>5, CallCompletes DEF Ready
<1>8. Endpoint'
  <2>1. ASSUME NoOwnEndpoint, NEW k \in Members(pod')
        PROVE  \/ k.env["tokenProxy"] = Absent
               \/ IsUsingCustomTokenEndpoint(pod) /\ k.env["tokenProxy"] = Config.tokenProxy
    <3>1. \A c \in Members(pod) :
             \/ c.env["tokenProxy"] = Absent
             \/ IsUsingCustomTokenEndpoint(pod) /\ c.env["tokenProxy"] = Config.tokenProxy
      BY <2>1 DEF IInv, Endpoint
    <3> QED
      BY <1>1, <2>1, <3>1, CallEndpoint
  <2>2. IsUsingCustomTokenEndpoint(pod') = IsUsingCustomTokenEndpoint(pod)
    BY <1>2 DEF SameAnnotations, IsUsingCustomTokenEndpoint
  <2> QED
    BY <2>1, <2>2 DEF Endpoint
<1>9. First'
  BY <1>1, CallKeepsProxyFirst DEF IInv, First
\* All replicas put the proxies into the same list.
<1>10. UniformReplicas => \A n \in Replicas : n \in native <=> m \in native
  BY <1>1 DEF UniformReplicas, Counted
<1>11. OneProxy'
  <2>1. ASSUME UniformReplicas, NoProxyYet
        PROVE  /\ DistinctNames(pod') /\ ProxyInit \notin Names(pod'.ctrs)
               /\ m \in native => Proxy \notin Names(pod'.ctrs)
               /\ m \notin native => Proxy \notin Names(pod'.inits)
    <3>1. /\ DistinctNames(pod) /\ ProxyInit \notin Names(pod.ctrs)
          /\ m \in native => Proxy \notin Names(pod.ctrs)
          /\ m \notin native => Proxy \notin Names(pod.inits)
      BY <2>1 DEF IInv, OneProxy
    <3> QED
      BY <1>1, <3>1, CallNames
  <2> QED
    BY <1>10, <2>1 DEF OneProxy
<1>12. Placed'
  <2>1. InPlace(pod', m)
    BY <1>1, CallInjects
  <2>2. ASSUME UniformReplicas, NEW n \in Replicas PROVE InPlace(pod, n)'
    BY <1>10, <2>1, <2>2 DEF InPlace
  <2> QED
    BY <2>2 DEF Placed
<1>13. Identified'
  <2>1. ASSUME UniformReplicas, OnlyPresets
        PROVE  \E x \in Text : Identity(pod', calls', x)
    <3>1. CASE calls = 0
      <4>1. \A c \in Own(pod) : c.env["client"] \in Presets
        BY <2>1, <3>1 DEF IInv, Identified
      <4>2. calls' = 1
        BY <3>1
      <4> QED
        BY <1>1, <4>1, <4>2, FirstIdentity
    <3>2. CASE calls = 1
      <4>1. PICK x \in Text : Identity(pod, 1, x)
        BY <1>1, <2>1, <3>2 DEF IInv, Identified
      <4>2. WithProxy(pod, m) = pod
        BY <1>1, <2>1, <3>2, NothingToInject DEF IInv, Placed
      <4>3. calls' = 2
        BY <3>2
      <4> QED
        BY <1>1, <4>1, <4>2, <4>3, SecondIdentity
    <3> QED
      BY <1>1, <3>1, <3>2
  <2>2. calls' > 0
    BY <1>1
  <2> QED
    BY <2>1, <2>2 DEF Identified
<1> QED
  BY <1>3, <1>4, <1>6, <1>7, <1>8, <1>9, <1>11, <1>12, <1>13 DEF IInv

\* Another webhook changes the pod.
LEMMA OtherStep ==
    ASSUME IInv, OtherWebhook
    PROVE  IInv'
<1>1. /\ TypeOK /\ pod \in PodSpecs /\ Counted
      /\ admission = "mutating" /\ (calls = 0 \/ calls = 1)
      /\ UNCHANGED <<admission, calls, last, native, account, cached, updates>> /\ touched' = TRUE
  BY DEF IInv, TypeOK, OtherWebhook, accountVars
<1>2. PICK c \in Added :
        /\ c.name \notin Names(pod.inits) \cup Names(pod.ctrs)
        /\ pod' \in PodSpecs /\ SameAnnotations(pod, pod') /\ pod'.volume = pod.volume
        /\ pod'.inits \in {pod.inits, Append(pod.inits, c), <<c>> \o pod.inits}
        /\ pod'.ctrs \in {pod.ctrs, Append(pod.ctrs, c), <<c>> \o pod.ctrs}
        /\ pod'.inits = pod.inits \/ pod'.ctrs = pod.ctrs
  BY <1>1, OtherEffect
<1>3. c \in Containers /\ c.from = "other"
  BY Constants
<1>4. /\ pod.inits \in Lists /\ pod.ctrs \in Lists
      /\ c.name \notin Names(pod.inits) /\ c.name \notin Names(pod.ctrs)
  BY <1>1, <1>2 DEF PodSpecs, Lists
<1>5. /\ Range(pod'.inits) \subseteq Range(pod.inits) \cup {c}
      /\ Names(pod.inits) \subseteq Names(pod'.inits)
      /\ Names(pod'.inits) \subseteq Names(pod.inits) \cup {c.name}
      /\ ProxyFirst(pod.inits) => ProxyFirst(pod'.inits)
      /\ Distinct(pod.inits) => Distinct(pod'.inits)
  <2> DEFINE l == pod.inits
  <2> DEFINE k == pod'.inits
  <2>1. /\ k = l \/ k = Append(l, c) \/ k = <<c>> \o l
        /\ l \in Lists /\ c.name \notin Names(l)
    BY <1>2, <1>4
  <2> HIDE DEF l, k
  <2>2. /\ Range(k) \subseteq Range(l) \cup {c}
        /\ Names(l) \subseteq Names(k) /\ Names(k) \subseteq Names(l) \cup {c.name}
        /\ ProxyFirst(l) => ProxyFirst(k)
        /\ Distinct(l) => Distinct(k)
    BY <1>3, <2>1, LongerList
  <2> QED
    BY <2>2 DEF l, k
<1>6. /\ Range(pod'.ctrs) \subseteq Range(pod.ctrs) \cup {c}
      /\ Names(pod.ctrs) \subseteq Names(pod'.ctrs)
      /\ Names(pod'.ctrs) \subseteq Names(pod.ctrs) \cup {c.name}
      /\ ProxyFirst(pod.ctrs) => ProxyFirst(pod'.ctrs)
      /\ Distinct(pod.ctrs) => Distinct(pod'.ctrs)
  <2> DEFINE l == pod.ctrs
  <2> DEFINE k == pod'.ctrs
  <2>1. /\ k = l \/ k = Append(l, c) \/ k = <<c>> \o l
        /\ l \in Lists /\ c.name \notin Names(l)
    BY <1>2, <1>4
  <2> HIDE DEF l, k
  <2>2. /\ Range(k) \subseteq Range(l) \cup {c}
        /\ Names(l) \subseteq Names(k) /\ Names(k) \subseteq Names(l) \cup {c.name}
        /\ ProxyFirst(l) => ProxyFirst(k)
        /\ Distinct(l) => Distinct(k)
    BY <1>3, <2>1, LongerList
  <2> QED
    BY <2>2 DEF l, k
<1>7. Members(pod') \subseteq Members(pod) \cup {c}
  BY <1>5, <1>6 DEF Members
<1>8. TypeOK'
  <2>1. touched' \in BOOLEAN
    BY <1>1
  <2> QED
    BY <1>1, <1>2, <2>1 DEF TypeOK
<1>9. Counted' /\ ReinvocationIdempotent' /\ Ready'
  BY <1>1 DEF Counted, ReinvocationIdempotent, Ready, Settled
<1>10. IsUsingCustomTokenEndpoint(pod') = IsUsingCustomTokenEndpoint(pod)
  BY <1>2 DEF SameAnnotations, IsUsingCustomTokenEndpoint
<1>11. Endpoint'
  BY <1>7, <1>10 DEF IInv, Endpoint, NoOwnEndpoint
<1>12. First'
  BY <1>5, <1>6 DEF IInv, First
<1>13. OneProxy'
  <2>1. ASSUME UniformReplicas, NoProxyYet
        PROVE  /\ DistinctNames(pod) /\ ProxyInit \notin Names(pod.ctrs)
               /\ \A m \in Replicas : /\ m \in native => Proxy \notin Names(pod.ctrs)
                                      /\ m \notin native => Proxy \notin Names(pod.inits)
    BY <2>1 DEF IInv, OneProxy
  <2>2. NoProxyYet => c.name \notin {Proxy, ProxyInit}
    BY DEF NoProxyYet
  <2>3. DistinctNames(pod) => DistinctNames(pod')
    <3>1. ASSUME DistinctNames(pod)
          PROVE  /\ Distinct(pod.inits) /\ Distinct(pod.ctrs)
                 /\ Names(pod.inits) \cap Names(pod.ctrs) = {}
      BY <1>1, <3>1, DistinctInPod
    <3>2. ASSUME DistinctNames(pod)
          PROVE  /\ Distinct(pod'.inits) /\ Distinct(pod'.ctrs)
                 /\ Names(pod'.inits) \cap Names(pod'.ctrs) = {}
      BY <1>2, <1>5, <1>6, <3>1, <3>2
    <3> QED
      BY <1>2, <3>2, DistinctInPod
  <2> QED
    BY <1>1, <1>5, <1>6, <2>1, <2>2, <2>3 DEF OneProxy
<1>14. Placed'
  <2>1. ASSUME UniformReplicas, calls > 0, NEW n \in Replicas PROVE InPlace(pod, n)'
    <3>1. InPlace(pod, n)
      BY <1>1, <2>1 DEF IInv, Placed
    <3>2. ShouldInjectProxySidecar(pod') = ShouldInjectProxySidecar(pod)
      BY <1>2 DEF SameAnnotations, ShouldInjectProxySidecar
    <3> QED
      BY <1>1, <1>5, <1>6, <3>1, <3>2 DEF InPlace
  <2> QED
    BY <1>1, <2>1 DEF Placed
<1>15. Identified'
  <2>1. Own(pod') \subseteq Own(pod) /\ pod'.skip = pod.skip
    BY <1>2, <1>3, <1>7 DEF Own, SameAnnotations
  <2>2. \A x : Identity(pod, calls, x) => Identity(pod', calls', x)
    BY <1>1, <2>1 DEF Identity
  <2> QED
    BY <1>1, <2>1, <2>2 DEF IInv, Identified
<1> QED
  BY <1>8, <1>9, <1>11, <1>12, <1>13, <1>14, <1>15 DEF IInv

\* Another webhook asks for the custom endpoint: the call that follows will put
\* it into the containers and into the volume.
LEMMA AnnotateStep ==
    ASSUME IInv, AnnotateEndpoint
    PROVE  IInv'
<1>1. /\ TypeOK /\ pod \in PodSpecs /\ Counted
      /\ admission = "mutating" /\ (calls = 0 \/ calls = 1)
      /\ UNCHANGED <<admission, calls, last, native, account, cached, updates>> /\ touched' = TRUE
  BY DEF IInv, TypeOK, AnnotateEndpoint, accountVars
<1>2. /\ pod' \in PodSpecs /\ pod'.custom = "true"
      /\ pod'.inits = pod.inits /\ pod'.ctrs = pod.ctrs
      /\ pod'.inject = pod.inject /\ pod'.skip = pod.skip
  BY <1>1, PodAssumption DEF AnnotateEndpoint, PodSpecs, Values
<1>3. Members(pod') = Members(pod) /\ Own(pod') = Own(pod)
  BY <1>2 DEF Members, Own
<1>4. TypeOK'
  <2>1. touched' \in BOOLEAN
    BY <1>1
  <2> QED
    BY <1>1, <1>2, <2>1 DEF TypeOK
<1>5. Counted' /\ ReinvocationIdempotent' /\ Ready'
  BY <1>1 DEF Counted, ReinvocationIdempotent, Ready, Settled
<1>6. IsUsingCustomTokenEndpoint(pod) => IsUsingCustomTokenEndpoint(pod')
  BY <1>2 DEF IsUsingCustomTokenEndpoint
<1>7. Endpoint'
  BY <1>3, <1>6 DEF IInv, Endpoint
<1>8. First'
  BY <1>2 DEF IInv, First
<1>9. OneProxy'
  BY <1>1, <1>2 DEF IInv, OneProxy, DistinctNames, AllContainers
<1>10. Placed'
  BY <1>1, <1>2 DEF IInv, Placed, InPlace, ShouldInjectProxySidecar
<1>11. Identified'
  <2>1. \A x : Identity(pod, calls, x) => Identity(pod', calls', x)
    BY <1>1, <1>2, <1>3 DEF Identity
  <2> QED
    BY <1>1, <1>3, <2>1 DEF IInv, Identified
<1> QED
  BY <1>4, <1>5, <1>7, <1>8, <1>9, <1>10, <1>11 DEF IInv

\* A step that leaves the pod and the last call alone: the pod is turned away,
\* stored when nothing is due, or the step is about something else.
LEMMA PodKept ==
    ASSUME IInv, TypeOK', UNCHANGED <<pod, native, touched, last>>,
           \/ admission' = "rejected" /\ calls' \in {calls, calls + 1}
           \/ UNCHANGED <<admission, calls>>
           \/ /\ admission' = "created" /\ calls' = calls
              /\ admission = "mutating" /\ calls > 0 /\ ~touched
    PROVE  IInv'
<1>1. TypeOK /\ calls \in 0..2
  BY DEF IInv, TypeOK
<1>2. Counted'
  BY <1>1 DEF IInv, Counted
<1>3. ReinvocationIdempotent'
  <2>1. Mutated(pod, last.account, last.replica)' = Mutated(pod, last.account, last.replica)
    BY DEF Mutated, WithProxy
  <2> QED
    BY <1>1, <2>1 DEF IInv, ReinvocationIdempotent
<1>4. Ready'
  BY <1>1 DEF IInv, Ready, Settled
<1>5. Endpoint' /\ First' /\ OneProxy'
  BY DEF IInv, Endpoint, First, OneProxy
<1>6. Placed'
  <2>1. \A m : InPlace(pod, m)' = InPlace(pod, m)
    BY DEF InPlace
  <2> QED
    BY <1>1, <2>1 DEF IInv, Placed
<1>7. Identified'
  <2>1. calls' = 0 => calls = 0
    BY <1>1
  <2> QED
    BY <1>1, <2>1 DEF IInv, Identified
<1> QED
  BY <1>2, <1>3, <1>4, <1>5, <1>6, <1>7 DEF IInv

LEMMA IInvStep == IInv /\ [Next]_vars => IInv'
<1> SUFFICES ASSUME IInv, [Next]_vars PROVE IInv'
  OBVIOUS
<1>1. TypeOK /\ calls \in 0..2 /\ Counted
  BY DEF IInv, TypeOK
\* A call that ends in an error.
<1>2. ASSUME Due, calls' = calls + 1, Reject, UNCHANGED accountVars PROVE IInv'
  <2>1. calls' \in 0..2
    BY <1>1, <1>2 DEF Due
  <2>2. TypeOK'
    BY <1>1, <1>2, <2>1 DEF TypeOK, Reject, accountVars
  <2> QED
    BY <1>2, <2>2, PodKept DEF Reject, accountVars
<1>3. ASSUME NEW m \in Replicas, Handle(m) PROVE IInv'
  <2> DEFINE a == AccountRead(m)
  <2>1. Due /\ calls' = calls + 1 /\ UNCHANGED accountVars
    BY <1>3 DEF Handle
  <2>2. CASE a = Absent \/ Invalid(pod, a)
    <3>1. Reject
      BY <1>3, <2>2 DEF Handle
    <3> QED
      BY <1>2, <2>1, <3>1
  <2>3. CASE a # Absent /\ ~Invalid(pod, a)
    <3>1. a \in AccountSpecs
      BY <1>1, <2>3, Constants DEF AccountRead, TypeOK
    <3>2. /\ pod' = Mutated(pod, a, m) /\ touched' = FALSE
          /\ last' = [account |-> a, replica |-> m] /\ admission' = admission
      BY <1>3, <2>3 DEF Handle
    <3> HIDE DEF a
    <3> QED
      BY <2>1, <2>3, <3>1, <3>2, HandleStep DEF accountVars
  <2> QED
    BY <2>2, <2>3
<1>4. ASSUME NEW m \in Replicas, SyncCache(m) PROVE IInv'
  <2>1. TypeOK'
    BY <1>1, <1>4 DEF SyncCache, TypeOK
  <2> QED
    BY <1>4, <2>1, PodKept DEF SyncCache
<1>5. CASE CallFails
  BY <1>2, <1>5 DEF CallFails
<1>6. CASE OtherWebhook
  BY <1>6, OtherStep
<1>10. CASE AnnotateEndpoint
  BY <1>10, AnnotateStep
<1>7. CASE Persist
  <2>1. ~touched
    BY <1>1, <1>7 DEF Persist, Due, Counted
  <2>2. UNCHANGED <<pod, calls, touched, last, native, account, cached, updates>>
    BY <1>7 DEF Persist, accountVars
  <2>3. admission' \in {"created", "rejected"} /\ admission = "mutating" /\ calls > 0
    BY <1>7 DEF Persist
  <2>4. TypeOK'
    BY <1>1, <2>2, <2>3 DEF TypeOK
  <2> QED
    BY <2>1, <2>2, <2>3, <2>4, PodKept
<1>8. CASE UpdateAccount
  <2>1. UNCHANGED <<native, pod, admission, calls, touched, cached, last>>
    BY <1>8 DEF UpdateAccount
  <2>2. account' \in Accounts \cup {Absent}
    BY <1>8 DEF UpdateAccount
  <2>3. updates' \in 0..MaxUpdates
    <3>1. updates \in 0..MaxUpdates /\ updates < MaxUpdates /\ updates' = updates + 1
      BY <1>1, <1>8 DEF UpdateAccount, TypeOK
    <3>2. MaxUpdates \in Nat
      BY PodAssumption
    <3> QED
      BY <3>1, <3>2
  <2>4. TypeOK'
    BY <1>1, <2>1, <2>2, <2>3 DEF TypeOK
  <2> QED
    BY <2>1, <2>4, PodKept
<1>9. CASE UNCHANGED vars
  <2>1. UNCHANGED <<native, pod, admission, calls, touched, account, cached, updates, last>>
    BY <1>9 DEF vars
  <2>2. TypeOK'
    BY <1>1, <2>1 DEF TypeOK
  <2> QED
    BY <2>1, <2>2, PodKept
<1> QED
  BY <1>3, <1>4, <1>5, <1>6, <1>7, <1>8, <1>9, <1>10 DEF Next

\* What any step does to the containers.
LEMMA KeptStep ==
    IInv /\ [Next]_vars
        => [Kept(pod.inits, pod'.inits) /\ Kept(pod.ctrs, pod'.ctrs)]_vars
<1> SUFFICES ASSUME IInv, [Next]_vars
             PROVE  [Kept(pod.inits, pod'.inits) /\ Kept(pod.ctrs, pod'.ctrs)]_vars
  OBVIOUS
<1>1. TypeOK /\ pod \in PodSpecs
  BY DEF IInv, TypeOK
<1>2. pod.inits \in Lists /\ pod.ctrs \in Lists
  BY <1>1 DEF PodSpecs, Lists
<1>3. ASSUME pod' = pod PROVE Kept(pod.inits, pod'.inits) /\ Kept(pod.ctrs, pod'.ctrs)
  <2>1. Injected(Proxy) \in Containers
    BY InjectedContainers, Constants
  <2>2. KeptAt(0, pod.inits, pod.inits) /\ KeptAt(0, pod.ctrs, pod.ctrs)
    BY <1>2, <2>1, KeptLonger
  <2> QED
    BY <1>3, <2>2 DEF Kept, KeptAt
<1>4. ASSUME NEW m \in Replicas, Handle(m)
      PROVE  Kept(pod.inits, pod'.inits) /\ Kept(pod.ctrs, pod'.ctrs)
  <2> DEFINE a == AccountRead(m)
  <2>1. CASE a = Absent \/ Invalid(pod, a)
    <3>1. pod' = pod
      BY <1>4, <2>1 DEF Handle, Reject
    <3> QED
      BY <1>3, <3>1
  <2>2. CASE a # Absent /\ ~Invalid(pod, a)
    <3>1. a \in AccountSpecs
      BY <1>1, <2>2, Constants DEF AccountRead, TypeOK
    <3>2. pod' = Mutated(pod, a, m)
      BY <1>4, <2>2 DEF Handle
    <3> QED
      BY <1>1, <2>2, <3>1, <3>2, CallKeeps
  <2> QED
    BY <2>1, <2>2
<1>5. ASSUME OtherWebhook
      PROVE  Kept(pod.inits, pod'.inits) /\ Kept(pod.ctrs, pod'.ctrs)
  <2>1. PICK c \in Added :
          /\ pod'.inits = pod.inits \/ pod'.inits = Append(pod.inits, c) \/ pod'.inits = <<c>> \o pod.inits
          /\ pod'.ctrs = pod.ctrs \/ pod'.ctrs = Append(pod.ctrs, c) \/ pod'.ctrs = <<c>> \o pod.ctrs
    BY <1>1, <1>5, OtherEffect
  <2>2. c \in Containers /\ c.from = "other"
    BY Constants
  <2>3. ASSUME NEW l \in Lists, NEW k, k = l \/ k = Append(l, c) \/ k = <<c>> \o l
        PROVE  Kept(l, k)
    BY <2>2, <2>3, LongerList
  <2> QED
    BY <1>2, <2>1, <2>3
<1>6. CASE CallFails \/ Persist \/ UpdateAccount \/ (\E m \in Replicas : SyncCache(m)) \/ UNCHANGED vars
  <2>1. pod' = pod
    BY <1>6 DEF CallFails, Reject, Persist, UpdateAccount, SyncCache, vars
  <2> QED
    BY <1>3, <2>1
<1>7. ASSUME AnnotateEndpoint
      PROVE  Kept(pod.inits, pod'.inits) /\ Kept(pod.ctrs, pod'.ctrs)
  <2>1. pod'.inits = pod.inits /\ pod'.ctrs = pod.ctrs
    BY <1>1, <1>7 DEF AnnotateEndpoint, PodSpecs
  <2>2. Injected(Proxy) \in Containers
    BY InjectedContainers, Constants
  <2>3. KeptAt(0, pod.inits, pod.inits) /\ KeptAt(0, pod.ctrs, pod.ctrs)
    BY <1>2, <2>2, KeptLonger
  <2> QED
    BY <2>1, <2>3 DEF Kept, KeptAt
<1> QED
  BY <1>4, <1>5, <1>6, <1>7 DEF Next

-----------------------------------------------------------------------------
LEMMA Invariance == Spec => []IInv
<1> QED
  BY IInvInit, IInvStep, PTL DEF Spec

\* Every state of admission has the types of the model: the lists a call of Handle
\* computes are lists of containers with all of their fields.
THEOREM TypeOKThm == Spec => []TypeOK
<1>1. IInv => TypeOK
  BY DEF IInv
<1> QED
  BY <1>1, Invariance, PTL

\* Calling the webhook again, with nothing changed, changes nothing, for any pod,
\* configuration and service account: what injectProxyInitContainer,
\* injectProxySidecarContainer, addEnvironmentVariables, addProjectedVolumeMount
\* and addProjectedServiceAccountTokenVolume find in place they leave as it is.
THEOREM ReinvocationIdempotentThm == Spec => []ReinvocationIdempotent
<1>1. IInv => ReinvocationIdempotent
  BY DEF IInv
<1> QED
  BY <1>1, Invariance, PTL

\* No container that was submitted is in front of the injected proxy, for any pod
\* and any containers of other webhooks (injectProxySidecarContainer prepends).
THEOREM ProxyStartsFirstThm == Spec => []ProxyStartsFirst
<1>1. IInv => ProxyStartsFirst
  BY DEF IInv, First, ProxyFirst, ProxyStartsFirst
<1> QED
  BY <1>1, Invariance, PTL

\* No call loses or reorders the containers of any pod, or overrides a variable
\* that a container has (mutateContainers, addEnvironmentVariables).
THEOREM NothingOverriddenThm == Spec => NothingOverridden
<1> QED
  BY Invariance, KeptStep, PTL DEF Spec, NothingOverridden

\* For any configuration, pods and accounts, and whatever happens to the account
\* and the informers during admission, a pod that is created is fully configured,
\* provided that no container comes with an endpoint of its own: Handle then
\* leaves it alone, and the audience need not fit.
THEOREM EveryContainerConfiguredThm ==
    ASSUME NoOwnEndpoint
    PROVE  Spec => []EveryContainerConfigured
<1>1. ASSUME IInv PROVE EveryContainerConfigured
  <2>1. ASSUME admission = "created"
        PROVE  Complete(pod, last.account) /\ pod \in PodSpecs
    BY <1>1, <2>1 DEF IInv, Ready, Settled, TypeOK
  <2>2. "tokenProxy" \in EnvVars
    BY DEF EnvVars
  <2>3. DesiredEnv(last.account, IsUsingCustomTokenEndpoint(pod))["tokenProxy"]
          = IF IsUsingCustomTokenEndpoint(pod) THEN Config.tokenProxy ELSE Empty
    BY <2>2 DEF DesiredEnv
  <2>4. Config.tokenProxy # Absent
    BY ConfigAssumption, Constants
  <2>5. ASSUME admission = "created", NEW c \in Members(pod), c.name \notin pod.skip,
               Config.tokenProxy # Empty
        PROVE  pod.volume.audience = "custom" <=> c.env["tokenProxy"] = Config.tokenProxy
    <3>1. pod.volume.audience = "custom" <=> IsUsingCustomTokenEndpoint(pod)
      BY <2>1, <2>5 DEF Complete
    <3>2. \/ c.env["tokenProxy"] = Absent
          \/ IsUsingCustomTokenEndpoint(pod) /\ c.env["tokenProxy"] = Config.tokenProxy
      BY <1>1, <2>5 DEF IInv, Endpoint
    <3>3. IsUsingCustomTokenEndpoint(pod) => c.env["tokenProxy"] # Absent
      BY <2>1, <2>2, <2>3, <2>5 DEF Complete
    <3> QED
      BY <2>4, <3>1, <3>2, <3>3
  <2>6. admission = "created" => pod.volume # Absent
    BY <2>1, Constants DEF Complete
  <2>7. admission = "created" => Range(AllContainers(pod)) = Members(pod)
    BY <2>1, MembersOfPod
  <2> QED
    BY <2>1, <2>5, <2>6, <2>7 DEF EveryContainerConfigured, Complete
<1> QED
  BY <1>1, Invariance, PTL

\* The webhook never adds a container whose name the pod already has, as long as
\* the replicas agree on useNativeSidecar and no pod or webhook brings a container
\* named like the proxy's: only one list is searched for it.
THEOREM NamesStayDistinctThm ==
    ASSUME UniformReplicas, NoProxyYet
    PROVE  Spec => []NamesStayDistinct
<1>1. IInv => NamesStayDistinct
  BY DEF IInv, OneProxy, NamesStayDistinct
<1> QED
  BY <1>1, Invariance, PTL

\* The containers of a pod, and the injected ones, get one client ID whatever
\* happens to the service account and the informers between two calls: Handle
\* reads the account once for a call, and the second call finds the client ID of
\* the first one in place.
THEOREM OneIdentityThm ==
    ASSUME UniformReplicas, OnlyPresets
    PROVE  Spec => []OneIdentity
<1>1. ASSUME IInv PROVE OneIdentity
  <2>1. SUFFICES ASSUME admission = "created",
                        NEW c \in {e \in Range(AllContainers(pod)) : e.from # "other"},
                        NEW d \in {e \in Range(AllContainers(pod)) : e.from # "other"},
                        {c.env["client"], d.env["client"]} \cap {Absent, Empty, "preset"} = {}
                 PROVE  c.env["client"] = d.env["client"]
    BY DEF OneIdentity
  <2>2. pod \in PodSpecs /\ calls > 0
    BY <1>1, <2>1 DEF IInv, TypeOK, Counted
  <2>3. c \in Own(pod) /\ d \in Own(pod)
    BY <2>1, <2>2, MembersOfPod DEF Own
  <2>4. PICK x \in Text : Identity(pod, calls, x)
    BY <1>1, <2>1, <2>2 DEF IInv, Identified
  <2>5. c.env["client"] \in Presets \cup {x} /\ d.env["client"] \in Presets \cup {x}
    BY <2>3, <2>4 DEF Identity
  <2> QED
    BY <2>1, <2>5 DEF Presets
<1> QED
  BY <1>1, Invariance, PTL

\* A lagging informer is no reason to turn a pod away, for any pod and account:
\* Handle asks the API server when the informer has no account.
THEOREM LagIsNoReasonThm == Spec => LagIsNoReason
<1>1. ASSUME NEW m \in Replicas, Handle(m), account # Absent,
             \A a \in {account, cached[m]} \ {Absent} : ~Invalid(pod, a)
      PROVE  admission' = "mutating"
  <2> DEFINE a == AccountRead(m)
  <2>1. a # Absent /\ ~Invalid(pod, a)
    BY <1>1 DEF AccountRead
  <2>2. UNCHANGED admission /\ Due
    BY <1>1, <2>1 DEF Handle
  <2> QED
    BY <2>2 DEF Due
<1>2. [Next]_vars => [\A m \in Replicas :
          /\ Handle(m)
          /\ account # Absent
          /\ \A a \in {account, cached[m]} \ {Absent} : ~Invalid(pod, a)
          => admission' = "mutating"]_vars
  BY <1>1
<1> QED
  BY <1>2, PTL DEF Spec, LagIsNoReason
=============================================================================
