--------------------------- MODULE Detect_proofs ---------------------------
(***************************************************************************)
(* Proofs about Detect for any clusters, bindings and identities, any      *)
(* number of runs and whatever is deleted meanwhile.                       *)
(***************************************************************************)
EXTENDS Detect, WellFoundedInduction, NaturalsInduction, TLAPS

\* What createResourceFile makes of a spec of the object.
Mig(o, spec) == Migrated([object |-> o, spec |-> spec]).spec

\* What a run keeps: pods whose owners are to be looked up, and workloads.
Open == refs \cup ({resolving} \ {None})
Entries == results \cup handled \cup ({writing} \ {None})

\* What is left to do in each stage of a run.
Stages ==
    /\ pc \in {"start", "bindings"} => toList = {} /\ results = {} /\ listed = {}
    /\ pc \in {"start", "bindings", "pods"} => resolving = None
    /\ pc \in {"start", "bindings"} => refs = {}
    /\ pc \in {"start", "bindings", "pods", "owners"} => writing = None /\ handled = {}
    /\ pc \in {"owners", "accounts", "resource", "done"} => toList = {}
    /\ pc \in {"accounts", "resource", "done"} => Open = {}
    /\ pc \in {"accounts", "done"} => writing = None
    /\ pc = "resource" => writing # None
    /\ pc = "done" => results = {}
    /\ pc = "refused" => listed = {} /\ handled = {}
    /\ \A s \in toList : Usable(s) # {}

\* Nothing controls a workload, and no pod that was listed is dropped.
Uncontrolled == \A x \in Entries : Controller(x.spec) = None
Covered == pc # "failed" => \A p \in listed : \E x \in Open \cup Entries : x.pod = p

\* The account file of a workload is written before its own.
Paired ==
    /\ writing # None => getServiceAccountFileName(writing.object) \in DOMAIN files
    /\ \A o \in Objects :
          Content(o) # None => getServiceAccountFileName(o) \in DOMAIN files

\* What a run has written stays, or is written again with another client ID.
AccountFile(x, y) == [account |-> AccountFor(x), client |-> y.client]

Written ==
    /\ pc = "resource" /\ Unique(writing.object) =>
          Holds(getServiceAccountFileName(writing.object), AccountFile(writing, writing))
    /\ pc # "failed" =>
          \A x \in handled : Unique(x.object) =>
              /\ Holds(getResourceFileName(x.object), Migrated(x))
              /\ \E y \in handled \cup ({writing} \ {None}) :
                    /\ y.object = x.object
                    /\ Holds(getServiceAccountFileName(x.object), AccountFile(x, y))

\* All specs of an object that are in the cluster, under way, written or applied
\* have the migrated form m in common, and the entries of a pod have its client ID.
InCluster(o, m) == cluster[o] # Gone => Mig(o, cluster[o]) = m

InEntries(o, m) ==
    /\ \A x \in Entries : x.object = o => Mig(o, x.spec) = m
    /\ \A x \in Open \cup Entries :
          x.pod = o => Usable(m.label) # {} /\ x.client = ClientFor(m.label)

OwnFile(o, m, f) == f = Broken \/ f = [object |-> o, spec |-> m]
OwnAccountFile(m, f) == f = Broken \/ \E c \in Clients : f = [account |-> m.account, client |-> c]

InFiles(o, m) ==
    /\ \A f \in DOMAIN files : files[f] \in [object : {o}, spec : Specs] => files[f].spec = m
    /\ Unique(o) =>
          /\ getResourceFileName(o) \in DOMAIN files
                => OwnFile(o, m, files[getResourceFileName(o)])
          /\ getServiceAccountFileName(o) \in DOMAIN files
                => OwnAccountFile(m, files[getServiceAccountFileName(o)])

InApplied(o, m) ==
    applied # None /\ Unique(o) /\ getResourceFileName(o) \in DOMAIN applied
        => OwnFile(o, m, applied[getResourceFileName(o)])

Agree(o, m) == InCluster(o, m) /\ InEntries(o, m) /\ InFiles(o, m) /\ InApplied(o, m)

\* C is the cluster before the first run.
Since(C) ==
    /\ DOMAIN C = Objects
    /\ \A o \in Objects : Agree(o, Mig(o, C[o]))

IInv ==
    /\ TypeOK /\ bindings \in Bindings
    /\ Stages /\ Uncontrolled /\ Covered /\ Paired /\ Written
    /\ \E C \in Clusters : Since(C)

-----------------------------------------------------------------------------
\* What the proofs need of the constants.
LEMMA OfCluster ==
    ASSUME NEW C \in Clusters
    PROVE  /\ \A o \in DOMAIN C : o.name \in Names /\ C[o] \in SpecsOf(DOMAIN C)
           /\ None \notin DOMAIN C /\ None \notin SpecsOf(DOMAIN C)
           /\ None \notin RefsOf(DOMAIN C) /\ None \notin ResultsOf(DOMAIN C)
           /\ Gone \notin SpecsOf(DOMAIN C)
           /\ Broken \notin AccountFiles /\ Broken \notin ResourceFiles(DOMAIN C)
  BY DetectAssumption

LEMMA Bounds == MaxRuns \in Nat \ {0} /\ MaxDeletes \in Nat
  BY DetectAssumption

\* The two files of an object have different names.
LEMMA TwoFiles ==
    ASSUME NEW o, o.name \in Names
    PROVE  getServiceAccountFileName(o) # getResourceFileName(o)
<1>1. o.name \in Seq(Parts) /\ "serviceaccount" \in Parts
  BY DetectAssumption
<1>2. Len(Append(o.name, "serviceaccount")) = Len(o.name) + 1 /\ Len(o.name) \in Nat
  BY <1>1
<1>3. Append(o.name, "serviceaccount") # o.name
  BY <1>2
<1> QED
  BY <1>3 DEF getServiceAccountFileName, getResourceFileName

\* What is in a file of one kind is not in one of the other.
LEMMA FileKinds ==
    ASSUME NEW a, NEW c, NEW o, NEW s
    PROVE  [account |-> a, client |-> c] # [object |-> o, spec |-> s]
<1>1. DOMAIN [account |-> a, client |-> c] = {"account", "client"}
  OBVIOUS
<1>2. DOMAIN [object |-> o, spec |-> s] = {"object", "spec"}
  OBVIOUS
<1>3. "account" \notin {"object", "spec"}
  OBVIOUS
<1> QED
  BY <1>1, <1>2, <1>3

-----------------------------------------------------------------------------
\* addProxyContainer and addProxyInitContainer: a container more at most, and
\* none the second time.
LEMMA AddTwice ==
    ASSUME NEW S, NEW l \in Seq(S), NEW image \in S
    PROVE  /\ AddUnlessThere(l, image) \in Seq(S)
           /\ AddUnlessThere(AddUnlessThere(l, image), image) = AddUnlessThere(l, image)
<1>1. CASE \E i \in 1..Len(l) : IsImage(l[i], image)
  BY <1>1 DEF AddUnlessThere
<1>2. CASE ~ \E i \in 1..Len(l) : IsImage(l[i], image)
  <2> DEFINE k == Append(l, image)
  <2>1. AddUnlessThere(l, image) = k
    BY <1>2 DEF AddUnlessThere
  <2>2. k \in Seq(S) /\ Len(k) = Len(l) + 1 /\ k[Len(l) + 1] = image /\ Len(l) \in Nat
    OBVIOUS
  <2> HIDE DEF k
  <2>3. Len(l) + 1 \in 1..Len(k)
    BY <2>2
  <2>4. \E i \in 1..Len(k) : IsImage(k[i], image)
    BY <2>2, <2>3 DEF IsImage
  <2>5. AddUnlessThere(k, image) = k
    BY <2>4 DEF AddUnlessThere
  <2> QED
    BY <2>1, <2>2, <2>5
<1> QED
  BY <1>1, <1>2

\* The migrated form, field by field.
LEMMA MigIs ==
    ASSUME NEW x, NEW O, x.spec \in SpecsOf(O)
    PROVE  Migrated(x) =
             [object |-> x.object,
              spec |-> [label |-> x.spec.label, account |-> AccountFor(x), refs |-> x.spec.refs,
                        containers |-> AddUnlessThere(x.spec.containers, "proxy"),
                        initContainers |-> AddUnlessThere(x.spec.initContainers, "proxy-init")]]
<1> DEFINE s == x.spec
<1> DEFINE k == AddUnlessThere(s.containers, "proxy")
<1> DEFINE l == AddUnlessThere(s.initContainers, "proxy-init")
<1> DEFINE a == AccountFor(x)
<1>1. Migrated(x) =
        [object |-> x.object,
         spec |-> [s EXCEPT !.account = a, !.containers = k, !.initContainers = l]]
  BY DEF Migrated, SpecsOf
<1>2. s \in SpecsOf(O)
  OBVIOUS
<1> HIDE DEF s, k, l, a
<1>3. [s EXCEPT !.account = a, !.containers = k, !.initContainers = l]
        = [label |-> s.label, account |-> a, refs |-> s.refs,
           containers |-> k, initContainers |-> l]
  <2>1. [s EXCEPT !.account = a, !.containers = k, !.initContainers = l]
          \in [label : {s.label}, account : {a}, refs : {s.refs},
              containers : {k}, initContainers : {l}]
    BY <1>2 DEF SpecsOf
  <2>2. ASSUME NEW p, NEW q, NEW u, NEW v, NEW w,
               NEW r \in [label : {p}, account : {q}, refs : {u}, containers : {v},
                          initContainers : {w}]
        PROVE  r = [label |-> p, account |-> q, refs |-> u, containers |-> v,
                    initContainers |-> w]
    OBVIOUS
  <2> QED
    BY <2>1, <2>2
<1> QED
  BY <1>1, <1>3 DEF s, k, l, a

\* The form of a workload in a file is that of its spec.
LEMMA MigratedIsMig ==
    ASSUME NEW x, NEW O, x.spec \in SpecsOf(O)
    PROVE  /\ Migrated(x) = [object |-> x.object, spec |-> Mig(x.object, x.spec)]
           /\ Mig(x.object, x.spec).account = AccountFor(x)
<1> DEFINE y == [object |-> x.object, spec |-> x.spec]
<1>1. y.object = x.object /\ y.spec = x.spec /\ AccountFor(y) = AccountFor(x)
  BY DEF AccountFor
<1> HIDE DEF y
<1>2. Migrated(y) = Migrated(x)
  BY <1>1, MigIs
<1>3. Mig(x.object, x.spec) = Migrated(y).spec
  BY DEF Mig, y
<1> QED
  BY <1>2, <1>3, MigIs

\* Migrating keeps a spec, its label and owners, and has no effect twice.
LEMMA MigKeeps ==
    ASSUME NEW O, NEW o, o.name \in Names, NEW s \in SpecsOf(O)
    PROVE  /\ Mig(o, s) \in SpecsOf(O)
           /\ Mig(o, s).account \in Names
           /\ Mig(o, s).label = s.label /\ Mig(o, s).refs = s.refs
           /\ Mig(o, Mig(o, s)) = Mig(o, s)
<1> DEFINE x == [object |-> o, spec |-> s]
<1> DEFINE a == AccountFor(x)
<1> DEFINE k == AddUnlessThere(s.containers, "proxy")
<1> DEFINE l == AddUnlessThere(s.initContainers, "proxy-init")
<1> DEFINE t == [label |-> s.label, account |-> a, refs |-> s.refs,
                 containers |-> k, initContainers |-> l]
<1> DEFINE y == [object |-> o, spec |-> t]
<1>1. /\ s.label \in Selectors \cup {None} /\ s.account \in Names \cup {Default}
      /\ s.refs \in SUBSET [object : O, controller : BOOLEAN]
      /\ s.containers \in Seq(Images) /\ s.initContainers \in Seq(Images)
  BY DEF SpecsOf
<1>2. a \in Names
  BY <1>1 DEF AccountFor
<1>3. /\ k \in Seq(Images) /\ AddUnlessThere(k, "proxy") = k
      /\ l \in Seq(Images) /\ AddUnlessThere(l, "proxy-init") = l
  <2>1. "proxy" \in Images /\ "proxy-init" \in Images
    BY DEF Images
  <2> QED
    BY <1>1, <2>1, AddTwice
<1>4. Mig(o, s) = t
  <2>1. x.object = o /\ x.spec = s /\ x.spec \in SpecsOf(O)
    OBVIOUS
  <2> HIDE DEF x
  <2>2. Migrated(x).spec = t
    BY <2>1, MigIs
  <2> QED
    BY <2>2 DEF Mig, x
<1> HIDE DEF x, a, k, l
<1>5. t \in SpecsOf(O)
  BY <1>1, <1>2, <1>3 DEF SpecsOf
<1>6. y.object = o /\ y.spec = t
  OBVIOUS
<1>7. AccountFor(y) = a
  <2>1. y.spec.account = a
    BY <1>6
  <2>2. a # Default
    BY <1>2, DetectAssumption
  <2> QED
    BY <2>1, <2>2 DEF AccountFor
<1>8. Mig(o, t) = t
  <2> HIDE DEF y
  <2>1. Migrated(y).spec = t
    BY <1>3, <1>5, <1>6, <1>7, MigIs
  <2> QED
    BY <2>1 DEF Mig, y
<1> QED
  BY <1>2, <1>4, <1>5, <1>8

\* The first usable binding of a selector.
LEMMA FirstBinding ==
    ASSUME bindings \in Bindings, NEW s, Usable(s) # {}
    PROVE  /\ ClientFor(s) \in Clients
           /\ \E b \in Usable(s), i \in Identities :
                 /\ b.identity = i.name /\ i.client = ClientFor(s)
                 /\ \A c \in Usable(s) : b.name <= c.name
<1> DEFINE T == {b.name : b \in Usable(s)}
<1>1. \A b \in Usable(s) : b.name \in Nat
  BY DetectAssumption DEF Usable
<1>2. T # {} /\ T \subseteq Nat
  BY <1>1
<1>3. \E n \in T : \A k \in T : ~(<<k, n>> \in OpToRel(<, Nat))
  BY <1>2, NatLessThanWellFounded, WFMin
<1>4. PICK n \in T : \A k \in T : n <= k
  <2>1. PICK n \in T : \A k \in T : ~(<<k, n>> \in OpToRel(<, Nat))
    BY <1>3
  <2>2. ASSUME NEW k \in T PROVE n <= k
    <3>1. n \in Nat /\ k \in Nat
      BY <1>2
    <3>2. k < n => <<k, n>> \in OpToRel(<, Nat)
      BY <3>1 DEF OpToRel
    <3>3. ~(k < n)
      BY <2>1, <3>2
    <3> QED
      BY <3>1, <3>3
  <2> QED
    BY <2>2
<1>5. \E x \in Usable(s) : \A y \in Usable(s) : x.name <= y.name
  BY <1>4
<1> DEFINE b == CHOOSE x \in Usable(s) : \A y \in Usable(s) : x.name <= y.name
<1>6. b \in Usable(s) /\ \A y \in Usable(s) : b.name <= y.name
  BY <1>5
<1> DEFINE i == CHOOSE j \in Identities : j.name = b.identity
<1>7. ClientFor(s) = i.client
  BY DEF ClientFor
<1> HIDE DEF b
<1>8. i \in Identities /\ i.name = b.identity
  BY <1>6 DEF Usable
<1> HIDE DEF i
<1> QED
  BY <1>6, <1>7, <1>8 DEF Clients

-----------------------------------------------------------------------------
\* The constants' facts for the cluster of a reachable state.
LEMMA OfState ==
    ASSUME NEW C \in Clusters, DOMAIN C = Objects
    PROVE  /\ \A o \in Objects : o.name \in Names /\ C[o] \in Specs
           /\ None \notin Objects /\ None \notin Specs
           /\ None \notin RefsOf(Objects) /\ None \notin ResultsOf(Objects)
           /\ Gone \notin Specs
           /\ Broken \notin AccountFiles /\ Broken \notin ResourceFiles(Objects)
<1>1. /\ \A o \in DOMAIN C : o.name \in Names /\ C[o] \in SpecsOf(DOMAIN C)
      /\ None \notin DOMAIN C /\ None \notin SpecsOf(DOMAIN C)
      /\ None \notin RefsOf(DOMAIN C) /\ None \notin ResultsOf(DOMAIN C)
      /\ Gone \notin SpecsOf(DOMAIN C)
      /\ Broken \notin AccountFiles /\ Broken \notin ResourceFiles(DOMAIN C)
  BY OfCluster
<1> QED
  BY <1>1, Zenon DEF Specs

LEMMA ControllerIs ==
    ASSUME NEW O, NEW s \in SpecsOf(O)
    PROVE  Controller(s) \in O \cup {None}
<1>1. CASE \E r \in s.refs : r.controller
  <2>1. (CHOOSE r \in s.refs : r.controller) \in s.refs
    BY <1>1
  <2>2. s.refs \subseteq [object : O, controller : BOOLEAN]
    BY DEF SpecsOf
  <2> QED
    BY <1>1, <2>1, <2>2 DEF Controller
<1>2. CASE ~ \E r \in s.refs : r.controller
  BY <1>2 DEF Controller
<1> QED
  BY <1>1, <1>2

\* What depends only on which objects and bindings there are.
LEMMA Frame ==
    ASSUME Objects' = Objects, bindings' = bindings
    PROVE  /\ Specs' = Specs
           /\ \A o : Unique(o)' = Unique(o)
           /\ \A s : Usable(s)' = Usable(s)
           /\ \A s : ClientFor(s)' = ClientFor(s)
<1>1. Specs' = Specs
  BY DEF Specs
<1>2. \A o : Unique(o)' = Unique(o)
  BY DEF Unique
<1>3. \A s : Usable(s)' = Usable(s)
  BY DEF Usable
<1>4. \A s : ClientFor(s)' = ClientFor(s)
  BY <1>3 DEF ClientFor
<1> QED
  BY <1>1, <1>2, <1>3, <1>4

\* The parts of the invariant that a step leaves alone.
LEMMA KeepCluster ==
    ASSUME UNCHANGED cluster
    PROVE  Objects' = Objects /\ \A o, m : InCluster(o, m) => InCluster(o, m)'
  BY DEF Objects, InCluster

LEMMA KeepEntries ==
    ASSUME Objects' = Objects, bindings' = bindings,
           Entries' \subseteq Entries, (Open \cup Entries)' \subseteq Open \cup Entries
    PROVE  \A o, m : InEntries(o, m) => InEntries(o, m)'
<1>1. /\ \A s : Usable(s)' = Usable(s)
      /\ \A s : ClientFor(s)' = ClientFor(s)
  BY Frame
<1> QED
  BY <1>1 DEF InEntries

LEMMA KeepFiles ==
    ASSUME Objects' = Objects, bindings' = bindings, UNCHANGED files
    PROVE  \A o, m : InFiles(o, m) => InFiles(o, m)'
<1>1. Specs' = Specs /\ \A o : Unique(o)' = Unique(o)
  BY Frame
<1> QED
  BY <1>1 DEF InFiles

LEMMA KeepApplied ==
    ASSUME Objects' = Objects, bindings' = bindings, UNCHANGED applied
    PROVE  \A o, m : InApplied(o, m) => InApplied(o, m)'
<1>1. \A o : Unique(o)' = Unique(o)
  BY Frame
<1> QED
  BY <1>1 DEF InApplied

LEMMA KeepPaired ==
    ASSUME Objects' = Objects, bindings' = bindings, UNCHANGED files,
           writing' \in {writing, None}, Paired
    PROVE  Paired'
<1>1. Specs' = Specs
  BY Frame
<1>2. \A o : Content(o)' = Content(o)
  BY <1>1 DEF Content
<1> QED
  BY <1>2 DEF Paired

LEMMA KeepWritten ==
    ASSUME Objects' = Objects, bindings' = bindings, UNCHANGED <<files, writing, handled>>,
           pc' = "resource" => pc = "resource", pc' # "failed" => pc # "failed", Written
    PROVE  Written'
<1>1. \A o : Unique(o)' = Unique(o)
  BY Frame
<1>2. \A f, c : Holds(f, c)' = Holds(f, c)
  BY DEF Holds
<1> QED
  BY <1>1, <1>2 DEF Written

\* A run that has handled nothing and is at no file, or has failed, has nothing
\* to show.
LEMMA NoneWritten ==
    ASSUME pc' # "resource", pc' = "failed" \/ handled' = {}
    PROVE  Written'
  BY DEF Written

\* A step keeps the invariant when it keeps its parts.
LEMMA Keep ==
    ASSUME NEW C \in Clusters, DOMAIN C = Objects, Objects' = Objects,
           bindings \in Bindings, bindings' = bindings,
           TypeOK', Stages', Uncontrolled', Covered', Paired', Written',
           \A o \in Objects : /\ InCluster(o, Mig(o, C[o]))' /\ InEntries(o, Mig(o, C[o]))'
                              /\ InFiles(o, Mig(o, C[o]))' /\ InApplied(o, Mig(o, C[o]))'
    PROVE  IInv'
<1>1. \A o \in Objects' : Agree(o, Mig(o, C[o]))'
  BY DEF Agree
<1>2. Since(C)'
  BY <1>1 DEF Since
<1> QED
  BY <1>2 DEF IInv

\* The same when neither cluster nor files change.
LEMMA KeepLookup ==
    ASSUME NEW C \in Clusters, Since(C), UNCHANGED <<cluster, bindings, files, applied>>,
           bindings \in Bindings,
           TypeOK', Stages', Uncontrolled', Covered', Paired', Written',
           \A o \in Objects : InEntries(o, Mig(o, C[o]))'
    PROVE  IInv'
<1>1. DOMAIN C = Objects /\ Objects' = Objects /\ bindings' = bindings
  BY DEF Since, Objects
<1>2. ASSUME NEW o \in Objects
      PROVE  /\ InCluster(o, Mig(o, C[o]))' /\ InFiles(o, Mig(o, C[o]))'
             /\ InApplied(o, Mig(o, C[o]))'
  <2> DEFINE m == Mig(o, C[o])
  <2>1. InCluster(o, m) /\ InFiles(o, m) /\ InApplied(o, m)
    BY DEF Since, Agree
  <2> HIDE DEF m
  <2>2. InCluster(o, m)' /\ InFiles(o, m)' /\ InApplied(o, m)'
    BY <1>1, <2>1, KeepCluster, KeepFiles, KeepApplied
  <2> QED
    BY <2>2 DEF m
<1> QED
  BY <1>1, <1>2, Keep

\* The entries of Since are still fine when there are no new ones.
LEMMA SinceEntries ==
    ASSUME NEW C \in Clusters, Since(C), Objects' = Objects, bindings' = bindings,
           Entries' \subseteq Entries, (Open \cup Entries)' \subseteq Open \cup Entries
    PROVE  \A o \in Objects : InEntries(o, Mig(o, C[o]))'
<1> SUFFICES ASSUME NEW o \in Objects PROVE InEntries(o, Mig(o, C[o]))'
  OBVIOUS
<1> DEFINE m == Mig(o, C[o])
<1>1. InEntries(o, m)
  BY DEF Since, Agree
<1> HIDE DEF m
<1>2. InEntries(o, m)'
  BY <1>1, KeepEntries
<1> QED
  BY <1>2 DEF m

-----------------------------------------------------------------------------
LEMMA IInvInit == Init => IInv
<1> SUFFICES ASSUME Init PROVE IInv
  OBVIOUS
<1>1. PICK C \in Clusters : cluster = C
  BY DEF Init
<1>2. DOMAIN C = Objects
  BY <1>1 DEF Objects
<1>3. /\ \A o \in Objects : o.name \in Names /\ C[o] \in Specs
      /\ None \notin Objects /\ None \notin Specs
      /\ None \notin RefsOf(Objects) /\ None \notin ResultsOf(Objects)
      /\ Gone \notin Specs
  BY <1>2, OfState
<1>4. /\ bindings \in Bindings /\ files = <<>> /\ applied = None /\ pc = "start"
      /\ toList = {} /\ refs = {} /\ resolving = None /\ listed = {}
      /\ results = {} /\ writing = None /\ handled = {} /\ deletes = 0 /\ runs = 1
  BY DEF Init
<1>5. DOMAIN files = {}
  BY <1>4
<1>6. Open = {} /\ Entries = {}
  BY <1>4 DEF Open, Entries
<1>7. TypeOK
  <2>1. \A o \in Objects : cluster[o] \in Specs \cup {Gone}
    BY <1>1, <1>3
  <2>2. accounts \in [Names -> Clients \cup {None, Gone}]
    BY DEF Init
  <2>3. deletes \in 0..MaxDeletes /\ runs \in 1..MaxRuns
    BY <1>4, Bounds
  <2> QED
    BY <1>4, <1>5, <2>1, <2>2, <2>3 DEF TypeOK
<1>8. Stages /\ Uncontrolled /\ Covered
  BY <1>4, <1>6 DEF Stages, Uncontrolled, Covered
<1>9. Paired /\ Written
  BY <1>4, <1>5 DEF Paired, Written, Content
<1>10. ASSUME NEW o \in Objects PROVE Agree(o, Mig(o, C[o]))
  BY <1>1, <1>4, <1>5, <1>6 DEF Agree, InCluster, InEntries, InFiles, InApplied
<1>11. Since(C)
  BY <1>2, <1>10 DEF Since
<1> QED
  BY <1>4, <1>7, <1>8, <1>9, <1>11 DEF IInv

-----------------------------------------------------------------------------
\* A run reads and writes the files of its entries only.
LEMMA WriteIs ==
    ASSUME NEW name, NEW content, Write(name, content)
    PROVE  /\ DOMAIN files' = DOMAIN files \cup {name}
           /\ files'[name] = content
           /\ \A f \in DOMAIN files : f # name => files'[f] = files[f]
  BY DEF Write

\* What is written for an entry, whole or broken, is what InFiles and Paired ask
\* of the files of every object.
LEMMA FilesKept ==
    ASSUME IInv, NEW C \in Clusters, Since(C), UNCHANGED <<cluster, bindings>>,
           NEW x \in Entries, NEW name, NEW content, Write(name, content),
           \/ /\ name = getServiceAccountFileName(x.object)
              /\ content \in {AccountFile(x, x), Broken}
           \/ /\ name = getResourceFileName(x.object)
              /\ content \in {Migrated(x), Broken}
              /\ getServiceAccountFileName(x.object) \in DOMAIN files
    PROVE  /\ \A f \in DOMAIN files' :
                 files'[f] \in AccountFiles \cup ResourceFiles(Objects) \cup {Broken}
           /\ \A o \in Objects : InFiles(o, Mig(o, C[o]))'
           /\ \A o \in Objects :
                 Content(o)' # None => getServiceAccountFileName(o) \in DOMAIN files'
<1>1. TypeOK /\ Paired
  BY DEF IInv
<1>2. DOMAIN C = Objects /\ \A o \in Objects : Agree(o, Mig(o, C[o]))
  BY DEF Since
<1>3. Objects' = Objects /\ bindings' = bindings
  BY DEF Objects
<1>4. Specs' = Specs /\ \A o : Unique(o)' = Unique(o)
  BY <1>3, Frame
<1>5. /\ \A o \in Objects : o.name \in Names /\ C[o] \in Specs
      /\ None \notin ResultsOf(Objects)
      /\ Broken \notin AccountFiles /\ Broken \notin ResourceFiles(Objects)
  BY <1>2, OfState
<1>6. x \in ResultsOf(Objects)
  BY <1>1, <1>5 DEF Entries, TypeOK
<1>7. x.object \in Objects /\ x.client \in Clients /\ x.spec \in SpecsOf(Objects)
  BY <1>6 DEF ResultsOf
<1>8. /\ DOMAIN files' = DOMAIN files \cup {name}
      /\ files'[name] = content
      /\ \A f \in DOMAIN files : f # name => files'[f] = files[f]
  BY WriteIs
<1> DEFINE w == x.object
<1> DEFINE n == Mig(w, C[w])
<1>9. n = Mig(w, x.spec)
  BY <1>2, <1>7 DEF Agree, InEntries
<1>10. /\ Migrated(x) = [object |-> w, spec |-> n]
       /\ n.account = AccountFor(x)
       /\ n \in Specs /\ AccountFor(x) \in Names
  <2>1. /\ Migrated(x) = [object |-> w, spec |-> Mig(w, x.spec)]
        /\ Mig(w, x.spec).account = AccountFor(x)
    BY <1>7, MigratedIsMig
  <2>2. Mig(w, x.spec) \in SpecsOf(Objects) /\ Mig(w, x.spec).account \in Names
    BY <1>5, <1>7, MigKeeps
  <2> QED
    BY <1>9, <2>1, <2>2 DEF Specs
<1>11. /\ content \in {AccountFile(x, x), Migrated(x), Broken}
       /\ content = AccountFile(x, x) => name # getResourceFileName(w)
       /\ content = Migrated(x) => name = getResourceFileName(w)
                                   /\ getServiceAccountFileName(w) \in DOMAIN files
       /\ name \in {getServiceAccountFileName(w), getResourceFileName(w)}
  <2>1. getServiceAccountFileName(w) # getResourceFileName(w)
    BY <1>5, <1>7, TwoFiles
  <2>2. AccountFile(x, x) # Migrated(x)
    BY <1>10, FileKinds DEF AccountFile
  <2>3. AccountFile(x, x) \in AccountFiles /\ Migrated(x) \in ResourceFiles(Objects)
    BY <1>7, <1>10 DEF AccountFile, AccountFiles, ResourceFiles, Specs
  <2>4. AccountFile(x, x) # Broken /\ Migrated(x) # Broken
    BY <1>5, <2>3
  <2> QED
    BY <2>1, <2>2, <2>4
<1>12. content \in AccountFiles \cup ResourceFiles(Objects) \cup {Broken}
  BY <1>7, <1>10, <1>11 DEF AccountFile, AccountFiles, ResourceFiles, Specs
<1>13. \A f \in DOMAIN files' :
          files'[f] \in AccountFiles \cup ResourceFiles(Objects) \cup {Broken}
  BY <1>1, <1>8, <1>12 DEF TypeOK
<1>14. ASSUME NEW o \in Objects, content \in [object : {o}, spec : Specs]
       PROVE  content = Migrated(x) /\ o = w /\ content.spec = n
  <2>1. content = [object |-> o, spec |-> content.spec] /\ content.spec \in Specs
    BY <1>14
  <2>2. content # AccountFile(x, x)
    BY <2>1, FileKinds DEF AccountFile
  <2>3. content # Broken
    BY <1>5, <2>1 DEF ResourceFiles, Specs
  <2>4. content = [object |-> w, spec |-> n]
    BY <1>10, <1>11, <2>2, <2>3
  <2> QED
    BY <1>10, <1>11, <2>1, <2>2, <2>3, <2>4
<1>15. ASSUME NEW o \in Objects PROVE InFiles(o, Mig(o, C[o]))'
  <2> DEFINE m == Mig(o, C[o])
  <2>1. InFiles(o, m)
    BY <1>2 DEF Agree
  <2>2. content \in [object : {o}, spec : Specs] => content.spec = m
    BY <1>14
  <2>3. ASSUME Unique(o), name \in {getResourceFileName(o), getServiceAccountFileName(o)}
        PROVE  o = w
    BY <1>7, <1>11, <2>3 DEF Unique
  <2>4. ASSUME Unique(o), name = getResourceFileName(o) PROVE OwnFile(o, m, content)
    <3>1. o = w
      BY <2>3, <2>4
    <3>2. content \in {Migrated(x), Broken}
      BY <1>11, <2>4, <3>1
    <3> QED
      BY <1>10, <3>1, <3>2 DEF OwnFile
  <2>5. ASSUME Unique(o), name = getServiceAccountFileName(o) PROVE OwnAccountFile(m, content)
    <3>1. o = w
      BY <2>3, <2>5
    <3>2. getServiceAccountFileName(w) # getResourceFileName(w)
      BY <1>5, <1>7, TwoFiles
    <3>3. content \in {AccountFile(x, x), Broken}
      BY <1>11, <2>5, <3>1, <3>2
    <3> QED
      BY <1>7, <1>10, <3>1, <3>3 DEF OwnAccountFile, AccountFile
  <2> HIDE DEF m
  <2>6. \A f \in DOMAIN files' :
           files'[f] \in [object : {o}, spec : Specs'] => files'[f].spec = m
    BY <1>4, <1>8, <2>1, <2>2 DEF InFiles
  <2>7. Unique(o) /\ getResourceFileName(o) \in DOMAIN files'
           => OwnFile(o, m, files'[getResourceFileName(o)])
    BY <1>8, <2>1, <2>4 DEF InFiles
  <2>8. Unique(o) /\ getServiceAccountFileName(o) \in DOMAIN files'
           => OwnAccountFile(m, files'[getServiceAccountFileName(o)])
    BY <1>8, <2>1, <2>5 DEF InFiles
  <2>9. InFiles(o, m)'
    BY <1>4, <2>6, <2>7, <2>8 DEF InFiles
  <2> QED
    BY <2>9 DEF m
<1>16. ASSUME NEW o \in Objects, Content(o)' # None
       PROVE  getServiceAccountFileName(o) \in DOMAIN files'
  <2> DEFINE f == getResourceFileName(o)
  <2>1. f \in DOMAIN files' /\ files'[f] \in [object : {o}, spec : Specs]
    BY <1>4, <1>16 DEF Content
  <2>2. CASE name = f
    <3>1. content \in [object : {o}, spec : Specs]
      BY <1>8, <2>1, <2>2
    <3> QED
      BY <1>8, <1>11, <1>14, <3>1
  <2>3. CASE name # f
    <3>1. f \in DOMAIN files /\ files[f] \in [object : {o}, spec : Specs]
      BY <1>8, <2>1, <2>3
    <3>2. Content(o) = files[f].spec /\ files[f].spec \in Specs
      BY <3>1 DEF Content
    <3>3. None \notin Specs
      BY <1>2, OfState
    <3> QED
      BY <1>1, <1>8, <3>2, <3>3 DEF Paired
  <2> QED
    BY <2>2, <2>3
<1> QED
  BY <1>13, <1>15, <1>16

-----------------------------------------------------------------------------
\* The steps, one lemma for each.  A step that only moves on, or stops.
LEMMA PreRunStep ==
    ASSUME IInv, PreRun \/ Fails
    PROVE  IInv'
<1>1. PICK C \in Clusters : Since(C)
  BY DEF IInv
<1>2. /\ TypeOK /\ Stages /\ Uncontrolled /\ Covered /\ Paired /\ Written /\ bindings \in Bindings
      /\ DOMAIN C = Objects /\ \A o \in Objects : Agree(o, Mig(o, C[o]))
  BY <1>1 DEF IInv, Since
<1>3. /\ UNCHANGED <<cluster, accounts, bindings, applied, deletes, runs, toList, refs, resolving,
                     listed, files, results, writing, handled>>
      /\ pc' = "failed" \/ (pc = "start" /\ pc' \in {"bindings", "refused"})
  BY DEF PreRun, Fails, world, lookup, output
<1>4. Objects' = Objects /\ bindings' = bindings /\ Entries' = Entries /\ Open' = Open
  BY <1>3 DEF Objects, Entries, Open
<1>5. /\ Specs' = Specs
      /\ \A s : Usable(s)' = Usable(s)
  BY <1>4, Frame
<1>6. TypeOK'
  <2>1. pc' \in {"start", "bindings", "pods", "owners", "accounts", "resource"} \cup Ended
    BY <1>3 DEF Ended
  <2> QED
    BY <1>2, <1>3, <1>4, <1>5, <2>1 DEF TypeOK
<1>7. Stages'
  BY <1>2, <1>3, <1>4, <1>5 DEF Stages
<1>8. Uncontrolled' /\ Covered'
  BY <1>2, <1>3, <1>4 DEF Uncontrolled, Covered, Stages
<1>9. Paired'
  BY <1>2, <1>3, <1>4, KeepPaired
<1>10. Written'
  BY <1>2, <1>3, <1>4, KeepWritten, NoneWritten
<1>11. \A o \in Objects : InEntries(o, Mig(o, C[o]))'
  BY <1>1, <1>4, SinceEntries
<1> QED
  BY <1>1, <1>2, <1>3, <1>6, <1>7, <1>8, <1>9, <1>10, <1>11, KeepLookup

LEMMA ListBindingsStep ==
    ASSUME IInv, ListBindings
    PROVE  IInv'
<1>1. PICK C \in Clusters : Since(C)
  BY DEF IInv
<1>2. /\ TypeOK /\ Stages /\ Uncontrolled /\ Covered /\ Paired /\ Written /\ bindings \in Bindings
      /\ DOMAIN C = Objects /\ \A o \in Objects : Agree(o, Mig(o, C[o]))
  BY <1>1 DEF IInv, Since
<1>3. /\ UNCHANGED <<cluster, accounts, bindings, applied, deletes, runs, refs, resolving,
                     listed, files, results, writing, handled>>
      /\ toList' = {s \in Selectors : Usable(s) # {}}
      /\ pc = "bindings"
      /\ pc' = IF toList' # {} THEN "pods" ELSE "done"
  BY DEF ListBindings, world, output, Stage
<1>4. Objects' = Objects /\ bindings' = bindings /\ Entries' = Entries /\ Open' = Open
  BY <1>3 DEF Objects, Entries, Open
<1>5. /\ Specs' = Specs
      /\ \A s : Usable(s)' = Usable(s)
  BY <1>4, Frame
<1>6. TypeOK'
  <2>1. /\ pc' \in {"start", "bindings", "pods", "owners", "accounts", "resource"} \cup Ended
        /\ toList' \subseteq Selectors
    BY <1>3 DEF Ended
  <2> QED
    BY <1>2, <1>3, <1>4, <1>5, <2>1 DEF TypeOK
<1>7. Stages'
  <2>1. /\ toList = {} /\ refs = {} /\ resolving = None /\ results = {} /\ listed = {}
        /\ writing = None /\ handled = {}
    BY <1>2, <1>3 DEF Stages
  <2>2. Open = {}
    BY <2>1 DEF Open
  <2> QED
    BY <1>3, <1>4, <1>5, <2>1, <2>2 DEF Stages
<1>8. Uncontrolled' /\ Covered'
  BY <1>2, <1>3, <1>4 DEF Uncontrolled, Covered, Stages
<1>9. Paired'
  BY <1>2, <1>3, <1>4, KeepPaired
<1>10. Written'
  BY <1>2, <1>3, <1>4, KeepWritten
<1>11. \A o \in Objects : InEntries(o, Mig(o, C[o]))'
  BY <1>1, <1>4, SinceEntries
<1> QED
  BY <1>1, <1>2, <1>3, <1>6, <1>7, <1>8, <1>9, <1>10, <1>11, KeepLookup

LEMMA ListPodsStep ==
    ASSUME IInv, NEW s \in Selectors, ListPods(s)
    PROVE  IInv'
<1>1. PICK C \in Clusters : Since(C)
  BY DEF IInv
<1>2. /\ TypeOK /\ Stages /\ Uncontrolled /\ Covered /\ Paired /\ Written /\ bindings \in Bindings
      /\ DOMAIN C = Objects /\ \A o \in Objects : Agree(o, Mig(o, C[o]))
  BY <1>1 DEF IInv, Since
<1>3. /\ \A o \in Objects : o.name \in Names /\ C[o] \in Specs
      /\ None \notin Objects
      /\ None \notin RefsOf(Objects) /\ None \notin ResultsOf(Objects)
  BY <1>2, OfState
<1> DEFINE pods == {o \in Objects : o.kind = "Pod" /\ cluster[o] # Gone /\ cluster[o].label = s}
<1> DEFINE owned == {p \in pods : Controller(cluster[p]) # None}
<1> DEFINE ref(p) == [pod |-> p, object |-> Controller(cluster[p]), client |-> ClientFor(s)]
<1> DEFINE res(p) == [pod |-> p, object |-> p, client |-> ClientFor(s), spec |-> cluster[p]]
<1>4. /\ UNCHANGED <<cluster, accounts, bindings, applied, deletes, runs, resolving,
                     files, writing, handled>>
      /\ pc = "pods" /\ s \in toList
      /\ refs' = refs \cup {ref(p) : p \in owned}
      /\ results' = results \cup {res(p) : p \in pods \ owned}
      /\ listed' = listed \cup pods
      /\ toList' = toList \ {s}
      /\ pc' = IF toList' # {} THEN "pods" ELSE IF refs' # {} THEN "owners"
               ELSE IF results' # {} THEN "accounts" ELSE "done"
  BY DEF ListPods, world, Stage
<1>5. Objects' = Objects /\ bindings' = bindings
  BY <1>4 DEF Objects
<1>6. /\ Specs' = Specs
      /\ \A t : Usable(t)' = Usable(t)
      /\ \A t : ClientFor(t)' = ClientFor(t)
  BY <1>5, Frame
<1>7. resolving = None /\ writing = None /\ handled = {} /\ Usable(s) # {}
  BY <1>2, <1>4 DEF Stages
<1>8. ClientFor(s) \in Clients
  BY <1>2, <1>7, FirstBinding
<1>9. ASSUME NEW p \in pods
      PROVE  /\ p \in Objects /\ cluster[p] \in SpecsOf(Objects) /\ cluster[p].label = s
             /\ cluster[p] # Gone
             /\ Controller(cluster[p]) \in Objects \cup {None}
  <2>1. cluster[p] \in SpecsOf(Objects)
    BY <1>2 DEF TypeOK, Specs
  <2> QED
    BY <2>1, ControllerIs
<1>10. /\ \A p \in owned : ref(p) \in RefsOf(Objects)
       /\ \A p \in pods : res(p) \in ResultsOf(Objects)
  BY <1>8, <1>9 DEF RefsOf, ResultsOf
<1>11. /\ Open' = Open \cup {ref(p) : p \in owned}
       /\ Entries' = Entries \cup {res(p) : p \in pods \ owned}
       /\ \A p \in pods : /\ ref(p).pod = p /\ ref(p).client = ClientFor(s)
                          /\ res(p).pod = p /\ res(p).client = ClientFor(s)
                          /\ res(p).object = p /\ res(p).spec = cluster[p]
  BY <1>4 DEF Open, Entries
<1>12. listed' \subseteq Objects /\ toList' \subseteq Selectors
  BY <1>2, <1>4 DEF TypeOK
<1> HIDE DEF ref, res
<1>13. /\ refs' \subseteq RefsOf(Objects)
       /\ results' \cup handled' \subseteq ResultsOf(Objects)
  BY <1>2, <1>4, <1>7, <1>10 DEF TypeOK
<1> HIDE DEF pods, owned
<1>14. TypeOK'
  <2>1. pc' \in {"start", "bindings", "pods", "owners", "accounts", "resource"} \cup Ended
    BY <1>4 DEF Ended
  <2> QED
    BY <1>2, <1>4, <1>5, <1>6, <1>12, <1>13, <2>1 DEF TypeOK
<1>15. Stages'
  <2>1. Open' = refs'
    BY <1>4, <1>7 DEF Open
  <2>2. \A t \in toList' : Usable(t)' # {}
    BY <1>2, <1>4, <1>6 DEF Stages
  <2> QED
    BY <1>4, <1>7, <2>1, <2>2 DEF Stages
<1>16. Uncontrolled'
  BY <1>2, <1>11 DEF Uncontrolled, owned
<1>17. Covered'
  <2>1. ASSUME NEW p \in listed PROVE \E x \in (Open \cup Entries)' : x.pod = p
    BY <1>2, <1>4, <1>11 DEF Covered
  <2>2. ASSUME NEW p \in pods PROVE \E x \in (Open \cup Entries)' : x.pod = p
    BY <1>11 DEF owned
  <2> QED
    BY <1>4, <2>1, <2>2 DEF Covered
<1>18. Paired'
  BY <1>2, <1>4, <1>5, KeepPaired
<1>19. Written'
  BY <1>4, <1>7, NoneWritten
<1>20. ASSUME NEW o \in Objects PROVE InEntries(o, Mig(o, C[o]))'
  <2> DEFINE m == Mig(o, C[o])
  <2>1. InCluster(o, m) /\ InEntries(o, m)
    BY <1>2 DEF Agree
  <2>2. o \in pods => m = Mig(o, cluster[o]) /\ m.label = s
    <3>1. o \in pods => m = Mig(o, cluster[o])
      BY <1>9, <2>1 DEF InCluster
    <3>2. o \in pods => Mig(o, cluster[o]).label = s
      BY <1>3, <1>9, MigKeeps
    <3> QED
      BY <3>1, <3>2
  <2> HIDE DEF m
  <2>3. \A x \in Entries' : x.object = o => Mig(o, x.spec) = m
    BY <1>11, <2>1, <2>2 DEF InEntries
  <2>4. \A x \in Open' \cup Entries' :
           x.pod = o => Usable(m.label) # {} /\ x.client = ClientFor(m.label)
    BY <1>7, <1>11, <2>1, <2>2 DEF InEntries, owned
  <2>5. InEntries(o, m)'
    BY <1>6, <2>3, <2>4 DEF InEntries
  <2> QED
    BY <2>5 DEF m
<1> QED
  BY <1>1, <1>2, <1>4, <1>14, <1>15, <1>16, <1>17, <1>18, <1>19, <1>20, KeepLookup

LEMMA getOwnerStep ==
    ASSUME IInv, getOwner
    PROVE  IInv'
<1>1. PICK C \in Clusters : Since(C)
  BY DEF IInv
<1>2. /\ TypeOK /\ Stages /\ Uncontrolled /\ Covered /\ Paired /\ Written /\ bindings \in Bindings
      /\ DOMAIN C = Objects /\ \A o \in Objects : Agree(o, Mig(o, C[o]))
  BY <1>1 DEF IInv, Since
<1>3. /\ \A o \in Objects : o.name \in Names /\ C[o] \in Specs
      /\ None \notin Objects
      /\ None \notin RefsOf(Objects) /\ None \notin ResultsOf(Objects)
  BY <1>2, OfState
<1>4. /\ UNCHANGED <<cluster, accounts, bindings, applied, deletes, runs, toList, listed,
                     files, writing, handled>>
      /\ pc = "owners"
  BY DEF getOwner, world
<1>5. Objects' = Objects /\ bindings' = bindings
  BY <1>4 DEF Objects
<1>6. /\ Specs' = Specs
      /\ \A t : Usable(t)' = Usable(t)
      /\ \A t : ClientFor(t)' = ClientFor(t)
  BY <1>5, Frame
<1>7. toList = {} /\ writing = None /\ handled = {}
  BY <1>2, <1>4 DEF Stages
<1>8. PICK x \in IF resolving # None THEN {resolving} ELSE refs :
        /\ refs' = refs \ {x}
        /\ IF ~Readable(x)
           THEN pc' = "failed" /\ UNCHANGED <<resolving, results>>
           ELSE /\ IF Controller(cluster[x.object]) # None
                   THEN resolving' = Up(x) /\ UNCHANGED results
                   ELSE resolving' = None /\ results' = results \cup {Found(x)}
                /\ pc' = Stage({}, refs', resolving', results')
  BY DEF getOwner
<1>9. /\ x \in Open /\ x \in RefsOf(Objects)
      /\ Open \subseteq refs \cup {x}
      /\ resolving # None => x = resolving
  BY <1>2, <1>8 DEF Open, TypeOK
<1>10. x.pod \in Objects /\ x.object \in Objects /\ x.client \in Clients
  BY <1>9 DEF RefsOf
\* The entry is replaced by one of the same pod and client, or is found.
<1>11. /\ refs' \subseteq RefsOf(Objects) /\ resolving' \in RefsOf(Objects) \cup {None}
       /\ results' \subseteq ResultsOf(Objects)
       /\ Open' \cup Entries' \subseteq Open \cup Entries \cup {resolving', Found(x)}
       /\ Entries' \subseteq Entries \cup {Found(x)}
       /\ Found(x) \in Entries' =>
             \/ cluster[x.object] # Gone /\ cluster[x.object] \in SpecsOf(Objects)
             \/ Found(x) \in Entries
       /\ Found(x) \in Entries' => Controller(cluster[x.object]) = None \/ Found(x) \in Entries
       /\ resolving' \in Open' => resolving' \in Open \/ (/\ resolving'.pod = x.pod
                                                         /\ resolving'.client = x.client)
       /\ pc' # "failed" => Open \subseteq Open' \cup {x} /\ Entries \subseteq Entries'
       /\ pc' # "failed" => \/ resolving' \in Open' /\ resolving'.pod = x.pod
                            \/ Found(x) \in Entries'
  <2>1. CASE ~Readable(x)
    <3>1. /\ pc' = "failed" /\ resolving' = resolving /\ results' = results /\ refs' \subseteq refs
      BY <1>8, <2>1
    <3>2. Entries' = Entries /\ Open' \subseteq Open
      BY <1>4, <3>1 DEF Entries, Open
    <3> QED
      BY <1>2, <3>1, <3>2 DEF TypeOK
  <2>2. CASE Readable(x)
    <3>1. cluster[x.object] # Gone /\ cluster[x.object] \in SpecsOf(Objects)
      BY <1>2, <1>10, <2>2 DEF Readable, TypeOK, Specs
    <3>2. Controller(cluster[x.object]) \in Objects \cup {None}
      BY <3>1, ControllerIs
    <3>3. refs' \subseteq RefsOf(Objects)
      BY <1>2, <1>8 DEF TypeOK
    <3>4. CASE Controller(cluster[x.object]) # None
      <4>1. resolving' = Up(x) /\ results' = results
        BY <1>8, <2>2, <3>4
      <4>2. /\ Up(x) \in RefsOf(Objects) /\ Up(x).pod = x.pod /\ Up(x).client = x.client
        BY <1>9, <3>2, <3>4 DEF Up, RefsOf
      <4>3. Up(x) # None
        BY <1>3, <4>2
      <4>4. Entries' = Entries /\ Open' = refs' \cup {resolving'}
        BY <1>4, <4>1, <4>3 DEF Entries, Open
      <4>5. refs' \subseteq Open /\ Open \subseteq refs' \cup {x}
        BY <1>8, <1>9 DEF Open
      <4>6. results' \subseteq ResultsOf(Objects)
        BY <1>2, <4>1 DEF TypeOK
      <4> QED
        BY <3>1, <3>3, <4>1, <4>2, <4>4, <4>5, <4>6
    <3>5. CASE Controller(cluster[x.object]) = None
      <4>1. resolving' = None /\ results' = results \cup {Found(x)}
        BY <1>8, <2>2, <3>5
      <4>2. Found(x) \in ResultsOf(Objects)
        BY <1>10, <3>1 DEF Found, ResultsOf
      <4>3. Entries' = Entries \cup {Found(x)} /\ Open' = refs'
        BY <1>4, <4>1 DEF Entries, Open
      <4>4. refs' \subseteq Open /\ Open \subseteq refs' \cup {x}
        BY <1>8, <1>9 DEF Open
      <4>5. results' \subseteq ResultsOf(Objects)
        BY <1>2, <4>1, <4>2 DEF TypeOK
      <4>6. None \notin Open'
        BY <1>3, <3>3, <4>3
      <4> QED
        BY <3>1, <3>3, <3>5, <4>1, <4>3, <4>4, <4>5, <4>6
    <3> QED
      BY <3>4, <3>5
  <2> QED
    BY <2>1, <2>2
<1>12. /\ Found(x).pod = x.pod /\ Found(x).client = x.client
       /\ Found(x).object = x.object /\ Found(x).spec = cluster[x.object]
  BY DEF Found
<1>13. /\ pc' \in {"owners", "accounts", "done", "failed"}
       /\ pc' \in {"accounts", "done"} => refs' = {} /\ resolving' = None
       /\ pc' = "done" => results' = {}
  BY <1>8 DEF Stage
<1>14. TypeOK'
  <2>1. pc' \in {"start", "bindings", "pods", "owners", "accounts", "resource"} \cup Ended
    BY <1>13 DEF Ended
  <2> QED
    BY <1>2, <1>4, <1>5, <1>6, <1>7, <1>11, <2>1 DEF TypeOK
<1>15. Stages'
  <2>1. pc' \in {"accounts", "done"} => Open' = {}
    BY <1>13 DEF Open
  <2> QED
    BY <1>4, <1>7, <1>13, <2>1 DEF Stages
<1>16. Uncontrolled'
  BY <1>2, <1>11, <1>12 DEF Uncontrolled
<1>17. Covered'
  <2> SUFFICES ASSUME pc' # "failed", NEW p \in listed
               PROVE  \E y \in Open' \cup Entries' : y.pod = p
    BY <1>4 DEF Covered
  <2>1. PICK y \in Open \cup Entries : y.pod = p
    BY <1>2, <1>4 DEF Covered
  <2>2. CASE y = x
    BY <1>11, <1>12, <2>1, <2>2
  <2>3. CASE y # x
    BY <1>11, <2>1, <2>3
  <2> QED
    BY <2>2, <2>3
<1>18. Paired'
  BY <1>2, <1>4, <1>5, KeepPaired
<1>19. Written'
  BY <1>4, <1>7, <1>13, NoneWritten
<1>20. ASSUME NEW o \in Objects PROVE InEntries(o, Mig(o, C[o]))'
  <2> DEFINE m == Mig(o, C[o])
  <2>1. InCluster(o, m) /\ InEntries(o, m)
    BY <1>2 DEF Agree
  <2> HIDE DEF m
  <2>2. ASSUME NEW y \in Entries', y.object = o PROVE Mig(o, y.spec) = m
    <3>1. CASE y \in Entries
      BY <2>1, <2>2, <3>1 DEF InEntries
    <3>2. CASE y \notin Entries
      <4>1. y = Found(x) /\ cluster[x.object] # Gone
        BY <1>11, <2>2, <3>2
      <4> QED
        BY <1>12, <2>1, <2>2, <4>1 DEF InCluster
    <3> QED
      BY <3>1, <3>2
  <2>3. ASSUME NEW y \in Open' \cup Entries', y.pod = o
        PROVE  Usable(m.label) # {} /\ y.client = ClientFor(m.label)
    <3>1. CASE y \in Open \cup Entries
      BY <2>1, <2>3, <3>1 DEF InEntries
    <3>2. CASE y \notin Open \cup Entries
      <4>1. y.pod = x.pod /\ y.client = x.client
        <5>1. CASE y = Found(x)
          BY <1>12, <5>1
        <5>2. CASE y = resolving' /\ y \in Open'
          BY <1>11, <3>2, <5>2
        <5>3. CASE y = resolving' /\ y \in Entries'
          BY <1>11, <1>12, <3>2, <5>3
        <5> QED
          BY <1>11, <2>3, <3>2, <5>1, <5>2, <5>3
      <4> QED
        BY <1>9, <2>1, <2>3, <4>1 DEF InEntries
    <3> QED
      BY <3>1, <3>2
  <2>4. InEntries(o, m)'
    BY <1>6, <2>2, <2>3 DEF InEntries
  <2> QED
    BY <2>4 DEF m
<1> QED
  BY <1>1, <1>2, <1>4, <1>14, <1>15, <1>16, <1>17, <1>18, <1>19, <1>20, KeepLookup

\* A step that writes, for an entry, keeps the invariant when it keeps the parts
\* that are not about files.
LEMMA KeepWriting ==
    ASSUME IInv, NEW C \in Clusters, Since(C),
           UNCHANGED <<cluster, accounts, bindings, applied, deletes, runs, toList, refs, resolving,
                       listed>>,
           NEW x \in Entries, NEW name, NEW content, Write(name, content),
           \/ /\ name = getServiceAccountFileName(x.object)
              /\ content \in {AccountFile(x, x), Broken}
           \/ /\ name = getResourceFileName(x.object)
              /\ content \in {Migrated(x), Broken}
              /\ getServiceAccountFileName(x.object) \in DOMAIN files,
           pc' \in {"start", "bindings", "pods", "owners", "accounts", "resource"} \cup Ended,
           results' \cup handled' \subseteq ResultsOf(Objects),
           writing' \in ResultsOf(Objects) \cup {None},
           Entries' = Entries,
           writing' # None => getServiceAccountFileName(writing'.object) \in DOMAIN files',
           Stages', Written'
    PROVE  pc' = "failed" \/ pc # "failed" => IInv'
<1>1. /\ TypeOK /\ Uncontrolled /\ Covered /\ bindings \in Bindings
      /\ DOMAIN C = Objects
  BY DEF IInv, Since
<1>2. /\ \A f \in DOMAIN files' :
            files'[f] \in AccountFiles \cup ResourceFiles(Objects) \cup {Broken}
      /\ \A o \in Objects : InFiles(o, Mig(o, C[o]))'
      /\ \A o \in Objects :
            Content(o)' # None => getServiceAccountFileName(o) \in DOMAIN files'
  BY FilesKept
<1>3. Objects' = Objects /\ bindings' = bindings
  BY DEF Objects
<1>4. Specs' = Specs
  BY <1>3, Frame
<1>5. TypeOK'
  BY <1>1, <1>2, <1>3, <1>4 DEF TypeOK
<1>6. Open' = Open
  BY DEF Open
<1>7. Uncontrolled' /\ (pc' = "failed" \/ pc # "failed" => Covered')
  BY <1>1, <1>6 DEF Uncontrolled, Covered
<1>8. Paired'
  BY <1>2, <1>3 DEF Paired
<1>9. \A o \in Objects : InEntries(o, Mig(o, C[o]))'
  BY <1>3, <1>6, SinceEntries
<1>10. ASSUME NEW o \in Objects
       PROVE  InCluster(o, Mig(o, C[o]))' /\ InApplied(o, Mig(o, C[o]))'
  <2> DEFINE m == Mig(o, C[o])
  <2>1. InCluster(o, m) /\ InApplied(o, m)
    BY DEF Since, Agree
  <2> HIDE DEF m
  <2>2. InCluster(o, m)' /\ InApplied(o, m)'
    BY <1>3, <2>1, KeepCluster, KeepApplied
  <2> QED
    BY <2>2 DEF m
<1> QED
  BY <1>1, <1>2, <1>3, <1>5, <1>7, <1>8, <1>9, <1>10, Keep

\* Two entries of an object get the same service account and the same form.
LEMMA SameForm ==
    ASSUME IInv, NEW x \in Entries, NEW y \in Entries, x.object = y.object
    PROVE  Migrated(x) = Migrated(y) /\ AccountFor(x) = AccountFor(y)
<1>1. PICK C \in Clusters : Since(C)
  BY DEF IInv
<1>2. TypeOK /\ DOMAIN C = Objects /\ \A o \in Objects : Agree(o, Mig(o, C[o]))
  BY <1>1 DEF IInv, Since
<1>3. None \notin ResultsOf(Objects)
  BY <1>2, OfState
<1>4. x \in ResultsOf(Objects) /\ y \in ResultsOf(Objects)
  BY <1>2, <1>3 DEF Entries, TypeOK
<1>5. /\ x.object \in Objects /\ x.spec \in SpecsOf(Objects)
      /\ y.object \in Objects /\ y.spec \in SpecsOf(Objects)
  BY <1>4 DEF ResultsOf
<1>6. Mig(x.object, x.spec) = Mig(y.object, y.spec)
  BY <1>2, <1>5 DEF Agree, InEntries
<1>7. /\ Migrated(x) = [object |-> x.object, spec |-> Mig(x.object, x.spec)]
      /\ Mig(x.object, x.spec).account = AccountFor(x)
      /\ Migrated(y) = [object |-> y.object, spec |-> Mig(y.object, y.spec)]
      /\ Mig(y.object, y.spec).account = AccountFor(y)
  BY <1>5, MigratedIsMig
<1> QED
  BY <1>6, <1>7

\* A write for one object leaves the files of another alone, when those are
\* nobody else's.
LEMMA OtherFiles ==
    ASSUME NEW name, NEW content, Write(name, content), NEW w \in Objects, NEW o \in Objects,
           name \in {getResourceFileName(w), getServiceAccountFileName(w)}, o # w, Unique(o),
           NEW f \in {getResourceFileName(o), getServiceAccountFileName(o)}, NEW c, Holds(f, c)
    PROVE  Holds(f, c)'
<1>1. f # name
  BY DEF Unique
<1> QED
  BY <1>1, WriteIs DEF Holds

LEMMA createServiceAccountFileStep ==
    ASSUME IInv, createServiceAccountFile
    PROVE  IInv'
<1>1. PICK C \in Clusters : Since(C)
  BY DEF IInv
<1>2. /\ TypeOK /\ Stages /\ Uncontrolled /\ Covered /\ Paired /\ Written /\ bindings \in Bindings
      /\ DOMAIN C = Objects
  BY <1>1 DEF IInv, Since
<1>3. /\ None \notin ResultsOf(Objects)
      /\ \A o \in Objects : o.name \in Names
  BY <1>2, OfState
<1>4. /\ UNCHANGED <<cluster, accounts, bindings, applied, deletes, runs, toList, refs, resolving,
                     listed, handled>>
      /\ pc = "accounts"
  BY DEF createServiceAccountFile, world, lookup
<1>5. PICK x \in results :
        /\ results' = results \ {x}
        /\ IF x.spec.account # Default /\ accounts[x.spec.account] = Gone
           THEN pc' = "failed" /\ UNCHANGED <<files, writing>>
           ELSE /\ Write(getServiceAccountFileName(x.object), AccountFile(x, x))
                /\ writing' = x
                /\ pc' = "resource"
  BY DEF createServiceAccountFile, AccountFile
<1>6. Objects' = Objects /\ bindings' = bindings
  BY <1>4 DEF Objects
<1>7. /\ Specs' = Specs
      /\ \A o : Unique(o)' = Unique(o)
      /\ \A t : Usable(t)' = Usable(t)
  BY <1>6, Frame
<1>8. /\ toList = {} /\ Open = {} /\ writing = None
      /\ Open' = Open
  BY <1>2, <1>4 DEF Stages, Open
<1>9. x \in Entries /\ x \in ResultsOf(Objects)
  BY <1>2, <1>5 DEF Entries, TypeOK
<1>10. x.object \in Objects /\ x # None
  BY <1>3, <1>9 DEF ResultsOf
<1>11. CASE pc' = "failed" /\ UNCHANGED <<files, writing>>
  <2>1. Entries' \subseteq Entries
    BY <1>4, <1>5, <1>11 DEF Entries
  <2>2. TypeOK'
    <3>1. pc' \in {"start", "bindings", "pods", "owners", "accounts", "resource"} \cup Ended
      BY <1>11 DEF Ended
    <3>2. results' \cup handled' \subseteq ResultsOf(Objects)
      BY <1>2, <1>4, <1>5 DEF TypeOK
    <3> QED
      BY <1>2, <1>4, <1>6, <1>7, <1>11, <3>1, <3>2 DEF TypeOK
  <2>3. Stages'
    BY <1>4, <1>8, <1>11 DEF Stages
  <2>4. Uncontrolled' /\ Covered'
    BY <1>2, <1>11, <2>1 DEF Uncontrolled, Covered
  <2>5. Paired'
    BY <1>2, <1>6, <1>11, KeepPaired
  <2>6. Written'
    BY <1>11, NoneWritten
  <2>7. \A o \in Objects : InEntries(o, Mig(o, C[o]))'
    BY <1>1, <1>6, <1>8, <2>1, SinceEntries
  <2> QED
    BY <1>1, <1>2, <1>4, <1>11, <2>2, <2>3, <2>4, <2>5, <2>6, <2>7, KeepLookup
<1>12. CASE /\ Write(getServiceAccountFileName(x.object), AccountFile(x, x))
            /\ writing' = x /\ pc' = "resource"
  <2> DEFINE name == getServiceAccountFileName(x.object)
  <2>1. /\ DOMAIN files' = DOMAIN files \cup {name}
        /\ files'[name] = AccountFile(x, x)
        /\ \A f \in DOMAIN files : f # name => files'[f] = files[f]
    BY <1>12, WriteIs
  <2>2. Entries' = Entries
    BY <1>4, <1>5, <1>8, <1>10, <1>12 DEF Entries
  <2>3. /\ results' \cup handled' \subseteq ResultsOf(Objects)
        /\ writing' \in ResultsOf(Objects) \cup {None}
    BY <1>2, <1>4, <1>5, <1>9, <1>12 DEF TypeOK
  <2>4. Stages'
    BY <1>4, <1>8, <1>10, <1>12 DEF Stages
  <2>5. Holds(name, AccountFile(x, x))'
    BY <2>1 DEF Holds
  <2>6. ASSUME NEW z \in handled, Unique(z.object)
        PROVE  /\ Holds(getResourceFileName(z.object), Migrated(z))'
               /\ \E y \in handled \cup {x} :
                     /\ y.object = z.object
                     /\ Holds(getServiceAccountFileName(z.object), AccountFile(z, y))'
    <3>1. /\ Holds(getResourceFileName(z.object), Migrated(z))
          /\ \E y \in handled :
                /\ y.object = z.object
                /\ Holds(getServiceAccountFileName(z.object), AccountFile(z, y))
      BY <1>2, <1>4, <1>8, <2>6 DEF Written
    <3>2. z.object \in Objects /\ z \in Entries
      BY <1>2, <2>6 DEF TypeOK, ResultsOf, Entries
    <3>3. CASE z.object = x.object
      <4>1. AccountFor(z) = AccountFor(x)
        BY <1>9, <3>2, <3>3, SameForm
      <4>2. AccountFile(z, x) = AccountFile(x, x)
        BY <4>1 DEF AccountFile
      <4>3. getResourceFileName(z.object) # name
        BY <1>3, <1>10, <3>3, TwoFiles
      <4>4. Holds(getResourceFileName(z.object), Migrated(z))'
        BY <2>1, <3>1, <4>3 DEF Holds
      <4> QED
        BY <2>5, <3>3, <4>2, <4>4
    <3>4. CASE z.object # x.object
      <4>1. Holds(getResourceFileName(z.object), Migrated(z))'
        BY <1>10, <1>12, <2>6, <3>1, <3>2, <3>4, OtherFiles
      <4>2. PICK y \in handled :
              /\ y.object = z.object
              /\ Holds(getServiceAccountFileName(z.object), AccountFile(z, y))
        BY <3>1
      <4>3. Holds(getServiceAccountFileName(z.object), AccountFile(z, y))'
        BY <1>10, <1>12, <2>6, <3>2, <3>4, <4>2, OtherFiles
      <4> QED
        BY <4>1, <4>2, <4>3
    <3> QED
      BY <3>3, <3>4
  <2>7. Written'
    <3>1. writing' = x /\ handled' = handled /\ ({writing} \ {None})' = {x}
      BY <1>4, <1>10, <1>12
    <3> QED
      BY <1>7, <2>5, <2>6, <3>1 DEF Written
  <2>8. pc' \in {"start", "bindings", "pods", "owners", "accounts", "resource"} \cup Ended
    BY <1>12
  <2>9. getServiceAccountFileName(writing'.object) \in DOMAIN files'
    BY <1>12, <2>1
  <2> QED
    BY <1>1, <1>4, <1>9, <1>12, <2>2, <2>3, <2>4, <2>7, <2>8, <2>9, KeepWriting
<1> QED
  BY <1>5, <1>11, <1>12

LEMMA createResourceFileStep ==
    ASSUME IInv, createResourceFile
    PROVE  IInv'
<1>1. PICK C \in Clusters : Since(C)
  BY DEF IInv
<1>2. /\ TypeOK /\ Stages /\ Paired /\ Written /\ DOMAIN C = Objects
  BY <1>1 DEF IInv, Since
<1>3. /\ None \notin ResultsOf(Objects)
      /\ \A o \in Objects : o.name \in Names
  BY <1>2, OfState
<1>0. PICK x : x = writing
  OBVIOUS
<1> DEFINE name == getResourceFileName(x.object)
<1>4. /\ UNCHANGED <<cluster, accounts, bindings, applied, deletes, runs, toList, refs, resolving,
                     listed, results>>
      /\ pc = "resource" /\ handled' = handled \cup {x} /\ writing' = None
      /\ Write(name, Migrated(x))
      /\ pc' = Stage({}, {}, None, results)
  BY <1>0 DEF createResourceFile, world, lookup
<1>5. Objects' = Objects /\ bindings' = bindings
  BY <1>4 DEF Objects
<1>6. /\ \A o : Unique(o)' = Unique(o)
      /\ \A t : Usable(t)' = Usable(t)
  BY <1>5, Frame
<1>7. toList = {} /\ Open = {} /\ x # None /\ Open' = Open
  BY <1>0, <1>2, <1>4 DEF Stages, Open
<1>8. x \in Entries /\ x \in ResultsOf(Objects)
  BY <1>0, <1>2, <1>7 DEF Entries, TypeOK
<1>9. x.object \in Objects
  BY <1>8 DEF ResultsOf
<1>10. getServiceAccountFileName(x.object) \in DOMAIN files
  BY <1>0, <1>2, <1>7 DEF Paired
<1>11. /\ pc' \in {"accounts", "done"}
       /\ pc' = "done" => results' = {}
  BY <1>4 DEF Stage
<1>12. Entries' = Entries
  BY <1>0, <1>4, <1>7 DEF Entries
<1>13. /\ results' \cup handled' \subseteq ResultsOf(Objects)
       /\ writing' \in ResultsOf(Objects) \cup {None}
  BY <1>2, <1>4, <1>8 DEF TypeOK
<1>14. Stages'
  BY <1>4, <1>7, <1>11 DEF Stages
<1>15. /\ DOMAIN files' = DOMAIN files \cup {name}
       /\ files'[name] = Migrated(x)
       /\ \A f \in DOMAIN files : f # name => files'[f] = files[f]
  BY <1>4, WriteIs
<1>16. getServiceAccountFileName(x.object) # name
  BY <1>3, <1>9, TwoFiles
\* Of an object that is written again, the account file was written with it.
<1>17. ASSUME NEW z \in handled \cup {x}, Unique(z.object)
       PROVE  /\ Holds(getResourceFileName(z.object), Migrated(z))'
              /\ \E y \in handled \cup {x} :
                    /\ y.object = z.object
                    /\ Holds(getServiceAccountFileName(z.object), AccountFile(z, y))'
  <2>1. z \in Entries /\ z.object \in Objects
    BY <1>2, <1>8, <1>17 DEF TypeOK, ResultsOf, Entries
  <2>2. CASE z.object = x.object
    <3>1. Migrated(z) = Migrated(x) /\ AccountFor(z) = AccountFor(x)
      BY <1>8, <2>1, <2>2, SameForm
    <3>2. Holds(getServiceAccountFileName(x.object), AccountFile(x, x))
      BY <1>0, <1>2, <1>4, <1>17, <2>2 DEF Written
    <3>3. Holds(getServiceAccountFileName(x.object), AccountFile(x, x))'
      BY <1>15, <1>16, <3>2 DEF Holds
    <3>4. AccountFile(z, x) = AccountFile(x, x)
      BY <3>1 DEF AccountFile
    <3>5. Holds(name, Migrated(x))'
      BY <1>15 DEF Holds
    <3> QED
      BY <2>2, <3>1, <3>3, <3>4, <3>5
  <2>3. CASE z.object # x.object
    <3>1. z \in handled
      BY <1>17, <2>3
    <3>2. /\ Holds(getResourceFileName(z.object), Migrated(z))
          /\ \E y \in handled \cup {x} :
                /\ y.object = z.object
                /\ Holds(getServiceAccountFileName(z.object), AccountFile(z, y))
      BY <1>0, <1>2, <1>4, <1>7, <1>17, <3>1 DEF Written
    <3>3. Holds(getResourceFileName(z.object), Migrated(z))'
      BY <1>4, <1>9, <1>17, <2>1, <2>3, <3>2, OtherFiles
    <3>4. PICK y \in handled \cup {x} :
            /\ y.object = z.object
            /\ Holds(getServiceAccountFileName(z.object), AccountFile(z, y))
      BY <3>2
    <3>5. Holds(getServiceAccountFileName(z.object), AccountFile(z, y))'
      BY <1>4, <1>9, <1>17, <2>1, <2>3, <3>4, OtherFiles
    <3> QED
      BY <3>3, <3>4, <3>5
  <2> QED
    BY <2>2, <2>3
<1>18. Written'
  <2>1. handled' = handled \cup {x} /\ pc' # "resource"
    BY <1>4, <1>11
  <2>2. \A z \in handled' : Unique(z.object)' =>
           /\ Holds(getResourceFileName(z.object), Migrated(z))'
           /\ \E y \in handled' :
                 /\ y.object = z.object
                 /\ Holds(getServiceAccountFileName(z.object), AccountFile(z, y))'
    BY <1>6, <1>17, <2>1
  <2> QED
    BY <2>1, <2>2 DEF Written
<1>19. pc' \in {"start", "bindings", "pods", "owners", "accounts", "resource"} \cup Ended
  BY <1>11 DEF Ended
<1> QED
  BY <1>1, <1>4, <1>8, <1>10, <1>12, <1>13, <1>14, <1>18, <1>19, KeepWriting

LEMMA WriteFailsStep ==
    ASSUME IInv, WriteFails
    PROVE  IInv'
<1>1. PICK C \in Clusters : Since(C)
  BY DEF IInv
<1>2. TypeOK /\ Stages /\ Paired /\ DOMAIN C = Objects
  BY <1>1 DEF IInv, Since
<1>3. /\ UNCHANGED <<cluster, accounts, bindings, applied, deletes, runs, toList, refs, resolving,
                     listed, results, writing, handled>>
      /\ pc' = "failed"
  BY DEF WriteFails, world, lookup
<1>4. Objects' = Objects /\ bindings' = bindings /\ Entries' = Entries
  BY <1>3 DEF Objects, Entries
<1>5. \A t : Usable(t)' = Usable(t)
  BY <1>4, Frame
<1>6. Stages' /\ Written'
  BY <1>2, <1>3, <1>5, NoneWritten DEF Stages
<1>7. pc' \in {"start", "bindings", "pods", "owners", "accounts", "resource"} \cup Ended
  BY <1>3 DEF Ended
<1>8. /\ results' \cup handled' \subseteq ResultsOf(Objects)
      /\ writing' \in ResultsOf(Objects) \cup {None}
  BY <1>2, <1>3 DEF TypeOK
<1>9. CASE pc = "accounts" /\ \E x \in results : Write(getServiceAccountFileName(x.object), Broken)
  <2>1. PICK x \in results : Write(getServiceAccountFileName(x.object), Broken)
    BY <1>9
  <2>2. x \in Entries
    BY DEF Entries
  <2>3. writing' = None
    BY <1>2, <1>3, <1>9 DEF Stages
  <2> QED
    BY <1>1, <1>3, <1>4, <1>6, <1>7, <1>8, <2>1, <2>2, <2>3, KeepWriting
<1>10. CASE pc = "resource" /\ Write(getResourceFileName(writing.object), Broken)
  <2>1. writing # None
    BY <1>2, <1>10 DEF Stages
  <2>2. writing \in Entries /\ getServiceAccountFileName(writing.object) \in DOMAIN files
    BY <1>2, <2>1 DEF Entries, Paired
  <2>3. getServiceAccountFileName(writing'.object) \in DOMAIN files'
    BY <1>3, <1>10, <2>2, WriteIs
  <2> QED
    BY <1>1, <1>3, <1>4, <1>6, <1>7, <1>8, <1>10, <2>2, <2>3, KeepWriting
<1> QED
  BY <1>9, <1>10 DEF WriteFails

\* What others do to the cluster is fine when the objects that are left have
\* the same migrated form.
LEMMA KeepRun ==
    ASSUME IInv, NEW C \in Clusters, Since(C), Objects' = Objects,
           UNCHANGED <<bindings, runs, toList, refs, resolving, listed, files, results, writing,
                       handled, pc>>,
           deletes' \in 0..MaxDeletes,
           accounts' \in [Names -> Clients \cup {None, Gone}],
           \A o \in Objects : cluster'[o] \in Specs \cup {Gone},
           \A o \in Objects : InCluster(o, Mig(o, C[o]))' /\ InApplied(o, Mig(o, C[o]))'
    PROVE  IInv'
<1>1. /\ TypeOK /\ Stages /\ Uncontrolled /\ Covered /\ Paired /\ Written /\ bindings \in Bindings
      /\ DOMAIN C = Objects
  BY DEF IInv, Since
<1>2. Entries' = Entries /\ Open' = Open /\ bindings' = bindings
  BY DEF Entries, Open
<1>3. /\ Specs' = Specs
      /\ \A s : Usable(s)' = Usable(s)
  BY <1>2, Frame
<1>4. TypeOK'
  BY <1>1, <1>3 DEF TypeOK
<1>5. Stages' /\ Uncontrolled' /\ Covered'
  BY <1>1, <1>2, <1>3 DEF Stages, Uncontrolled, Covered
<1>6. Paired' /\ Written'
  BY <1>1, <1>2, KeepPaired, KeepWritten
<1>7. \A o \in Objects : InEntries(o, Mig(o, C[o]))'
  BY <1>2, SinceEntries
<1>8. ASSUME NEW o \in Objects PROVE InFiles(o, Mig(o, C[o]))'
  <2> DEFINE m == Mig(o, C[o])
  <2>1. InFiles(o, m)
    BY DEF Since, Agree
  <2> HIDE DEF m
  <2>2. InFiles(o, m)'
    BY <1>2, <2>1, KeepFiles
  <2> QED
    BY <2>2 DEF m
<1> QED
  BY <1>1, <1>2, <1>4, <1>5, <1>6, <1>7, <1>8, Keep

LEMMA DeleteStep ==
    ASSUME IInv, Delete
    PROVE  IInv'
<1>1. PICK C \in Clusters : Since(C)
  BY DEF IInv
<1>2. TypeOK /\ DOMAIN C = Objects
  BY <1>1 DEF IInv, Since
<1>3. /\ UNCHANGED <<bindings, applied, runs, toList, refs, resolving, listed, files, results,
                     writing, handled, pc>>
      /\ deletes < MaxDeletes /\ deletes' = deletes + 1
  BY DEF Delete, lookup, output
<1>4. deletes' \in 0..MaxDeletes
  BY <1>2, <1>3, Bounds DEF TypeOK
<1>5. /\ Objects' = Objects
      /\ \A o \in Objects : cluster'[o] \in {cluster[o], Gone}
      /\ accounts' \in [Names -> Clients \cup {None, Gone}]
  <2>1. CASE /\ \E o \in Objects : cluster' = [cluster EXCEPT ![o] = Gone]
             /\ UNCHANGED accounts
    BY <1>2, <2>1 DEF TypeOK, Objects
  <2>2. CASE /\ \E a \in Names : accounts' = [accounts EXCEPT ![a] = Gone]
             /\ UNCHANGED cluster
    BY <1>2, <2>2 DEF TypeOK, Objects
  <2> QED
    BY <2>1, <2>2 DEF Delete
<1>6. \A o \in Objects : cluster'[o] \in Specs \cup {Gone}
  BY <1>2, <1>5 DEF TypeOK
<1>7. ASSUME NEW o \in Objects
      PROVE  InCluster(o, Mig(o, C[o]))' /\ InApplied(o, Mig(o, C[o]))'
  <2> DEFINE m == Mig(o, C[o])
  <2>1. InCluster(o, m) /\ InApplied(o, m)
    BY <1>1 DEF Since, Agree
  <2> HIDE DEF m
  <2>2. cluster'[o] # Gone => cluster'[o] = cluster[o]
    BY <1>5
  <2>3. InCluster(o, m)'
    BY <2>1, <2>2 DEF InCluster
  <2>4. InApplied(o, m)'
    BY <1>3, <1>5, <2>1, KeepApplied
  <2> QED
    BY <2>3, <2>4 DEF m
<1> QED
  BY <1>1, <1>3, <1>4, <1>5, <1>6, <1>7, KeepRun

LEMMA ApplyStep ==
    ASSUME IInv, Apply
    PROVE  IInv'
<1>1. PICK C \in Clusters : Since(C)
  BY DEF IInv
<1>2. TypeOK /\ DOMAIN C = Objects
  BY <1>1 DEF IInv, Since
<1>3. /\ UNCHANGED <<bindings, deletes, runs, toList, refs, resolving, listed, files, results,
                     writing, handled, pc>>
      /\ applied' = files
      /\ cluster' = [o \in Objects |-> IF Content(o) # None THEN Content(o) ELSE cluster[o]]
  BY DEF Apply, lookup, output
<1>4. Objects' = Objects /\ bindings' = bindings
  BY <1>3 DEF Objects
<1>5. accounts' \in [Names -> Clients \cup {None, Gone}]
  <2> DEFINE named == {a \in Names : Given(a) # {}}
  <2>1. PICK last \in [named -> Clients] :
          accounts' = [a \in Names |-> IF a \in named THEN last[a] ELSE accounts[a]]
    BY DEF Apply
  <2> QED
    BY <1>2, <2>1 DEF TypeOK
<1>6. /\ \A o \in Objects : o.name \in Names /\ C[o] \in Specs
      /\ \A o : Unique(o)' = Unique(o)
  BY <1>2, <1>4, OfState, Frame
<1>7. ASSUME NEW o \in Objects
      PROVE  /\ cluster'[o] \in Specs \cup {Gone}
             /\ InCluster(o, Mig(o, C[o]))' /\ InApplied(o, Mig(o, C[o]))'
  <2> DEFINE m == Mig(o, C[o])
  <2>1. InCluster(o, m) /\ InFiles(o, m)
    BY <1>1 DEF Since, Agree
  <2>2. Mig(o, m) = m /\ m \in Specs
    BY <1>6, MigKeeps DEF Specs
  <2> HIDE DEF m
  <2>3. Content(o) # None => Content(o) = m
    BY <2>1 DEF Content, InFiles
  <2>4. cluster'[o] = m \/ cluster'[o] = cluster[o]
    BY <1>3, <2>3
  <2>5. InCluster(o, m)'
    BY <2>1, <2>2, <2>4 DEF InCluster
  <2>6. InApplied(o, m)'
    BY <1>3, <1>6, <2>1 DEF InFiles, InApplied
  <2>7. cluster'[o] \in Specs \cup {Gone}
    BY <1>2, <2>2, <2>4 DEF TypeOK
  <2> QED
    BY <2>5, <2>6, <2>7 DEF m
<1>8. deletes' \in 0..MaxDeletes
  BY <1>2, <1>3 DEF TypeOK
<1> QED
  BY <1>1, <1>3, <1>4, <1>5, <1>7, <1>8, KeepRun

LEMMA RerunStep ==
    ASSUME IInv, Rerun
    PROVE  IInv'
<1>1. PICK C \in Clusters : Since(C)
  BY DEF IInv
<1>2. TypeOK /\ Paired /\ bindings \in Bindings
  BY <1>1 DEF IInv
<1>3. /\ UNCHANGED <<cluster, accounts, bindings, applied, deletes, files>>
      /\ runs < MaxRuns /\ runs' = runs + 1 /\ pc' = "start"
      /\ toList' = {} /\ refs' = {} /\ resolving' = None /\ listed' = {}
      /\ results' = {} /\ writing' = None /\ handled' = {}
  BY DEF Rerun
<1>4. Objects' = Objects /\ bindings' = bindings /\ Open' = {} /\ Entries' = {}
  BY <1>3 DEF Objects, Open, Entries
<1>5. Specs' = Specs
  BY <1>4, Frame
<1>6. TypeOK'
  <2>1. runs' \in 1..MaxRuns
    BY <1>2, <1>3, Bounds DEF TypeOK
  <2> QED
    BY <1>2, <1>3, <1>4, <1>5, <2>1 DEF TypeOK
<1>7. Stages' /\ Uncontrolled' /\ Covered'
  BY <1>3, <1>4 DEF Stages, Uncontrolled, Covered
<1>8. Paired' /\ Written'
  BY <1>2, <1>3, <1>4, KeepPaired, NoneWritten
<1>9. \A o \in Objects : InEntries(o, Mig(o, C[o]))'
  BY <1>1, <1>4, SinceEntries
<1> QED
  BY <1>1, <1>2, <1>3, <1>6, <1>7, <1>8, <1>9, KeepLookup

LEMMA StutterStep ==
    ASSUME IInv, UNCHANGED vars
    PROVE  IInv'
<1>1. PICK C \in Clusters : Since(C)
  BY DEF IInv
<1>2. TypeOK /\ DOMAIN C = Objects
  BY <1>1 DEF IInv, Since
<1>3. UNCHANGED <<cluster, accounts, bindings, applied, deletes, runs, toList, refs, resolving,
                  listed, files, results, writing, handled, pc>>
  BY DEF vars, world, lookup, output
<1>4. Objects' = Objects /\ bindings' = bindings
  BY <1>3 DEF Objects
<1>5. ASSUME NEW o \in Objects
      PROVE  InCluster(o, Mig(o, C[o]))' /\ InApplied(o, Mig(o, C[o]))'
  <2> DEFINE m == Mig(o, C[o])
  <2>1. InCluster(o, m) /\ InApplied(o, m)
    BY <1>1 DEF Since, Agree
  <2> HIDE DEF m
  <2>2. InCluster(o, m)' /\ InApplied(o, m)'
    BY <1>3, <1>4, <2>1, KeepCluster, KeepApplied
  <2> QED
    BY <2>2 DEF m
<1>6. /\ deletes' \in 0..MaxDeletes
      /\ accounts' \in [Names -> Clients \cup {None, Gone}]
      /\ \A o \in Objects : cluster'[o] \in Specs \cup {Gone}
  BY <1>2, <1>3 DEF TypeOK
<1> QED
  BY <1>1, <1>3, <1>4, <1>5, <1>6, KeepRun

LEMMA IInvStep == IInv /\ [Next]_vars => IInv'
  BY PreRunStep, ListBindingsStep, ListPodsStep, getOwnerStep, createServiceAccountFileStep,
     createResourceFileStep, WriteFailsStep, DeleteStep, ApplyStep, RerunStep, StutterStep
     DEF Next, Progress

-----------------------------------------------------------------------------
\* In every run all specs of an object, those read, those in files and those
\* applied, have one migrated form, and what a run has left to do covers the
\* pods it has listed (run, getOwner, createServiceAccountFile,
\* createResourceFile).
THEOREM Invariance == Spec => []IInv
  BY IInvInit, IInvStep, PTL DEF Spec

\* Every variable keeps its type.
THEOREM TypeOKThm == Spec => []TypeOK
<1>1. IInv => TypeOK
  BY DEF IInv
<1> QED
  BY Invariance, <1>1, PTL

\* A workload in the directory comes with the account file of the service
\* account it names, however the command ended (createServiceAccountFile before
\* createResourceFile).
THEOREM AccountFirstThm == Spec => []AccountFirst
<1>1. ASSUME IInv PROVE AccountFirst
  <2>1. PICK C \in Clusters : Since(C)
    BY <1>1 DEF IInv
  <2>2. Paired
    BY <1>1 DEF IInv
  <2> SUFFICES ASSUME NEW o \in Objects, Unique(o), Content(o) # None
               PROVE  /\ getServiceAccountFileName(o) \in DOMAIN files
                      /\ files[getServiceAccountFileName(o)] # Broken
                            => files[getServiceAccountFileName(o)].account = Content(o).account
    BY DEF AccountFirst
  <2> DEFINE m == Mig(o, C[o])
  <2>3. InFiles(o, m)
    BY <2>1 DEF Since, Agree
  <2> HIDE DEF m
  <2>4. getServiceAccountFileName(o) \in DOMAIN files
    BY <2>2 DEF Paired
  <2>5. Content(o) = m
    BY <2>3 DEF Content, InFiles
  <2>6. OwnAccountFile(m, files[getServiceAccountFileName(o)])
    BY <2>3, <2>4 DEF InFiles
  <2> QED
    BY <2>4, <2>5, <2>6 DEF OwnAccountFile
<1> QED
  BY Invariance, <1>1, PTL

\* When the command ends well, every pod it listed has the fitting files of a
\* workload nothing controls, with the client ID of its first usable binding
\* (run, getOwner, filterAzureIdentities).
THEOREM DoneMeansMigratedThm == Spec => []DoneMeansMigrated
<1>1. ASSUME IInv PROVE DoneMeansMigrated
  <2>1. PICK C \in Clusters : Since(C)
    BY <1>1 DEF IInv
  <2>2. /\ TypeOK /\ Stages /\ Uncontrolled /\ Covered /\ Written /\ bindings \in Bindings
        /\ DOMAIN C = Objects
    BY <1>1, <2>1 DEF IInv, Since
  <2> SUFFICES ASSUME pc = "done", NEW p \in listed
               PROVE  \E x \in handled :
                        /\ x.pod = p
                        /\ Controller(x.spec) = None
                        /\ Unique(x.object) =>
                              /\ Holds(getResourceFileName(x.object), Migrated(x))
                              /\ \E y \in handled :
                                    /\ y.object = x.object
                                    /\ Holds(getServiceAccountFileName(x.object),
                                             [account |-> AccountFor(x), client |-> y.client])
                        /\ cluster[p] # Gone =>
                              \E b \in Usable(cluster[p].label), i \in Identities :
                                 /\ b.identity = i.name /\ i.client = x.client
                                 /\ \A c \in Usable(cluster[p].label) : b.name <= c.name
    BY DEF DoneMeansMigrated
  <2>3. Open = {} /\ results = {} /\ writing = None
    BY <2>2 DEF Stages
  <2>4. Entries = handled
    BY <2>3 DEF Entries
  <2>5. PICK x \in handled : x.pod = p
    BY <2>2, <2>3, <2>4 DEF Covered
  <2>6. Controller(x.spec) = None
    BY <2>2, <2>4 DEF Uncontrolled
  <2>7. ASSUME Unique(x.object)
        PROVE  /\ Holds(getResourceFileName(x.object), Migrated(x))
               /\ \E y \in handled :
                     /\ y.object = x.object
                     /\ Holds(getServiceAccountFileName(x.object),
                              [account |-> AccountFor(x), client |-> y.client])
    BY <2>2, <2>3, <2>7 DEF Written, AccountFile
  <2>8. ASSUME cluster[p] # Gone
        PROVE  \E b \in Usable(cluster[p].label), i \in Identities :
                  /\ b.identity = i.name /\ i.client = x.client
                  /\ \A c \in Usable(cluster[p].label) : b.name <= c.name
    <3>1. p \in Objects /\ cluster[p] \in SpecsOf(Objects)
      BY <2>2, <2>8 DEF TypeOK, Specs
    <3> DEFINE m == Mig(p, C[p])
    <3>2. InCluster(p, m) /\ InEntries(p, m)
      BY <2>1, <3>1 DEF Since, Agree
    <3> HIDE DEF m
    <3>3. p.name \in Names
      BY <2>2, <3>1, OfState
    <3>4. m.label = cluster[p].label
      BY <2>8, <3>1, <3>2, <3>3, MigKeeps DEF InCluster
    <3>5. Usable(cluster[p].label) # {} /\ x.client = ClientFor(cluster[p].label)
      BY <2>4, <2>5, <3>2, <3>4 DEF InEntries
    <3> QED
      BY <2>2, <3>5, FirstBinding
  <2> QED
    BY <2>5, <2>6, <2>7, <2>8
<1> QED
  BY Invariance, <1>1, PTL

\* Every file that a run has written has what the last of its writes gave it.
Good(f) ==
    \E y \in handled \cup ({writing} \ {None}) :
        \/ y \in handled /\ f = getResourceFileName(y.object) /\ Holds(f, Migrated(y))
        \/ f = getServiceAccountFileName(y.object) /\ Holds(f, AccountFile(y, y))

Whole ==
    pc # "failed" =>
        /\ \A x \in handled \cup ({writing} \ {None}) : Good(getServiceAccountFileName(x.object))
        /\ \A x \in handled : Good(getResourceFileName(x.object))

LEMMA WholeStep == IInv /\ Whole /\ [Next]_vars => Whole'
<1> SUFFICES ASSUME IInv, Whole, [Next]_vars PROVE Whole'
  OBVIOUS
<1>1. TypeOK /\ Stages
  BY DEF IInv
<1>2. ASSUME UNCHANGED <<files, handled, writing>>, pc' # "failed" => pc # "failed"
      PROVE  Whole'
  BY <1>2 DEF Whole, Good, Holds
<1>3. CASE createServiceAccountFile
  <2> SUFFICES ASSUME pc' # "failed" PROVE Whole'
    BY DEF Whole
  <2>1. PICK x \in results :
          /\ Write(getServiceAccountFileName(x.object), AccountFile(x, x))
          /\ writing' = x /\ handled' = handled
    BY <1>3 DEF createServiceAccountFile, AccountFile
  <2>2. pc # "failed" /\ writing = None
    BY <1>1, <1>3 DEF createServiceAccountFile, Stages
  <2>3. x # None
    <3>1. PICK C \in Clusters : DOMAIN C = Objects
      BY DEF IInv, Since
    <3>2. None \notin ResultsOf(Objects)
      BY <3>1, OfState
    <3> QED
      BY <1>1, <3>2 DEF TypeOK
  <2> DEFINE n == getServiceAccountFileName(x.object)
  <2>4. n \in DOMAIN files' /\ files'[n] = AccountFile(x, x)
    BY <2>1 DEF Write
  <2>5. \A f \in DOMAIN files : f # n => f \in DOMAIN files' /\ files'[f] = files[f]
    BY <2>1 DEF Write
  <2> HIDE DEF n
  <2>6. Good(n)'
    BY <2>1, <2>3, <2>4 DEF Good, Holds, n
  <2>7. ASSUME NEW f, f # n, Good(f) PROVE Good(f)'
    BY <2>1, <2>2, <2>5, <2>7 DEF Good, Holds
  <2>8. \A y \in (handled \cup ({writing} \ {None}))' : y \in handled \/ y = x
    BY <2>1
  <2>9. \A f : Good(f) => Good(f)'
    BY <2>6, <2>7
  <2> QED
    BY <2>1, <2>2, <2>6, <2>8, <2>9 DEF Whole, n
<1>4. CASE createResourceFile
  <2>0. PICK w : w = writing
    OBVIOUS
  <2> DEFINE n == getResourceFileName(w.object)
  <2>1. /\ Write(n, Migrated(w))
        /\ handled' = handled \cup {writing} /\ writing' = None
    BY <1>4, <2>0 DEF createResourceFile
  <2>2. pc # "failed" /\ writing # None
    BY <1>1, <1>4 DEF createResourceFile, Stages
  <2>3. n \in DOMAIN files' /\ files'[n] = Migrated(w)
    BY <2>1 DEF Write
  <2>4. \A f \in DOMAIN files : f # n => f \in DOMAIN files' /\ files'[f] = files[f]
    BY <2>1 DEF Write
  <2>5. Good(n)'
    BY <2>0, <2>1, <2>3 DEF Good, Holds
  <2> HIDE DEF n
  <2>6. ASSUME NEW f, f # n, Good(f) PROVE Good(f)'
    BY <2>1, <2>4, <2>6 DEF Good, Holds
  <2>7. \A f : Good(f) => Good(f)'
    BY <2>5, <2>6
  <2>8. (handled \cup ({writing} \ {None}))' = handled \cup ({writing} \ {None})
    BY <2>1, <2>2
  <2>9. \A y \in handled' : y \in handled \/ getResourceFileName(y.object) = n
    BY <2>0, <2>1 DEF n
  <2> QED
    BY <2>2, <2>5, <2>7, <2>8, <2>9 DEF Whole
<1>5. CASE Rerun
  BY <1>5 DEF Rerun, Whole
<1>6. CASE Fails \/ WriteFails
  BY <1>6 DEF Fails, WriteFails, Whole
<1>7. CASE PreRun \/ ListBindings \/ (\E s \in Selectors : ListPods(s)) \/ getOwner
  BY <1>2, <1>7 DEF PreRun, ListBindings, ListPods, getOwner, output
<1>8. CASE Delete \/ Apply \/ UNCHANGED vars
  BY <1>2, <1>8 DEF Delete, Apply, vars, output
<1> QED
  BY <1>3, <1>4, <1>5, <1>6, <1>7, <1>8 DEF Next, Progress

\* When the command ends well, every file it has written is whole and has what
\* this run had for it, also where names collide and after earlier runs
\* (os.Create and Encode in createServiceAccountFile and createResourceFile).
THEOREM WholeFilesThm == Spec => []WholeFiles
<1>1. Init => Whole
  BY DEF Init, Whole
<1>2. ASSUME IInv, Whole PROVE WholeFiles
  <2>1. pc = "done" => writing = None
    BY <1>2 DEF IInv, Stages
  <2> QED
    BY <1>2, <2>1 DEF Whole, Good, WholeFiles, AccountFile
<1> QED
  BY Invariance, WholeStep, <1>1, <1>2, PTL DEF Spec

\* A run after the files were applied writes them again as they were
\* (addProxyContainer, addProxyInitContainer, createServiceAccountFile).
THEOREM RerunStableThm == Spec => []RerunStable
<1>1. ASSUME IInv PROVE RerunStable
  <2>1. PICK C \in Clusters : Since(C)
    BY <1>1 DEF IInv
  <2>2. TypeOK /\ DOMAIN C = Objects
    BY <1>1, <2>1 DEF IInv, Since
  <2> SUFFICES ASSUME applied # None, NEW x \in handled, Unique(x.object),
                      getResourceFileName(x.object) \in DOMAIN applied,
                      applied[getResourceFileName(x.object)] # Broken
               PROVE  Migrated(x) = applied[getResourceFileName(x.object)]
    BY DEF RerunStable
  <2>3. x.object \in Objects /\ x.spec \in SpecsOf(Objects) /\ x \in Entries
    BY <2>2 DEF TypeOK, ResultsOf, Entries
  <2> DEFINE m == Mig(x.object, C[x.object])
  <2>4. InEntries(x.object, m) /\ InApplied(x.object, m)
    BY <2>1, <2>3 DEF Since, Agree
  <2> HIDE DEF m
  <2>5. applied[getResourceFileName(x.object)] = [object |-> x.object, spec |-> m]
    BY <2>4 DEF InApplied, OwnFile
  <2>6. Mig(x.object, x.spec) = m
    BY <2>3, <2>4 DEF InEntries
  <2>7. Migrated(x) = [object |-> x.object, spec |-> Mig(x.object, x.spec)]
    BY <2>3, MigratedIsMig
  <2> QED
    BY <2>5, <2>6, <2>7
<1> QED
  BY Invariance, <1>1, PTL

\* Nothing is written before every pod that was listed has its workload (run
\* resolves all of ownerReferences first).
THEOREM LookupFirstThm == Spec => LookupFirst
<1> DEFINE A == files' # files =>
                  /\ toList = {}
                  /\ \A p \in listed :
                        \E x \in results \cup handled \cup ({writing} \ {None}) :
                            x.pod = p /\ Controller(x.spec) = None
<1>1. ASSUME Next, files' # files PROVE pc \in {"accounts", "resource"}
  BY <1>1 DEF Next, Progress, PreRun, ListBindings, ListPods, getOwner, createServiceAccountFile,
              createResourceFile, Fails, WriteFails, Delete, Apply, Rerun, output
<1>2. ASSUME IInv, Next PROVE A
  <2> SUFFICES ASSUME files' # files
               PROVE  /\ toList = {}
                      /\ \A p \in listed : \E x \in Entries : x.pod = p /\ Controller(x.spec) = None
    BY DEF Entries
  <2>1. pc \in {"accounts", "resource"}
    BY <1>1, <1>2
  <2>2. toList = {} /\ Open = {}
    BY <1>2, <2>1 DEF IInv, Stages
  <2>3. \A p \in listed : \E x \in Entries : x.pod = p
    BY <1>2, <2>1, <2>2 DEF IInv, Covered
  <2> QED
    BY <1>2, <2>2, <2>3 DEF IInv, Uncontrolled
<1>3. IInv /\ [Next]_vars => [A]_vars
  BY <1>2
<1> QED
  BY Invariance, <1>3, PTL DEF Spec, LookupFirst
=============================================================================
