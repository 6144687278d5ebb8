------------------------------- MODULE Detect -------------------------------
(***************************************************************************)
(* azwi podidentity detect (src/pkg/cmd/podidentity/detect.go): the        *)
(* command looks up the workloads of a namespace that use aad-pod-identity *)
(* and writes, for each, a file with its service account and one with the  *)
(* workload itself.  Objects and service accounts are deleted while it     *)
(* runs, calls and writes fail, the command is interrupted; afterwards the *)
(* user applies what is in the directory and may run the command again.    *)
(*                                                                         *)
(* An object, pods included, is identified by its kind and name.  A name   *)
(* is a sequence of parts, so that the file of one object can have the     *)
(* name of another's: "web-serviceaccount" is <<"web", "serviceaccount">>. *)
(* Of an object the model keeps the label of aad-pod-identity, the owner   *)
(* references, and the service account and containers of its pod template. *)
(***************************************************************************)
EXTENDS Naturals, Sequences

CONSTANTS
    Clusters,     \* the clusters the command may meet: objects to specs
    Bindings,     \* what bindings they may have: sets of [name, selector, identity]
    Identities,   \* their AzureIdentities: a set of [name, msi, client]
    Selectors,    \* the values of the label
    Parts,        \* what names are made of
    Names,        \* the names of objects and service accounts
    MaxRuns,      \* bound on the runs of the command
    MaxDeletes,   \* bound on what others delete while it runs
    None, Gone, Broken, Default

Clients == {i.client : i \in Identities}

\* The images of containers: others, and the two of the migration.
Images == {"app", "init", "proxy", "proxy-init"}

\* The specs of objects of a cluster with these objects.
SpecsOf(objects) ==
    [label : Selectors \cup {None}, account : Names \cup {Default},
     refs : SUBSET [object : objects, controller : BOOLEAN],
     containers : Seq(Images), initContainers : Seq(Images)]

\* What the command keeps of a pod and its owner, and what it writes.
RefsOf(objects) == [pod : objects, object : objects, client : Clients]
ResultsOf(objects) ==
    [pod : objects, object : objects, client : Clients, spec : SpecsOf(objects)]
AccountFiles == [account : Names, client : Clients]
ResourceFiles(objects) == [object : objects, spec : SpecsOf(objects)]

ASSUME DetectAssumption ==
    /\ Names \subseteq Seq(Parts) /\ "serviceaccount" \in Parts
    /\ Default \notin Names
    /\ \A b \in UNION Bindings : b.name \in Nat
    /\ MaxRuns \in Nat \ {0} /\ MaxDeletes \in Nat
    /\ \A C \in Clusters :
          /\ \A o \in DOMAIN C : o.name \in Names /\ C[o] \in SpecsOf(DOMAIN C)
          /\ None \notin DOMAIN C \cup SpecsOf(DOMAIN C)
                              \cup RefsOf(DOMAIN C) \cup ResultsOf(DOMAIN C)
          /\ Gone \notin SpecsOf(DOMAIN C)
          /\ Broken \notin AccountFiles \cup ResourceFiles(DOMAIN C)

VARIABLES
    cluster,    \* the spec of each object, or Gone
    accounts,   \* each service account's client ID, None without one, or Gone
    bindings,
    files,      \* the output directory
    pc,
    toList,     \* the selectors whose pods are still to be listed
    refs,       \* the entries of ownerReferences that are left
    resolving,  \* the one whose owners getOwner is following, or None
    results,    \* the entries of results that are left
    writing,    \* the one whose service account file was written, or None
    listed,     \* history: the pods this run has listed
    handled,    \* history: the entries whose files this run has written
    applied,    \* history: the directory when the user applied it, or None
    deletes, runs

lookup == <<toList, refs, resolving, listed>>
output == <<files, results, writing, handled>>
world == <<cluster, accounts, bindings, applied, deletes, runs>>
vars == <<world, lookup, output, pc>>

Objects == DOMAIN cluster

Ended == {"done", "refused", "failed"}

Specs == SpecsOf(Objects)

TypeOK ==
    /\ \A o \in Objects : cluster[o] \in Specs \cup {Gone}
    /\ accounts \in [Names -> Clients \cup {None, Gone}]
    /\ \A f \in DOMAIN files :
          files[f] \in AccountFiles \cup ResourceFiles(Objects) \cup {Broken}
    /\ pc \in {"start", "bindings", "pods", "owners", "accounts", "resource"} \cup Ended
    /\ toList \subseteq Selectors
    /\ refs \subseteq RefsOf(Objects) /\ resolving \in RefsOf(Objects) \cup {None}
    /\ results \cup handled \subseteq ResultsOf(Objects)
    /\ writing \in ResultsOf(Objects) \cup {None}
    /\ listed \subseteq Objects
    /\ deletes \in 0..MaxDeletes /\ runs \in 1..MaxRuns

Init ==
    /\ cluster \in Clusters /\ bindings \in Bindings
    /\ accounts = [a \in Names |-> IF \E o \in Objects : cluster[o].account = a THEN None ELSE Gone]
    /\ files = <<>> /\ applied = None
    /\ pc = "start"
    /\ toList = {} /\ refs = {} /\ resolving = None /\ listed = {}
    /\ results = {} /\ writing = None /\ handled = {}
    /\ deletes = 0 /\ runs = 1

-----------------------------------------------------------------------------
\* The names of an object's files.
getResourceFileName(o) == o.name
getServiceAccountFileName(o) == Append(o.name, "serviceaccount")

\* The bindings of a selector that filterAzureIdentities can use: of an
\* identity that exists and is a user-assigned one.
Usable(s) ==
    {b \in bindings : /\ b.selector = s
                      /\ \E i \in Identities : i.name = b.identity /\ i.msi}

\* Mutant of ClientFor: the last binding takes the selector.
ClientOfLast(s) ==
    LET b == CHOOSE x \in Usable(s) : \A y \in Usable(s) : x.name >= y.name
    IN  (CHOOSE i \in Identities : i.name = b.identity).client

\* The client ID of a selector: the first of them, by name, counts.
ClientFor(s) ==
    LET b == CHOOSE x \in Usable(s) : \A y \in Usable(s) : x.name <= y.name
    IN  (CHOOSE i \in Identities : i.name = b.identity).client

\* The owner that is the controller, or None.
Controller(spec) ==
    IF \E r \in spec.refs : r.controller
    THEN (CHOOSE r \in spec.refs : r.controller).object ELSE None

\* getOwnerObject: other kinds are an error.
Kinds == {"Deployment", "StatefulSet", "CronJob", "Job", "DaemonSet",
          "ReplicaSet", "ReplicationController"}

\* NewLocalObject: for other kinds it returns nil, which run would use.
LocalKinds == {"Pod", "Deployment", "StatefulSet", "DaemonSet", "ReplicaSet",
               "ReplicationController", "CronJob", "Job"}

\* Mutant of AccountFor: a workload keeps the default service account.
AccountKept(x) == x.spec.account

\* The service account of the migrated workload.
AccountFor(x) == IF x.spec.account = Default THEN x.object.name ELSE x.spec.account

\* Mutant of AddUnlessThere: the image is not looked for.
AddAnother(containers, image) == Append(containers, image)

\* Images are compared by prefix, and that of proxy is one of proxy-init.
IsImage(i, image) == i = image \/ (image = "proxy" /\ i = "proxy-init")

\* addProxyContainer and addProxyInitContainer.
AddUnlessThere(containers, image) ==
    IF \E i \in 1..Len(containers) : IsImage(containers[i], image)
    THEN containers ELSE Append(containers, image)

\* What createResourceFile makes of the object.
Migrated(x) ==
    [object |-> x.object,
     spec |-> [x.spec EXCEPT
                 !.account = AccountFor(x),
                 !.containers = AddUnlessThere(@, "proxy"),
                 !.initContainers = AddUnlessThere(@, "proxy-init")]]

\* Mutant of Write: the file is opened without being truncated, and the end of
\* what it had stays.
WriteOver(name, content) ==
    files' = [f \in DOMAIN files \cup {name} |->
                 IF f # name THEN files[f]
                 ELSE IF f \in DOMAIN files /\ files[f] # content THEN Broken ELSE content]

\* os.Create and Encode.
Write(name, content) ==
    files' = [f \in DOMAIN files \cup {name} |-> IF f = name THEN content ELSE files[f]]

\* Where the command goes on with these left to do.
Stage(sel, rs, r, res) ==
    IF sel # {} THEN "pods"
    ELSE IF rs # {} \/ r # None THEN "owners"
    ELSE IF res # {} THEN "accounts" ELSE "done"

-----------------------------------------------------------------------------
\* prerun: the expiration, the client and the directory, before anything is
\* looked up.
PreRun ==
    /\ pc = "start"
    /\ pc' \in {"bindings", "refused"}
    /\ UNCHANGED <<world, lookup, output>>

\* The bindings and identities: what selectors there are.
ListBindings ==
    /\ pc = "bindings"
    /\ toList' = {s \in Selectors : Usable(s) # {}}
    /\ pc' = Stage(toList', {}, None, {})
    /\ UNCHANGED <<world, refs, resolving, listed, output>>

\* The pods of one selector.  Both maps are keyed by pointers, those in a
\* pod's owner reference or to a pod, so each pod makes an entry of its own.
ListPods(s) ==
    /\ pc = "pods" /\ s \in toList
    /\ LET pods == {o \in Objects : /\ o.kind = "Pod" /\ cluster[o] # Gone
                                    /\ cluster[o].label = s}
           owned == {p \in pods : Controller(cluster[p]) # None}
       IN  /\ refs' = refs \cup
                 {[pod |-> p, object |-> Controller(cluster[p]), client |-> ClientFor(s)]
                     : p \in owned}
           /\ results' = results \cup
                 {[pod |-> p, object |-> p, client |-> ClientFor(s), spec |-> cluster[p]]
                     : p \in pods \ owned}
           /\ listed' = listed \cup pods
    /\ toList' = toList \ {s}
    /\ pc' = Stage(toList', refs', None, results')
    /\ UNCHANGED <<world, resolving, files, writing, handled>>

\* The owner that an entry refers to, when it can be read.
Readable(x) == x.object.kind \in Kinds /\ cluster[x.object] # Gone

\* The entry of results for an owner that nothing controls.
Found(x) ==
    [pod |-> x.pod, object |-> x.object, client |-> x.client, spec |-> cluster[x.object]]

\* The recursive call: for the owner's own controller.
Up(x) == [x EXCEPT !.object = Controller(cluster[x.object])]

\* One call of getOwner, for the entries in any order: it reads the owner, and
\* goes on with the owner's own controller or adds the owner to results.
getOwner ==
    /\ pc = "owners"
    /\ \E x \in IF resolving # None THEN {resolving} ELSE refs :
          /\ refs' = refs \ {x}
          /\ IF ~Readable(x)
             THEN pc' = "failed" /\ UNCHANGED <<resolving, results>>
             ELSE /\ IF Controller(cluster[x.object]) # None
                     THEN resolving' = Up(x) /\ UNCHANGED results
                     ELSE resolving' = None /\ results' = results \cup {Found(x)}
                  /\ pc' = Stage({}, refs', resolving', results')
    /\ UNCHANGED <<world, toList, listed, files, writing, handled>>

\* Mutant of createServiceAccountFile: the files of an owner are written as
\* soon as it is found.
AccountFileAtOnce ==
    /\ pc \in {"owners", "accounts"} /\ resolving = None
    /\ \E x \in results :
          /\ x.spec.account # Default => accounts[x.spec.account] # Gone
          /\ Write(getServiceAccountFileName(x.object),
                   [account |-> AccountFor(x), client |-> x.client])
          /\ results' = results \ {x} /\ writing' = x
    /\ pc' = "resource"
    /\ UNCHANGED <<world, lookup, handled>>

\* Mutant of createServiceAccountFile: the file has the name of the account.
AccountFileByAccount ==
    /\ pc = "accounts"
    /\ \E x \in results :
          /\ x.spec.account # Default => accounts[x.spec.account] # Gone
          /\ Write(Append(AccountFor(x), "serviceaccount"),
                   [account |-> AccountFor(x), client |-> x.client])
          /\ results' = results \ {x} /\ writing' = x
    /\ pc' = "resource"
    /\ UNCHANGED <<world, lookup, handled>>

\* createServiceAccountFile for one of the results, in any order: a new
\* service account instead of the default one, otherwise the one in use.
createServiceAccountFile ==
    /\ pc = "accounts"
    /\ \E x \in results :
          /\ x.object.kind \in LocalKinds
          /\ results' = results \ {x}
          /\ IF x.spec.account # Default /\ accounts[x.spec.account] = Gone
             THEN pc' = "failed" /\ UNCHANGED <<files, writing>>
             ELSE /\ Write(getServiceAccountFileName(x.object),
                           [account |-> AccountFor(x), client |-> x.client])
                  /\ writing' = x
                  /\ pc' = "resource"
    /\ UNCHANGED <<world, lookup, handled>>

createResourceFile ==
    /\ pc = "resource"
    /\ Write(getResourceFileName(writing.object), Migrated(writing))
    /\ handled' = handled \cup {writing}
    /\ writing' = None
    /\ pc' = Stage({}, {}, None, results)
    /\ UNCHANGED <<world, lookup, results>>

\* A call to the API server or the creation of a file fails, or the command is
\* interrupted.
Fails ==
    /\ pc \in {"bindings", "pods", "owners", "accounts", "resource"}
    /\ pc' = "failed"
    /\ UNCHANGED <<world, lookup, output>>

\* A file is created and cannot be written to the end.
WriteFails ==
    /\ \/ pc = "accounts" /\ \E x \in results :
             Write(getServiceAccountFileName(x.object), Broken)
       \/ pc = "resource" /\ Write(getResourceFileName(writing.object), Broken)
    /\ pc' = "failed"
    /\ UNCHANGED <<world, lookup, results, writing, handled>>

Progress ==
    \/ PreRun \/ ListBindings \/ (\E s \in Selectors : ListPods(s)) \/ getOwner
    \/ createServiceAccountFile \/ createResourceFile

-----------------------------------------------------------------------------
\* Others delete an object or a service account.
Delete ==
    /\ pc \notin Ended \cup {"start"}
    /\ deletes < MaxDeletes
    /\ deletes' = deletes + 1
    /\ \/ \E o \in Objects :
             /\ cluster[o] # Gone
             /\ cluster' = [cluster EXCEPT ![o] = Gone]
             /\ UNCHANGED accounts
       \/ \E a \in Names :
             /\ accounts[a] # Gone
             /\ accounts' = [accounts EXCEPT ![a] = Gone]
             /\ UNCHANGED cluster
    /\ UNCHANGED <<bindings, applied, runs, lookup, output, pc>>

Content(o) ==
    LET f == getResourceFileName(o)
    IN  IF f \in DOMAIN files /\ files[f] \in [object : {o}, spec : Specs]
        THEN files[f].spec ELSE None

\* The client IDs the directory has for a service account.
Given(a) ==
    {c \in Clients : \E f \in DOMAIN files : files[f] = [account |-> a, client |-> c]}

\* The user applies the directory, in any order.
Apply ==
    /\ pc \in Ended
    /\ files # <<>> /\ applied = None
    /\ applied' = files
    /\ cluster' = [o \in Objects |-> IF Content(o) # None THEN Content(o) ELSE cluster[o]]
    /\ LET named == {a \in Names : Given(a) # {}}
       IN  \E last \in [named -> Clients] :
              /\ \A a \in named : last[a] \in Given(a)
              /\ accounts' = [a \in Names |-> IF a \in named THEN last[a] ELSE accounts[a]]
    /\ UNCHANGED <<bindings, deletes, runs, lookup, output, pc>>

Rerun ==
    /\ pc \in Ended /\ runs < MaxRuns
    /\ runs' = runs + 1
    /\ pc' = "start"
    /\ toList' = {} /\ refs' = {} /\ resolving' = None /\ listed' = {}
    /\ results' = {} /\ writing' = None /\ handled' = {}
    /\ UNCHANGED <<cluster, accounts, bindings, applied, deletes, files>>

Next == Progress \/ Fails \/ WriteFails \/ Delete \/ Apply \/ Rerun

Spec == Init /\ [][Next]_vars

-----------------------------------------------------------------------------
\* An object whose files are not those of another one.
Unique(o) ==
    \A p \in Objects \ {o} :
        {getResourceFileName(o), getServiceAccountFileName(o)}
            \cap {getResourceFileName(p), getServiceAccountFileName(p)} = {}

Holds(name, content) == name \in DOMAIN files /\ files[name] = content

\* Nothing is written before every pod that was listed has its workload: a
\* lookup that fails, for an owner of another kind or one that is gone, leaves
\* the directory as it was (run resolves all of ownerReferences first).
LookupFirst ==
    [][files' # files =>
          /\ toList = {}
          /\ \A p \in listed :
                \E x \in results \cup handled \cup ({writing} \ {None}) :
                    x.pod = p /\ Controller(x.spec) = None]_vars

\* When the command ends well, every pod it listed has the files of a workload
\* that nothing controls, and they fit: the service account the workload is
\* given is the one in its account file, and the pod's client ID is that of
\* its first usable binding.  Where the pods of a workload have different
\* client IDs, the account file has that of one of them; workloads that share
\* the name of a file are left to WholeFiles (run, createServiceAccountFile,
\* createResourceFile).
DoneMeansMigrated ==
    pc = "done" =>
        \A p \in listed : \E x \in handled :
            /\ x.pod = p
            /\ Controller(x.spec) = None
            /\ Unique(x.object) =>
                  /\ Holds(getResourceFileName(x.object), Migrated(x))
                  /\ \E y \in handled :
                        /\ y.object = x.object
                        /\ Holds(getServiceAccountFileName(x.object),
                                 [account |-> AccountFor(x), client |-> y.client])
            /\ cluster[p] # Gone =>
                  \E b \in Usable(cluster[p].label), i \in Identities :
                     /\ b.identity = i.name /\ i.client = x.client
                     /\ \A c \in Usable(cluster[p].label) : b.name <= c.name

\* However the command ends, also in the middle: a workload in the directory
\* comes with the account file of the service account it names, unless that
\* one could not be written (the account file is written first).
AccountFirst ==
    \A o \in Objects :
        Unique(o) /\ Content(o) # None =>
            /\ getServiceAccountFileName(o) \in DOMAIN files
            /\ LET f == files[getServiceAccountFileName(o)]
               IN  f # Broken => f.account = Content(o).account

\* A command that is run again after its files were applied writes them again
\* as they were: the proxies are not added twice, the service account made for
\* the workload is kept (addProxyContainer, addProxyInitContainer,
\* createServiceAccountFile).
RerunStable ==
    applied # None =>
        \A x \in handled :
            LET f == getResourceFileName(x.object)
            IN  Unique(x.object) /\ f \in DOMAIN applied /\ applied[f] # Broken
                    => Migrated(x) = applied[f]

\* When the command ends well, every file it has written is whole, the one
\* content or the other that this run had for it, also where two workloads
\* have files of the same name and the second write takes the place of the
\* first, and where an earlier run left a file (os.Create truncates, the
\* error of Encode is returned).
WholeFiles ==
    pc = "done" =>
        \A x \in handled :
            \A f \in {getResourceFileName(x.object), getServiceAccountFileName(x.object)} :
                \E y \in handled :
                    \/ /\ f = getResourceFileName(y.object)
                       /\ Holds(f, Migrated(y))
                    \/ /\ f = getServiceAccountFileName(y.object)
                       /\ Holds(f, [account |-> AccountFor(y), client |-> y.client])
=============================================================================
