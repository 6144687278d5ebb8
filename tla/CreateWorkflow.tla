--------------------------- MODULE CreateWorkflow ---------------------------
(***************************************************************************)
(* azwi serviceaccount create (src/pkg/cmd/serviceaccount/create.go and    *)
(* phases/create): several runs of the command for one service account,    *)
(* each with its own flags, one after another or at the same time.  A call *)
(* may fail, take effect without its answer arriving, and a run may be     *)
(* interrupted between two calls; the user runs the command again.         *)
(*                                                                         *)
(* A run's pc is the name of a phase at the start of that phase, the name  *)
(* of a later step within it, or how the run ended.                        *)
(***************************************************************************)
EXTENDS Azure

CONSTANTS
    Runs,          \* the runs, in the order in which they are started
    Choices,       \* the flags a run may be given and its circumstances
    Plans,         \* the choices that the runs are given together
    RoleAttempts   \* roleAssignmentCreateRetryCount

ASSUME CreateAssumption ==
    /\ Runs \subseteq Nat
    /\ None \notin Runs
    /\ Plans \subseteq [Runs -> Choices]
    /\ RoleAttempts \in Nat \ {0}
    /\ \A o \in Choices :
          /\ o.only \in PhaseNames \cup {None}
          /\ o.skip \subseteq PhaseNames
          /\ o.unknown \in BOOLEAN
          /\ o.given \subseteq {"name", "namespace", "account", "issuer", "expiration",
                                "scope", "role"}
          /\ o.alone \in BOOLEAN     \* whether it waits for earlier runs to end
          /\ o.lag \in BOOLEAN       \* whether its listings may be stale
          /\ o.sp \in {"application", "taken", "unused"}
          /\ o.clientID \in Apps \cup {None}    \* --aad-application-client-id
          /\ o.objectID \in Apps \cup {None}    \* --aad-application-object-id
          /\ o.principalID \in Apps \cup {Other, None}

VARIABLES
    opt,        \* the choice of each run
    pc,
    app,        \* what the aad-application phase found or created
    cachedApp,  \* createData.aadApplication
    cachedSP,   \* createData.servicePrincipal
    id,         \* the identifier the current phase passes to its call
    tries,      \* attempts at the role assignment
    writer      \* history: the run that last wrote the service account

vars == <<cloud, opt, pc, app, cachedApp, cachedSP, id, tries, writer>>

CreateOrder ==
    <<"aad-application", "service-account", "federated-identity", "role-assignment">>

\* How a run ends: "conflict" is the service principal it must not create
\* twice.
Ended == {"done", "refused", "failed", "conflict", "interrupted"}

Steps == {"createApp", "getSP", "createSP", "writeSA", "addFIC", "role", "assign"}

TypeOK ==
    /\ CloudTypeOK
    /\ opt \in [Runs -> Choices]
    /\ pc \in [Runs -> {"start"} \cup PhaseNames \cup Steps \cup Ended]
    /\ app \in [Runs -> Apps \cup {None}]
    /\ cachedApp \in [Runs -> Apps \cup {None}]
    /\ cachedSP \in [Runs -> Apps \cup {Other, None}]
    /\ id \in [Runs -> Apps \cup {Other, Empty, None}]
    /\ tries \in [Runs -> 0..RoleAttempts]
    /\ writer \in Runs \cup {None}

Init ==
    /\ apps = {} /\ principals = {} /\ fics = {} /\ role = {}
    /\ sa = Absent
    /\ opt \in Plans
    /\ pc = [r \in Runs |-> "start"]
    /\ app = [r \in Runs |-> None]
    /\ cachedApp = app /\ cachedSP = app /\ id = app
    /\ tries = [r \in Runs |-> 0]
    /\ writer = None

-----------------------------------------------------------------------------
Go(r, step) == pc' = [pc EXCEPT ![r] = step]

After(r, phase) ==
    Go(r, Following(CreateOrder, Active(opt[r]), Position(CreateOrder, phase)))

\* Mutant of AADApplication: the listing is asked every time.
AADApplicationUncached(r, answer) ==
    /\ answer \in GetApplication(opt[r], opt[r].lag)
    /\ UNCHANGED cachedApp

\* createData.AADApplication: the cached application, or the answer of a
\* listing, which is cached when it is an application.
AADApplication(r, answer) ==
    /\ answer \in IF cachedApp[r] # None THEN {cachedApp[r]}
                  ELSE GetApplication(opt[r], opt[r].lag)
    /\ cachedApp' = [cachedApp EXCEPT ![r] = IF answer \in Apps THEN answer ELSE @]

\* createData.ServicePrincipal, likewise, by ServicePrincipalName.
ServicePrincipal(r, answer) ==
    /\ answer \in IF cachedSP[r] # None THEN {cachedSP[r]}
                  ELSE GetServicePrincipal(opt[r], opt[r].lag)
    /\ cachedSP' = [cachedSP EXCEPT
                       ![r] = IF answer \in {NotFound, Outage} THEN @ ELSE answer]

\* The identifier of an object, or the empty string for any error.
IdOf(answer) == IF answer \in {NotFound, Outage} THEN Empty ELSE answer

Answers == Apps \cup {Other, NotFound, Outage}

\* What the phases ask of the flags.
serviceAccountPrerun(o) == {"namespace", "account", "expiration"} \subseteq o.given
federatedIdentityPrerun(o) == {"namespace", "account", "issuer"} \subseteq o.given
roleAssignmentPrerun(o) ==
    /\ {"scope", "role"} \subseteq o.given
    /\ o.sp # "application" \/ AADApplicationName(o) \/ o.principalID # None

prerun(o, phase) ==
    CASE phase = "aad-application" -> AADApplicationName(o)
      [] phase = "service-account" -> serviceAccountPrerun(o)
      [] phase = "federated-identity" -> federatedIdentityPrerun(o)
      [] phase = "role-assignment" -> roleAssignmentPrerun(o)

\* runner.Run: the flags and the PreRun of every active phase come first.  A
\* run also ends there without a client for Azure or the cluster.  The user has
\* the identifiers in the flags from objects that exist.
Begin(r) ==
    /\ pc[r] = "start"
    /\ \A q \in Runs : q < r => pc[q] # "start" /\ (opt[r].alone => pc[q] \in Ended)
    /\ {opt[r].clientID, opt[r].objectID} \subseteq apps \cup {None}
    /\ opt[r].principalID \in principals \cup {Other, None}
    /\ \/ Go(r, "refused")
       \/ /\ ~Refused(opt[r], {p \in Active(opt[r]) : ~prerun(opt[r], p)})
          /\ Go(r, Following(CreateOrder, Active(opt[r]), 0))
    /\ UNCHANGED <<cloud, opt, app, cachedApp, cachedSP, id, tries, writer>>

\* Mutant of FindApp: a service principal is looked for only with a new
\* application.
FindAppIsEnough(r) ==
    /\ pc[r] = "aad-application"
    /\ \E a \in Answers :
          /\ AADApplication(r, a)
          /\ \/ a = Outage /\ Go(r, "failed") /\ UNCHANGED app
             \/ a = NotFound /\ Go(r, "createApp") /\ UNCHANGED app
             \/ a \in Apps /\ After(r, "aad-application") /\ app' = [app EXCEPT ![r] = a]
    /\ UNCHANGED <<cloud, opt, cachedSP, id, tries, writer>>

\* Mutant of FindApp: any error of the listing counts as not found.
FindAppOrCreate(r) ==
    /\ pc[r] = "aad-application"
    /\ \E a \in Answers :
          /\ AADApplication(r, a)
          /\ \/ a \notin Apps /\ Go(r, "createApp") /\ UNCHANGED app
             \/ a \in Apps /\ Go(r, "getSP") /\ app' = [app EXCEPT ![r] = a]
    /\ UNCHANGED <<cloud, opt, cachedSP, id, tries, writer>>

\* The aad-application phase: find the application or create it, then its
\* service principal.  What is created is not cached.
FindApp(r) ==
    /\ pc[r] = "aad-application"
    /\ \E a \in Answers :
          /\ AADApplication(r, a)
          /\ \/ a = Outage /\ Go(r, "failed") /\ UNCHANGED app
             \/ a = NotFound /\ Go(r, "createApp") /\ UNCHANGED app
             \/ a \in Apps /\ Go(r, "getSP") /\ app' = [app EXCEPT ![r] = a]
    /\ UNCHANGED <<cloud, opt, cachedSP, id, tries, writer>>

CreateApp(r) ==
    /\ pc[r] = "createApp"
    /\ \E a \in Apps \ apps :
          /\ apps' = apps \cup {a}
          /\ \/ Go(r, "getSP") /\ app' = [app EXCEPT ![r] = a]
             \/ Go(r, "failed") /\ UNCHANGED app          \* the answer is lost
    /\ UNCHANGED <<principals, fics, role, sa, opt, cachedApp, cachedSP, id, tries, writer>>

FindSP(r) ==
    /\ pc[r] = "getSP"
    /\ \E s \in Answers :
          /\ ServicePrincipal(r, s)
          /\ \/ s = Outage /\ Go(r, "failed")
             \/ s = NotFound /\ Go(r, "createSP")
             \/ s \in Apps \cup {Other} /\ After(r, "aad-application")
    /\ UNCHANGED <<cloud, opt, app, cachedApp, id, tries, writer>>

CreateSP(r) ==
    /\ pc[r] = "createSP"
    /\ principals' = principals \cup {app[r]}
    /\ IF app[r] \in principals THEN Go(r, "conflict")
       ELSE After(r, "aad-application") \/ Go(r, "failed")
    /\ UNCHANGED <<apps, fics, role, sa, opt, app, cachedApp, cachedSP, id, tries, writer>>

\* AADApplicationClientID and AADApplicationObjectID: the flag, or the
\* application's.
IdByFlag(r, flag) ==
    \/ flag # None /\ id' = [id EXCEPT ![r] = flag] /\ UNCHANGED cachedApp
    \/ flag = None /\ \E a \in Answers :
          AADApplication(r, a) /\ id' = [id EXCEPT ![r] = IdOf(a)]

\* The service-account phase: AADApplicationClientID, then create or update.
ReadClient(r) ==
    /\ pc[r] = "service-account"
    /\ IdByFlag(r, opt[r].clientID)
    /\ Go(r, "writeSA")
    /\ UNCHANGED <<cloud, opt, app, cachedSP, tries, writer>>

\* Create, and Update where the account exists, in one step: of two runs that
\* meet here, the account has what the last call wrote.
CreateOrUpdateServiceAccount(r) ==
    /\ pc[r] = "writeSA"
    /\ sa' = id[r]
    /\ writer' = r
    /\ After(r, "service-account") \/ Go(r, "failed")
    /\ UNCHANGED <<apps, principals, fics, role, opt, app, cachedApp, cachedSP, id, tries>>

\* Mutant of ReadObject: the application is listed again, not taken from the
\* cache.
ReadObjectAnew(r) ==
    /\ pc[r] = "federated-identity"
    /\ \E a \in GetApplication(opt[r], opt[r].lag) : id' = [id EXCEPT ![r] = IdOf(a)]
    /\ Go(r, "addFIC")
    /\ UNCHANGED <<cloud, opt, app, cachedApp, cachedSP, tries, writer>>

\* The federated-identity phase: AADApplicationObjectID, then the credential;
\* one that exists already will do.  The identifier may name no application.
ReadObject(r) ==
    /\ pc[r] = "federated-identity"
    /\ IdByFlag(r, opt[r].objectID)
    /\ Go(r, "addFIC")
    /\ UNCHANGED <<cloud, opt, app, cachedSP, tries, writer>>

AddFederatedCredential(r) ==
    /\ pc[r] = "addFIC"
    /\ id[r] \in apps
    /\ fics' = fics \cup {id[r]}
    /\ After(r, "federated-identity") \/ Go(r, "failed")
    /\ UNCHANGED <<apps, principals, role, sa, opt, app, cachedApp, cachedSP, id, tries, writer>>

\* The role-assignment phase: ServicePrincipalObjectID, the role definition,
\* then attempts at the assignment.  The error of the last attempt is that of
\* an inner err: the outer one, which is returned, is nil.
ReadPrincipal(r) ==
    /\ pc[r] = "role-assignment"
    /\ \/ /\ opt[r].principalID # None
          /\ id' = [id EXCEPT ![r] = opt[r].principalID] /\ UNCHANGED cachedSP
       \/ /\ opt[r].principalID = None
          /\ \E s \in Answers : ServicePrincipal(r, s) /\ id' = [id EXCEPT ![r] = IdOf(s)]
    /\ Go(r, "role")
    /\ UNCHANGED <<cloud, opt, app, cachedApp, tries, writer>>

GetRoleDefinition(r) ==
    /\ pc[r] = "role"
    /\ Go(r, "assign")
    /\ UNCHANGED <<cloud, opt, app, cachedApp, cachedSP, id, tries, writer>>

\* Mutant of TryAgain: one attempt more than the constant.
TryOnceMore(r) ==
    /\ tries' = [tries EXCEPT ![r] = @ + 1]
    /\ IF tries[r] < RoleAttempts THEN UNCHANGED pc ELSE After(r, "role-assignment")

TryAgain(r) ==
    /\ tries' = [tries EXCEPT ![r] = @ + 1]
    /\ IF tries[r] + 1 < RoleAttempts THEN UNCHANGED pc ELSE After(r, "role-assignment")

CreateRoleAssignment(r) ==
    /\ pc[r] = "assign"
    /\ \/ /\ id[r] \in principals \cup {Other}
          /\ role' = role \cup {id[r]}
          /\ \/ After(r, "role-assignment") /\ UNCHANGED tries   \* made, or there already
             \/ TryAgain(r)                                      \* the answer is lost
       \/ TryAgain(r) /\ UNCHANGED role
    /\ UNCHANGED <<apps, principals, fics, sa, opt, app, cachedApp, cachedSP, id, writer>>

\* A call fails and has changed nothing.
CallFails(r) ==
    /\ pc[r] \in {"createApp", "createSP", "writeSA", "addFIC", "role"}
    /\ Go(r, "failed")
    /\ UNCHANGED <<cloud, opt, app, cachedApp, cachedSP, id, tries, writer>>

Interrupt(r) ==
    /\ pc[r] \in PhaseNames \cup Steps
    /\ Go(r, "interrupted")
    /\ UNCHANGED <<cloud, opt, app, cachedApp, cachedSP, id, tries, writer>>

CreateStep(r) ==
    \/ Begin(r) \/ FindApp(r) \/ CreateApp(r) \/ FindSP(r) \/ CreateSP(r)
    \/ ReadClient(r) \/ CreateOrUpdateServiceAccount(r)
    \/ ReadObject(r) \/ AddFederatedCredential(r)
    \/ ReadPrincipal(r) \/ GetRoleDefinition(r) \/ CreateRoleAssignment(r)
    \/ CallFails(r) \/ Interrupt(r)

Next == \E r \in Runs : CreateStep(r)

Spec == Init /\ [][Next]_vars

-----------------------------------------------------------------------------
\* Runs one after another, with listings that show what was created.
Orderly == \A r \in Runs : opt[r].alone /\ ~opt[r].lag

\* Such runs leave at most one application of the name, however many of them
\* were interrupted or lost an answer: aadapplication.go creates one only when
\* none is found.
OneApplication == Orderly => Cardinality(apps) <= 1

\* Such runs give the application one service principal: one that ends well
\* leaves the application it found or created with it, also when an earlier run
\* stopped between the two, and none asks for a second, which fails, unless it
\* looks by a name the first cannot have (aadapplication.go checks for each on
\* its own; ServicePrincipalName, GetServicePrincipal).
OnePrincipal ==
    Orderly => \A r \in Runs :
        /\ pc[r] = "done" /\ app[r] # None /\ opt[r].sp = "application"
               => app[r] \in principals
        /\ pc[r] = "conflict" => opt[r].sp = "unused"

\* A client ID on the service account is never replaced by an empty one by such
\* a run whose aad-application phase is active: it found the application
\* and cached it before its service-account phase asks for the ID.
AnnotationKept ==
    [][(Orderly /\ sa \in Apps /\ sa' = Empty)
         => "aad-application" \notin Active(opt[writer'])]_vars

\* When the run that last wrote the service account has ended well with its
\* federated-identity phase, the application the service account names trusts
\* it, whatever other runs did meanwhile and whatever the listings missed:
\* both phases use the application the run has cached, or those of its flags,
\* which must then be the same.
TrustMatchesAnnotation ==
    (/\ writer # None
     /\ pc[writer] = "done"
     /\ opt[writer].clientID = opt[writer].objectID
     /\ "federated-identity" \in Active(opt[writer])
     /\ sa \in Apps) => sa \in fics

\* What create.go:103 and phases/create/data.go:28 say of AADApplication, that
\* it returns "the cached value if it has been created": a run that created or
\* found the application knows its client ID when it writes the service
\* account.
OwnAppAnnotated == writer # None /\ sa = Empty => app[writer] = None

\* What roleassignments.go:19 says of CreateRoleAssignment, that it "creates a
\* role assignment", with retries for the propagation of the principal
\* (roleassignments.go:40): a run that ends well with its role-assignment phase
\* leaves a principal with the role.
RoleOnSuccess ==
    \A r \in Runs :
        pc[r] = "done" /\ "role-assignment" \in Active(opt[r]) => role # {}
=============================================================================
