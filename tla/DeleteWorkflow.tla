--------------------------- MODULE DeleteWorkflow ---------------------------
(***************************************************************************)
(* azwi serviceaccount delete (src/pkg/cmd/serviceaccount/delete.go and    *)
(* phases/delete): runs of the command that take away what create left,    *)
(* one after another or, with Overlap, at the same time.  A call may fail, *)
(* take effect without its answer arriving, and a run may be interrupted   *)
(* between two calls.                                                      *)
(*                                                                         *)
(* As in CreateWorkflow a run's pc is the name of a phase, of a step       *)
(* within it, or how the run ended.                                        *)
(***************************************************************************)
EXTENDS Azure

CONSTANTS
    Runs,      \* the runs, in the order in which they are started
    Choices,   \* the flags a run may be given
    Overlap,   \* whether runs may overlap in time
    Lag        \* whether a listing may miss what was created before it

ASSUME DeleteAssumption ==
    /\ Runs \subseteq Nat
    /\ Overlap \in BOOLEAN
    /\ Lag \in BOOLEAN
    /\ \A o \in Choices :
          /\ o.only \in PhaseNames \cup {None}
          /\ o.skip \subseteq PhaseNames
          /\ o.unknown \in BOOLEAN
          /\ o.given \subseteq {"name", "namespace", "account", "issuer"}
          /\ o.objectID \in Apps \cup {None}        \* --aad-application-object-id
          /\ o.assignment \in Apps \cup {Other, None} \* the principal of --role-assignment-id

VARIABLES
    opt,        \* the flags of each run
    pc,
    cachedApp,  \* deleteData.aadApplication
    object      \* the object ID the current phase passes to its calls

vars == <<cloud, opt, pc, cachedApp, object>>

\* Mutant of DeleteOrder: the application goes first.
ApplicationFirst ==
    <<"aad-application", "role-assignment", "federated-identity", "service-account">>

DeleteOrder ==
    <<"role-assignment", "federated-identity", "service-account", "aad-application">>

\* How a run ends: "unlisted" is a credential that the application's list does
\* not have, "gone" an object that vanished or was never found.
Ended == {"done", "refused", "failed", "unlisted", "gone", "interrupted"}

Steps == {"getFIC", "deleteFIC", "deleteSA", "objectAgain", "deleteApp"}

\* Types, and a run has one application: what its phases pass to their calls is
\* what the flag says or what the run has cached.
TypeOK ==
    /\ CloudTypeOK
    /\ opt \in [Runs -> Choices]
    /\ pc \in [Runs -> {"start"} \cup PhaseNames \cup Steps \cup Ended]
    /\ cachedApp \in [Runs -> Apps \cup {None}]
    /\ object \in [Runs -> Apps \cup {Empty, None}]
    /\ \A r \in Runs : object[r] \in Apps => object[r] \in {opt[r].objectID, cachedApp[r]}

\* What runs of create may have left: a service account names an existing
\* application or none, if its client ID could not be read.
Init ==
    /\ apps \in SUBSET Apps
    /\ principals \in SUBSET apps
    /\ fics \in SUBSET apps
    /\ role \in SUBSET (principals \cup {Other})
    /\ sa \in apps \cup {Absent, Empty}
    /\ opt \in [Runs -> Choices]
    /\ pc = [r \in Runs |-> "start"]
    /\ cachedApp = [r \in Runs |-> None]
    /\ object = cachedApp

-----------------------------------------------------------------------------
\* Mutant of DeletePhases: federated-identity is skipped whatever the flags.
NeverFederatedIdentity(o) ==
    IF o.only = None THEN Active(o) \ {"federated-identity"} ELSE Active(o)

\* delete.go: without --skip-phases aad-application the command also skips
\* federated-identity, whose credentials go with the application.  The "phase"
\* subcommand does not pass there.
DeletePhases(o) ==
    IF o.only = None /\ "aad-application" \in Active(o)
    THEN Active(o) \ {"federated-identity"}
    ELSE Active(o)

Go(r, step) == pc' = [pc EXCEPT ![r] = step]

After(r, phase) ==
    Go(r, Following(DeleteOrder, DeletePhases(opt[r]), Position(DeleteOrder, phase)))

\* What the phases ask of the flags.
roleAssignmentPrerun(o) == o.assignment # None
federatedIdentityPrerun(o) == {"namespace", "account", "issuer"} \subseteq o.given
serviceAccountPrerun(o) == {"namespace", "account"} \subseteq o.given

prerun(o, phase) ==
    CASE phase = "role-assignment" -> roleAssignmentPrerun(o)
      [] phase = "federated-identity" -> federatedIdentityPrerun(o)
      [] phase = "service-account" -> serviceAccountPrerun(o)
      [] phase = "aad-application" -> AADApplicationName(o) \/ o.objectID # None

\* As in CreateWorkflow.
Begin(r) ==
    /\ pc[r] = "start"
    /\ \A q \in Runs : q < r => pc[q] # "start" /\ (Overlap \/ pc[q] \in Ended)
    /\ \/ Go(r, "refused")
       \/ /\ ~Refused(opt[r], {p \in DeletePhases(opt[r]) : ~prerun(opt[r], p)})
          /\ Go(r, Following(DeleteOrder, DeletePhases(opt[r]), 0))
    /\ UNCHANGED <<cloud, opt, cachedApp, object>>

\* Mutant of AADApplicationObjectID: what a listing returned is not kept.
ObjectIDUncached(r) ==
    IF opt[r].objectID # None
    THEN object' = [object EXCEPT ![r] = opt[r].objectID] /\ UNCHANGED cachedApp
    ELSE /\ \E a \in GetApplication(opt[r], Lag) :
              object' = [object EXCEPT ![r] = IF a \in Apps THEN a ELSE Empty]
         /\ UNCHANGED cachedApp

\* deleteData.AADApplicationObjectID: the flag, the cached application, or
\* the answer of a listing, cached when it is one; empty on any error.
AADApplicationObjectID(r) ==
    IF opt[r].objectID # None
    THEN object' = [object EXCEPT ![r] = opt[r].objectID] /\ UNCHANGED cachedApp
    ELSE \E a \in IF cachedApp[r] # None THEN {cachedApp[r]} ELSE GetApplication(opt[r], Lag) :
            IF a \in Apps
            THEN /\ cachedApp' = [cachedApp EXCEPT ![r] = a]
                 /\ object' = [object EXCEPT ![r] = a]
            ELSE object' = [object EXCEPT ![r] = Empty] /\ UNCHANGED cachedApp

\* The role-assignment phase; Azure accepts the deletion of one that is gone.
DeleteRoleAssignment(r) ==
    /\ pc[r] = "role-assignment"
    /\ role' = role \ {opt[r].assignment}
    /\ After(r, "role-assignment") \/ Go(r, "failed")
    /\ UNCHANGED <<apps, principals, fics, sa, opt, cachedApp, object>>

\* The federated-identity phase.  Azure answers for an application it does not
\* have with the code that IsFederatedCredentialNotFound tests.  A list
\* without the credential gives ErrFederatedCredentialNotFound, which it does
\* not recognise.
ReadObject(r) ==
    /\ pc[r] = "federated-identity"
    /\ AADApplicationObjectID(r)
    /\ Go(r, "getFIC")
    /\ UNCHANGED <<cloud, opt>>

GetFederatedCredential(r) ==
    /\ pc[r] = "getFIC"
    /\ \/ object[r] \notin apps /\ After(r, "federated-identity")
       \/ object[r] \in fics /\ Go(r, "deleteFIC")
       \/ object[r] \in apps \ fics /\ Go(r, "unlisted")
    /\ UNCHANGED <<cloud, opt, cachedApp, object>>

DeleteFederatedCredential(r) ==
    /\ pc[r] = "deleteFIC"
    /\ fics' = fics \ {object[r]}
    /\ IF object[r] \in fics THEN After(r, "federated-identity") \/ Go(r, "failed")
       ELSE Go(r, "gone")
    /\ UNCHANGED <<apps, principals, role, sa, opt, cachedApp, object>>

\* The service-account phase: a Get, then a Delete; a service account that
\* either of them does not find is as good as deleted.
GetServiceAccount(r) ==
    /\ pc[r] = "service-account"
    /\ IF sa = Absent THEN After(r, "service-account") ELSE Go(r, "deleteSA")
    /\ UNCHANGED <<cloud, opt, cachedApp, object>>

DeleteServiceAccount(r) ==
    /\ pc[r] = "deleteSA"
    /\ sa' = Absent
    /\ After(r, "service-account") \/ Go(r, "failed")
    /\ UNCHANGED <<apps, principals, fics, role, opt, cachedApp, object>>

\* The aad-application phase asks for the object ID for its log, then again
\* for its call.  The service principal and the credentials of an application
\* go with it; a deletion without an object ID, or of what is gone, fails.
ReadObjectToLog(r) ==
    /\ pc[r] = "aad-application"
    /\ AADApplicationObjectID(r)
    /\ Go(r, "objectAgain")
    /\ UNCHANGED <<cloud, opt>>

ReadObjectAgain(r) ==
    /\ pc[r] = "objectAgain"
    /\ AADApplicationObjectID(r)
    /\ Go(r, "deleteApp")
    /\ UNCHANGED <<cloud, opt>>

DeleteApplication(r) ==
    /\ pc[r] = "deleteApp"
    /\ apps' = apps \ {object[r]}
    /\ principals' = principals \ {object[r]}
    /\ fics' = fics \ {object[r]}
    /\ IF object[r] \in apps THEN After(r, "aad-application") \/ Go(r, "failed")
       ELSE Go(r, "gone")
    /\ UNCHANGED <<role, sa, opt, cachedApp, object>>

\* A call fails and has changed nothing.
CallFails(r) ==
    /\ pc[r] \in {"role-assignment", "getFIC", "deleteFIC", "service-account", "deleteSA",
                  "deleteApp"}
    /\ Go(r, "failed")
    /\ UNCHANGED <<cloud, opt, cachedApp, object>>

Interrupt(r) ==
    /\ pc[r] \in PhaseNames \cup Steps
    /\ Go(r, "interrupted")
    /\ UNCHANGED <<cloud, opt, cachedApp, object>>

DeleteStep(r) ==
    \/ Begin(r) \/ DeleteRoleAssignment(r)
    \/ ReadObject(r) \/ GetFederatedCredential(r) \/ DeleteFederatedCredential(r)
    \/ GetServiceAccount(r) \/ DeleteServiceAccount(r)
    \/ ReadObjectToLog(r) \/ ReadObjectAgain(r) \/ DeleteApplication(r)
    \/ CallFails(r) \/ Interrupt(r)

Next == \E r \in Runs : DeleteStep(r)

Spec == Init /\ [][Next]_vars

-----------------------------------------------------------------------------
\* The application a run works on, if it knows one.
Target(r) == IF opt[r].objectID # None THEN opt[r].objectID ELSE object[r]

\* A run that ends well has left nothing of what it was asked to delete: the
\* assignment, the service account, the credential of the application it
\* found, with or without a phase for it (delete.go skips that phase when the
\* application goes), and the application.
DoneMeansGone ==
    \A r \in Runs : pc[r] = "done" =>
        LET asked == Active(opt[r])
        IN  /\ "role-assignment" \in asked => opt[r].assignment \notin role
            /\ "service-account" \in asked => sa = Absent
            /\ "federated-identity" \in asked => Target(r) \notin fics
            /\ "aad-application" \in asked => Target(r) \in Apps \ apps

\* As long as no run takes the application without the service account, the
\* service account never names an application that is gone, wherever runs
\* stop: delete.go has the application last.
NoDanglingAnnotation ==
    (\A r \in Runs : "aad-application" \in Active(opt[r]) => "service-account" \in Active(opt[r]))
        => (sa \in Apps => sa \in apps)
=============================================================================
