------------------------------- MODULE Azure -------------------------------
(***************************************************************************)
(* What azwi serviceaccount changes: the applications, service principals, *)
(* federated identity credentials and role assignments in Azure, and the   *)
(* service account in the cluster, as src/pkg/cloud/graph.go and           *)
(* roleassignments.go reach them.  One service account, one application    *)
(* name, one role and scope: what a set of azwi runs for one workload      *)
(* shares.                                                                 *)
(*                                                                         *)
(* An application has at most one service principal and, for the one       *)
(* subject modelled, at most one federated credential, so both are         *)
(* identified with it.  An application gets its name as display name, and  *)
(* so does its service principal: neither is unique in Azure.              *)
(***************************************************************************)
EXTENDS Naturals, Sequences, FiniteSets

CONSTANTS
    Apps,      \* the identifiers Azure gives to applications
    Other,     \* a service principal that is none of theirs
    Absent,    \* no service account
    Empty,     \* a service account with an empty client ID annotation
    None,      \* no value in a cache or a variable of a run
    NotFound,  \* "... not found", an error IsNotFound recognises
    Outage     \* any other error of a call

ASSUME AzureAssumption ==
    /\ IsFiniteSet(Apps)
    /\ Other \notin {Absent, Empty, None, NotFound, Outage}
    /\ Absent \notin {Empty, None, NotFound, Outage}
    /\ Empty \notin {None, NotFound, Outage}
    /\ None \notin {NotFound, Outage}
    /\ NotFound # Outage
    /\ Apps \cap {Other, Absent, Empty, None, NotFound, Outage} = {}

VARIABLES
    apps,        \* the applications
    principals,  \* those with a service principal
    fics,        \* those that trust the service account
    role,        \* the principals with the role
    sa           \* the service account: Absent, or its client ID

cloud == <<apps, principals, fics, role, sa>>

CloudTypeOK ==
    /\ apps \subseteq Apps
    /\ principals \subseteq apps
    /\ fics \subseteq apps
    /\ role \subseteq Apps \cup {Other}
    /\ sa \in Apps \cup {Absent, Empty}

\* The answers to a listing by name, of which the code takes the first entry;
\* with lag it may miss what was created before it.
FirstOf(named, lag) ==
    {Outage} \cup named \cup {n \in {NotFound} : lag \/ named = {}}

\* Whether a run knows the application's name: from its flag, or made of three
\* others.  Without it the code asks for the empty name, which nothing has.
AADApplicationName(o) ==
    "name" \in o.given \/ {"namespace", "account", "issuer"} \subseteq o.given

GetApplication(o, lag) == FirstOf({a \in apps : AADApplicationName(o)}, lag)

\* The name may be the application's, when --service-principal-name is not
\* given, that of another service principal, or one that is not in use.
GetServicePrincipal(o, lag) ==
    FirstOf(CASE o.sp = "application" -> {a \in principals : AADApplicationName(o)}
              [] o.sp = "taken" -> {Other}
              [] o.sp = "unused" -> {}, lag)

-----------------------------------------------------------------------------
\* The phases of a run (workflow/runner.go).  o.only is the phase of the
\* "phase" subcommand or None, o.skip the phases of --skip-phases, o.unknown
\* whether that flag also names something else, o.given the other flags that
\* are set, and to something valid.
PhaseNames ==
    {"aad-application", "service-account", "federated-identity", "role-assignment"}

Active(o) == IF o.only # None THEN {o.only} ELSE PhaseNames \ o.skip

\* Run asks every phase first: objections are the active phases whose PreRun is
\* an error.
Refused(o, objections) == o.unknown \/ objections # {}

\* The phase a run goes to from the i-th of its command.
Following(order, active, i) ==
    LET left == {j \in i+1..Len(order) : order[j] \in active}
    IN  IF left = {} THEN "done"
        ELSE order[CHOOSE j \in left : \A k \in left : j <= k]

Position(order, phase) == CHOOSE i \in 1..Len(order) : order[i] = phase
=============================================================================
