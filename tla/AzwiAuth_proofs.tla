-------------------------- MODULE AzwiAuth_proofs --------------------------
(***************************************************************************)
(* Proofs about AzwiAuth, for any clouds, subscriptions and flags and any  *)
(* number of changes of the CLI and of calls.                              *)
(***************************************************************************)
EXTENDS AzwiAuth, TLAPS

\* The CLI's own cloud.
Cloud == IF selected = None THEN AzureCloud ELSE selected

\* The clients there are.
Client == [credential : Methods, tenant : Tenants \cup {None}]

\* Before it reads a subscription Validate has none, and it makes no call
\* before it has a client; from the lookup of the tenant on it has one.
Staged ==
    /\ pc \in {"flags", "clouds", "config"} => subscription = None
    /\ pc \in {"tenant", "client", "ready"} => subscription \in Subscriptions
    /\ pc \in {"client", "ready"} => tenantID = TenantOf[subscription]
    /\ pc = "ready" => client \in Client
    /\ pc # "ready" => reached = {}

\* What the CLI works with is remembered.
Remembered == Current \in current

\* Of the subscriptions that were read from the first file, those of other
\* clouds than the selected one are still what they were, or else were
\* current: only the selected cloud's can change.
Unchanged ==
    pc = "config" => \A c \in Clouds : clouds[c] = subs[c] \/ clouds[c] \in current

\* The calls: of a credential with a tenant to that one, of the CLI's to the
\* tenants it has been in.
Reached ==
    pc = "ready" =>
        /\ client.credential # "cli" => client.tenant = tenantID /\ reached \subseteq {tenantID}
        /\ reached \subseteq {tenantID} \cup {TenantOf[s] : s \in current \ {None}}

IInv == TypeOK /\ Staged /\ Remembered /\ Unchanged /\ Reached /\ SubscriptionWasCurrent

\* What the proofs need of the constants.
LEMMA Bounds == MaxSwitches \in Nat /\ MaxCalls \in Nat
  BY AuthAssumption

LEMMA Constants ==
    /\ AzureCloud \in Clouds
    /\ TenantOf \in [Subscriptions -> Tenants]
    /\ None \notin Subscriptions /\ None \notin Tenants
  BY AuthAssumption

LEMMA Given ==
    ASSUME NEW f \in Flags
    PROVE  f.method \in Methods \cup {"", "other"}
  BY AuthAssumption DEF Methods

LEMMA IInvInit == Init => IInv
<1> SUFFICES ASSUME Init PROVE IInv
  OBVIOUS
<1> USE Constants DEF Init
<1>1. TypeOK
  <2>1. method \in Methods \cup {"", "other"}
    BY Given
  <2>2. Current \in Subscriptions \cup {None}
    BY DEF Current
  <2>3. current \subseteq Subscriptions \cup {None}
    BY <2>2
  <2>4. switches \in 0..MaxSwitches /\ calls \in 0..MaxCalls
    BY Bounds
  <2> QED
    BY <2>1, <2>3, <2>4 DEF TypeOK
<1>2. Staged /\ Remembered /\ Unchanged /\ Reached /\ SubscriptionWasCurrent
  BY DEF Staged, Remembered, Unchanged, Reached, SubscriptionWasCurrent
<1> QED
  BY <1>1, <1>2 DEF IInv

\* One step per action; the CLI stands still in all but the last.
LEMMA IInvStep == IInv /\ [Next]_vars => IInv'
<1> SUFFICES ASSUME IInv, [Next]_vars PROVE IInv'
  OBVIOUS
<1> USE Constants DEF IInv, cli, args
<1>1. CASE ValidateFlags
  <2>1. TypeOK'
    <3>1. method' \in Methods \cup {"", "other"}
      BY <1>1, Given DEF ValidateFlags, TypeOK, Method, Methods
    <3>2. subscription' \in Subscriptions \cup {None}
      BY <1>1 DEF ValidateFlags, TypeOK
    <3>3. pc' \in {"refused", "tenant", "clouds"}
      BY <1>1 DEF ValidateFlags
    <3> QED
      BY <1>1, <3>1, <3>2, <3>3 DEF ValidateFlags, TypeOK
  <2>2. Staged' /\ Remembered' /\ Unchanged' /\ Reached' /\ SubscriptionWasCurrent'
    BY <1>1 DEF ValidateFlags, TypeOK, Staged, Remembered, Current, Unchanged, Reached,
                SubscriptionWasCurrent
  <2> QED
    BY <2>1, <2>2
<1>2. CASE LoadClouds
  <2>1. TypeOK'
    BY <1>2 DEF LoadClouds, TypeOK
  <2>2. Staged' /\ Remembered' /\ Unchanged' /\ Reached' /\ SubscriptionWasCurrent'
    BY <1>2 DEF LoadClouds, TypeOK, Staged, Remembered, Current, Unchanged, Reached,
                SubscriptionWasCurrent
  <2> QED
    BY <2>1, <2>2
<1>3. CASE LoadConfig
  <2> DEFINE sub == clouds[SelectedCloud(selected)]
  <2>1. Cloud \in Clouds /\ sub = clouds[Cloud] /\ Current = subs[Cloud]
    BY DEF SelectedCloud, TypeOK, Cloud, Current
  <2>2. sub \in Subscriptions \cup {None} /\ sub \in current
    BY <1>3, <2>1 DEF LoadConfig, TypeOK, Remembered, Unchanged
  <2>3. /\ subscription' = sub
        /\ pc' = "refused" \/ (pc' = "tenant" /\ sub # None)
    BY <1>3 DEF LoadConfig
  <2> HIDE DEF sub
  <2>4. TypeOK'
    BY <1>3, <2>2, <2>3 DEF LoadConfig, TypeOK
  <2>5. Staged' /\ Remembered' /\ Unchanged' /\ Reached' /\ SubscriptionWasCurrent'
    BY <1>3, <2>2, <2>3 DEF LoadConfig, TypeOK, Staged, Remembered, Current, Unchanged,
                            Reached, SubscriptionWasCurrent
  <2> QED
    BY <2>4, <2>5
<1>4. CASE GetTenantID
  <2>1. TypeOK'
    BY <1>4 DEF GetTenantID, TypeOK, Staged
  <2>2. Staged' /\ Remembered' /\ Unchanged' /\ Reached' /\ SubscriptionWasCurrent'
    BY <1>4 DEF GetTenantID, TypeOK, Staged, Remembered, Current, Unchanged, Reached,
                SubscriptionWasCurrent
  <2> QED
    BY <2>1, <2>2
<1>5. CASE NewAzureClient
  <2>1. \/ pc' = "refused" /\ client' = client
        \/ /\ pc' = "ready"
           /\ client' = [credential |-> method, tenant |-> IF method = "cli" THEN None ELSE tenantID]
           /\ method \in Methods
    BY <1>5, Zenon DEF NewAzureClient, NewAzureClientWithCLI, NewAzureClientWithClientSecret,
                NewAzureClientWithClientCertificateFile, getClient, Methods
  <2>2. tenantID \in Tenants \cup {None}
    BY DEF TypeOK
  <2>3. pc' = "ready" =>
           /\ client' \in Client
           /\ client'.credential # "cli" => client'.tenant = tenantID
    <3>1. CASE method = "cli"
      <4>1. [credential |-> "cli", tenant |-> None] \in Client
        BY DEF Client, Methods
      <4> QED
        BY <2>1, <3>1, <4>1
    <3>2. CASE method # "cli"
      <4>1. method \in Methods => [credential |-> method, tenant |-> tenantID] \in Client
        BY <2>2 DEF Client
      <4> QED
        BY <2>1, <3>2, <4>1
    <3> QED
      BY <3>1, <3>2
  <2>4. TypeOK'
    BY <1>5, <2>1, <2>3 DEF NewAzureClient, TypeOK, Client
  <2>5. Staged' /\ Reached'
    BY <1>5, <2>1, <2>3 DEF NewAzureClient, Staged, Reached
  <2>6. Remembered' /\ Unchanged' /\ SubscriptionWasCurrent'
    BY <1>5, <2>1 DEF NewAzureClient, Remembered, Current, Unchanged, SubscriptionWasCurrent
  <2> QED
    BY <2>4, <2>5, <2>6
<1>6. CASE Call
  <2>1. subscription \in Subscriptions /\ tenantID = TenantOf[subscription] /\ tenantID \in Tenants
    BY <1>6 DEF Call, Staged
  <2>2. Current \in current /\ Current \in Subscriptions \cup {None}
    BY DEF Remembered, TypeOK, Current
  <2>3. \/ /\ client.credential = "cli" /\ Current # None
           /\ reached' = reached \cup {TenantOf[Current]}
        \/ client.credential # "cli" /\ reached' = reached \cup {tenantID}
    BY <1>6 DEF Call, Reached
  <2>4. TypeOK'
    <3>1. reached \subseteq Tenants /\ calls \in 0..MaxCalls
      BY DEF TypeOK
    <3>2. calls < MaxCalls /\ calls' = calls + 1
      BY <1>6 DEF Call
    <3>3. reached' \subseteq Tenants
      BY <2>1, <2>2, <2>3, <3>1
    <3>4. calls' \in 0..MaxCalls
      BY <3>1, <3>2, Bounds
    <3> QED
      BY <1>6, <3>3, <3>4 DEF Call, TypeOK
  <2>5. Reached'
    BY <1>6, <2>1, <2>2, <2>3 DEF Call, Reached
  <2>6. Staged' /\ Remembered' /\ Unchanged' /\ SubscriptionWasCurrent'
    BY <1>6 DEF Call, Staged, Remembered, Current, Unchanged, SubscriptionWasCurrent
  <2> QED
    BY <2>4, <2>5, <2>6
<1>7. CASE Switch
  <2>1. TypeOK'
    <3>1. selected' \in Clouds \cup {None} /\ subs' \in [Clouds -> Subscriptions \cup {None}]
      BY <1>7 DEF Switch, TypeOK
    <3>2. Current' \in Subscriptions \cup {None}
      BY <3>1 DEF Current
    <3>3. current' \subseteq Subscriptions \cup {None}
      BY <1>7, <3>2 DEF Switch, TypeOK
    <3>4. switches' \in 0..MaxSwitches
      <4>1. switches \in 0..MaxSwitches
        BY DEF TypeOK
      <4>2. switches < MaxSwitches /\ switches' = switches + 1
        BY <1>7 DEF Switch
      <4> QED
        BY <4>1, <4>2, Bounds
    <3> QED
      BY <1>7, <3>1, <3>3, <3>4 DEF Switch, TypeOK
  <2>2. Staged' /\ Remembered' /\ SubscriptionWasCurrent'
    BY <1>7 DEF Switch, Staged, Remembered, SubscriptionWasCurrent
  <2>3. Unchanged'
    BY <1>7 DEF Switch, TypeOK, Unchanged, Remembered, Current
  <2>4. Reached'
    <3>1. current \subseteq current' /\ pc' = pc /\ client' = client /\ reached' = reached
          /\ tenantID' = tenantID
      BY <1>7 DEF Switch
    <3>2. {TenantOf[s] : s \in current \ {None}} \subseteq {TenantOf[s] : s \in current' \ {None}}
      BY <3>1
    <3> QED
      BY <3>1, <3>2 DEF Reached
  <2> QED
    BY <2>1, <2>2, <2>3, <2>4
<1>8. CASE UNCHANGED vars
  <2>1. TypeOK'
    BY <1>8 DEF vars, TypeOK
  <2>2. Staged' /\ Remembered' /\ Unchanged' /\ Reached' /\ SubscriptionWasCurrent'
    BY <1>8 DEF vars, Staged, Remembered, Current, Unchanged, Reached, SubscriptionWasCurrent
  <2> QED
    BY <2>1, <2>2
<1> QED
  BY <1>1, <1>2, <1>3, <1>4, <1>5, <1>6, <1>7, <1>8 DEF Next

LEMMA Invariance == Spec => []IInv
  BY IInvInit, IInvStep, PTL DEF Spec

\* The variables of Validate keep to their types: what is written on the
\* service account is a tenant, and a client has one of the known credentials.
THEOREM TypeOKThm == Spec => []TypeOK
<1>1. IInv => TypeOK
  BY DEF IInv
<1> QED
  BY <1>1, Invariance, PTL

\* All calls of a command reach the tenant it writes on the service account,
\* under the condition that OneTenant states for the login of the CLI.
THEOREM OneTenantThm == Spec => []OneTenant
<1>1. IInv => OneTenant
  <2> SUFFICES ASSUME IInv, pc = "ready"
               PROVE  /\ tenantID = TenantOf[subscription]
                      /\ client.credential # "cli" \/ (\A s \in current : s # None => TenantOf[s] = tenantID)
                            => reached \subseteq {tenantID}
    BY DEF OneTenant
  <2> QED
    BY DEF IInv, Staged, Reached
<1> QED
  BY <1>1, Invariance, PTL

\* A subscription from the files of the CLI was current while the command ran,
\* however often the user changed the CLI between the reads of the two files.
THEOREM SubscriptionWasCurrentThm == Spec => []SubscriptionWasCurrent
<1>1. IInv => SubscriptionWasCurrent
  BY DEF IInv
<1> QED
  BY <1>1, Invariance, PTL
=============================================================================
