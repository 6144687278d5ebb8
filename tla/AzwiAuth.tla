------------------------------ MODULE AzwiAuth ------------------------------
(***************************************************************************)
(* How azwi serviceaccount gets its Azure client                           *)
(* (src/pkg/cmd/serviceaccount/auth/provider.go, src/pkg/cloud/            *)
(* azureclient.go): Validate, which runs before any phase, turns the flags *)
(* into a subscription, a tenant and a client; the phases then call Azure  *)
(* with the client and write the tenant on the service account.  The user  *)
(* may meanwhile work with the Azure CLI, whose files Validate reads and   *)
(* whose login the CLI credential uses at every call.                      *)
(*                                                                         *)
(* External: the CLI.  It has a selected cloud (its file config) and for   *)
(* each cloud a subscription (clouds.config), which "az account set"       *)
(* changes for the selected cloud; its tokens are those of the tenant of   *)
(* the selected subscription.                                              *)
(***************************************************************************)
EXTENDS Naturals

CONSTANTS
    Clouds,
    AzureCloud,      \* the one the code takes when config names none
    Subscriptions,
    Tenants,
    TenantOf,        \* the tenant of each subscription
    Flags,           \* the flags a command may be given
    None, Malformed,
    MaxSwitches,     \* bound on what the user does with the CLI meanwhile
    MaxCalls         \* bound on the calls of the phases

ASSUME AuthAssumption ==
    /\ AzureCloud \in Clouds
    /\ TenantOf \in [Subscriptions -> Tenants]
    /\ {None, Malformed} \cap (Subscriptions \cup Tenants) = {} /\ None # Malformed
    /\ MaxSwitches \in Nat /\ MaxCalls \in Nat
    /\ \A f \in Flags :
          /\ f.method \in {"", "cli", "client_secret", "client_certificate", "other"}
          /\ f.clientID \in {None, Malformed, "id"}
          /\ f.secret \in BOOLEAN
          /\ f.certificate \in {None, Malformed, "file"}
          /\ f.key \in {None, Malformed, "file"}
          /\ f.subscription \in Subscriptions \cup {None, Malformed}
          /\ f.env \in BOOLEAN    \* whether --azure-env is a known name

VARIABLES
    flags,
    selected,      \* the CLI: the selected cloud, or None when config has none
    subs,          \* the CLI: the subscription of each cloud, or None
    pc,
    method,        \* authArgs.authMethod
    clouds,        \* clouds.config as it was read
    subscription,  \* authArgs.subscriptionID
    tenantID,      \* authArgs.tenantID
    client,        \* authArgs.azureClient: its credential and that one's tenant
    reached,       \* history: the tenants of the calls
    current,       \* history: the subscriptions the CLI had during the command
    switches, calls

cli == <<selected, subs, current, switches>>
args == <<method, clouds, subscription, tenantID, client>>
vars == <<flags, cli, pc, args, reached, calls>>

Methods == {"cli", "client_secret", "client_certificate"}

TypeOK ==
    /\ flags \in Flags
    /\ selected \in Clouds \cup {None} /\ subs \in [Clouds -> Subscriptions \cup {None}]
    /\ pc \in {"flags", "clouds", "config", "tenant", "client", "ready", "refused"}
    /\ method \in Methods \cup {"", "other"}
    /\ clouds \in [Clouds -> Subscriptions \cup {None}]
    /\ subscription \in Subscriptions \cup {None}
    /\ tenantID \in Tenants \cup {None}
    /\ client \in [credential : Methods, tenant : Tenants \cup {None}] \cup {None}
    /\ reached \subseteq Tenants /\ current \subseteq Subscriptions \cup {None}
    /\ switches \in 0..MaxSwitches /\ calls \in 0..MaxCalls

\* Mutant of SelectedCloud: config is not read.
DefaultCloud(name) == AzureCloud

\* getSelectedCloudFromAzConfig.
SelectedCloud(name) == IF name = None THEN AzureCloud ELSE name

\* The subscription the CLI works with.
Current == subs[IF selected = None THEN AzureCloud ELSE selected]

Init ==
    /\ flags \in Flags
    /\ selected \in Clouds \cup {None}
    /\ subs \in [Clouds -> Subscriptions \cup {None}]
    /\ pc = "flags"
    /\ method = flags.method
    /\ clouds = [c \in Clouds |-> None]
    /\ subscription = None /\ tenantID = None /\ client = None
    /\ reached = {} /\ current = {Current}
    /\ switches = 0 /\ calls = 0

-----------------------------------------------------------------------------
\* An ID and a secret take the place of the CLI.
Method(f) ==
    IF f.method = "cli" /\ f.clientID # None /\ f.secret THEN "client_secret" ELSE f.method

\* What Validate asks of the flags of a method.
Complete(f, m) ==
    CASE m = "" -> FALSE
      [] m = "client_secret" -> f.clientID = "id" /\ f.secret
      [] m = "client_certificate" -> f.clientID = "id" /\ None \notin {f.certificate, f.key}
      [] OTHER -> TRUE

\* Validate up to the subscription: one that does not parse is taken for none.
ValidateFlags ==
    /\ pc = "flags"
    /\ method' = Method(flags)
    /\ IF ~Complete(flags, method') THEN pc' = "refused" /\ UNCHANGED subscription
       ELSE IF flags.subscription \in Subscriptions
       THEN pc' = "tenant" /\ subscription' = flags.subscription
       ELSE pc' = "clouds" /\ UNCHANGED subscription
    /\ UNCHANGED <<flags, cli, clouds, tenantID, client, reached, calls>>

\* getSubFromAzDir reads one file and then the other, either of which may be
\* missing.
LoadClouds ==
    /\ pc = "clouds"
    /\ clouds' = subs
    /\ pc' \in {"config", "refused"}
    /\ UNCHANGED <<flags, cli, method, subscription, tenantID, client, reached, calls>>

LoadConfig ==
    /\ pc = "config"
    /\ LET sub == clouds[SelectedCloud(selected)]
       IN  /\ subscription' = sub
           /\ pc' \in IF sub = None THEN {"refused"} ELSE {"tenant", "refused"}
    /\ UNCHANGED <<flags, cli, method, clouds, tenantID, client, reached, calls>>

\* Mutant of GetTenantID: the tenant of the login of the CLI.
GetLoginTenant ==
    /\ pc = "tenant"
    /\ \/ /\ flags.env /\ Current # None
          /\ tenantID' = TenantOf[Current]
          /\ pc' = "client"
       \/ pc' = "refused" /\ UNCHANGED tenantID
    /\ UNCHANGED <<flags, cli, method, clouds, subscription, client, reached, calls>>

\* The name of the environment is looked up, then GetTenantID makes a call that
\* is refused with the tenant in a header, or fails otherwise.
GetTenantID ==
    /\ pc = "tenant"
    /\ \/ flags.env /\ tenantID' = TenantOf[subscription] /\ pc' = "client"
       \/ pc' = "refused" /\ UNCHANGED tenantID
    /\ UNCHANGED <<flags, cli, method, clouds, subscription, client, reached, calls>>

\* Mutant of NewAzureClient: a method nobody knows is not refused.
NewAnyClient ==
    /\ pc = "client"
    /\ client' = [credential |-> method, tenant |-> tenantID]
    /\ pc' = "ready"
    /\ UNCHANGED <<flags, cli, method, clouds, subscription, tenantID, reached, calls>>

\* A client whose calls use this credential, unless the libraries refuse the
\* credential or one of the clients made of it.
getClient(credential, tenant) ==
    \/ client' = [credential |-> credential, tenant |-> tenant] /\ pc' = "ready"
    \/ pc' = "refused" /\ UNCHANGED client

\* The credential of the CLI is not given the tenant, the others are.
NewAzureClientWithCLI == getClient("cli", None)

NewAzureClientWithClientSecret == getClient("client_secret", tenantID)

parseRsaPrivateKey(key) == key # Malformed

NewAzureClientWithClientCertificateFile ==
    IF flags.certificate # Malformed /\ parseRsaPrivateKey(flags.key)
    THEN getClient("client_certificate", tenantID)
    ELSE pc' = "refused" /\ UNCHANGED client

\* The client by method.
NewAzureClient ==
    /\ pc = "client"
    /\ \/ method = "cli" /\ NewAzureClientWithCLI
       \/ method = "client_secret" /\ NewAzureClientWithClientSecret
       \/ method = "client_certificate" /\ NewAzureClientWithClientCertificateFile
       \/ method \notin Methods /\ pc' = "refused" /\ UNCHANGED client
    /\ UNCHANGED <<flags, cli, method, clouds, subscription, tenantID, reached, calls>>

\* A phase calls Azure with a token of the client's credential.
Call ==
    /\ pc = "ready" /\ calls < MaxCalls
    /\ calls' = calls + 1
    /\ \/ /\ client.credential = "cli" /\ Current # None
          /\ reached' = reached \cup {TenantOf[Current]}
       \/ client.credential # "cli" /\ reached' = reached \cup {client.tenant}
    /\ UNCHANGED <<flags, cli, pc, args>>

\* The user selects another cloud, or another subscription in it.
Switch ==
    /\ switches < MaxSwitches
    /\ switches' = switches + 1
    /\ \/ selected' \in Clouds /\ UNCHANGED subs
       \/ \E s \in Subscriptions :
             subs' = [subs EXCEPT ![IF selected = None THEN AzureCloud ELSE selected] = s]
          /\ UNCHANGED selected
    /\ current' = current \cup {Current'}
    /\ UNCHANGED <<flags, pc, args, reached, calls>>

Next ==
    \/ ValidateFlags \/ LoadClouds \/ LoadConfig \/ GetTenantID \/ NewAzureClient
    \/ Call \/ Switch

Spec == Init /\ [][Next]_vars

-----------------------------------------------------------------------------
\* All calls of a command reach the tenant that it writes on the service
\* account, which is that of its subscription: with a secret or a certificate
\* whatever happens to the CLI meanwhile, with the login of the CLI as long as
\* the CLI stays in that tenant (GetTenantID, NewAzureClientWith...).
OneTenant ==
    pc = "ready" =>
        /\ tenantID = TenantOf[subscription]
        /\ client.credential # "cli" \/ (\A s \in current : s # None => TenantOf[s] = tenantID)
              => reached \subseteq {tenantID}

\* A subscription taken from the files of the CLI is one the CLI has worked
\* with while the command ran, although the two files are read one after the
\* other and may change between (getSubFromAzDir).
SubscriptionWasCurrent ==
    subscription # None /\ flags.subscription \notin Subscriptions => subscription \in current
=============================================================================
