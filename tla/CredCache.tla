----------------------------- MODULE CredCache -----------------------------
(***************************************************************************)
(* The credential path of the azwi proxy (pkg/proxy/proxy.go, msiHandler   *)
(* and getOrCreateCred; pkg/proxy/cred_cache.go).  Every HTTP request runs *)
(* in a goroutine of its own; the goroutines meet in an LRU cache whose    *)
(* entries expire and in a singleflight group.  Each step of a request     *)
(* below is one critical section of the code: a call into the cache (which *)
(* holds the cache's lock), a call into the group (its lock), or a step    *)
(* outside both, so TLC and the proofs see every interleaving of them.     *)
(*                                                                         *)
(* The tenant is a field of the proxy, the same for every request, so a    *)
(* cache key is a client ID.  A credential is its client and its           *)
(* generation among the credentials ever created for that client.          *)
(***************************************************************************)
EXTENDS Integers, Sequences

CONSTANTS
    Requests,      \* token requests, one goroutine each
    Clients,       \* client IDs
    NoClient,      \* no client_id in the query, or no AZURE_CLIENT_ID
    EnvClient,     \* the AZURE_CLIENT_ID of the proxy's container
    NoRequest,     \* nobody leads a flight
    NoCred,        \* nil
    CacheSize      \* defaultCacheSize

ASSUME NoneAssumption ==
    /\ NoClient \notin Clients
    /\ NoRequest \notin Requests
    /\ EnvClient \in Clients \cup {NoClient}

ASSUME CacheSizeAssumption == CacheSize \in Nat \ {0}

Creds == [client : Clients, gen : Nat \ {0}]

ASSUME NoCredAssumption == NoCred \notin Creds

VARIABLES
    pc,        \* pc[r]: the next step of request r
    client,    \* client[r]: the client ID getOrCreateCred was called with
    call,      \* call[r]: the request whose singleflight call r waits for
    cred,      \* cred[r]: the credential r holds
    flight,    \* flight[k]: the request that runs the call for k (group.m)
    cache,     \* cache[k]: the value stored under k (LRUExpireCache.entries)
    expired,   \* keys whose entry is past its expireTime
    order,     \* keys from the most to the least recently used (evictionList)
    made,      \* made[k]: credentials created for k so far
    since      \* since[r]: made[client[r]] when r was accepted (history)

vars == <<pc, client, call, cred, flight, cache, expired, order, made, since>>
reqVars == <<pc, client, call, cred, since>>
cacheVars == <<cache, expired, order>>

(***************************************************************************)
(* The phases of a request.  Running: inside the function given to Do.     *)
(***************************************************************************)
Running == {"check", "create", "add", "finish"}
Answered == {"rejected", "failed", "noToken", "served"}
Phases == {"idle", "lookup", "do", "wait", "token"} \cup Running \cup Answered

\* k has an element in the recency list.
Listed(k) == \E i \in 1 .. Len(order) : order[i] = k

\* The cache's two structures agree: the recency list holds every key with a
\* stored value once, and no other key.
ListFitsCache ==
    /\ Len(order) <= CacheSize
    /\ \A i, j \in 1 .. Len(order) : order[i] = order[j] => i = j
    /\ \A k \in Clients : cache[k] # NoCred <=> Listed(k)

Types ==
    /\ pc \in [Requests -> Phases]
    /\ client \in [Requests -> Clients \cup {NoClient}]
    /\ call \in [Requests -> Requests \cup {NoRequest}]
    /\ cred \in [Requests -> Creds \cup {NoCred}]
    /\ flight \in [Clients -> Requests \cup {NoRequest}]
    /\ cache \in [Clients -> Creds \cup {NoCred}]
    /\ expired \in SUBSET Clients
    /\ order \in Seq(Clients)
    /\ made \in [Clients -> Nat]
    /\ since \in [Requests -> Nat]

\* The state is well typed, and the cache stores at most CacheSize credentials,
\* none of them nil, each under one element of its recency list.
TypeOK == Types /\ ListFitsCache

Init ==
    /\ pc = [r \in Requests |-> "idle"]
    /\ client = [r \in Requests |-> NoClient]
    /\ call = [r \in Requests |-> NoRequest]
    /\ cred = [r \in Requests |-> NoCred]
    /\ flight = [k \in Clients |-> NoRequest]
    /\ cache = [k \in Clients |-> NoCred]
    /\ expired = {}
    /\ order = <<>>
    /\ made = [k \in Clients |-> 0]
    /\ since = [r \in Requests |-> 0]

(***************************************************************************)
(* The cache.  Live: Get would return the entry.                           *)
(***************************************************************************)
Live(k) == cache[k] # NoCred /\ k \notin expired

\* The recency list without k.
Without(k) ==
    IF Listed(k)
    THEN LET i == CHOOSE i \in 1 .. Len(order) : order[i] = k
         IN  SubSeq(order, 1, i - 1) \o SubSeq(order, i + 1, Len(order))
    ELSE order

\* A hit moves the entry to the front of the list.
CacheHit(k) ==
    /\ Live(k)
    /\ order' = <<k>> \o Without(k)
    /\ UNCHANGED <<cache, expired>>

\* A miss drops the entry when it has expired.
CacheMiss(k) ==
    /\ ~Live(k)
    /\ cache' = [cache EXCEPT ![k] = NoCred]
    /\ expired' = expired \ {k}
    /\ order' = Without(k)

\* k needs the place of the least recently used entry.
Full(k) == cache[k] = NoCred /\ Len(order) >= CacheSize

\* The stored value is replaced, with a new expireTime, or added, when the
\* cache is full in the place of the entry at the back of the list.
CacheAdd(k, c) ==
    LET out == IF Full(k) THEN {order[Len(order)]} ELSE {} IN
    /\ cache' = [j \in Clients |-> IF j = k THEN c
                                   ELSE IF j \in out THEN NoCred ELSE cache[j]]
    /\ expired' = expired \ (out \cup {k})
    /\ order' = <<k>> \o (IF Full(k) THEN SubSeq(order, 1, Len(order) - 1)
                                     ELSE Without(k))

(***************************************************************************)
(* A request.                                                              *)
(***************************************************************************)
Go(r, phase) == pc' = [pc EXCEPT ![r] = phase]

\* The client the request is for: its client_id, else AZURE_CLIENT_ID.
ClientFor(asked) == IF asked = NoClient THEN EnvClient ELSE asked

\* msiHandler parses the request and refuses it when it names no client and
\* has no default, or names no resource.
Receive(r, asked, hasResource) ==
    /\ pc[r] = "idle"
    /\ IF ClientFor(asked) # NoClient /\ hasResource
       THEN /\ Go(r, "lookup")
            /\ client' = [client EXCEPT ![r] = ClientFor(asked)]
            /\ since' = [since EXCEPT ![r] = made[ClientFor(asked)]]
       ELSE /\ Go(r, "rejected")
            /\ UNCHANGED <<client, since>>
    /\ UNCHANGED <<call, cred, flight, made, cacheVars>>

\* The first Get of getOrCreateCred.
LookupHit(r) ==
    /\ pc[r] = "lookup"
    /\ CacheHit(client[r])
    /\ cred' = [cred EXCEPT ![r] = cache[client[r]]]
    /\ Go(r, "token")
    /\ UNCHANGED <<client, call, since, flight, made>>

LookupMiss(r) ==
    /\ pc[r] = "lookup"
    /\ CacheMiss(client[r])
    /\ Go(r, "do")
    /\ UNCHANGED <<client, call, cred, since, flight, made>>

\* Mutant: no singleflight, every caller runs the function.
LeadAlways(r) ==
    /\ pc[r] = "do"
    /\ flight' = [flight EXCEPT ![client[r]] = r]
    /\ Go(r, "check")
    /\ UNCHANGED <<client, call, cred, since, made, cacheVars>>

\* group.Do: the first caller for a key runs the function ...
Lead(r) ==
    /\ pc[r] = "do"
    /\ flight[client[r]] = NoRequest
    /\ flight' = [flight EXCEPT ![client[r]] = r]
    /\ Go(r, "check")
    /\ UNCHANGED <<client, call, cred, since, made, cacheVars>>

\* Mutant: the group's key leaves out the client ID.
JoinAnyCall(r) ==
    /\ pc[r] = "do"
    /\ \E k \in Clients :
          /\ flight[k] # NoRequest
          /\ call' = [call EXCEPT ![r] = flight[k]]
    /\ Go(r, "wait")
    /\ UNCHANGED <<client, cred, since, flight, made, cacheVars>>

\* ... and the others wait for its result.
Join(r) ==
    /\ pc[r] = "do"
    /\ flight[client[r]] # NoRequest
    /\ call' = [call EXCEPT ![r] = flight[client[r]]]
    /\ Go(r, "wait")
    /\ UNCHANGED <<client, cred, since, flight, made, cacheVars>>

\* The second Get, inside the function.
CheckHit(r) ==
    /\ pc[r] = "check"
    /\ CacheHit(client[r])
    /\ cred' = [cred EXCEPT ![r] = cache[client[r]]]
    /\ Go(r, "finish")
    /\ UNCHANGED <<client, call, since, flight, made>>

\* Mutant: no second look at the cache.
CheckSkipped(r) ==
    /\ pc[r] = "check"
    /\ Go(r, "create")
    /\ UNCHANGED <<client, call, cred, since, flight, made, cacheVars>>

CheckMiss(r) ==
    /\ pc[r] = "check"
    /\ CacheMiss(client[r])
    /\ Go(r, "create")
    /\ UNCHANGED <<client, call, cred, since, flight, made>>

\* azidentity.NewWorkloadIdentityCredential succeeds ...
Create(r) ==
    /\ pc[r] = "create"
    /\ made' = [made EXCEPT ![client[r]] = @ + 1]
    /\ cred' = [cred EXCEPT ![r] = [client |-> client[r],
                                    gen |-> made[client[r]] + 1]]
    /\ Go(r, "add")
    /\ UNCHANGED <<client, call, since, flight, cacheVars>>

\* Mutant: what a failed creation returned, nil, is cached.
CreateFailsCached(r) ==
    /\ pc[r] = "create"
    /\ Go(r, "add")
    /\ UNCHANGED <<client, call, cred, since, flight, made, cacheVars>>

\* ... or fails; nothing is cached.
CreateFails(r) ==
    /\ pc[r] = "create"
    /\ Go(r, "finish")
    /\ UNCHANGED <<client, call, cred, since, flight, made, cacheVars>>

Add(r) ==
    /\ pc[r] = "add"
    /\ CacheAdd(client[r], cred[r])
    /\ Go(r, "finish")
    /\ UNCHANGED <<client, call, cred, since, flight, made>>

\* What getOrCreateCred returns decides between the token and a 500.
Returned(c) == IF c = NoCred THEN "failed" ELSE "token"

\* The function has returned: the group forgets the call and releases those
\* who wait for it, in one critical section.
Finish(r) ==
    /\ pc[r] = "finish"
    /\ flight' = [flight EXCEPT ![client[r]] = NoRequest]
    /\ Go(r, Returned(cred[r]))
    /\ UNCHANGED <<client, call, cred, since, made, cacheVars>>

\* Mutant: those who wait are released by a result, not by an error.
WakeOnResult(r) ==
    /\ pc[r] = "wait"
    /\ pc[call[r]] \notin Running
    /\ cred[call[r]] # NoCred
    /\ cred' = [cred EXCEPT ![r] = cred[call[r]]]
    /\ Go(r, "token")
    /\ UNCHANGED <<client, call, since, flight, made, cacheVars>>

\* A waiter takes the result of the call it joined.
Wake(r) ==
    /\ pc[r] = "wait"
    /\ pc[call[r]] \notin Running
    /\ cred' = [cred EXCEPT ![r] = cred[call[r]]]
    /\ Go(r, Returned(cred[call[r]]))
    /\ UNCHANGED <<client, call, since, flight, made, cacheVars>>

\* doTokenRequest: the exchange with Microsoft Entra ID, and the answer.
Token(r) ==
    /\ pc[r] = "token"
    /\ \/ Go(r, "served")
       \/ Go(r, "noToken")
    /\ UNCHANGED <<client, call, cred, since, flight, made, cacheVars>>

\* The clock passes the expireTime of an entry.
Expire(k) ==
    /\ Live(k)
    /\ expired' = expired \cup {k}
    /\ UNCHANGED <<reqVars, flight, made, cache, order>>

Arrive(r) ==
    \E asked \in Clients \cup {NoClient}, hasResource \in BOOLEAN :
        Receive(r, asked, hasResource)

\* The steps between the call of getOrCreateCred and its return.
getOrCreateCred(r) ==
    \/ LookupHit(r) \/ LookupMiss(r)
    \/ Lead(r) \/ Join(r)
    \/ CheckHit(r) \/ CheckMiss(r)
    \/ Create(r) \/ CreateFails(r)
    \/ Add(r) \/ Finish(r)
    \/ Wake(r)

Next ==
    \/ \E r \in Requests : Arrive(r) \/ getOrCreateCred(r) \/ Token(r)
    \/ \E k \in Clients : Expire(k)

Spec == Init /\ [][Next]_vars

\* The Go scheduler runs every goroutine that can run, and getOrCreateCred
\* calls nothing remote: a new credential is a struct, its token file is first
\* read by GetToken.  Nothing is assumed of Token: doTokenRequest waits for
\* Microsoft Entra ID with no deadline but the caller's.  Requests need not
\* arrive and entries need not expire.
FairSpec == Spec /\ \A r \in Requests : WF_vars(getOrCreateCred(r))

(***************************************************************************)
(* Properties.                                                             *)
(***************************************************************************)
\* A credential still of use to the proxy: it is in the cache, or the request
\* that made it is about to put it there.
Held(k) == Live(k) \/ \E r \in Requests : client[r] = k /\ pc[r] = "add"

\* Whichever way a request came by its credential (first Get, second Get, its
\* own call, somebody else's call), getOrCreateCred returned one of the client
\* it was asked for, no older than the newest that existed when the request
\* arrived.
FreshOwnCred ==
    \A r \in Requests : cred[r] # NoCred =>
        /\ cred[r].client = client[r]
        /\ since[r] <= cred[r].gen

\* What a Get can return is the newest credential made for the key: late Adds
\* never put an older one over it.
CacheHoldsNewest ==
    \A k \in Clients : Live(k) => cache[k] = [client |-> k, gen |-> made[k]]

\* The singleflight call and the second Get together: no credential is created
\* while an earlier one of the same client is held.
NoNeedlessCreate ==
    [][\A k \in Clients : made'[k] # made[k] => ~Held(k)]_vars

\* getOrCreateCred returns to every request that calls it, with a credential
\* or an error: also to the ones that wait for another request's call, whether
\* that call succeeds or fails, and however long other requests' exchanges with
\* Microsoft Entra ID take.
CredReturned ==
    \A r \in Requests : pc[r] = "lookup" ~> pc[r] \in {"token", "failed"}

(***************************************************************************)
(* CredCache implements CredStore.                                         *)
(***************************************************************************)
HasCred == {"token", "noToken", "served"}

\* How far a request is, and which generation it was given, for CredStore.
Stage(r) ==
    IF pc[r] = "idle" THEN "new"
    ELSE IF pc[r] \in HasCred THEN "given"
    ELSE IF pc[r] \in {"rejected", "failed"} THEN "refused"
    ELSE "pending"

Given(r) == IF pc[r] \in HasCred THEN cred[r].gen ELSE 0

Abstract == INSTANCE CredStore WITH
    issued <- made,
    live   <- {k \in Clients : Held(k)},
    phase  <- [r \in Requests |-> Stage(r)],
    owner  <- client,
    got    <- [r \in Requests |-> Given(r)]

\* Seen from outside, the proxy is the credential store of CredStore.
ImplementsCredStore == Abstract!Spec
============================================================================
