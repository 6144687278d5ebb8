----------------------------- MODULE CredStore -----------------------------
(***************************************************************************)
(* What the azwi proxy promises about credentials, with no cache, lock or  *)
(* goroutine in sight.  A client identity has at most one live credential; *)
(* a new generation is issued only when none is live.  A request is        *)
(* answered with a credential of its own client that is not older than the *)
(* newest one issued when the request arrived, or it is refused.           *)
(*                                                                         *)
(* CredCache implements this specification (see Abstract there).           *)
(***************************************************************************)
EXTENDS Naturals

CONSTANTS
    Requests,   \* token requests
    Clients,    \* client IDs (the tenant is fixed for a proxy)
    NoClient    \* the owner of a request that was not accepted

VARIABLES
    issued,     \* issued[k]: generations of k's credential issued so far
    live,       \* the clients whose last generation the proxy still holds
    phase,      \* phase[r]: progress of request r
    owner,      \* owner[r]: the client r asks for, once it was accepted
    since,      \* since[r]: issued[owner[r]] when r was accepted
    got         \* got[r]: the generation r was given, 0 if none

vars == <<issued, live, phase, owner, since, got>>

Init ==
    /\ issued = [k \in Clients |-> 0]
    /\ live = {}
    /\ phase = [r \in Requests |-> "new"]
    /\ owner = [r \in Requests |-> NoClient]
    /\ since = [r \in Requests |-> 0]
    /\ got = [r \in Requests |-> 0]

\* A request is accepted for one client.
Accept(r, k) ==
    /\ phase[r] = "new"
    /\ phase' = [phase EXCEPT ![r] = "pending"]
    /\ owner' = [owner EXCEPT ![r] = k]
    /\ since' = [since EXCEPT ![r] = issued[k]]
    /\ UNCHANGED <<issued, live, got>>

\* A new credential, never next to a live one of the same client.
Issue(k) ==
    /\ k \notin live
    /\ issued' = [issued EXCEPT ![k] = @ + 1]
    /\ live' = live \cup {k}
    /\ UNCHANGED <<phase, owner, since, got>>

\* The proxy forgets a credential: its time is up or its place is needed.
Lose(k) ==
    /\ k \in live
    /\ live' = live \ {k}
    /\ UNCHANGED <<issued, phase, owner, since, got>>

\* A request is given a generation issued for its client, none older than
\* the newest at its arrival.
Give(r) ==
    /\ phase[r] = "pending"
    /\ \E g \in since[r] .. issued[owner[r]] :
          /\ g > 0
          /\ got' = [got EXCEPT ![r] = g]
    /\ phase' = [phase EXCEPT ![r] = "given"]
    /\ UNCHANGED <<issued, live, owner, since>>

\* A request ends without a credential.
Refuse(r) ==
    /\ phase[r] \in {"new", "pending"}
    /\ phase' = [phase EXCEPT ![r] = "refused"]
    /\ UNCHANGED <<issued, live, owner, since, got>>

Next ==
    \/ \E k \in Clients : Issue(k) \/ Lose(k)
    \/ \E r \in Requests :
          \/ \E k \in Clients : Accept(r, k)
          \/ Give(r)
          \/ Refuse(r)

Spec == Init /\ [][Next]_vars
============================================================================
