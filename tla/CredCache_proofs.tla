-------------------------- MODULE CredCache_proofs --------------------------
(***************************************************************************)
(* Theorems about CredCache for any number of requests and clients and any *)
(* cache size: type correctness and the safety properties that MCCredCache *)
(* checks on a small instance, and that the proxy is the credential store  *)
(* of CredStore.                                                           *)
(***************************************************************************)
EXTENDS CredCache, SequenceTheorems, TLAPS

(***************************************************************************)
(* The inductive invariant.  FreshOwnCred is not inductive: what a waiter  *)
(* receives depends on what the leader of its call holds, that on who may  *)
(* be inside the function given to Do, and that on what a Get can return.  *)
(***************************************************************************)
\* A request knows its client from the moment it was accepted, and has no
\* credential before a Get or a call returned one.
Accepted ==
    \A r \in Requests :
        /\ pc[r] \notin {"idle", "rejected"} => client[r] \in Clients
        /\ pc[r] \in {"idle", "rejected", "lookup", "do", "wait", "check", "create"}
              => cred[r] = NoCred
        /\ pc[r] \in {"add", "token", "noToken", "served"} => cred[r] # NoCred

\* The requests inside the function are exactly the leaders of the flights.
LeadersRun ==
    /\ \A r \in Requests : pc[r] \in Running => flight[client[r]] = r
    /\ \A k \in Clients : flight[k] # NoRequest =>
           client[flight[k]] = k /\ pc[flight[k]] \in Running

\* Between the second Get and the Add the key has no live entry, and what is
\* about to be added is the newest credential of the key; so is what a leader
\* is about to hand to those who wait.
LeaderHoldsNewest ==
    \A r \in Requests :
        /\ pc[r] \in {"create", "add"} => ~Live(client[r])
        /\ pc[r] \in Running /\ cred[r] # NoCred =>
               cred[r] = [client |-> client[r], gen |-> made[client[r]]]

\* Nobody holds a generation that was never made.
NoInventedCred ==
    \A r \in Requests :
        /\ client[r] \in Clients => since[r] <= made[client[r]]
        /\ cred[r] # NoCred => cred[r].gen <= made[client[r]]

\* A waiter joined a call for its own client that had not ended before the
\* waiter arrived.
WaitersFit ==
    \A r \in Requests : pc[r] = "wait" =>
        /\ call[r] \in Requests
        /\ client[call[r]] = client[r]
        /\ pc[call[r]] \in Running \cup {"token", "failed", "noToken", "served"}
        /\ cred[call[r]] # NoCred => since[r] <= cred[call[r]].gen

IInv ==
    /\ TypeOK
    /\ Accepted
    /\ LeadersRun
    /\ LeaderHoldsNewest
    /\ NoInventedCred
    /\ WaitersFit
    /\ FreshOwnCred
    /\ CacheHoldsNewest

USE NoneAssumption, NoCredAssumption, CacheSizeAssumption

(***************************************************************************)
(* The three cache operations, seen through Live.                          *)
(***************************************************************************)
\* Nothing of the cache changed.
LEMMA ListSame ==
    ASSUME ListFitsCache, UNCHANGED <<cache, order>>
    PROVE  ListFitsCache'
BY DEF ListFitsCache, Listed

\* Taking a key out of the recency list leaves the others, once each.
LEMMA WithoutKey ==
    ASSUME TypeOK, NEW k \in Clients
    PROVE  LET s == Without(k) IN
           /\ s \in Seq(Clients)
           /\ Len(s) = IF Listed(k) THEN Len(order) - 1 ELSE Len(order)
           /\ \A i, j \in 1 .. Len(s) : s[i] = s[j] => i = j
           /\ \A c \in Clients : (\E i \in 1 .. Len(s) : s[i] = c)
                                     <=> Listed(c) /\ c # k
<1> DEFINE n == Len(order)
           s == Without(k)
<1>0. /\ order \in Seq(Clients) /\ n \in Nat
      /\ \A j \in 1 .. n : order[j] \in Clients
      /\ \A i, j \in 1 .. n : order[i] = order[j] => i = j
  BY DEF TypeOK, Types, ListFitsCache
<1>1. CASE Listed(k)
  <2> DEFINE i == CHOOSE i \in 1 .. Len(order) : order[i] = k
  <2>1. i \in 1 .. n /\ order[i] = k
    BY <1>1 DEF Listed
  <2> DEFINE f == SubSeq(order, 1, i - 1)
             g == SubSeq(order, i + 1, n)
  <2>2. s = f \o g
    BY <1>1 DEF Without
  <2> HIDE DEF i, s, n
  <2>3. /\ f \in Seq(Clients)
        /\ Len(f) = i - 1
        /\ \A j \in 1 .. i - 1 : f[j] = order[j]
    <3>1. i - 1 \in Int /\ 1 .. i - 1 \subseteq 1 .. n
      BY <1>0, <2>1
    <3> QED
      BY <1>0, <2>1, <3>1, SubSeqProperties
  <2>4. /\ g \in Seq(Clients)
        /\ Len(g) = n - i
        /\ \A j \in 1 .. n - i : g[j] = order[i + j]
    <3>1. i + 1 \in Int /\ i + 1 .. n \subseteq 1 .. n
      BY <1>0, <2>1
    <3> QED
      BY <1>0, <2>1, <3>1, SubSeqProperties
  <2> HIDE DEF f, g
  <2>5. /\ s \in Seq(Clients)
        /\ Len(s) = Len(f) + Len(g)
        /\ \A j \in 1 .. Len(f) + Len(g) :
               s[j] = IF j <= Len(f) THEN f[j] ELSE g[j - Len(f)]
    <3>1. f \in Seq(Clients) /\ g \in Seq(Clients)
      BY <2>3, <2>4
    <3>2. /\ f \o g \in Seq(Clients)
          /\ Len(f \o g) = Len(f) + Len(g)
          /\ \A j \in 1 .. Len(f) + Len(g) :
                 (f \o g)[j] = IF j <= Len(f) THEN f[j] ELSE g[j - Len(f)]
      BY <3>1, ConcatProperties, Zenon
    <3> QED
      BY <2>2, <3>2, Zenon
  <2>6. \A j \in 1 .. n - 1 : s[j] = IF j < i THEN order[j] ELSE order[j + 1]
    <3> SUFFICES ASSUME NEW j \in 1 .. n - 1
                 PROVE  s[j] = IF j < i THEN order[j] ELSE order[j + 1]
      OBVIOUS
    <3>0. Len(f) + Len(g) = n - 1 /\ s[j] = IF j <= i - 1 THEN f[j] ELSE g[j - (i - 1)]
      BY <1>0, <2>1, <2>3, <2>4, <2>5
    <3>1. CASE j < i
      BY <1>0, <2>1, <2>3, <3>0, <3>1
    <3>2. CASE j >= i
      <4>1. j - (i - 1) \in 1 .. n - i /\ i + (j - (i - 1)) = j + 1
        BY <1>0, <2>1, <3>2
      <4> QED
        BY <2>1, <2>4, <3>0, <3>2, <4>1
    <3> QED
      BY <1>0, <2>1, <3>1, <3>2
  <2>7. ASSUME NEW a \in 1 .. n - 1, NEW b \in 1 .. n - 1, s[a] = s[b]
        PROVE  a = b
    <3> DEFINE p == IF a < i THEN a ELSE a + 1
               q == IF b < i THEN b ELSE b + 1
    <3>1. p \in 1 .. n /\ q \in 1 .. n
      BY <1>0, <2>1
    <3>2. s[a] = order[p] /\ s[b] = order[q]
      BY <2>6
    <3>3. p = q => a = b
      BY <1>0, <2>1
    <3> HIDE DEF p, q
    <3> QED
      BY <1>0, <2>7, <3>1, <3>2, <3>3
  <2>8. ASSUME NEW c \in Clients
        PROVE  (\E a \in 1 .. n - 1 : s[a] = c) <=> Listed(c) /\ c # k
    <3>1. ASSUME NEW a \in 1 .. n - 1, s[a] = c
          PROVE  Listed(c) /\ c # k
      BY <1>0, <2>1, <2>6, <3>1 DEF Listed, n
    <3>2. ASSUME Listed(c), c # k
          PROVE  \E a \in 1 .. n - 1 : s[a] = c
      <4>1. PICK b \in 1 .. n : order[b] = c
        BY <3>2 DEF Listed, n
      <4>2. CASE b < i
        BY <1>0, <2>1, <2>6, <4>1, <4>2
      <4>3. CASE b > i
        <5>1. b - 1 \in 1 .. n - 1 /\ ~(b - 1 < i) /\ (b - 1) + 1 = b
          BY <1>0, <2>1, <4>3
        <5>2. s[b - 1] = c
          BY <2>6, <4>1, <5>1
        <5> QED
          BY <5>1, <5>2
      <4> QED
        BY <1>0, <2>1, <3>2, <4>1, <4>2, <4>3
    <3> QED
      BY <3>1, <3>2
  <2>9. Len(s) = n - 1
    BY <1>0, <2>1, <2>3, <2>4, <2>5
  <2> QED
    BY <1>1, <2>5, <2>7, <2>8, <2>9 DEF s, n
<1>2. CASE ~Listed(k)
  BY <1>0, <1>2 DEF Without, Listed
<1> QED
  BY <1>1, <1>2

\* A key put in front of a list that does not hold it.
LEMMA InFront ==
    ASSUME NEW k \in Clients, NEW s \in Seq(Clients),
           \A i, j \in 1 .. Len(s) : s[i] = s[j] => i = j,
           ~ \E i \in 1 .. Len(s) : s[i] = k
    PROVE  LET t == <<k>> \o s IN
           /\ t \in Seq(Clients)
           /\ Len(t) = Len(s) + 1
           /\ \A i, j \in 1 .. Len(t) : t[i] = t[j] => i = j
           /\ \A c \in Clients : (\E i \in 1 .. Len(t) : t[i] = c)
                                     <=> c = k \/ \E i \in 1 .. Len(s) : s[i] = c
<1> DEFINE t == <<k>> \o s
<1>0. <<k>> \in Seq(Clients) /\ Len(<<k>>) = 1 /\ <<k>>[1] = k /\ Len(s) \in Nat
  OBVIOUS
<1>1. /\ t \in Seq(Clients) /\ Len(t) = Len(s) + 1
      /\ \A i \in 1 .. Len(s) + 1 : t[i] = IF i = 1 THEN k ELSE s[i - 1]
  BY <1>0, ConcatProperties
<1> HIDE DEF t
<1>2. \A i \in 2 .. Len(s) + 1 : i - 1 \in 1 .. Len(s)
  BY <1>0
<1>3. \A i, j \in 1 .. Len(t) : t[i] = t[j] => i = j
  <2> SUFFICES ASSUME NEW i \in 1 .. Len(t), NEW j \in 1 .. Len(t), t[i] = t[j]
               PROVE  i = j
    OBVIOUS
  <2>1. i \in Int /\ (i # 1 => i - 1 \in 1 .. Len(s) /\ t[i] = s[i - 1])
    BY <1>0, <1>1
  <2>2. j \in Int /\ (j # 1 => j - 1 \in 1 .. Len(s) /\ t[j] = s[j - 1])
    BY <1>0, <1>1
  <2>3. t[1] = k
    BY <1>0, <1>1
  <2>4. i # 1 /\ j # 1 => i - 1 = j - 1
    BY <2>1, <2>2
  <2> QED
    BY <2>1, <2>2, <2>3, <2>4
<1>4. ASSUME NEW c \in Clients
      PROVE  (\E i \in 1 .. Len(t) : t[i] = c)
                 <=> c = k \/ \E i \in 1 .. Len(s) : s[i] = c
  <2>1. t[1] = k /\ 1 \in 1 .. Len(t)
    BY <1>0, <1>1
  <2>2. ASSUME NEW i \in 1 .. Len(s) PROVE i + 1 \in 1 .. Len(t) /\ t[i + 1] = s[i]
    BY <1>0, <1>1
  <2>3. ASSUME NEW i \in 1 .. Len(t), t[i] = c
        PROVE  c = k \/ \E j \in 1 .. Len(s) : s[j] = c
    BY <1>0, <1>1, <1>2, <2>3
  <2> QED
    BY <2>1, <2>2, <2>3
<1> QED
  BY <1>1, <1>3, <1>4 DEF t

\* LRUExpireCache.Get, when it finds a live entry, changes the order only.
LEMMA CacheHitEffect ==
    ASSUME TypeOK, NEW k \in Clients, CacheHit(k)
    PROVE  /\ order' \in Seq(Clients)
           /\ ListFitsCache'
           /\ UNCHANGED <<cache, expired>>
           /\ cache[k] \in Creds
<1> DEFINE s == Without(k)
<1>1. /\ s \in Seq(Clients)
      /\ Len(s) = IF Listed(k) THEN Len(order) - 1 ELSE Len(order)
      /\ \A i, j \in 1 .. Len(s) : s[i] = s[j] => i = j
      /\ \A c \in Clients : (\E i \in 1 .. Len(s) : s[i] = c) <=> Listed(c) /\ c # k
  BY WithoutKey
<1>2. cache[k] # NoCred /\ Listed(k) /\ order' = <<k>> \o s /\ UNCHANGED <<cache, expired>>
  BY DEF CacheHit, Live, TypeOK, ListFitsCache
<1> HIDE DEF s
<1>3. /\ order' \in Seq(Clients)
      /\ Len(order') = Len(s) + 1
      /\ \A i, j \in 1 .. Len(order') : order'[i] = order'[j] => i = j
      /\ \A c \in Clients : Listed(c)' <=> c = k \/ \E i \in 1 .. Len(s) : s[i] = c
  <2> DEFINE t == <<k>> \o s
  <2>1. ~ \E i \in 1 .. Len(s) : s[i] = k
    BY <1>1
  <2>2. /\ t \in Seq(Clients)
        /\ Len(t) = Len(s) + 1
        /\ \A i, j \in 1 .. Len(t) : t[i] = t[j] => i = j
        /\ \A c \in Clients : (\E i \in 1 .. Len(t) : t[i] = c)
                                  <=> c = k \/ \E i \in 1 .. Len(s) : s[i] = c
    BY <1>1, <2>1, InFront, Zenon
  <2> HIDE DEF t
  <2>3. order' = t
    BY <1>2 DEF t
  <2> QED
    BY <2>2, <2>3, Zenon DEF Listed
<1>4. Len(order) \in Nat /\ Len(order') = Len(order)
  BY <1>1, <1>2, <1>3 DEF TypeOK, Types
<1>5. \A c \in Clients : Listed(c)' <=> Listed(c)
  BY <1>1, <1>2, <1>3
<1>6. ListFitsCache'
  BY <1>2, <1>3, <1>4, <1>5 DEF ListFitsCache, TypeOK
<1> QED
  BY <1>2, <1>3, <1>6 DEF TypeOK, Types

\* Get that misses: the key is not live afterwards, the others are untouched.
LEMMA CacheMissEffect ==
    ASSUME TypeOK, NEW k \in Clients, CacheMiss(k)
    PROVE  /\ order' \in Seq(Clients)
           /\ ListFitsCache'
           /\ cache' \in [Clients -> Creds \cup {NoCred}]
           /\ expired' \in SUBSET Clients
           /\ ~Live(k)
           /\ \A j \in Clients : Live(j)' => Live(j) /\ cache'[j] = cache[j]
<1> DEFINE s == Without(k)
<1>1. /\ s \in Seq(Clients)
      /\ Len(s) = IF Listed(k) THEN Len(order) - 1 ELSE Len(order)
      /\ \A i, j \in 1 .. Len(s) : s[i] = s[j] => i = j
      /\ \A c \in Clients : (\E i \in 1 .. Len(s) : s[i] = c) <=> Listed(c) /\ c # k
  BY WithoutKey
<1>2. order' = s /\ cache' = [cache EXCEPT ![k] = NoCred] /\ cache \in [Clients -> Creds \cup {NoCred}]
  BY DEF CacheMiss, TypeOK, Types
<1> HIDE DEF s
<1>3. Len(order') <= CacheSize
  BY <1>1, <1>2 DEF TypeOK, Types, ListFitsCache
<1>4. \A c \in Clients : Listed(c)' <=> Listed(c) /\ c # k
  BY <1>1, <1>2 DEF Listed
<1>5. ListFitsCache'
  BY <1>1, <1>2, <1>3, <1>4 DEF ListFitsCache, TypeOK
<1> QED
  BY <1>1, <1>2, <1>5 DEF CacheMiss, TypeOK, Types, Live

\* The recency list without its last element.
LEMMA WithoutLast ==
    ASSUME TypeOK, NEW k \in Clients, Full(k)
    PROVE  LET s == SubSeq(order, 1, Len(order) - 1) IN
           /\ order[Len(order)] \in Clients
           /\ s \in Seq(Clients)
           /\ Len(s) + 1 = Len(order)
           /\ \A i, j \in 1 .. Len(s) : s[i] = s[j] => i = j
           /\ \A c \in Clients : (\E i \in 1 .. Len(s) : s[i] = c)
                                     <=> Listed(c) /\ c # order[Len(order)]
<1> DEFINE n == Len(order)
           s == SubSeq(order, 1, n - 1)
<1>0. /\ order \in Seq(Clients) /\ n \in Nat /\ n > 0
      /\ \A j \in 1 .. n : order[j] \in Clients
      /\ \A i, j \in 1 .. n : order[i] = order[j] => i = j
  BY CacheSizeAssumption DEF TypeOK, Types, ListFitsCache, Full
<1>1. s \in Seq(Clients) /\ Len(s) = n - 1 /\ \A j \in 1 .. n - 1 : s[j] = order[j]
  <2>1. n - 1 \in Int /\ 1 .. n - 1 \subseteq 1 .. n
    BY <1>0
  <2>2. /\ s \in Seq(Clients)
        /\ Len(s) = IF 1 <= n - 1 THEN n - 1 - 1 + 1 ELSE 0
        /\ \A j \in 1 .. n - 1 - 1 + 1 : s[j] = order[1 + j - 1]
    BY <1>0, <2>1, SubSeqProperties
  <2> HIDE DEF s, n
  <2> QED
    BY <1>0, <2>2
<1>2. n \in 1 .. n /\ \A j \in 1 .. n - 1 : j \in 1 .. n /\ j # n
  BY <1>0
<1>3. \A j \in 1 .. n : j \in 1 .. n - 1 \/ j = n
  BY <1>0
<1>4. \A c \in Clients : Listed(c) <=> \E i \in 1 .. n : order[i] = c
  BY DEF Listed
<1> HIDE DEF s, n
<1>5. ASSUME NEW c \in Clients
      PROVE  (\E i \in 1 .. n - 1 : s[i] = c) <=> Listed(c) /\ c # order[n]
  BY <1>0, <1>1, <1>2, <1>3, <1>4
<1>6. \A i, j \in 1 .. n - 1 : s[i] = s[j] => i = j
  BY <1>0, <1>1, <1>2
<1>7. (n - 1) + 1 = n
  BY <1>0
<1> QED
  BY <1>0, <1>1, <1>2, <1>5, <1>6, <1>7 DEF s, n

\* Add makes its key live with the given value; no other key becomes live.
LEMMA CacheAddEffect ==
    ASSUME TypeOK, NEW k \in Clients, NEW c \in Creds, CacheAdd(k, c)
    PROVE  /\ order' \in Seq(Clients)
           /\ ListFitsCache'
           /\ cache' \in [Clients -> Creds \cup {NoCred}]
           /\ expired' \in SUBSET Clients
           /\ cache'[k] = c
           /\ k \notin expired'
           /\ \A j \in Clients \ {k} :
                  Live(j)' => Live(j) /\ cache'[j] = cache[j]
<1> DEFINE s == IF Full(k) THEN SubSeq(order, 1, Len(order) - 1) ELSE Without(k)
           out == IF Full(k) THEN {order[Len(order)]} ELSE {}
<1>0. /\ order' = <<k>> \o s
      /\ cache' = [j \in Clients |-> IF j = k THEN c
                                     ELSE IF j \in out THEN NoCred ELSE cache[j]]
  BY DEF CacheAdd
<1>1. /\ s \in Seq(Clients)
      /\ Len(s) + 1 <= CacheSize
      /\ \A i, j \in 1 .. Len(s) : s[i] = s[j] => i = j
      /\ \A j \in Clients : (\E i \in 1 .. Len(s) : s[i] = j)
                                <=> Listed(j) /\ j # k /\ j \notin out
  <2>0. Len(order) \in Nat /\ Len(order) <= CacheSize /\ (cache[k] # NoCred <=> Listed(k))
    BY DEF TypeOK, Types, ListFitsCache
  <2>1. CASE Full(k)
    <3>1. ~Listed(k)
      BY <2>0, <2>1 DEF Full
    <3> QED
      BY <2>0, <2>1, <3>1, WithoutLast
  <2>2. CASE ~Full(k)
    <3>1. /\ s \in Seq(Clients)
          /\ Len(s) = IF Listed(k) THEN Len(order) - 1 ELSE Len(order)
          /\ \A i, j \in 1 .. Len(s) : s[i] = s[j] => i = j
          /\ \A j \in Clients : (\E i \in 1 .. Len(s) : s[i] = j) <=> Listed(j) /\ j # k
      BY <2>2, WithoutKey
    <3>2. out = {}
      BY <2>2
    <3> HIDE DEF s, out
    <3>3. Len(s) + 1 <= CacheSize
      BY <2>0, <2>2, <3>1 DEF Full
    <3> QED
      BY <3>1, <3>2, <3>3
  <2> QED
    BY <2>1, <2>2
<1>2. ListFitsCache'
  <2> HIDE DEF s, out
  <2>1. /\ order' \in Seq(Clients)
        /\ Len(order') = Len(s) + 1
        /\ \A i, j \in 1 .. Len(order') : order'[i] = order'[j] => i = j
        /\ \A j \in Clients : Listed(j)' <=> j = k \/ \E i \in 1 .. Len(s) : s[i] = j
    BY <1>0, <1>1, InFront DEF Listed
  <2>2. \A j \in Clients : cache'[j] # NoCred <=> Listed(j)'
    BY <1>0, <1>1, <2>1 DEF TypeOK, ListFitsCache
  <2> QED
    BY <1>1, <2>1, <2>2 DEF ListFitsCache
<1>3. order' \in Seq(Clients)
  <2> HIDE DEF s
  <2> QED
    BY <1>0, <1>1, InFront
<1>4. cache' \in [Clients -> Creds \cup {NoCred}]
  BY DEF CacheAdd, TypeOK, Types
<1> QED
  BY <1>2, <1>3, <1>4 DEF CacheAdd, TypeOK, Types, Live

(***************************************************************************)
(* The invariant is inductive.                                             *)
(***************************************************************************)
\* The program starts with an empty cache and no request.
LEMMA IInvInit == Init => IInv
BY DEF Init, IInv, TypeOK, Types, ListFitsCache, Listed, Phases, Running, Answered, Accepted, LeadersRun,
       LeaderHoldsNewest, NoInventedCred, WaitersFit, FreshOwnCred,
       CacheHoldsNewest, Live

\* Every critical section of every request preserves it, and so does the clock.
LEMMA IInvStep == IInv /\ [Next]_vars => IInv'
<1> SUFFICES ASSUME IInv, [Next]_vars
             PROVE  IInv'
  OBVIOUS
<1> USE DEF Go, reqVars, cacheVars, Running, Answered, Phases, Creds, Live
<1>1. ASSUME NEW r \in Requests, NEW asked \in Clients \cup {NoClient},
             NEW hasResource \in BOOLEAN, Receive(r, asked, hasResource)
      PROVE  IInv'
  <2>0. ~ \E w \in Requests : pc[w] = "wait" /\ call[w] = r
    BY <1>1 DEF IInv, WaitersFit, Receive
  <2>a. CASE ClientFor(asked) # NoClient /\ hasResource
    <3>0. /\ ClientFor(asked) \in Clients
          /\ made[ClientFor(asked)] \in Nat
      BY <2>a, NoneAssumption DEF ClientFor, IInv, TypeOK, Types
    <3>a. /\ pc[r] = "idle" /\ pc' = [pc EXCEPT ![r] = "lookup"]
          /\ client' = [client EXCEPT ![r] = ClientFor(asked)]
          /\ since' = [since EXCEPT ![r] = made[ClientFor(asked)]]
          /\ UNCHANGED <<call, cred, flight, made, cache, expired, order>>
      BY <1>1, <2>a, Zenon DEF Receive
    <3>1. TypeOK'
      BY <2>0, <3>0, <3>a, ListSame DEF IInv, TypeOK, Types, Accepted
    <3>2. Accepted'
      BY <2>0, <3>0, <3>a DEF IInv, TypeOK, Types, Accepted
    <3>3. LeadersRun'
      BY <2>0, <3>0, <3>a DEF IInv, TypeOK, Types, Accepted, LeadersRun
    <3>4. LeaderHoldsNewest'
      BY <2>0, <3>0, <3>a DEF IInv, TypeOK, Types, Accepted, LeadersRun, LeaderHoldsNewest
    <3>5. NoInventedCred'
      BY <2>0, <3>0, <3>a DEF IInv, TypeOK, Types, Accepted, NoInventedCred
    <3>6. WaitersFit'
      BY <2>0, <3>0, <3>a DEF IInv, TypeOK, Types, Accepted, LeadersRun, LeaderHoldsNewest, NoInventedCred, WaitersFit
    <3>7. FreshOwnCred'
      BY <2>0, <3>0, <3>a DEF IInv, TypeOK, Types, Accepted, NoInventedCred, WaitersFit, FreshOwnCred
    <3>8. CacheHoldsNewest'
      BY <2>0, <3>0, <3>a DEF IInv, TypeOK, Types, Accepted, LeadersRun, LeaderHoldsNewest, CacheHoldsNewest
    <3> QED
      BY <3>1, <3>2, <3>3, <3>4, <3>5, <3>6, <3>7, <3>8 DEF IInv
  <2>b. CASE ~ (ClientFor(asked) # NoClient /\ hasResource)
    <3>a. /\ pc[r] = "idle" /\ pc' = [pc EXCEPT ![r] = "rejected"]
          /\ UNCHANGED <<client, since, call, cred, flight, made, cache, expired, order>>
      BY <1>1, <2>b, Zenon DEF Receive
    <3>1. TypeOK'
      BY <2>0, <3>a, ListSame DEF IInv, TypeOK, Types, Accepted
    <3>2. Accepted'
      BY <2>0, <3>a DEF IInv, TypeOK, Types, Accepted
    <3>3. LeadersRun'
      BY <2>0, <3>a DEF IInv, TypeOK, Types, Accepted, LeadersRun
    <3>4. LeaderHoldsNewest'
      BY <2>0, <3>a DEF IInv, TypeOK, Types, Accepted, LeadersRun, LeaderHoldsNewest
    <3>5. NoInventedCred'
      BY <2>0, <3>a DEF IInv, TypeOK, Types, Accepted, NoInventedCred
    <3>6. WaitersFit'
      BY <2>0, <3>a DEF IInv, TypeOK, Types, Accepted, LeadersRun, LeaderHoldsNewest, NoInventedCred, WaitersFit
    <3>7. FreshOwnCred'
      BY <2>0, <3>a DEF IInv, TypeOK, Types, Accepted, NoInventedCred, WaitersFit, FreshOwnCred
    <3>8. CacheHoldsNewest'
      BY <2>0, <3>a DEF IInv, TypeOK, Types, Accepted, LeadersRun, LeaderHoldsNewest, CacheHoldsNewest
    <3> QED
      BY <3>1, <3>2, <3>3, <3>4, <3>5, <3>6, <3>7, <3>8 DEF IInv
  <2> QED
    BY <2>a, <2>b
<1>2. ASSUME NEW r \in Requests, LookupHit(r)
     PROVE  IInv'
  <2>0. /\ client[r] \in Clients
        /\ order' \in Seq(Clients)
        /\ ListFitsCache'
        /\ UNCHANGED <<cache, expired>>
        /\ cache[client[r]] \in Creds /\ cache[client[r]] # NoCred
        /\ cache[client[r]] = [client |-> client[r], gen |-> made[client[r]]]
    BY <1>2, CacheHitEffect DEF IInv, TypeOK, Types, Accepted, CacheHoldsNewest, CacheHit, LookupHit
  <2>1. TypeOK'
    BY <1>2, <2>0, ListSame DEF IInv, TypeOK, Types, Accepted, LookupHit
  <2>2. Accepted'
    BY <1>2, <2>0 DEF IInv, TypeOK, Types, Accepted, LookupHit
  <2>3. LeadersRun'
    BY <1>2, <2>0 DEF IInv, TypeOK, Types, Accepted, LeadersRun, LookupHit
  <2>4. LeaderHoldsNewest'
    BY <1>2, <2>0 DEF IInv, TypeOK, Types, Accepted, LeadersRun, LeaderHoldsNewest, LookupHit
  <2>5. NoInventedCred'
    BY <1>2, <2>0 DEF IInv, TypeOK, Types, Accepted, NoInventedCred, LookupHit
  <2>6. WaitersFit'
    BY <1>2, <2>0 DEF IInv, TypeOK, Types, Accepted, LeadersRun, LeaderHoldsNewest, NoInventedCred, WaitersFit, LookupHit
  <2>7. FreshOwnCred'
    BY <1>2, <2>0 DEF IInv, TypeOK, Types, Accepted, NoInventedCred, WaitersFit, FreshOwnCred, LookupHit
  <2>8. CacheHoldsNewest'
    BY <1>2, <2>0 DEF IInv, TypeOK, Types, Accepted, LeadersRun, LeaderHoldsNewest, CacheHoldsNewest, LookupHit
  <2> QED
    BY <2>1, <2>2, <2>3, <2>4, <2>5, <2>6, <2>7, <2>8 DEF IInv
<1>3. ASSUME NEW r \in Requests, LookupMiss(r)
     PROVE  IInv'
  <2>0. /\ client[r] \in Clients
        /\ order' \in Seq(Clients)
        /\ ListFitsCache'
        /\ cache' \in [Clients -> Creds \cup {NoCred}]
        /\ expired' \in SUBSET Clients
        /\ ~Live(client[r])
        /\ \A j \in Clients : Live(j)' => Live(j) /\ cache'[j] = cache[j]
    BY <1>3, CacheMissEffect DEF IInv, Accepted, LookupMiss
  <2>1. TypeOK'
    BY <1>3, <2>0, ListSame DEF IInv, TypeOK, Types, Accepted, LookupMiss
  <2>2. Accepted'
    BY <1>3, <2>0 DEF IInv, TypeOK, Types, Accepted, LookupMiss
  <2>3. LeadersRun'
    BY <1>3, <2>0 DEF IInv, TypeOK, Types, Accepted, LeadersRun, LookupMiss
  <2>4. LeaderHoldsNewest'
    BY <1>3, <2>0 DEF IInv, TypeOK, Types, Accepted, LeadersRun, LeaderHoldsNewest, LookupMiss
  <2>5. NoInventedCred'
    BY <1>3, <2>0 DEF IInv, TypeOK, Types, Accepted, NoInventedCred, LookupMiss
  <2>6. WaitersFit'
    BY <1>3, <2>0 DEF IInv, TypeOK, Types, Accepted, LeadersRun, LeaderHoldsNewest, NoInventedCred, WaitersFit, LookupMiss
  <2>7. FreshOwnCred'
    BY <1>3, <2>0 DEF IInv, TypeOK, Types, Accepted, NoInventedCred, WaitersFit, FreshOwnCred, LookupMiss
  <2>8. CacheHoldsNewest'
    BY <1>3, <2>0 DEF IInv, TypeOK, Types, Accepted, LeadersRun, LeaderHoldsNewest, CacheHoldsNewest, LookupMiss
  <2> QED
    BY <2>1, <2>2, <2>3, <2>4, <2>5, <2>6, <2>7, <2>8 DEF IInv
<1>4. ASSUME NEW r \in Requests, Lead(r)
     PROVE  IInv'
  <2>0. /\ client[r] \in Clients
        /\ pc[r] \notin Running
        /\ pc' \in [Requests -> Phases] /\ pc'[r] = "check"
        /\ \A q \in Requests \ {r} : pc'[q] = pc[q]
        /\ flight' \in [Clients -> Requests \cup {NoRequest}]
        /\ flight[client[r]] = NoRequest /\ flight'[client[r]] = r
        /\ \A k \in Clients \ {client[r]} : flight'[k] = flight[k]
    BY <1>4 DEF IInv, TypeOK, Types, Accepted, Lead
  <2>1. TypeOK'
    BY <1>4, <2>0, ListSame DEF IInv, TypeOK, Types, Accepted, Lead
  <2>2. Accepted'
    BY <1>4, <2>0 DEF IInv, TypeOK, Types, Accepted, Lead
  <2>3. LeadersRun'
    BY <1>4, <2>0 DEF IInv, TypeOK, Types, Accepted, LeadersRun, Lead
  <2>4. LeaderHoldsNewest'
    BY <1>4, <2>0 DEF IInv, TypeOK, Types, Accepted, LeadersRun, LeaderHoldsNewest, Lead
  <2>5. NoInventedCred'
    BY <1>4, <2>0 DEF IInv, TypeOK, Types, Accepted, NoInventedCred, Lead
  <2>6. WaitersFit'
    BY <1>4, <2>0 DEF IInv, TypeOK, Types, Accepted, LeadersRun, LeaderHoldsNewest, NoInventedCred, WaitersFit, Lead
  <2>7. FreshOwnCred'
    BY <1>4, <2>0 DEF IInv, TypeOK, Types, Accepted, NoInventedCred, WaitersFit, FreshOwnCred, Lead
  <2>8. CacheHoldsNewest'
    BY <1>4, <2>0 DEF IInv, TypeOK, Types, Accepted, LeadersRun, LeaderHoldsNewest, CacheHoldsNewest, Lead
  <2> QED
    BY <2>1, <2>2, <2>3, <2>4, <2>5, <2>6, <2>7, <2>8 DEF IInv
<1>5. ASSUME NEW r \in Requests, Join(r)
     PROVE  IInv'
  <2> DEFINE l == flight[client[r]]
  <2>0. /\ client[r] \in Clients /\ l \in Requests
        /\ client[l] = client[r] /\ pc[l] \in Running
    <3>1. client[r] \in Clients /\ l # NoRequest
      BY <1>5 DEF IInv, Accepted, Join
    <3>2. l \in Requests
      BY <3>1 DEF IInv, TypeOK, Types
    <3> QED
      BY <3>1, <3>2 DEF IInv, LeadersRun
  <2>a. cred[l] # NoCred => since[r] <= cred[l].gen
    <3>1. since[r] <= made[client[r]]
      BY <2>0 DEF IInv, NoInventedCred
    <3>2. cred[l] # NoCred => cred[l] = [client |-> client[l], gen |-> made[client[l]]]
      BY <2>0 DEF IInv, LeaderHoldsNewest
    <3>3. cred[l] # NoCred => cred[l].gen = made[client[r]]
      BY <2>0, <3>2
    <3> QED
      BY <3>1, <3>3
  <2>1. TypeOK'
    BY <1>5, <2>0, <2>a, ListSame DEF IInv, TypeOK, Types, Accepted, Join
  <2>2. Accepted'
    BY <1>5, <2>0, <2>a DEF IInv, TypeOK, Types, Accepted, Join
  <2>3. LeadersRun'
    BY <1>5, <2>0, <2>a DEF IInv, TypeOK, Types, Accepted, LeadersRun, Join
  <2>4. LeaderHoldsNewest'
    BY <1>5, <2>0, <2>a DEF IInv, TypeOK, Types, Accepted, LeadersRun, LeaderHoldsNewest, Join
  <2>5. NoInventedCred'
    BY <1>5, <2>0, <2>a DEF IInv, TypeOK, Types, Accepted, NoInventedCred, Join
  <2>6. WaitersFit'
    BY <1>5, <2>0, <2>a DEF IInv, TypeOK, Types, Accepted, LeadersRun, LeaderHoldsNewest, NoInventedCred, WaitersFit, Join
  <2>7. FreshOwnCred'
    BY <1>5, <2>0, <2>a DEF IInv, TypeOK, Types, Accepted, NoInventedCred, WaitersFit, FreshOwnCred, Join
  <2>8. CacheHoldsNewest'
    BY <1>5, <2>0, <2>a DEF IInv, TypeOK, Types, Accepted, LeadersRun, LeaderHoldsNewest, CacheHoldsNewest, Join
  <2> QED
    BY <2>1, <2>2, <2>3, <2>4, <2>5, <2>6, <2>7, <2>8 DEF IInv
<1>6. ASSUME NEW r \in Requests, CheckHit(r)
     PROVE  IInv'
  <2>0. /\ client[r] \in Clients
        /\ order' \in Seq(Clients)
        /\ ListFitsCache'
        /\ UNCHANGED <<cache, expired>>
        /\ cache[client[r]] \in Creds /\ cache[client[r]] # NoCred
        /\ cache[client[r]] = [client |-> client[r], gen |-> made[client[r]]]
    BY <1>6, CacheHitEffect DEF IInv, TypeOK, Types, Accepted, CacheHoldsNewest, CacheHit, CheckHit
  <2>1. TypeOK'
    BY <1>6, <2>0, ListSame DEF IInv, TypeOK, Types, Accepted, CheckHit
  <2>2. Accepted'
    BY <1>6, <2>0 DEF IInv, TypeOK, Types, Accepted, CheckHit
  <2>3. LeadersRun'
    BY <1>6, <2>0 DEF IInv, TypeOK, Types, Accepted, LeadersRun, CheckHit
  <2>4. LeaderHoldsNewest'
    BY <1>6, <2>0 DEF IInv, TypeOK, Types, Accepted, LeadersRun, LeaderHoldsNewest, CheckHit
  <2>5. NoInventedCred'
    BY <1>6, <2>0 DEF IInv, TypeOK, Types, Accepted, NoInventedCred, CheckHit
  <2>6. WaitersFit'
    BY <1>6, <2>0 DEF IInv, TypeOK, Types, Accepted, LeadersRun, LeaderHoldsNewest, NoInventedCred, WaitersFit, CheckHit
  <2>7. FreshOwnCred'
    BY <1>6, <2>0 DEF IInv, TypeOK, Types, Accepted, NoInventedCred, WaitersFit, FreshOwnCred, CheckHit
  <2>8. CacheHoldsNewest'
    BY <1>6, <2>0 DEF IInv, TypeOK, Types, Accepted, LeadersRun, LeaderHoldsNewest, CacheHoldsNewest, CheckHit
  <2> QED
    BY <2>1, <2>2, <2>3, <2>4, <2>5, <2>6, <2>7, <2>8 DEF IInv
<1>7. ASSUME NEW r \in Requests, CheckMiss(r)
     PROVE  IInv'
  <2>0. /\ client[r] \in Clients
        /\ order' \in Seq(Clients)
        /\ ListFitsCache'
        /\ cache' \in [Clients -> Creds \cup {NoCred}]
        /\ expired' \in SUBSET Clients
        /\ ~Live(client[r])
        /\ \A j \in Clients : Live(j)' => Live(j) /\ cache'[j] = cache[j]
    BY <1>7, CacheMissEffect DEF IInv, Accepted, CheckMiss
  <2>1. TypeOK'
    BY <1>7, <2>0, ListSame DEF IInv, TypeOK, Types, Accepted, CheckMiss
  <2>2. Accepted'
    BY <1>7, <2>0 DEF IInv, TypeOK, Types, Accepted, CheckMiss
  <2>3. LeadersRun'
    BY <1>7, <2>0 DEF IInv, TypeOK, Types, Accepted, LeadersRun, CheckMiss
  <2>4. LeaderHoldsNewest'
    BY <1>7, <2>0 DEF IInv, TypeOK, Types, Accepted, LeadersRun, LeaderHoldsNewest, CheckMiss
  <2>5. NoInventedCred'
    BY <1>7, <2>0 DEF IInv, TypeOK, Types, Accepted, NoInventedCred, CheckMiss
  <2>6. WaitersFit'
    BY <1>7, <2>0 DEF IInv, TypeOK, Types, Accepted, LeadersRun, LeaderHoldsNewest, NoInventedCred, WaitersFit, CheckMiss
  <2>7. FreshOwnCred'
    BY <1>7, <2>0 DEF IInv, TypeOK, Types, Accepted, NoInventedCred, WaitersFit, FreshOwnCred, CheckMiss
  <2>8. CacheHoldsNewest'
    BY <1>7, <2>0 DEF IInv, TypeOK, Types, Accepted, LeadersRun, LeaderHoldsNewest, CacheHoldsNewest, CheckMiss
  <2> QED
    BY <2>1, <2>2, <2>3, <2>4, <2>5, <2>6, <2>7, <2>8 DEF IInv
<1>8. ASSUME NEW r \in Requests, Create(r)
     PROVE  IInv'
  <2>0. /\ client[r] \in Clients
        /\ made[client[r]] \in Nat
        /\ [client |-> client[r], gen |-> made[client[r]] + 1] \in Creds
        /\ made' \in [Clients -> Nat]
    <3>1. client[r] \in Clients /\ made \in [Clients -> Nat]
      BY <1>8 DEF IInv, TypeOK, Types, Accepted, Create
    <3>2. made[client[r]] \in Nat /\ made[client[r]] + 1 \in Nat \ {0}
      BY <3>1
    <3> QED
      BY <1>8, <3>1, <3>2 DEF Create
  <2>1. TypeOK'
    BY <1>8, <2>0, ListSame DEF IInv, TypeOK, Types, Accepted, Create
  <2>2. Accepted'
    BY <1>8, <2>0 DEF IInv, TypeOK, Types, Accepted, Create
  <2>3. LeadersRun'
    BY <1>8, <2>0 DEF IInv, TypeOK, Types, Accepted, LeadersRun, Create
  <2>4. LeaderHoldsNewest'
    BY <1>8, <2>0 DEF IInv, TypeOK, Types, Accepted, LeadersRun, LeaderHoldsNewest, Create
  <2>5. NoInventedCred'
    BY <1>8, <2>0 DEF IInv, TypeOK, Types, Accepted, NoInventedCred, Create
  <2>6. WaitersFit'
    BY <1>8, <2>0 DEF IInv, TypeOK, Types, Accepted, LeadersRun, LeaderHoldsNewest, NoInventedCred, WaitersFit, Create
  <2>7. FreshOwnCred'
    BY <1>8, <2>0 DEF IInv, TypeOK, Types, Accepted, NoInventedCred, WaitersFit, FreshOwnCred, Create
  <2>8. CacheHoldsNewest'
    BY <1>8, <2>0 DEF IInv, TypeOK, Types, Accepted, LeadersRun, LeaderHoldsNewest, CacheHoldsNewest, Create
  <2> QED
    BY <2>1, <2>2, <2>3, <2>4, <2>5, <2>6, <2>7, <2>8 DEF IInv
<1>9. ASSUME NEW r \in Requests, CreateFails(r)
     PROVE  IInv'
  <2>1. TypeOK'
    BY <1>9, ListSame DEF IInv, TypeOK, Types, Accepted, CreateFails
  <2>2. Accepted'
    BY <1>9 DEF IInv, TypeOK, Types, Accepted, CreateFails
  <2>3. LeadersRun'
    BY <1>9 DEF IInv, TypeOK, Types, Accepted, LeadersRun, CreateFails
  <2>4. LeaderHoldsNewest'
    BY <1>9 DEF IInv, TypeOK, Types, Accepted, LeadersRun, LeaderHoldsNewest, CreateFails
  <2>5. NoInventedCred'
    BY <1>9 DEF IInv, TypeOK, Types, Accepted, NoInventedCred, CreateFails
  <2>6. WaitersFit'
    BY <1>9 DEF IInv, TypeOK, Types, Accepted, LeadersRun, LeaderHoldsNewest, NoInventedCred, WaitersFit, CreateFails
  <2>7. FreshOwnCred'
    BY <1>9 DEF IInv, TypeOK, Types, Accepted, NoInventedCred, WaitersFit, FreshOwnCred, CreateFails
  <2>8. CacheHoldsNewest'
    BY <1>9 DEF IInv, TypeOK, Types, Accepted, LeadersRun, LeaderHoldsNewest, CacheHoldsNewest, CreateFails
  <2> QED
    BY <2>1, <2>2, <2>3, <2>4, <2>5, <2>6, <2>7, <2>8 DEF IInv
<1>10. ASSUME NEW r \in Requests, Add(r)
     PROVE  IInv'
  <2>0. /\ client[r] \in Clients
        /\ cred[r] = [client |-> client[r], gen |-> made[client[r]]]
        /\ cred[r] \in Creds
        /\ \A q \in Requests \ {r} : pc[q] \in Running => client[q] # client[r]
        /\ \A q \in Requests : pc[q] \in Running => client[q] \in Clients
    BY <1>10 DEF IInv, TypeOK, Types, Accepted, LeadersRun, LeaderHoldsNewest, Add
  <2>a. /\ order' \in Seq(Clients) /\ ListFitsCache'
        /\ cache' \in [Clients -> Creds \cup {NoCred}]
        /\ expired' \in SUBSET Clients
        /\ cache'[client[r]] = cred[r]
        /\ \A j \in Clients \ {client[r]} :
               Live(j)' => Live(j) /\ cache'[j] = cache[j]
    BY <1>10, <2>0, CacheAddEffect DEF IInv, Add
  <2>1. TypeOK'
    BY <1>10, <2>0, <2>a, ListSame DEF IInv, TypeOK, Types, Accepted, Add
  <2>2. Accepted'
    BY <1>10, <2>0, <2>a DEF IInv, TypeOK, Types, Accepted, Add
  <2>3. LeadersRun'
    BY <1>10, <2>0, <2>a DEF IInv, TypeOK, Types, Accepted, LeadersRun, Add
  <2>4. LeaderHoldsNewest'
    BY <1>10, <2>0, <2>a DEF IInv, TypeOK, Types, Accepted, LeadersRun, LeaderHoldsNewest, Add
  <2>5. NoInventedCred'
    BY <1>10, <2>0, <2>a DEF IInv, TypeOK, Types, Accepted, NoInventedCred, Add
  <2>6. WaitersFit'
    BY <1>10, <2>0, <2>a DEF IInv, TypeOK, Types, Accepted, LeadersRun, LeaderHoldsNewest, NoInventedCred, WaitersFit, Add
  <2>7. FreshOwnCred'
    BY <1>10, <2>0, <2>a DEF IInv, TypeOK, Types, Accepted, NoInventedCred, WaitersFit, FreshOwnCred, Add
  <2>8. CacheHoldsNewest'
    BY <1>10, <2>0, <2>a, ZenonT(60) DEF IInv, TypeOK, Types, Accepted, LeadersRun, LeaderHoldsNewest, CacheHoldsNewest, Add
  <2> QED
    BY <2>1, <2>2, <2>3, <2>4, <2>5, <2>6, <2>7, <2>8 DEF IInv
<1>11. ASSUME NEW r \in Requests, Finish(r)
     PROVE  IInv'
  <2>1. TypeOK'
    BY <1>11, ListSame DEF IInv, TypeOK, Types, Accepted, Finish, Returned
  <2>2. Accepted'
    BY <1>11 DEF IInv, TypeOK, Types, Accepted, Finish, Returned
  <2>3. LeadersRun'
    BY <1>11 DEF IInv, TypeOK, Types, Accepted, LeadersRun, Finish, Returned
  <2>4. LeaderHoldsNewest'
    BY <1>11 DEF IInv, TypeOK, Types, Accepted, LeadersRun, LeaderHoldsNewest, Finish, Returned
  <2>5. NoInventedCred'
    BY <1>11 DEF IInv, TypeOK, Types, Accepted, NoInventedCred, Finish, Returned
  <2>6. WaitersFit'
    BY <1>11 DEF IInv, TypeOK, Types, Accepted, LeadersRun, LeaderHoldsNewest, NoInventedCred, WaitersFit, Finish, Returned
  <2>7. FreshOwnCred'
    BY <1>11 DEF IInv, TypeOK, Types, Accepted, NoInventedCred, WaitersFit, FreshOwnCred, Finish, Returned
  <2>8. CacheHoldsNewest'
    BY <1>11 DEF IInv, TypeOK, Types, Accepted, LeadersRun, LeaderHoldsNewest, CacheHoldsNewest, Finish, Returned
  <2> QED
    BY <2>1, <2>2, <2>3, <2>4, <2>5, <2>6, <2>7, <2>8 DEF IInv
<1>12. ASSUME NEW r \in Requests, Wake(r)
     PROVE  IInv'
  <2>0. /\ client[r] \in Clients /\ call[r] \in Requests
        /\ client[call[r]] = client[r] /\ pc[call[r]] # "wait"
        /\ cred[call[r]] \in Creds \cup {NoCred}
        /\ cred[call[r]] # NoCred => /\ cred[call[r]].client = client[r]
                                   /\ since[r] <= cred[call[r]].gen
                                   /\ cred[call[r]].gen <= made[client[r]]
    BY <1>12 DEF IInv, TypeOK, Types, Accepted, WaitersFit, FreshOwnCred, NoInventedCred, Wake
  <2>a. Returned(cred[call[r]]) = IF cred[call[r]] = NoCred THEN "failed" ELSE "token"
    BY DEF Returned
  <2>1. TypeOK'
    BY <1>12, <2>0, <2>a, ListSame DEF IInv, TypeOK, Types, Accepted, Wake
  <2>2. Accepted'
    BY <1>12, <2>0, <2>a DEF IInv, TypeOK, Types, Accepted, Wake
  <2>3. LeadersRun'
    BY <1>12, <2>0, <2>a DEF IInv, TypeOK, Types, Accepted, LeadersRun, Wake
  <2>4. LeaderHoldsNewest'
    BY <1>12, <2>0, <2>a DEF IInv, TypeOK, Types, Accepted, LeadersRun, LeaderHoldsNewest, Wake
  <2>5. NoInventedCred'
    BY <1>12, <2>0, <2>a DEF IInv, TypeOK, Types, Accepted, NoInventedCred, Wake
  <2>6. WaitersFit'
    BY <1>12, <2>0, <2>a DEF IInv, TypeOK, Types, Accepted, LeadersRun, LeaderHoldsNewest, NoInventedCred, WaitersFit, Wake
  <2>7. FreshOwnCred'
    BY <1>12, <2>0, <2>a DEF IInv, TypeOK, Types, Accepted, NoInventedCred, WaitersFit, FreshOwnCred, Wake
  <2>8. CacheHoldsNewest'
    BY <1>12, <2>0, <2>a DEF IInv, TypeOK, Types, Accepted, LeadersRun, LeaderHoldsNewest, CacheHoldsNewest, Wake
  <2> QED
    BY <2>1, <2>2, <2>3, <2>4, <2>5, <2>6, <2>7, <2>8 DEF IInv
<1>13. ASSUME NEW r \in Requests, Token(r)
     PROVE  IInv'
  <2>0. /\ pc[r] = "token"
        /\ pc' \in [Requests -> Phases]
        /\ pc'[r] \in {"served", "noToken"}
        /\ \A q \in Requests \ {r} : pc'[q] = pc[q]
        /\ UNCHANGED <<client, call, cred, since>>
    BY <1>13 DEF IInv, TypeOK, Types, Token
  <2>1. TypeOK'
    BY <1>13, <2>0, ListSame DEF IInv, TypeOK, Types, Accepted, Token
  <2>2. Accepted'
    BY <1>13, <2>0 DEF IInv, TypeOK, Types, Accepted, Token
  <2>3. LeadersRun'
    BY <1>13, <2>0, SMTT(30) DEF IInv, TypeOK, Types, Accepted, LeadersRun, Token
  <2>4. LeaderHoldsNewest'
    BY <1>13, <2>0 DEF IInv, TypeOK, Types, Accepted, LeadersRun, LeaderHoldsNewest, Token
  <2>5. NoInventedCred'
    BY <1>13, <2>0 DEF IInv, TypeOK, Types, Accepted, NoInventedCred, Token
  <2>6. WaitersFit'
    BY <2>0 DEF IInv, WaitersFit
  <2>7. FreshOwnCred'
    BY <1>13, <2>0 DEF IInv, TypeOK, Types, Accepted, NoInventedCred, WaitersFit, FreshOwnCred, Token
  <2>8. CacheHoldsNewest'
    BY <1>13, <2>0 DEF IInv, TypeOK, Types, Accepted, LeadersRun, LeaderHoldsNewest, CacheHoldsNewest, Token
  <2> QED
    BY <2>1, <2>2, <2>3, <2>4, <2>5, <2>6, <2>7, <2>8 DEF IInv
<1>14. ASSUME NEW k \in Clients, Expire(k)
      PROVE  IInv'
  <2>1. TypeOK'
    BY <1>14, ListSame DEF IInv, TypeOK, Types, Accepted, Expire
  <2>2. Accepted'
    BY <1>14 DEF IInv, TypeOK, Types, Accepted, Expire
  <2>3. LeadersRun'
    BY <1>14 DEF IInv, TypeOK, Types, Accepted, LeadersRun, Expire
  <2>4. LeaderHoldsNewest'
    BY <1>14 DEF IInv, TypeOK, Types, Accepted, LeadersRun, LeaderHoldsNewest, Expire
  <2>5. NoInventedCred'
    BY <1>14 DEF IInv, TypeOK, Types, Accepted, NoInventedCred, Expire
  <2>6. WaitersFit'
    BY <1>14 DEF IInv, TypeOK, Types, Accepted, LeadersRun, LeaderHoldsNewest, NoInventedCred, WaitersFit, Expire
  <2>7. FreshOwnCred'
    BY <1>14 DEF IInv, TypeOK, Types, Accepted, NoInventedCred, WaitersFit, FreshOwnCred, Expire
  <2>8. CacheHoldsNewest'
    BY <1>14 DEF IInv, TypeOK, Types, Accepted, LeadersRun, LeaderHoldsNewest, CacheHoldsNewest, Expire
  <2> QED
    BY <2>1, <2>2, <2>3, <2>4, <2>5, <2>6, <2>7, <2>8 DEF IInv
<1>15. CASE UNCHANGED vars
  BY <1>15, ListSame DEF IInv, TypeOK, Types, Accepted, LeadersRun, LeaderHoldsNewest, NoInventedCred, WaitersFit, FreshOwnCred, CacheHoldsNewest, vars
<1> QED
  BY <1>1, <1>2, <1>3, <1>4, <1>5, <1>6, <1>7, <1>8, <1>9, <1>10, <1>11, <1>12, <1>13, <1>14, <1>15 DEF Next, Arrive, getOrCreateCred

(***************************************************************************)
(* The theorems.                                                           *)
(***************************************************************************)
\* Every reachable state of the proxy satisfies the inductive invariant.
THEOREM Invariance == Spec => []IInv
<1>1. Init => IInv
  BY IInvInit
<1>2. IInv /\ [Next]_vars => IInv'
  BY IInvStep
<1> QED
  BY <1>1, <1>2, PTL DEF Spec

\* The proxy's state stays well typed, whatever its requests do.
THEOREM TypeCorrect == Spec => []TypeOK
<1>1. IInv => TypeOK
  BY DEF IInv
<1> QED
  BY <1>1, Invariance, PTL

\* getOrCreateCred returns a credential of the client it was called with, no
\* older than the newest one at the request's arrival.
THEOREM FreshOwnCredThm == Spec => []FreshOwnCred
<1>1. IInv => FreshOwnCred
  BY DEF IInv
<1> QED
  BY <1>1, Invariance, PTL

\* An Add never puts an older credential over a newer one of its key.
THEOREM CacheHoldsNewestThm == Spec => []CacheHoldsNewest
<1>1. IInv => CacheHoldsNewest
  BY DEF IInv
<1> QED
  BY <1>1, Invariance, PTL

\* A credential is created only for a client whose last one is in nobody's
\* hands: not in the cache and not about to be added to it.
LEMMA CreateStep ==
    IInv /\ [Next]_vars => [\A k \in Clients : made'[k] # made[k] => ~Held(k)]_vars
<1> SUFFICES ASSUME IInv, Next, NEW k \in Clients, made'[k] # made[k]
             PROVE  ~Held(k)
  BY DEF vars
<1>1. PICK r \in Requests : Create(r) /\ client[r] = k
  <2>1. PICK r \in Requests : Create(r)
    BY DEF Next, Arrive, getOrCreateCred, Receive, LookupHit, LookupMiss, Lead, Join,
           CheckHit, CheckMiss, CreateFails, Add, Finish, Wake, Token, Expire
  <2>2. client[r] = k
    BY <2>1 DEF Create, IInv, TypeOK, Types, Accepted
  <2> QED
    BY <2>1, <2>2
<1>2. ~Live(k)
  BY <1>1 DEF Create, IInv, LeaderHoldsNewest
<1>3. \A q \in Requests : ~(client[q] = k /\ pc[q] = "add")
  BY <1>1 DEF Create, IInv, LeadersRun, Running
<1> QED
  BY <1>2, <1>3 DEF Held

THEOREM NoNeedlessCreateThm == Spec => NoNeedlessCreate
<1>1. IInv /\ [Next]_vars =>
        [\A k \in Clients : made'[k] # made[k] => ~Held(k)]_vars
  BY CreateStep
<1> QED
  BY <1>1, Invariance, PTL DEF Spec, NoNeedlessCreate

-----------------------------------------------------------------------------
(***************************************************************************)
(* CredCache implements CredStore: each critical section of the proxy is   *)
(* one step of the credential store or none.                               *)
(***************************************************************************)

\* The proxy starts as an empty store.
LEMMA AbstractInit == Init => Abstract!Init
BY DEF Init, Abstract!Init, Held, Live, Stage, Given, HasCred

\* A step that moves one request within its stage shows the store nothing of
\* the requests.
LEMMA Quiet ==
    ASSUME TypeOK, NEW r \in Requests, NEW p,
           pc' = [pc EXCEPT ![r] = p],
           Stage(r)' = Stage(r),
           Given(r)' = Given(r),
           \A q \in Requests \ {r} : cred'[q] = cred[q]
    PROVE  /\ [q \in Requests |-> Stage(q)]' = [q \in Requests |-> Stage(q)]
           /\ [q \in Requests |-> Given(q)]' = [q \in Requests |-> Given(q)]
<1>1. \A q \in Requests \ {r} : pc'[q] = pc[q]
  BY DEF TypeOK, Types
<1>2. \A q \in Requests \ {r} : Stage(q)' = Stage(q)
  BY <1>1 DEF Stage
<1>3. \A q \in Requests \ {r} : Given(q)' = Given(q)
  BY <1>1 DEF Given
<1> QED
  BY <1>2, <1>3

\* If it also changes no count and leaves the same clients with a credential of
\* use, it is no step of the store.
LEMMA Unseen ==
    ASSUME TypeOK, NEW r \in Requests, NEW p,
           pc' = [pc EXCEPT ![r] = p],
           Stage(r)' = Stage(r),
           Given(r)' = Given(r),
           UNCHANGED <<made, client, since>>,
           \A q \in Requests \ {r} : cred'[q] = cred[q],
           \A k \in Clients : Held(k)' <=> Held(k)
    PROVE  UNCHANGED Abstract!vars
<1>1. /\ [q \in Requests |-> Stage(q)]' = [q \in Requests |-> Stage(q)]
      /\ [q \in Requests |-> Given(q)]' = [q \in Requests |-> Given(q)]
  BY Quiet
<1>2. {k \in Clients : Held(k)}' = {k \in Clients : Held(k)}
  OBVIOUS
<1> QED
  BY <1>1, <1>2 DEF Abstract!vars

\* Who has a credential of use changes only with what a Get would return, or when
\* a request comes to its Add or passes it.
LEMMA HeldSame ==
    ASSUME TypeOK, NEW r \in Requests, NEW p,
           pc' = [pc EXCEPT ![r] = p], pc[r] # "add", p # "add", UNCHANGED client,
           \A k \in Clients : Live(k)' <=> Live(k)
    PROVE  \A k \in Clients : Held(k)' <=> Held(k)
<1> SUFFICES ASSUME NEW k \in Clients PROVE Held(k)' <=> Held(k)
  OBVIOUS
<1>1. \A q \in Requests : pc'[q] = "add" <=> pc[q] = "add"
  BY DEF TypeOK, Types
<1> QED
  BY <1>1 DEF Held

\* A request that gets its credential is given, in the store, one no older than
\* the newest at its arrival.
LEMMA Giving ==
    ASSUME IInv, IInv', NEW r \in Requests, pc[r] \in {"lookup", "finish", "wait"},
           pc' = [pc EXCEPT ![r] = "token"],
           cred'[r] # NoCred,
           UNCHANGED <<made, client, since>>,
           \A q \in Requests \ {r} : cred'[q] = cred[q],
           \A k \in Clients : Held(k)' <=> Held(k)
    PROVE  Abstract!Give(r)
<1>1. pc'[r] = "token" /\ \A q \in Requests \ {r} : pc'[q] = pc[q]
  BY DEF IInv, TypeOK, Types
<1>2. Stage(r) = "pending" /\ Stage(r)' = "given" /\ Given(r)' = cred'[r].gen
  BY <1>1 DEF Stage, Given, HasCred
<1>3. \A q \in Requests \ {r} : Stage(q)' = Stage(q) /\ Given(q)' = Given(q)
  BY <1>1 DEF Stage, Given
<1>4. client[r] \in Clients /\ cred'[r] \in Creds
  BY DEF IInv, Accepted, TypeOK, Types
<1>5. cred'[r].gen \in since[r] .. made[client[r]] /\ cred'[r].gen > 0
  BY <1>4 DEF IInv, TypeOK, Types, FreshOwnCred, NoInventedCred, Creds
<1>6. [q \in Requests |-> Stage(q)]'
        = [[q \in Requests |-> Stage(q)] EXCEPT ![r] = "given"]
  BY <1>2, <1>3
<1>7. [q \in Requests |-> Given(q)]'
        = [[q \in Requests |-> Given(q)] EXCEPT ![r] = cred'[r].gen]
  BY <1>2, <1>3
<1>8. {k \in Clients : Held(k)}' = {k \in Clients : Held(k)}
  OBVIOUS
<1> QED
  BY <1>2, <1>5, <1>6, <1>7, <1>8 DEF Abstract!Give

\* One that ends without a credential is refused.
LEMMA Refusing ==
    ASSUME IInv, NEW r \in Requests, pc[r] \in {"idle", "finish", "wait"},
           NEW p \in {"rejected", "failed"},
           pc' = [pc EXCEPT ![r] = p],
           UNCHANGED <<made, client, since>>,
           \A q \in Requests \ {r} : cred'[q] = cred[q],
           \A k \in Clients : Held(k)' <=> Held(k)
    PROVE  Abstract!Refuse(r)
<1>1. pc'[r] = p /\ \A q \in Requests \ {r} : pc'[q] = pc[q]
  BY DEF IInv, TypeOK, Types
<1>2. /\ Stage(r) \in {"new", "pending"} /\ Stage(r)' = "refused"
      /\ Given(r) = 0 /\ Given(r)' = 0
  BY <1>1 DEF Stage, Given, HasCred
<1>3. \A q \in Requests \ {r} : Stage(q)' = Stage(q) /\ Given(q)' = Given(q)
  BY <1>1 DEF Stage, Given
<1>4. [q \in Requests |-> Stage(q)]'
        = [[q \in Requests |-> Stage(q)] EXCEPT ![r] = "refused"]
  BY <1>2, <1>3
<1>5. [q \in Requests |-> Given(q)]' = [q \in Requests |-> Given(q)]
  BY <1>2, <1>3
<1>6. {k \in Clients : Held(k)}' = {k \in Clients : Held(k)}
  OBVIOUS
<1> QED
  BY <1>2, <1>4, <1>5, <1>6 DEF Abstract!Refuse

-----------------------------------------------------------------------------
\* msiHandler accepts a request or refuses it.
LEMMA ReceiveRefines ==
    ASSUME IInv, NEW r \in Requests, Arrive(r)
    PROVE  Abstract!Next
<1>1. PICK asked \in Clients \cup {NoClient}, hasResource \in BOOLEAN :
         Receive(r, asked, hasResource)
  BY DEF Arrive
<1>2. TypeOK /\ pc[r] = "idle"
  BY <1>1 DEF IInv, Receive
<1>3. CASE ClientFor(asked) # NoClient /\ hasResource
  <2> DEFINE k == ClientFor(asked)
  <2>0. k \in Clients
    BY <1>3, NoneAssumption DEF ClientFor
  <2>1. /\ pc' = [pc EXCEPT ![r] = "lookup"]
        /\ client' = [client EXCEPT ![r] = k]
        /\ since' = [since EXCEPT ![r] = made[k]]
        /\ UNCHANGED <<cred, made, cache, expired>>
    BY <1>1, <1>3 DEF Receive, Go, cacheVars
  <2> HIDE DEF k
  <2>2. pc'[r] = "lookup" /\ \A q \in Requests \ {r} : pc'[q] = pc[q] /\ client'[q] = client[q]
    BY <1>2, <2>1 DEF TypeOK, Types
  <2>3. /\ Stage(r) = "new" /\ Stage(r)' = "pending"
        /\ Given(r)' = Given(r)
    BY <1>2, <2>2 DEF Stage, Given, HasCred
  <2>4. \A q \in Requests \ {r} : Stage(q)' = Stage(q) /\ Given(q)' = Given(q)
    BY <2>1, <2>2 DEF Stage, Given
  <2>5. [q \in Requests |-> Stage(q)]'
          = [[q \in Requests |-> Stage(q)] EXCEPT ![r] = "pending"]
    BY <2>3, <2>4
  <2>6. [q \in Requests |-> Given(q)]' = [q \in Requests |-> Given(q)]
    BY <2>3, <2>4
  <2>7. ASSUME NEW j \in Clients PROVE Held(j)' <=> Held(j)
    BY <1>2, <2>1, <2>2 DEF Held, Live
  <2>8. {j \in Clients : Held(j)}' = {j \in Clients : Held(j)}
    BY <2>7
  <2>9. Abstract!Accept(r, k)
    BY <2>0, <2>1, <2>3, <2>5, <2>6, <2>8 DEF Abstract!Accept
  <2> QED
    BY <2>0, <2>9 DEF Abstract!Next
<1>4. CASE ~(ClientFor(asked) # NoClient /\ hasResource)
  <2>1. /\ pc' = [pc EXCEPT ![r] = "rejected"]
        /\ UNCHANGED <<client, since, cred, made, cache, expired>>
    BY <1>1, <1>4 DEF Receive, Go, cacheVars
  <2>2. \A j \in Clients : Live(j)' <=> Live(j)
    BY <2>1 DEF Live
  <2>3. \A j \in Clients : Held(j)' <=> Held(j)
    BY <1>2, <2>1, <2>2, HeldSame
  <2>4. Abstract!Refuse(r)
    BY <1>2, <2>1, <2>3, Refusing
  <2> QED
    BY <2>4 DEF Abstract!Next
<1> QED
  BY <1>3, <1>4

\* A Get that misses takes away an entry that no Get would have returned.
LEMMA MissKeepsLive ==
    ASSUME TypeOK, NEW k \in Clients, CacheMiss(k)
    PROVE  \A j \in Clients : Live(j)' <=> Live(j)
BY DEF CacheMiss, Live, TypeOK, Types

\* The steps of a request that the store does not see: those between its arrival
\* and its credential but for Create and Add, and the exchange of the token.
LEMMA InnerStepsRefine ==
    ASSUME IInv, NEW r \in Requests,
           \/ LookupMiss(r) \/ Lead(r) \/ Join(r)
           \/ CheckHit(r) \/ CheckMiss(r) \/ CreateFails(r) \/ Token(r)
    PROVE  UNCHANGED Abstract!vars
<1>1. TypeOK
  BY DEF IInv
<1>2. client[r] \in Clients
  BY DEF IInv, Accepted, LookupMiss, Lead, Join, CheckHit, CheckMiss, CreateFails, Token
<1>3. /\ UNCHANGED <<made, client, since>>
      /\ \A q \in Requests \ {r} : cred'[q] = cred[q]
  BY <1>1 DEF TypeOK, Types, LookupMiss, Lead, Join, CheckHit, CheckMiss, CreateFails, Token
<1>4. \A k \in Clients : Live(k)' <=> Live(k)
  <2>1. CASE LookupMiss(r) \/ CheckMiss(r)
    BY <1>1, <1>2, <2>1, MissKeepsLive DEF LookupMiss, CheckMiss
  <2>2. CASE Lead(r) \/ Join(r) \/ CheckHit(r) \/ CreateFails(r) \/ Token(r)
    BY <2>2 DEF Lead, Join, CheckHit, CacheHit, CreateFails, Token, cacheVars, Live
  <2> QED
    BY <2>1, <2>2
<1>5. CASE ~Token(r)
  <2>1. PICK p \in {"do", "check", "wait", "create", "finish"} : pc' = [pc EXCEPT ![r] = p]
    BY <1>5 DEF LookupMiss, Lead, Join, CheckHit, CheckMiss, CreateFails, Go
  <2>2. pc'[r] = p /\ pc[r] \in {"lookup", "do", "check", "create"}
    BY <1>1, <1>5, <2>1
       DEF TypeOK, Types, LookupMiss, Lead, Join, CheckHit, CheckMiss, CreateFails
  <2>3. Stage(r)' = Stage(r) /\ Given(r)' = Given(r)
    BY <2>2 DEF Stage, Given, HasCred
  <2>4. \A k \in Clients : Held(k)' <=> Held(k)
    BY <1>1, <1>3, <1>4, <2>1, <2>2, HeldSame
  <2> QED
    BY <1>1, <1>3, <2>1, <2>3, <2>4, Unseen
<1>6. CASE Token(r)
  <2>1. PICK p \in {"served", "noToken"} : pc' = [pc EXCEPT ![r] = p]
    BY <1>6 DEF Token, Go
  <2>2. pc'[r] = p /\ pc[r] = "token" /\ UNCHANGED cred
    BY <1>1, <1>6, <2>1 DEF TypeOK, Types, Token
  <2>3. Stage(r)' = Stage(r) /\ Given(r)' = Given(r)
    BY <2>2 DEF Stage, Given, HasCred
  <2>4. \A k \in Clients : Held(k)' <=> Held(k)
    BY <1>1, <1>3, <1>4, <2>1, <2>2, HeldSame
  <2> QED
    BY <1>1, <1>3, <2>1, <2>3, <2>4, Unseen
<1> QED
  BY <1>5, <1>6

\* The three ways to a result: the first Get, the own call, somebody else's.
LEMMA ResultRefines ==
    ASSUME IInv, IInv', NEW r \in Requests, LookupHit(r) \/ Finish(r) \/ Wake(r)
    PROVE  Abstract!Next
<1>1. TypeOK
  BY DEF IInv
<1>2. /\ UNCHANGED <<made, client, since, cache, expired>>
      /\ \A q \in Requests \ {r} : cred'[q] = cred[q]
      /\ pc[r] \in {"lookup", "finish", "wait"}
  BY <1>1 DEF TypeOK, Types, LookupHit, CacheHit, Finish, Wake, cacheVars
<1>3. PICK p \in {"token", "failed"} :
        /\ pc' = [pc EXCEPT ![r] = p]
        /\ p = "token" => cred'[r] # NoCred
        /\ p = "failed" => pc[r] # "lookup"
  <2>1. CASE LookupHit(r)
    BY <1>1, <2>1 DEF LookupHit, CacheHit, Live, Go, TypeOK, Types
  <2>2. CASE Finish(r)
    BY <1>1, <2>2 DEF Finish, Returned, Go, TypeOK, Types
  <2>3. CASE Wake(r)
    BY <1>1, <2>3 DEF Wake, Returned, Go, TypeOK, Types
  <2> QED
    BY <2>1, <2>2, <2>3
<1>4. \A k \in Clients : Live(k)' <=> Live(k)
  BY <1>2 DEF Live
<1>5. \A k \in Clients : Held(k)' <=> Held(k)
  BY <1>1, <1>2, <1>3, <1>4, HeldSame
<1>6. CASE p = "token"
  BY <1>2, <1>3, <1>5, <1>6, Giving DEF Abstract!Next
<1>7. CASE p = "failed"
  BY <1>2, <1>3, <1>5, <1>7, Refusing DEF Abstract!Next
<1> QED
  BY <1>6, <1>7

\* A credential that is created is a new generation of a client without one.
LEMMA CreateRefines ==
    ASSUME IInv, NEW r \in Requests, Create(r)
    PROVE  Abstract!Next
<1>0. PICK k \in Clients : k = client[r]
  BY DEF IInv, Accepted, Create
<1>1. TypeOK /\ pc[r] = "create"
  BY DEF IInv, Create
<1>2. /\ pc' = [pc EXCEPT ![r] = "add"]
      /\ made' = [made EXCEPT ![k] = @ + 1]
      /\ UNCHANGED <<client, since, cache, expired>>
      /\ \A q \in Requests \ {r} : cred'[q] = cred[q]
  BY <1>0, <1>1 DEF Create, Go, cacheVars, TypeOK, Types
<1>3. pc'[r] = "add" /\ \A q \in Requests \ {r} : pc'[q] = pc[q]
  BY <1>1, <1>2 DEF TypeOK, Types
<1>4. Stage(r)' = Stage(r) /\ Given(r)' = Given(r)
  BY <1>1, <1>3 DEF Stage, Given, HasCred
<1>5. /\ [q \in Requests |-> Stage(q)]' = [q \in Requests |-> Stage(q)]
      /\ [q \in Requests |-> Given(q)]' = [q \in Requests |-> Given(q)]
  BY <1>1, <1>2, <1>4, Quiet
<1>6. ~Held(k)
  <2>1. ~Live(k)
    BY <1>0, <1>1 DEF IInv, LeaderHoldsNewest
  <2>2. \A q \in Requests : ~(client[q] = k /\ pc[q] = "add")
    BY <1>0, <1>1 DEF IInv, LeadersRun, Running
  <2> QED
    BY <2>1, <2>2 DEF Held
<1>7. Held(k)' /\ \A j \in Clients \ {k} : Held(j)' <=> Held(j)
  <2>1. Held(k)'
    BY <1>0, <1>2, <1>3 DEF Held
  <2>2. ASSUME NEW j \in Clients \ {k} PROVE Held(j)' <=> Held(j)
    BY <1>0, <1>1, <1>2, <1>3, <2>2 DEF Held, Live
  <2> QED
    BY <2>1, <2>2
<1>8. {j \in Clients : Held(j)}' = {j \in Clients : Held(j)} \cup {k}
  BY <1>7
<1>9. Abstract!Issue(k)
  BY <1>2, <1>5, <1>6, <1>8 DEF Abstract!Issue
<1> QED
  BY <1>9 DEF Abstract!Next

\* An Add keeps the credential of its own client and may take another's.
LEMMA AddRefines ==
    ASSUME IInv, NEW r \in Requests, Add(r)
    PROVE  Abstract!Next \/ UNCHANGED Abstract!vars
<1>0. PICK k \in Clients : k = client[r]
  BY DEF IInv, Accepted, Add
<1> DEFINE out == IF Full(k) THEN {order[Len(order)]} ELSE {}
<1>1. TypeOK /\ pc[r] = "add"
  BY DEF IInv, Add
<1>2. /\ pc' = [pc EXCEPT ![r] = "finish"]
      /\ UNCHANGED <<made, client, cred, since>>
      /\ CacheAdd(k, cred[r])
  BY <1>0 DEF Add, Go
<1>3. pc'[r] = "finish" /\ \A q \in Requests \ {r} : pc'[q] = pc[q]
  BY <1>1, <1>2 DEF TypeOK, Types
<1>4. Stage(r)' = Stage(r) /\ Given(r)' = Given(r)
  BY <1>1, <1>3 DEF Stage, Given, HasCred
<1>5. /\ [q \in Requests |-> Stage(q)]' = [q \in Requests |-> Stage(q)]
      /\ [q \in Requests |-> Given(q)]' = [q \in Requests |-> Given(q)]
  BY <1>1, <1>2, <1>4, Quiet
<1>6. cred[r] \in Creds
  BY <1>1 DEF IInv, Accepted, TypeOK, Types
<1>7. Held(k) /\ Held(k)'
  <2>1. Held(k)
    BY <1>0, <1>1 DEF Held
  <2>2. Live(k)'
    <3>1. cache'[k] = cred[r] /\ k \notin expired'
      BY <1>1, <1>2, <1>6, CacheAddEffect
    <3> QED
      BY <1>6, <3>1, NoCredAssumption DEF Live
  <2> QED
    BY <1>2, <2>1, <2>2 DEF Held
<1>8. \A j \in Clients \ {k} : Held(j)' => Held(j)
  <2> SUFFICES ASSUME NEW j \in Clients \ {k}, Held(j)' PROVE Held(j)
    OBVIOUS
  <2>1. Live(j)' => Live(j)
    BY <1>1, <1>2, <1>6, CacheAddEffect
  <2> QED
    BY <1>0, <1>1, <1>2, <1>3, <2>1 DEF Held
<1>9. \A j \in Clients \ ({k} \cup out) : Held(j) => Held(j)'
  <2> SUFFICES ASSUME NEW j \in Clients \ ({k} \cup out), Held(j) PROVE Held(j)'
    OBVIOUS
  <2>1. Live(j) => Live(j)'
    BY <1>1, <1>2 DEF CacheAdd, Live, TypeOK, Types
  <2> QED
    BY <1>0, <1>1, <1>2, <1>3, <2>1 DEF Held
<1>10. CASE \A j \in out \cap Clients : Held(j) => Held(j)'
  <2>1. {j \in Clients : Held(j)}' = {j \in Clients : Held(j)}
    BY <1>7, <1>8, <1>9, <1>10
  <2> QED
    BY <1>2, <1>5, <2>1 DEF Abstract!vars
<1>11. CASE \E j \in out \cap Clients : Held(j) /\ ~Held(j)'
  <2>1. PICK j \in out \cap Clients : Held(j) /\ ~Held(j)'
    BY <1>11
  <2>2. out = {j}
    BY <2>1
  <2> HIDE DEF out
  <2>3. {i \in Clients : Held(i)}' = {i \in Clients : Held(i)} \ {j}
    BY <1>7, <1>8, <1>9, <2>1, <2>2
  <2>4. Abstract!Lose(j)
    BY <1>2, <1>5, <2>1, <2>3 DEF Abstract!Lose
  <2> QED
    BY <2>1, <2>4 DEF Abstract!Next
<1> QED
  BY <1>10, <1>11

\* The clock takes a credential that nobody is about to add again.
LEMMA ExpireRefines ==
    ASSUME IInv, NEW k \in Clients, Expire(k)
    PROVE  Abstract!Next
<1>1. /\ UNCHANGED <<pc, client, cred, since, made, cache>>
      /\ expired' = expired \cup {k}
      /\ Live(k)
  BY DEF Expire, reqVars
<1>2. \A q \in Requests : ~(client[q] = k /\ pc[q] = "add")
  BY <1>1 DEF IInv, LeaderHoldsNewest
<1>3. Held(k) /\ ~Held(k)'
  BY <1>1, <1>2 DEF Held, Live
<1>4. \A j \in Clients \ {k} : Held(j)' <=> Held(j)
  BY <1>1 DEF Held, Live
<1>5. {j \in Clients : Held(j)}' = {j \in Clients : Held(j)} \ {k}
  BY <1>3, <1>4
<1>6. /\ [q \in Requests |-> Stage(q)]' = [q \in Requests |-> Stage(q)]
      /\ [q \in Requests |-> Given(q)]' = [q \in Requests |-> Given(q)]
  BY <1>1 DEF Stage, Given
<1>7. Abstract!Lose(k)
  BY <1>1, <1>3, <1>5, <1>6 DEF Abstract!Lose
<1> QED
  BY <1>7 DEF Abstract!Next

\* Every step of the proxy is a step of the store or leaves it alone.
LEMMA AbstractStep == IInv /\ IInv' /\ [Next]_vars => [Abstract!Next]_(Abstract!vars)
<1> SUFFICES ASSUME IInv, IInv', [Next]_vars
             PROVE  Abstract!Next \/ UNCHANGED Abstract!vars
  OBVIOUS
<1>1. CASE \E r \in Requests : Arrive(r)
  BY <1>1, ReceiveRefines
<1>2. ASSUME NEW r \in Requests, getOrCreateCred(r) \/ Token(r)
      PROVE  Abstract!Next \/ UNCHANGED Abstract!vars
  BY <1>2, InnerStepsRefine, ResultRefines, CreateRefines, AddRefines DEF getOrCreateCred
<1>3. CASE \E k \in Clients : Expire(k)
  BY <1>3, ExpireRefines
<1>4. CASE UNCHANGED vars
  <2>1. UNCHANGED <<pc, client, cred, cache, expired, made, since>>
    BY <1>4 DEF vars
  <2> QED
    BY <2>1 DEF Abstract!vars, Held, Live, Stage, Given
<1> QED
  BY <1>1, <1>2, <1>3, <1>4 DEF Next

\* The proxy's cache, double check and flights (proxy.go:161-191, cred_cache.go)
\* implement the credential store: whatever the interleaving, expiry and
\* eviction, a client has at most one credential of use, and a request gets one
\* at least as new as the newest at its arrival, or an error.
THEOREM ImplementsCredStoreThm == Spec => ImplementsCredStore
<1>1. Init => Abstract!Init
  BY AbstractInit
<1>2. IInv /\ IInv' /\ [Next]_vars => [Abstract!Next]_(Abstract!vars)
  BY AbstractStep
<1> QED
  BY <1>1, <1>2, Invariance, PTL DEF Spec, ImplementsCredStore, Abstract!Spec
=============================================================================
