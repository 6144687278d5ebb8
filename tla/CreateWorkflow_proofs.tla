----------------------- MODULE CreateWorkflow_proofs -----------------------
(***************************************************************************)
(* Proofs about CreateWorkflow for any runs, flags and number of attempts, *)
(* whether or not runs overlap and listings lag.                           *)
(***************************************************************************)
EXTENDS CreateWorkflow, FiniteSetTheorems, TLAPS

FI == "federated-identity"

\* The steps a run can be at after its federated-identity phase.
Past == {"role-assignment", "role", "assign", "done"}

\* A cached application exists, and so does the one the aad-application phase
\* goes on with.
Known ==
    \A r \in Runs :
        /\ cachedApp[r] \in apps \cup {None}
        /\ pc[r] \in {"getSP", "createSP"} => app[r] \in apps

\* A run that has used up its attempts is over.
Counted == \A r \in Runs : tries[r] < RoleAttempts \/ pc[r] = "done"

\* The application of a run's service account, and of its credential.
Client(r) == IF opt[r].clientID # None THEN opt[r].clientID ELSE cachedApp[r]
Object(r) == IF opt[r].objectID # None THEN opt[r].objectID ELSE cachedApp[r]

\* The client ID on the service account is its writer's.
Annotated == sa \in Apps => writer \in Runs /\ Client(writer) = sa

\* What is about to be written, or to be trusted, is of that application.
IdIsCached ==
    \A r \in Runs :
        /\ pc[r] = "writeSA" => id[r] # None /\ id[r] \in {Empty, Client(r)}
        /\ pc[r] = "addFIC" => id[r] # None /\ id[r] \in {Empty, Object(r)}

\* A run past its federated-identity phase has its application trust the
\* service account.
Trusted ==
    \A r \in Runs : pc[r] \in Past /\ FI \in Active(opt[r]) => Object(r) \in fics

\* The types need Known, Counted and IdIsCached; the other two build on them.
TypeInv == TypeOK /\ Known /\ Counted /\ IdIsCached

IInv == TypeInv /\ Annotated /\ Trusted

-----------------------------------------------------------------------------
\* Where the phases stand in CreateOrder.
LEMMA Positions ==
    /\ Position(CreateOrder, "aad-application") = 1
    /\ Position(CreateOrder, "service-account") = 2
    /\ Position(CreateOrder, "federated-identity") = 3
    /\ Position(CreateOrder, "role-assignment") = 4
<1>1. /\ Len(CreateOrder) = 4
      /\ CreateOrder[1] = "aad-application" /\ CreateOrder[2] = "service-account"
      /\ CreateOrder[3] = "federated-identity" /\ CreateOrder[4] = "role-assignment"
  BY DEF CreateOrder
<1>2. \A i \in 1..4 : i = 1 \/ i = 2 \/ i = 3 \/ i = 4
  OBVIOUS
<1> QED
  BY <1>1, <1>2 DEF Position

\* What a run may go to after the i-th phase: one of its phases or the end, never
\* past an active federated-identity phase, the end after the last one, and no
\* phase again; the aad-application phase is first.
LEMMA FollowingCases ==
    ASSUME NEW active, NEW i \in 0..4
    PROVE  /\ Following(CreateOrder, active, i) \in PhaseNames \cup {"done"}
           /\ FI \in active /\ i <= 2
                => Following(CreateOrder, active, i) \notin Past
           /\ i = 4 => Following(CreateOrder, active, i) = "done"
           /\ Following(CreateOrder, active, i) \in active \cup {"done"}
           /\ i = 0 /\ "aad-application" \in active
                => Following(CreateOrder, active, i) = "aad-application"
           /\ i > 0 => Following(CreateOrder, active, i) # "aad-application"
           /\ i > 1 => Following(CreateOrder, active, i) # "service-account"
<1> DEFINE left == {j \in i+1..4 : CreateOrder[j] \in active}
<1> DEFINE first == CHOOSE j \in left : \A k \in left : j <= k
<1>1. /\ Len(CreateOrder) = 4
      /\ CreateOrder[1] = "aad-application" /\ CreateOrder[2] = "service-account"
      /\ CreateOrder[3] = "federated-identity" /\ CreateOrder[4] = "role-assignment"
  BY DEF CreateOrder
<1>2. \A j \in 1..4 : j = 1 \/ j = 2 \/ j = 3 \/ j = 4
  OBVIOUS
<1>3. Following(CreateOrder, active, i) = IF left = {} THEN "done" ELSE CreateOrder[first]
  BY <1>1 DEF Following
<1>4. left # {} => first \in left /\ \A k \in left : first <= k
  <2>1. ASSUME left # {} PROVE \E j \in left : \A k \in left : j <= k
    <3>1. left \subseteq {1, 2, 3, 4}
      BY <1>2
    <3>2. CASE 1 \in left
      BY <3>1, <3>2
    <3>3. CASE 1 \notin left /\ 2 \in left
      BY <3>1, <3>3
    <3>4. CASE 1 \notin left /\ 2 \notin left /\ 3 \in left
      BY <3>1, <3>4
    <3>5. CASE 1 \notin left /\ 2 \notin left /\ 3 \notin left
      BY <2>1, <3>1, <3>5
    <3> QED
      BY <3>2, <3>3, <3>4, <3>5
  <2> QED
    BY <2>1
<1>5. left # {} => first \in i+1..4
  BY <1>4
<1> HIDE DEF first
<1>6. Following(CreateOrder, active, i) \in PhaseNames \cup {"done"}
  BY <1>1, <1>2, <1>3, <1>5 DEF PhaseNames
<1>7. ASSUME FI \in active, i <= 2
      PROVE  Following(CreateOrder, active, i) \notin Past
  <2>1. 3 \in left
    BY <1>1, <1>7 DEF FI
  <2>2. first \in 1..3
    BY <2>1, <1>4, <1>5
  <2>3. first = 1 \/ first = 2 \/ first = 3
    BY <2>2
  <2> QED
    BY <1>1, <1>3, <2>1, <2>3 DEF Past
<1>8. i = 4 => Following(CreateOrder, active, i) = "done"
  BY <1>3
<1>9. Following(CreateOrder, active, i) \in active \cup {"done"}
  BY <1>3, <1>4
<1>10. ASSUME i = 0, "aad-application" \in active
       PROVE  Following(CreateOrder, active, i) = "aad-application"
  <2>1. 1 \in left
    BY <1>1, <1>10
  <2>2. first = 1
    BY <2>1, <1>4, <1>5
  <2> QED
    BY <1>1, <1>3, <2>1, <2>2
<1>11. ASSUME i > 0 PROVE Following(CreateOrder, active, i) # "aad-application"
  <2>1. left # {} => first = 2 \/ first = 3 \/ first = 4
    BY <1>5, <1>11
  <2> QED
    BY <1>1, <1>3, <2>1
<1>12. ASSUME i > 1 PROVE Following(CreateOrder, active, i) # "service-account"
  <2>1. left # {} => first = 3 \/ first = 4
    BY <1>5, <1>12
  <2> QED
    BY <1>1, <1>3, <2>1
<1> QED
  BY <1>6, <1>7, <1>8, <1>9, <1>10, <1>11, <1>12

\* A run that leaves a phase goes to a phase or the end.
LEMMA AfterCases ==
    ASSUME NEW r, NEW phase \in PhaseNames, After(r, phase)
    PROVE  \E s \in PhaseNames \cup {"done"} :
              /\ pc' = [pc EXCEPT ![r] = s]
              /\ FI \in Active(opt[r])
                    /\ phase \in {"aad-application", "service-account"} => s \notin Past
              /\ phase = "role-assignment" => s = "done"
              /\ s # "aad-application"
              /\ phase # "aad-application" => s # "service-account"
<1> DEFINE s == Following(CreateOrder, Active(opt[r]), Position(CreateOrder, phase))
<1>1. pc' = [pc EXCEPT ![r] = s]
  BY DEF After, Go
<1>2. Position(CreateOrder, phase) \in 1..4
  BY Positions DEF PhaseNames
<1>3. /\ s \in PhaseNames \cup {"done"}
      /\ FI \in Active(opt[r]) /\ Position(CreateOrder, phase) <= 2 => s \notin Past
      /\ Position(CreateOrder, phase) = 4 => s = "done"
      /\ s # "aad-application"
      /\ Position(CreateOrder, phase) > 1 => s # "service-account"
  BY <1>2, FollowingCases
<1>4. phase \in {"aad-application", "service-account"} => Position(CreateOrder, phase) <= 2
  BY Positions
<1>5. /\ phase = "role-assignment" => Position(CreateOrder, phase) = 4
      /\ phase # "aad-application" => Position(CreateOrder, phase) > 1
  BY Positions DEF PhaseNames
<1> HIDE DEF s
<1> QED
  BY <1>1, <1>3, <1>4, <1>5

\* AADApplication never replaces or forgets a cached application, and what it
\* answers with is an application that exists, cached from then on.
LEMMA AADApplicationEffect ==
    ASSUME IInv, NEW r \in Runs, NEW a \in Answers, AADApplication(r, a)
    PROVE  /\ cachedApp' \in [Runs -> Apps \cup {None}]
           /\ \A q \in Runs : q # r \/ cachedApp[q] # None => cachedApp'[q] = cachedApp[q]
           /\ cachedApp'[r] \in apps \cup {None}
           /\ a \in Apps => a \in apps /\ cachedApp'[r] = a
           /\ a \in Apps \cup {NotFound, Outage}
  BY AzureAssumption, SMTT(30) DEF IInv, TypeInv, TypeOK, CloudTypeOK, Known, Answers, AADApplication, GetApplication, FirstOf

\* IdByFlag gives the flag, the application that is cached from then on, or
\* nothing.
LEMMA IdByFlagEffect ==
    ASSUME IInv, NEW r \in Runs, NEW flag \in Apps \cup {None}, IdByFlag(r, flag)
    PROVE  /\ cachedApp' \in [Runs -> Apps \cup {None}]
           /\ \A q \in Runs : q # r \/ cachedApp[q] # None => cachedApp'[q] = cachedApp[q]
           /\ cachedApp'[r] \in apps \cup {None}
           /\ id' \in [Runs -> Apps \cup {Other, Empty, None}]
           /\ \A q \in Runs \ {r} : id'[q] = id[q]
           /\ id'[r] # None
           /\ id'[r] \in {Empty, IF flag # None THEN flag ELSE cachedApp'[r]}
<1> USE AzureAssumption
<1>1. TypeOK /\ Known
  BY DEF IInv, TypeInv
<1>2. CASE flag # None
  BY <1>1, <1>2 DEF IdByFlag, TypeOK, Known
<1>3. CASE flag = None
  <2>1. PICK a \in Answers : AADApplication(r, a) /\ id' = [id EXCEPT ![r] = IdOf(a)]
    BY <1>3 DEF IdByFlag
  <2>2. /\ cachedApp' \in [Runs -> Apps \cup {None}]
        /\ \A q \in Runs : q # r \/ cachedApp[q] # None => cachedApp'[q] = cachedApp[q]
        /\ cachedApp'[r] \in apps \cup {None}
        /\ a \in Apps => cachedApp'[r] = a
        /\ a \in Apps \cup {NotFound, Outage}
    BY <2>1, AADApplicationEffect
  <2> QED
    BY <1>1, <1>3, <2>1, <2>2 DEF TypeOK, IdOf
<1> QED
  BY <1>2, <1>3

LEMMA IInvInit == Init => IInv
<1> SUFFICES ASSUME Init PROVE IInv
  OBVIOUS
<1> USE CreateAssumption, AzureAssumption DEF Init
<1>1. TypeOK
  BY DEF TypeOK, CloudTypeOK
<1>2. Known /\ Counted /\ IdIsCached
  BY DEF Known, Counted, IdIsCached
<1>3. Annotated /\ Trusted
  BY DEF Annotated, Trusted, Past
<1> QED
  BY <1>1, <1>2, <1>3 DEF IInv, TypeInv

\* A step of run r keeps the invariant when it leaves the other runs alone, keeps
\* what the cloud and r's cache hold, writes only the application r has cached,
\* and takes r to a step whose conditions hold.
LEMMA Move ==
    ASSUME IInv, NEW r \in Runs, CloudTypeOK',
           apps \subseteq apps', fics \subseteq fics',
           opt' = opt,
           NEW s \in {"start"} \cup PhaseNames \cup Steps \cup Ended,
           pc' = [pc EXCEPT ![r] = s],
           app' \in [Runs -> Apps \cup {None}],
           cachedApp' \in [Runs -> Apps \cup {None}],
           cachedSP' \in [Runs -> Apps \cup {Other, None}],
           id' \in [Runs -> Apps \cup {Other, Empty, None}],
           tries' \in [Runs -> 0..RoleAttempts],
           \A q \in Runs \ {r} : /\ app'[q] = app[q] /\ cachedApp'[q] = cachedApp[q]
                                 /\ id'[q] = id[q] /\ tries'[q] = tries[q],
           cachedApp'[r] \in apps \cup {None},
           cachedApp[r] # None => cachedApp'[r] = cachedApp[r],
           \/ sa' = sa /\ writer' = writer
           \/ sa' \in {Empty, Client(r)'} /\ writer' = r,
           s \in {"getSP", "createSP"} => app'[r] \in apps',
           tries'[r] < RoleAttempts \/ s = "done",
           s = "writeSA" => id'[r] # None /\ id'[r] \in {Empty, Client(r)'},
           s = "addFIC" => id'[r] # None /\ id'[r] \in {Empty, Object(r)'},
           s \in Past /\ FI \in Active(opt[r]) => Object(r)' \in fics'
    PROVE  IInv'
<1> USE DEF IInv, TypeInv
<1>1. pc' \in [Runs -> {"start"} \cup PhaseNames \cup Steps \cup Ended]
  BY DEF TypeOK
<1>2. pc'[r] = s /\ \A q \in Runs \ {r} : pc'[q] = pc[q]
  BY DEF TypeOK
<1>3. TypeOK'
  BY <1>1 DEF TypeOK
<1>4. Known'
  BY <1>2 DEF Known
<1>5. Counted'
  BY <1>2 DEF Counted
<1>6. IdIsCached'
  BY <1>2 DEF IdIsCached, Client, Object
<1>7. Annotated'
  BY AzureAssumption DEF Annotated, Client, Known, TypeOK, CloudTypeOK
<1>8. Trusted'
  BY <1>2 DEF Trusted, Object
<1> QED
  BY <1>3, <1>4, <1>5, <1>6, <1>7, <1>8

\* The step of one run, by its actions.
LEMMA IInvCreateStep ==
    ASSUME IInv, NEW r \in Runs, CreateStep(r)
    PROVE  IInv'
<1> USE AzureAssumption, CreateAssumption
<1> DEFINE PC == {"start"} \cup PhaseNames \cup Steps \cup Ended
<1>1. /\ TypeOK /\ Known /\ Counted /\ IdIsCached /\ Annotated /\ Trusted
      /\ PhaseNames \subseteq PC
      /\ {"refused", "failed", "conflict", "interrupted", "done"} \subseteq PC
      /\ {"createApp", "getSP", "createSP", "writeSA", "addFIC", "role", "assign"}
            \subseteq PC
  BY DEF IInv, TypeInv, Ended, Steps
<1> HIDE DEF PC
\* What holds of a run wherever it is.
<1>2. /\ cachedApp[r] \in apps \cup {None}
      /\ pc[r] # "done" => tries[r] < RoleAttempts
      /\ pc[r] \in Past /\ FI \in Active(opt[r]) => Object(r) \in fics
      /\ {opt[r].clientID, opt[r].objectID} \subseteq Apps \cup {None}
      /\ opt[r].principalID \in Apps \cup {Other, None}
  BY <1>1 DEF TypeOK, Known, Counted, Trusted
<1>3. CASE Begin(r)
  <2> DEFINE first == Following(CreateOrder, Active(opt[r]), 0)
  <2>1. first \in PhaseNames \cup {"done"} /\ (FI \in Active(opt[r]) => first \notin Past)
    BY FollowingCases
  <2>2. pc' = [pc EXCEPT ![r] = "refused"] \/ pc' = [pc EXCEPT ![r] = first]
    BY <1>3 DEF Begin, Go
  <2> HIDE DEF first
  <2>3. PICK s \in PhaseNames \cup {"done", "refused"} :
          /\ pc' = [pc EXCEPT ![r] = s]
          /\ FI \in Active(opt[r]) => s \notin Past
    BY <2>1, <2>2 DEF Past
  <2>4. s \in PC /\ s \notin {"getSP", "createSP", "writeSA", "addFIC"}
    BY <1>1 DEF PhaseNames
  <2>5. /\ UNCHANGED <<apps, fics, sa, writer, opt, app, cachedApp, cachedSP, id, tries>>
        /\ CloudTypeOK'
        /\ pc[r] # "done"
    BY <1>1, <1>3 DEF Begin, TypeOK, CloudTypeOK, cloud
  <2> QED
    BY <1>1, <1>2, <2>3, <2>4, <2>5, Move DEF PC, TypeOK
<1>4. CASE FindApp(r)
  <2>1. PICK a \in Answers :
          /\ AADApplication(r, a)
          /\ \/ a = Outage /\ Go(r, "failed") /\ UNCHANGED app
             \/ a = NotFound /\ Go(r, "createApp") /\ UNCHANGED app
             \/ a \in Apps /\ Go(r, "getSP") /\ app' = [app EXCEPT ![r] = a]
    BY <1>4 DEF FindApp
  <2>2. /\ cachedApp' \in [Runs -> Apps \cup {None}]
        /\ \A q \in Runs : q # r \/ cachedApp[q] # None => cachedApp'[q] = cachedApp[q]
        /\ cachedApp'[r] \in apps \cup {None}
        /\ a \in Apps => a \in apps
    BY <2>1, AADApplicationEffect
  <2>3. PICK s \in {"failed", "createApp", "getSP"} :
          /\ pc' = [pc EXCEPT ![r] = s]
          /\ s = "getSP" => a \in Apps /\ app'[r] = a
    BY <1>1, <2>1 DEF Go, TypeOK
  <2>4. /\ app' \in [Runs -> Apps \cup {None}]
        /\ \A q \in Runs \ {r} : app'[q] = app[q]
    BY <1>1, <2>1 DEF TypeOK
  <2>5. s \in PC /\ s \notin Past
    BY <1>1 DEF Past
  <2>6. /\ UNCHANGED <<apps, fics, sa, writer, opt, cachedSP, id, tries>>
        /\ CloudTypeOK'
    BY <1>1, <1>4 DEF FindApp, TypeOK, CloudTypeOK, cloud
  <2>7. pc[r] # "done" /\ (s = "getSP" => app'[r] \in apps')
    BY <1>4, <2>2, <2>3, <2>6 DEF FindApp
  <2> QED
    BY <1>1, <1>2, <2>2, <2>3, <2>4, <2>5, <2>6, <2>7, Move DEF PC, TypeOK
<1>5. CASE CreateApp(r)
  <2>1. PICK a \in Apps \ apps :
          /\ apps' = apps \cup {a}
          /\ \/ Go(r, "getSP") /\ app' = [app EXCEPT ![r] = a]
             \/ Go(r, "failed") /\ UNCHANGED app
    BY <1>5 DEF CreateApp
  <2>2. PICK s \in {"failed", "getSP"} :
          /\ pc' = [pc EXCEPT ![r] = s]
          /\ s = "getSP" => app'[r] = a
    BY <1>1, <2>1 DEF Go, TypeOK
  <2>3. /\ app' \in [Runs -> Apps \cup {None}]
        /\ \A q \in Runs \ {r} : app'[q] = app[q]
    BY <1>1, <2>1 DEF TypeOK
  <2>4. s \in PC /\ s \notin Past
    BY <1>1 DEF Past
  <2>5. /\ UNCHANGED <<fics, sa, writer, opt, cachedApp, cachedSP, id, tries>>
        /\ apps \subseteq apps' /\ a \in apps'
        /\ CloudTypeOK'
        /\ pc[r] # "done"
    BY <1>1, <1>5, <2>1 DEF CreateApp, TypeOK, CloudTypeOK
  <2> QED
    BY <1>1, <1>2, <2>2, <2>3, <2>4, <2>5, Move, ZenonT(60) DEF PC, TypeOK
<1>6. CASE FindSP(r)
  <2>1. PICK a \in Answers :
          /\ ServicePrincipal(r, a)
          /\ \/ a = Outage /\ Go(r, "failed")
             \/ a = NotFound /\ Go(r, "createSP")
             \/ a \in Apps \cup {Other} /\ After(r, "aad-application")
    BY <1>6 DEF FindSP
  <2>2. cachedSP' \in [Runs -> Apps \cup {Other, None}]
    BY <1>1, <2>1 DEF TypeOK, ServicePrincipal, Answers
  <2>3. PICK s \in PhaseNames \cup {"done", "failed", "createSP"} :
          /\ pc' = [pc EXCEPT ![r] = s]
          /\ FI \in Active(opt[r]) => s \notin Past
    BY <2>1, AfterCases DEF Go, Past, PhaseNames
  <2>4. s \in PC /\ s \notin {"writeSA", "addFIC", "getSP"}
    BY <1>1 DEF PhaseNames
  <2>5. /\ UNCHANGED <<apps, fics, sa, writer, opt, app, cachedApp, id, tries>>
        /\ CloudTypeOK'
        /\ pc[r] = "getSP"
    BY <1>1, <1>6 DEF FindSP, TypeOK, CloudTypeOK, cloud
  <2>6. app'[r] \in apps'
    BY <1>1, <2>5 DEF Known
  <2> QED
    BY <1>1, <1>2, <2>2, <2>3, <2>4, <2>5, <2>6, Move DEF PC, TypeOK
<1>7. CASE CreateSP(r)
  <2>1. PICK s \in PhaseNames \cup {"done", "failed", "conflict"} :
          /\ pc' = [pc EXCEPT ![r] = s]
          /\ FI \in Active(opt[r]) => s \notin Past
    BY <1>7, AfterCases DEF CreateSP, Go, Past, PhaseNames
  <2>2. s \in PC /\ s \notin {"writeSA", "addFIC", "getSP", "createSP"}
    BY <1>1 DEF PhaseNames
  <2>3. app[r] \in apps /\ pc[r] = "createSP"
    BY <1>1, <1>7 DEF CreateSP, Known
  <2>4. /\ UNCHANGED <<apps, fics, sa, writer, opt, app, cachedApp, cachedSP, id, tries>>
        /\ CloudTypeOK'
    BY <1>1, <1>7, <2>3 DEF CreateSP, TypeOK, CloudTypeOK
  <2> QED
    BY <1>1, <1>2, <2>1, <2>2, <2>3, <2>4, Move DEF PC, TypeOK
<1>8. CASE ReadClient(r) \/ ReadObject(r)
  <2>1. PICK s \in {"writeSA", "addFIC"} : pc' = [pc EXCEPT ![r] = s]
    BY <1>8 DEF ReadClient, ReadObject, Go
  <2>2. PICK flag \in Apps \cup {None} :
          /\ IdByFlag(r, flag)
          /\ s = "writeSA" => flag = opt[r].clientID
          /\ s = "addFIC" => flag = opt[r].objectID
    <3>1. CASE ReadClient(r)
      BY <1>1, <1>2, <2>1, <3>1 DEF ReadClient, Go, TypeOK
    <3>2. CASE ReadObject(r)
      BY <1>1, <1>2, <2>1, <3>2 DEF ReadObject, Go, TypeOK
    <3> QED
      BY <1>8, <3>1, <3>2
  <2>3. /\ cachedApp' \in [Runs -> Apps \cup {None}]
        /\ \A q \in Runs : q # r \/ cachedApp[q] # None => cachedApp'[q] = cachedApp[q]
        /\ cachedApp'[r] \in apps \cup {None}
        /\ id' \in [Runs -> Apps \cup {Other, Empty, None}]
        /\ \A q \in Runs \ {r} : id'[q] = id[q]
        /\ id'[r] # None
        /\ id'[r] \in {Empty, IF flag # None THEN flag ELSE cachedApp'[r]}
    BY <2>2, IdByFlagEffect
  <2>5. /\ UNCHANGED <<apps, fics, sa, writer, opt, app, cachedSP, tries>>
        /\ CloudTypeOK'
        /\ pc[r] # "done"
    BY <1>1, <1>8 DEF ReadClient, ReadObject, TypeOK, CloudTypeOK, cloud
  <2>6. s \in PC /\ s \notin Past
    BY <1>1 DEF Past
  <2>7. /\ s = "writeSA" => id'[r] \in {Empty, Client(r)'}
        /\ s = "addFIC" => id'[r] \in {Empty, Object(r)'}
    BY <2>2, <2>3, <2>5 DEF Client, Object
  <2> QED
    BY <1>1, <1>2, <2>1, <2>3, <2>5, <2>6, <2>7, Move DEF PC, TypeOK
<1>9. CASE CreateOrUpdateServiceAccount(r)
  <2>1. PICK s \in PhaseNames \cup {"done", "failed"} :
          /\ pc' = [pc EXCEPT ![r] = s]
          /\ FI \in Active(opt[r]) => s \notin Past
    BY <1>9, AfterCases DEF CreateOrUpdateServiceAccount, Go, Past, PhaseNames
  <2>2. s \in PC /\ s \notin {"writeSA", "addFIC", "getSP", "createSP"}
    BY <1>1 DEF PhaseNames
  <2>3. id[r] # None /\ id[r] \in {Empty, Client(r)} /\ Client(r) \in Apps \cup {None}
    BY <1>1, <1>2, <1>9
       DEF CreateOrUpdateServiceAccount, IdIsCached, Client, TypeOK, CloudTypeOK
  <2>4. /\ UNCHANGED <<apps, fics, opt, app, cachedApp, cachedSP, id, tries>>
        /\ sa' = id[r] /\ writer' = r
        /\ CloudTypeOK'
        /\ pc[r] = "writeSA"
    BY <1>1, <1>2, <1>9, <2>3 DEF CreateOrUpdateServiceAccount, TypeOK, CloudTypeOK
  <2>5. sa' \in {Empty, Client(r)'}
    BY <2>3, <2>4 DEF Client
  <2> QED
    BY <1>1, <1>2, <2>1, <2>2, <2>4, <2>5, Move DEF PC, TypeOK
<1>10. CASE AddFederatedCredential(r)
  <2>1. PICK s \in PhaseNames \cup {"done", "failed"} : pc' = [pc EXCEPT ![r] = s]
    BY <1>10, AfterCases DEF AddFederatedCredential, Go, PhaseNames
  <2>2. s \in PC /\ s \notin {"writeSA", "addFIC", "getSP", "createSP"}
    BY <1>1 DEF PhaseNames
  <2>3. id[r] \in apps /\ id[r] = Object(r)
    BY <1>1, <1>10 DEF AddFederatedCredential, IdIsCached, TypeOK, CloudTypeOK
  <2>4. /\ UNCHANGED <<apps, sa, writer, opt, app, cachedApp, cachedSP, id, tries>>
        /\ fics \subseteq fics' /\ Object(r)' \in fics'
        /\ CloudTypeOK'
        /\ pc[r] # "done"
    BY <1>1, <1>10, <2>3 DEF AddFederatedCredential, Object, TypeOK, CloudTypeOK
  <2> QED
    BY <1>1, <1>2, <2>1, <2>2, <2>4, Move DEF PC, TypeOK
<1>11. CASE ReadPrincipal(r)
  <2>1. \/ UNCHANGED cachedSP /\ id' = [id EXCEPT ![r] = opt[r].principalID]
        \/ \E a \in Answers : ServicePrincipal(r, a) /\ id' = [id EXCEPT ![r] = IdOf(a)]
    BY <1>11 DEF ReadPrincipal
  <2>2. /\ cachedSP' \in [Runs -> Apps \cup {Other, None}]
        /\ id' \in [Runs -> Apps \cup {Other, Empty, None}]
        /\ \A q \in Runs \ {r} : id'[q] = id[q]
    BY <1>1, <1>2, <2>1 DEF TypeOK, ServicePrincipal, Answers, IdOf
  <2>3. /\ UNCHANGED <<apps, fics, sa, writer, opt, app, cachedApp, tries>>
        /\ CloudTypeOK'
        /\ pc[r] = "role-assignment" /\ pc' = [pc EXCEPT ![r] = "role"]
    BY <1>1, <1>11 DEF ReadPrincipal, Go, TypeOK, CloudTypeOK, cloud
  <2>4. pc[r] \in Past /\ pc[r] # "done"
    BY <2>3 DEF Past
  <2> QED
    BY <1>1, <1>2, <2>2, <2>3, <2>4, Move DEF PC, TypeOK, Object
<1>12. CASE GetRoleDefinition(r)
  <2>1. /\ UNCHANGED <<apps, fics, sa, writer, opt, app, cachedApp, cachedSP, id, tries>>
        /\ CloudTypeOK'
        /\ pc[r] = "role" /\ pc' = [pc EXCEPT ![r] = "assign"]
    BY <1>1, <1>12 DEF GetRoleDefinition, Go, TypeOK, CloudTypeOK, cloud
  <2>2. pc[r] \in Past /\ pc[r] # "done"
    BY <2>1 DEF Past
  <2> QED
    BY <1>1, <1>2, <2>1, <2>2, Move DEF PC, TypeOK, Object
<1>13. CASE CreateRoleAssignment(r)
  <2>1. pc[r] = "assign" /\ tries[r] < RoleAttempts
    BY <1>2, <1>13 DEF CreateRoleAssignment
  <2>2. PICK s \in {"assign", "done"} :
          /\ pc' = [pc EXCEPT ![r] = s]
          /\ \/ s = "done" /\ UNCHANGED tries
             \/ /\ tries' = [tries EXCEPT ![r] = @ + 1]
                /\ s = "assign" => tries[r] + 1 < RoleAttempts
    <3>1. CASE After(r, "role-assignment") /\ UNCHANGED tries
      BY <3>1, AfterCases DEF PhaseNames
    <3>2. CASE TryAgain(r)
      <4>1. CASE tries[r] + 1 < RoleAttempts
        BY <1>1, <2>1, <3>2, <4>1 DEF TryAgain, TypeOK
      <4>2. CASE ~(tries[r] + 1 < RoleAttempts)
        <5>1. After(r, "role-assignment") /\ tries' = [tries EXCEPT ![r] = @ + 1]
          BY <3>2, <4>2 DEF TryAgain
        <5> QED
          BY <5>1, AfterCases DEF PhaseNames
      <4> QED
        BY <4>1, <4>2
    <3> QED
      BY <1>13, <3>1, <3>2 DEF CreateRoleAssignment
  <2>3. /\ tries' \in [Runs -> 0..RoleAttempts]
        /\ \A q \in Runs \ {r} : tries'[q] = tries[q]
        /\ tries'[r] < RoleAttempts \/ s = "done"
    BY <1>1, <2>1, <2>2 DEF TypeOK
  <2>4. /\ UNCHANGED <<apps, fics, sa, writer, opt, app, cachedApp, cachedSP, id>>
        /\ CloudTypeOK'
    BY <1>1, <1>13 DEF CreateRoleAssignment, TypeOK, CloudTypeOK
  <2>5. s \in PC /\ s \notin {"writeSA", "addFIC", "getSP", "createSP"} /\ pc[r] \in Past
    BY <1>1, <2>1 DEF Past
  <2> QED
    BY <1>1, <1>2, <2>2, <2>3, <2>4, <2>5, Move DEF PC, TypeOK, Object
<1>14. CASE CallFails(r) \/ Interrupt(r)
  <2>1. PICK s \in {"failed", "interrupted"} : pc' = [pc EXCEPT ![r] = s]
    BY <1>14 DEF CallFails, Interrupt, Go
  <2>2. /\ UNCHANGED <<apps, fics, sa, writer, opt, app, cachedApp, cachedSP, id, tries>>
        /\ CloudTypeOK'
        /\ pc[r] # "done"
    BY <1>1, <1>14 DEF CallFails, Interrupt, PhaseNames, Steps, TypeOK, CloudTypeOK, cloud
  <2>3. s \in PC /\ s \notin Past
    BY <1>1 DEF Past
  <2> QED
    BY <1>1, <1>2, <2>1, <2>2, <2>3, Move DEF PC, TypeOK
<1> QED
  BY <1>3, <1>4, <1>5, <1>6, <1>7, <1>8, <1>9, <1>10, <1>11, <1>12, <1>13, <1>14
     DEF CreateStep

LEMMA IInvStep == IInv /\ [Next]_vars => IInv'
<1> SUFFICES ASSUME IInv, [Next]_vars PROVE IInv'
  OBVIOUS
<1>1. CASE Next
  BY <1>1, IInvCreateStep DEF Next
<1>2. CASE UNCHANGED vars
  <2>1. UNCHANGED <<apps, principals, fics, role, sa, opt, pc, app, cachedApp, cachedSP,
                    id, tries, writer>>
    BY <1>2 DEF vars, cloud
  <2>2. TypeOK' /\ Known' /\ Counted' /\ IdIsCached'
    BY <2>1 DEF IInv, TypeInv, TypeOK, CloudTypeOK, Known, Counted, IdIsCached,
                  Client, Object
  <2>3. Annotated' /\ Trusted'
    BY <2>1 DEF IInv, Annotated, Trusted, Client, Object
  <2> QED
    BY <2>2, <2>3 DEF IInv, TypeInv
<1> QED
  BY <1>1, <1>2

-----------------------------------------------------------------------------
LEMMA Invariance == Spec => []IInv
<1> QED
  BY IInvInit, IInvStep, PTL DEF Spec

\* Every state of the runs and the cloud has the types of the model: a run never
\* attempts the role assignment more than roleAssignmentCreateRetryCount times,
\* and a credential or principal is only made for an application that exists
\* (phases/create/roleassignment.go, phases/create/aadapplication.go).
THEOREM TypeOKThm == Spec => []TypeOK
<1>1. IInv => TypeOK
  BY DEF IInv, TypeInv
<1> QED
  BY <1>1, Invariance, PTL

\* When the run that last wrote the service account has ended well with its
\* federated-identity phase, the application on the service account trusts it:
\* for any number of runs, at the same time or not, with any flags, failures and
\* stale listings, because createData.AADApplication (phases/create/data.go)
\* answers both phases from the cache it fills on the first success, unless the
\* flags give the identifiers.
THEOREM TrustMatchesAnnotationThm == Spec => []TrustMatchesAnnotation
<1>1. IInv => TrustMatchesAnnotation
  BY DEF IInv, Annotated, Trusted, TrustMatchesAnnotation, Client, Object, FI, Past
<1> QED
  BY <1>1, Invariance, PTL

-----------------------------------------------------------------------------
(***************************************************************************)
(* Orderly runs: one after another, with up to date listings.              *)
(***************************************************************************)
AAD == "aad-application"

InApplication == {AAD, "createApp", "getSP", "createSP"}
PastApplication ==
    {"service-account", "federated-identity", "role-assignment",
     "writeSA", "addFIC", "role", "assign", "done"}
BeforeWrite == {"createApp", "getSP", "createSP", "service-account", "writeSA"}

\* A run starts when those before it are over.
Serial == \A q, r \in Runs : q < r /\ pc[r] # "start" => pc[q] \in Ended

\* There is one application at most, and no client ID of another one.
Single ==
    /\ \A a, b \in apps : a = b
    /\ sa \in Apps => sa \in apps

\* The flags of a run name what exists, and its aad-application phase knows the
\* name it asks for.
Informed(r) ==
    /\ pc[r] = "start" => app[r] = None
    /\ pc[r] # "start" => opt[r].clientID \in apps \cup {None}
    /\ pc[r] \in InApplication => AADApplicationName(opt[r])

\* A run creates what it did not find: nobody else does meanwhile.
Missing(r) ==
    /\ pc[r] = "createApp" => apps = {}
    /\ pc[r] = "createSP" => opt[r].sp = "unused" \/ principals = {}
    /\ pc[r] = "conflict" => opt[r].sp = "unused"

\* A run past its aad-application phase has the principal of its application.
Equipped(r) ==
    opt[r].sp = "application" =>
        /\ cachedSP[r] # None => cachedSP[r] \in principals
        /\ pc[r] \in PastApplication /\ app[r] # None => app[r] \in principals

\* A run with that phase that has no cached application created its own, and so
\* there was none to be named on the service account.
Blank(r) ==
    /\ AAD \in Active(opt[r]) /\ cachedApp[r] = None /\ pc[r] \in BeforeWrite => sa \notin Apps
    /\ pc[r] = "writeSA" /\ id[r] = Empty => cachedApp[r] = None

Tidy(r) == Informed(r) /\ Missing(r) /\ Equipped(r) /\ Blank(r)

OInv == Orderly => Serial /\ Single /\ \A r \in Runs : Tidy(r)

\* The other runs have not started or are over while one is under way.
LEMMA Alone ==
    ASSUME TypeOK, Serial, NEW r \in Runs, pc[r] # "start", pc[r] \notin Ended
    PROVE  \A q \in Runs \ {r} : pc[q] \in Ended \cup {"start"}
<1> SUFFICES ASSUME NEW q \in Runs \ {r} PROVE pc[q] \in Ended \cup {"start"}
  OBVIOUS
<1>1. q < r \/ r < q
  BY CreateAssumption
<1> QED
  BY <1>1 DEF Serial

\* A step of run r, the only one under way, keeps the invariant when it takes
\* nothing away and what the invariant says of r holds afterwards.
LEMMA OrderlyMove ==
    ASSUME IInv, Serial, \A q \in Runs : Tidy(q), NEW r \in Runs,
           pc[r] \notin Ended,
           pc[r] = "start" => \A q \in Runs : q # r => pc[q] \in Ended \cup {"start"},
           pc[r] = "start" => \A q \in Runs : q < r => pc[q] \in Ended,
           NEW s, pc' = [pc EXCEPT ![r] = s], s # "start",
           opt' = opt, apps \subseteq apps', principals \subseteq principals',
           \A q \in Runs \ {r} : app'[q] = app[q] /\ cachedSP'[q] = cachedSP[q],
           Single', Tidy(r)'
    PROVE  Serial' /\ Single' /\ \A q \in Runs : Tidy(q)'
<1>1. TypeOK
  BY DEF IInv, TypeInv
<1>2. pc'[r] = s /\ \A q \in Runs \ {r} : pc'[q] = pc[q]
  BY <1>1 DEF TypeOK
<1>3. \A q \in Runs \ {r} : pc[q] \in Ended \cup {"start"}
  BY <1>1, Alone
<1>4. Serial'
  <2> SUFFICES ASSUME NEW p \in Runs, NEW q \in Runs, p < q, pc'[q] # "start"
               PROVE  pc'[p] \in Ended
    BY DEF Serial
  <2>1. CASE q = r
    <3>1. p # r
      BY <2>1, CreateAssumption
    <3> QED
      BY <1>2, <2>1, <3>1 DEF Serial
  <2>2. CASE q # r /\ p = r
    BY <1>2, <2>2 DEF Serial
  <2>3. CASE q # r /\ p # r
    BY <1>2, <2>3 DEF Serial
  <2> QED
    BY <2>1, <2>2, <2>3
<1>5. ASSUME NEW q \in Runs \ {r} PROVE Tidy(q)'
  <2>1. /\ pc'[q] = pc[q] /\ app'[q] = app[q] /\ cachedSP'[q] = cachedSP[q]
        /\ pc[q] \in Ended \cup {"start"}
        /\ Informed(q) /\ Missing(q) /\ Equipped(q)
    BY <1>2, <1>3 DEF Tidy
  <2>2. pc[q] \notin InApplication /\ pc[q] \notin BeforeWrite
    BY <2>1 DEF Ended, InApplication, BeforeWrite, AAD
  <2>3. Informed(q)' /\ Missing(q)'
    BY <2>1, <2>2 DEF Informed, Missing, InApplication
  <2>4. Equipped(q)'
    BY <2>1 DEF Equipped
  <2>5. Blank(q)'
    BY <2>1, <2>2 DEF Blank, BeforeWrite
  <2> QED
    BY <2>3, <2>4, <2>5 DEF Tidy
<1> QED
  BY <1>4, <1>5

\* What an up to date listing of applications says.
LEMMA ApplicationAnswer ==
    ASSUME TypeOK, NEW r \in Runs, ~opt[r].lag, NEW a \in Answers, AADApplication(r, a)
    PROVE  /\ a = NotFound => cachedApp[r] = None /\ (AADApplicationName(opt[r]) => apps = {})
           /\ a \in Apps => cachedApp'[r] = a
           /\ a \notin Apps => cachedApp[r] = None /\ cachedApp'[r] = None
           /\ a # Other
<1>1. a \in Apps \cup {NotFound, Outage}
  BY AzureAssumption DEF TypeOK, CloudTypeOK, AADApplication, GetApplication, FirstOf
<1>2. a \in Apps => cachedApp'[r] = a
  BY DEF TypeOK, AADApplication
<1>3. a \notin Apps => cachedApp[r] = None /\ cachedApp'[r] = None
  BY AzureAssumption DEF TypeOK, AADApplication
<1>4. a = NotFound => {b \in apps : AADApplicationName(opt[r])} = {}
  BY <1>3, AzureAssumption
     DEF TypeOK, CloudTypeOK, AADApplication, GetApplication, FirstOf
<1> QED
  BY <1>1, <1>2, <1>3, <1>4, AzureAssumption

\* What an up to date listing of service principals says, when the name is the
\* application's or another principal's.
LEMMA PrincipalAnswer ==
    ASSUME TypeOK, NEW r \in Runs, ~opt[r].lag, NEW a \in Answers, ServicePrincipal(r, a),
           Equipped(r)
    PROVE  /\ a = NotFound =>
                 \/ opt[r].sp = "unused"
                 \/ opt[r].sp = "application" /\ (AADApplicationName(opt[r]) => principals = {})
           /\ opt[r].sp = "application" => a \in principals \cup {NotFound, Outage}
           /\ opt[r].sp = "application" => cachedSP'[r] \in principals \cup {None}
           /\ \A q \in Runs \ {r} : cachedSP'[q] = cachedSP[q]
<1>1. /\ opt[r].sp \in {"application", "taken", "unused"}
      /\ cachedSP[r] \in Apps \cup {Other, None}
  BY CreateAssumption DEF TypeOK
<1>2. a \in IF cachedSP[r] # None THEN {cachedSP[r]} ELSE GetServicePrincipal(opt[r], FALSE)
  BY DEF ServicePrincipal, GetServicePrincipal, FirstOf
<1>3. a = NotFound => cachedSP[r] = None
  BY <1>1, <1>2, AzureAssumption
<1>4. CASE opt[r].sp = "application"
  <2>1. GetServicePrincipal(opt[r], FALSE)
          = FirstOf({b \in principals : AADApplicationName(opt[r])}, FALSE)
    BY <1>4 DEF GetServicePrincipal
  <2>2. a = NotFound => {b \in principals : AADApplicationName(opt[r])} = {}
    BY <1>2, <1>3, <2>1, AzureAssumption DEF FirstOf, TypeOK, CloudTypeOK
  <2>3. a \in principals \cup {NotFound, Outage}
    BY <1>2, <1>4, <2>1 DEF FirstOf, Equipped
  <2>4. cachedSP'[r] \in principals \cup {None}
    BY <1>4, <2>3 DEF ServicePrincipal, TypeOK, Equipped
  <2>5. \A q \in Runs \ {r} : cachedSP'[q] = cachedSP[q]
    BY DEF ServicePrincipal, TypeOK
  <2> QED
    BY <1>4, <2>2, <2>3, <2>4, <2>5
<1>5. CASE opt[r].sp # "application"
  <2>1. opt[r].sp = "taken" => GetServicePrincipal(opt[r], FALSE) = FirstOf({Other}, FALSE)
    BY DEF GetServicePrincipal
  <2>2. a = NotFound => opt[r].sp # "taken"
    BY <1>2, <1>3, <2>1, AzureAssumption DEF FirstOf
  <2>3. \A q \in Runs \ {r} : cachedSP'[q] = cachedSP[q]
    BY DEF ServicePrincipal, TypeOK
  <2> QED
    BY <1>1, <1>5, <2>2, <2>3
<1> QED
  BY <1>4, <1>5

\* What a step that adds no application, principal or client ID leaves to show.
LEMMA OrderlyKeep ==
    ASSUME IInv, Single, NEW r \in Runs, Tidy(r), pc[r] # "start",
           NEW s, pc' = [pc EXCEPT ![r] = s], s # "start",
           UNCHANGED <<apps, sa, opt>>,
           s \notin {"createApp", "conflict"},
           s \in InApplication => pc[r] \in InApplication,
           s = "createSP" => opt[r].sp = "unused" \/ principals' = {},
           Equipped(r)',
           s \in BeforeWrite => pc[r] \in BeforeWrite \/ cachedApp'[r] # None,
           s \in BeforeWrite /\ cachedApp'[r] = None => cachedApp[r] = None,
           s = "writeSA" => id'[r] # Empty \/ cachedApp'[r] = None
    PROVE  Single' /\ Tidy(r)'
<1>1. TypeOK /\ Known
  BY DEF IInv, TypeInv
<1>2. pc'[r] = s
  BY <1>1 DEF TypeOK
<1>3. Informed(r) /\ Missing(r) /\ Blank(r)
  BY DEF Tidy
<1>4. Informed(r)'
  BY <1>2, <1>3 DEF Informed
<1>5. Missing(r)'
  BY <1>2 DEF Missing
<1>6. Blank(r)'
  BY <1>2, <1>3 DEF Blank
<1>7. Single'
  BY DEF Single
<1> QED
  BY <1>4, <1>5, <1>6, <1>7 DEF Tidy

\* The step of one orderly run, by its actions.
LEMMA OrderlyStep ==
    ASSUME IInv, Orderly, Serial, Single, \A q \in Runs : Tidy(q),
           NEW r \in Runs, CreateStep(r)
    PROVE  Serial' /\ Single' /\ \A q \in Runs : Tidy(q)'
<1> USE AzureAssumption
<1>1. /\ TypeOK /\ Known /\ IdIsCached /\ ~opt[r].lag /\ opt[r].alone
      /\ Informed(r) /\ Missing(r) /\ Equipped(r) /\ Blank(r) /\ Tidy(r)
      /\ opt[r].clientID \in Apps \cup {None}
      /\ opt[r].objectID \in Apps \cup {None}
  BY CreateAssumption DEF IInv, TypeInv, TypeOK, Orderly, Tidy
<1>2. CASE Begin(r)
  <2> DEFINE first == Following(CreateOrder, Active(opt[r]), 0)
  <2>1. /\ first \in PhaseNames \cup {"done"}
        /\ first \in Active(opt[r]) \cup {"done"}
        /\ AAD \in Active(opt[r]) => first = AAD
    BY FollowingCases DEF AAD
  <2>2. /\ pc[r] = "start" /\ pc[r] \notin Ended
        /\ \A q \in Runs : q < r => pc[q] \in Ended
        /\ opt[r].clientID \in apps \cup {None}
        /\ UNCHANGED <<apps, principals, sa, opt, app, cachedApp, cachedSP, id>>
    BY <1>1, <1>2 DEF Begin, cloud, Ended
  <2>3. PICK s \in {"refused", first} :
          /\ pc' = [pc EXCEPT ![r] = s]
          /\ s = AAD => AADApplicationName(opt[r])
    <3>1. CASE Go(r, "refused")
      BY <3>1 DEF Go, AAD
    <3>2. CASE ~Refused(opt[r], {p \in Active(opt[r]) : ~prerun(opt[r], p)}) /\ Go(r, first)
      <4>1. \A p \in Active(opt[r]) : prerun(opt[r], p)
        BY <3>2 DEF Refused
      <4>2. prerun(opt[r], AAD) = AADApplicationName(opt[r])
        BY DEF prerun, AAD
      <4>3. first = AAD => AADApplicationName(opt[r])
        <5>1. AAD # "done"
          BY DEF AAD
        <5> QED
          BY <2>1, <4>1, <4>2, <5>1
      <4> QED
        BY <3>2, <4>3 DEF Go
    <3> QED
      BY <1>2, <3>1, <3>2 DEF Begin
  <2> HIDE DEF first
  <2>4. \A q \in Runs : q # r => pc[q] \in Ended \cup {"start"}
    <3> SUFFICES ASSUME NEW q \in Runs, q # r, pc[q] # "start" PROVE pc[q] \in Ended
      OBVIOUS
    <3>1. q < r \/ r < q
      BY CreateAssumption
    <3> QED
      BY <2>2, <3>1 DEF Serial
  <2>5. /\ pc'[r] = s
        /\ s \in PhaseNames \cup {"done", "refused"} /\ s # "start"
        /\ s \notin {"createApp", "getSP", "createSP", "writeSA", "conflict"}
        /\ AAD \in Active(opt[r]) => s \in {"refused", AAD}
    BY <1>1, <2>1, <2>3 DEF TypeOK, PhaseNames
  <2>6. Informed(r)' /\ Missing(r)'
    BY <1>1, <2>2, <2>3, <2>5 DEF Informed, Missing, InApplication
  <2>7. Equipped(r)'
    BY <1>1, <2>2 DEF Equipped, Informed
  <2>8. Blank(r)'
    BY <2>2, <2>5 DEF Blank, BeforeWrite, AAD
  <2>9. Single'
    BY <2>2 DEF Single
  <2>10. Tidy(r)'
    BY <2>6, <2>7, <2>8 DEF Tidy
  <2> QED
    BY <2>2, <2>3, <2>4, <2>5, <2>9, <2>10, OrderlyMove
<1>3. CASE FindApp(r)
  <2>1. PICK a \in Answers :
          /\ AADApplication(r, a)
          /\ \/ a = Outage /\ Go(r, "failed") /\ UNCHANGED app
             \/ a = NotFound /\ Go(r, "createApp") /\ UNCHANGED app
             \/ a \in Apps /\ Go(r, "getSP") /\ app' = [app EXCEPT ![r] = a]
    BY <1>3 DEF FindApp
  <2>2. /\ pc[r] = AAD /\ pc[r] \in InApplication /\ pc[r] # "start" /\ pc[r] \notin Ended
        /\ UNCHANGED <<apps, principals, sa, opt, cachedSP, id>>
        /\ \A q \in Runs \ {r} : app'[q] = app[q] /\ cachedSP'[q] = cachedSP[q]
    BY <1>1, <1>3, <2>1 DEF FindApp, cloud, Ended, AAD, InApplication, TypeOK
  <2>3. PICK s \in {"failed", "createApp", "getSP"} :
          /\ pc' = [pc EXCEPT ![r] = s]
          /\ s = "createApp" => a = NotFound
          /\ s = "getSP" => a \in Apps
    BY <2>1 DEF Go
  <2>4. /\ s = "createApp" => apps = {} /\ sa \notin Apps
        /\ s = "getSP" => cachedApp'[r] # None
        /\ AADApplicationName(opt[r])
    BY <1>1, <2>1, <2>2, <2>3, ApplicationAnswer DEF Informed, Single
  <2>5. pc'[r] = s
    BY <1>1, <2>3 DEF TypeOK
  <2>6. Informed(r)' /\ Missing(r)'
    BY <1>1, <2>2, <2>3, <2>4, <2>5 DEF Informed, Missing
  <2>7. Equipped(r)'
    BY <1>1, <2>2, <2>3, <2>5 DEF Equipped, PastApplication
  <2>8. Blank(r)'
    BY <2>2, <2>3, <2>4, <2>5 DEF Blank, BeforeWrite
  <2>9. Single'
    BY <2>2 DEF Single
  <2>10. Tidy(r)'
    BY <2>6, <2>7, <2>8 DEF Tidy
  <2> QED
    BY <2>2, <2>3, <2>9, <2>10, OrderlyMove
<1>4. CASE CreateApp(r)
  <2>1. PICK a \in Apps \ apps :
          /\ apps' = apps \cup {a}
          /\ \/ Go(r, "getSP") /\ app' = [app EXCEPT ![r] = a]
             \/ Go(r, "failed") /\ UNCHANGED app
    BY <1>4 DEF CreateApp
  <2>2. /\ pc[r] = "createApp" /\ pc[r] # "start" /\ pc[r] \notin Ended
        /\ pc[r] \in InApplication /\ pc[r] \in BeforeWrite
        /\ UNCHANGED <<principals, sa, opt, cachedSP, cachedApp, id>>
        /\ \A q \in Runs \ {r} : app'[q] = app[q] /\ cachedSP'[q] = cachedSP[q]
    BY <1>1, <1>4, <2>1 DEF CreateApp, Ended, InApplication, BeforeWrite, TypeOK
  <2>3. PICK s \in {"failed", "getSP"} : pc' = [pc EXCEPT ![r] = s]
    BY <2>1 DEF Go
  <2>4. apps = {} /\ apps' = {a} /\ sa \notin Apps
    BY <1>1, <2>1, <2>2 DEF Missing, Single
  <2>5. pc'[r] = s
    BY <1>1, <2>3 DEF TypeOK
  <2>6. Informed(r)' /\ Missing(r)'
    BY <1>1, <2>2, <2>3, <2>4, <2>5 DEF Informed, Missing
  <2>7. Equipped(r)'
    BY <1>1, <2>2, <2>3, <2>5 DEF Equipped, PastApplication
  <2>8. Blank(r)'
    BY <2>2, <2>3, <2>4, <2>5 DEF Blank
  <2>9. Single'
    BY <2>2, <2>4 DEF Single
  <2>10. Tidy(r)'
    BY <2>6, <2>7, <2>8 DEF Tidy
  <2> QED
    BY <2>1, <2>2, <2>3, <2>9, <2>10, OrderlyMove
<1>5. CASE FindSP(r)
  <2>1. PICK a \in Answers :
          /\ ServicePrincipal(r, a)
          /\ \/ a = Outage /\ Go(r, "failed")
             \/ a = NotFound /\ Go(r, "createSP")
             \/ a \in Apps \cup {Other} /\ After(r, AAD)
    BY <1>5 DEF FindSP, AAD
  <2>2. /\ pc[r] = "getSP" /\ pc[r] # "start" /\ pc[r] \notin Ended
        /\ pc[r] \in InApplication /\ pc[r] \in BeforeWrite
        /\ UNCHANGED <<apps, principals, sa, opt, app, cachedApp, id>>
        /\ app[r] \in apps
    BY <1>1, <1>5 DEF FindSP, cloud, Ended, InApplication, BeforeWrite, Known
  <2>3. PICK s \in {"failed", "createSP", "done"} \cup PhaseNames :
          /\ pc' = [pc EXCEPT ![r] = s]
          /\ s # AAD
          /\ s = "createSP" => a = NotFound
          /\ s \in {"failed", "createSP"} \/ a \in Apps \cup {Other}
    BY <2>1, AfterCases DEF Go, AAD, PhaseNames
  <2>4. /\ a = NotFound => opt[r].sp = "unused" \/ principals = {}
        /\ opt[r].sp = "application" => a \in principals \cup {NotFound, Outage}
        /\ opt[r].sp = "application" => cachedSP'[r] \in principals \cup {None}
        /\ \A q \in Runs \ {r} : cachedSP'[q] = cachedSP[q]
    BY <1>1, <2>1, <2>2, PrincipalAnswer DEF Informed
  <2>5. pc'[r] = s
    BY <1>1, <2>3 DEF TypeOK
  <2>6. Equipped(r)'
    <3> SUFFICES ASSUME opt[r].sp = "application"
                 PROVE  /\ cachedSP'[r] # None => cachedSP'[r] \in principals
                        /\ s \in PastApplication => app[r] \in principals
      BY <2>2, <2>5 DEF Equipped
    <3>1. s \in PastApplication => s \notin {"failed", "createSP"}
      BY DEF PastApplication
    <3>2. s \in PastApplication => a \in principals
      BY <2>3, <2>4, <3>1
    <3>3. principals \subseteq apps
      BY <1>1 DEF TypeOK, CloudTypeOK
    <3> QED
      BY <2>2, <2>4, <3>2, <3>3 DEF Single
  <2>7. /\ s \notin {"start", "createApp", "conflict", "writeSA"}
    BY <2>3 DEF PhaseNames
  <2>8. Single' /\ Tidy(r)'
    BY <1>1, <2>2, <2>3, <2>4, <2>6, <2>7, OrderlyKeep
  <2> QED
    BY <2>2, <2>3, <2>4, <2>7, <2>8, OrderlyMove
<1>6. CASE CreateSP(r)
  <2>1. /\ pc[r] = "createSP" /\ pc[r] # "start" /\ pc[r] \notin Ended
        /\ pc[r] \in BeforeWrite
        /\ UNCHANGED <<apps, sa, opt, app, cachedApp, cachedSP, id>>
        /\ principals' = principals \cup {app[r]}
        /\ IF app[r] \in principals THEN Go(r, "conflict")
           ELSE After(r, AAD) \/ Go(r, "failed")
    BY <1>6 DEF CreateSP, Ended, BeforeWrite, AAD
  <2>2. PICK s \in {"failed", "conflict", "done"} \cup PhaseNames :
          /\ pc' = [pc EXCEPT ![r] = s]
          /\ s # AAD
          /\ s = "conflict" => app[r] \in principals
    BY <2>1, AfterCases DEF Go, AAD, PhaseNames
  <2>3. /\ pc'[r] = s
        /\ s \notin {"start", "createApp", "writeSA"}
        /\ s \notin InApplication
        /\ s = "conflict" => opt[r].sp = "unused"
    BY <1>1, <2>1, <2>2 DEF TypeOK, PhaseNames, InApplication, Missing
  <2>4. Informed(r)'
    BY <1>1, <2>1, <2>3 DEF Informed
  <2>5. Missing(r)'
    BY <2>1, <2>3 DEF Missing, InApplication
  <2>6. Equipped(r)'
    BY <1>1, <2>1 DEF Equipped
  <2>7. Blank(r)'
    BY <1>1, <2>1, <2>3 DEF Blank
  <2>8. Single'
    BY <2>1 DEF Single
  <2>9. Tidy(r)'
    BY <2>4, <2>5, <2>6, <2>7 DEF Tidy
  <2> QED
    BY <2>1, <2>2, <2>3, <2>8, <2>9, OrderlyMove
<1>7. CASE ReadClient(r) \/ ReadObject(r)
  <2>1. PICK s \in {"writeSA", "addFIC"} : pc' = [pc EXCEPT ![r] = s]
    BY <1>7 DEF ReadClient, ReadObject, Go
  <2>2. /\ pc[r] \in {"service-account", "federated-identity"}
        /\ s = "writeSA" => pc[r] = "service-account"
        /\ pc[r] # "start" /\ pc[r] \notin Ended /\ pc[r] \in PastApplication
        /\ UNCHANGED <<apps, principals, sa, opt, app, cachedSP>>
        /\ \E flag \in Apps \cup {None} : IdByFlag(r, flag)
    <3>1. CASE ReadClient(r)
      BY <1>1, <3>1 DEF ReadClient, cloud, Ended, PastApplication
    <3>2. CASE ReadObject(r)
      BY <1>1, <2>1, <3>2 DEF ReadObject, Go, cloud, Ended, PastApplication, TypeOK
    <3> QED
      BY <1>7, <3>1, <3>2
  <2>3. PICK flag \in Apps \cup {None} : IdByFlag(r, flag)
    BY <2>2
  <2>4. /\ cachedApp'[r] = None => cachedApp[r] = None
        /\ id'[r] = Empty => cachedApp'[r] = None
    <3>1. CASE flag # None
      BY <1>1, <2>3, <3>1 DEF IdByFlag, TypeOK
    <3>2. CASE flag = None
      <4>1. PICK a \in Answers : AADApplication(r, a) /\ id' = [id EXCEPT ![r] = IdOf(a)]
        BY <2>3, <3>2 DEF IdByFlag
      <4>2. /\ a \in Apps => cachedApp'[r] = a
            /\ a \notin Apps => cachedApp[r] = None /\ cachedApp'[r] = None
        BY <1>1, <4>1, ApplicationAnswer
      <4>3. a \in Apps => id'[r] # Empty
        BY <1>1, <4>1 DEF TypeOK, IdOf
      <4> QED
        BY <4>2, <4>3
    <3> QED
      BY <3>1, <3>2
  <2>5. /\ s \notin {"start", "createApp", "createSP", "conflict"}
        /\ s \notin InApplication
        /\ s \in BeforeWrite => s = "writeSA" /\ pc[r] \in BeforeWrite
    BY <2>1, <2>2 DEF InApplication, BeforeWrite, AAD
  <2>6. Equipped(r)'
    BY <1>1, <2>2 DEF Equipped
  <2>7. Single' /\ Tidy(r)'
    BY <1>1, <2>1, <2>2, <2>4, <2>5, <2>6, OrderlyKeep
  <2> QED
    BY <2>1, <2>2, <2>5, <2>7, OrderlyMove
<1>8. CASE CreateOrUpdateServiceAccount(r)
  <2>1. /\ pc[r] = "writeSA" /\ pc[r] # "start" /\ pc[r] \notin Ended
        /\ pc[r] \in PastApplication
        /\ UNCHANGED <<apps, principals, opt, app, cachedApp, cachedSP, id>>
        /\ sa' = id[r]
        /\ After(r, "service-account") \/ Go(r, "failed")
    BY <1>8 DEF CreateOrUpdateServiceAccount, Ended, PastApplication
  <2>2. PICK s \in {"failed", "done"} \cup PhaseNames :
          pc' = [pc EXCEPT ![r] = s] /\ s \notin {AAD, "service-account"}
    BY <2>1, AfterCases DEF Go, AAD, PhaseNames
  <2>3. /\ pc'[r] = s
        /\ s \notin {"start", "createApp", "createSP", "writeSA", "conflict"}
        /\ s \notin InApplication /\ s \notin BeforeWrite
    BY <1>1, <2>2 DEF TypeOK, PhaseNames, InApplication, BeforeWrite
  <2>4. Single'
    <3>1. id[r] # None /\ id[r] \in {Empty, Client(r)}
      BY <1>1, <2>1 DEF IdIsCached
    <3>2. Client(r) \in apps \cup {None}
      BY <1>1, <2>1 DEF Client, Known, Informed
    <3> QED
      BY <2>1, <3>1, <3>2 DEF Single
  <2>5. Informed(r)' /\ Missing(r)'
    BY <1>1, <2>1, <2>3 DEF Informed, Missing
  <2>6. Equipped(r)' /\ Blank(r)'
    BY <1>1, <2>1, <2>3 DEF Equipped, Blank
  <2>7. Tidy(r)'
    BY <2>5, <2>6 DEF Tidy
  <2> QED
    BY <2>1, <2>2, <2>3, <2>4, <2>7, OrderlyMove
<1>9. CASE AddFederatedCredential(r)
  <2>1. /\ pc[r] = "addFIC" /\ pc[r] # "start" /\ pc[r] \notin Ended
        /\ pc[r] \in PastApplication
        /\ UNCHANGED <<apps, principals, sa, opt, app, cachedApp, cachedSP, id>>
        /\ After(r, "federated-identity") \/ Go(r, "failed")
    BY <1>9 DEF AddFederatedCredential, Ended, PastApplication
  <2>2. PICK s \in {"failed", "done"} \cup PhaseNames :
          pc' = [pc EXCEPT ![r] = s] /\ s \notin {AAD, "service-account"}
    BY <2>1, AfterCases DEF Go, AAD, PhaseNames
  <2>3. /\ s \notin {"start", "createApp", "createSP", "writeSA", "conflict"}
        /\ s \notin InApplication /\ s \notin BeforeWrite
    BY <2>2 DEF InApplication, BeforeWrite, AAD, PhaseNames
  <2>4. Equipped(r)'
    BY <1>1, <2>1 DEF Equipped
  <2>5. Single' /\ Tidy(r)'
    BY <1>1, <2>1, <2>2, <2>3, <2>4, OrderlyKeep
  <2> QED
    BY <2>1, <2>2, <2>3, <2>5, OrderlyMove
<1>10. CASE ReadPrincipal(r)
  <2>1. /\ pc[r] = "role-assignment" /\ pc[r] # "start" /\ pc[r] \notin Ended
        /\ pc[r] \in PastApplication
        /\ UNCHANGED <<apps, principals, sa, opt, app, cachedApp>>
        /\ pc' = [pc EXCEPT ![r] = "role"]
        /\ \/ UNCHANGED cachedSP
           \/ \E a \in Answers : ServicePrincipal(r, a)
    BY <1>10 DEF ReadPrincipal, Go, cloud, Ended, PastApplication
  <2>2. /\ opt[r].sp = "application" => cachedSP'[r] \in principals \cup {None}
        /\ \A q \in Runs \ {r} : cachedSP'[q] = cachedSP[q]
    <3>1. CASE UNCHANGED cachedSP
      BY <1>1, <3>1 DEF Equipped
    <3>2. CASE \E a \in Answers : ServicePrincipal(r, a)
      BY <1>1, <3>2, PrincipalAnswer
    <3> QED
      BY <2>1, <3>1, <3>2
  <2>3. Equipped(r)'
    BY <1>1, <2>1, <2>2 DEF Equipped
  <2>4. PICK s \in {"role"} :
          /\ pc' = [pc EXCEPT ![r] = s]
          /\ s \notin {"start", "createApp", "createSP", "writeSA", "conflict"}
          /\ s \notin InApplication /\ s \notin BeforeWrite
    BY <2>1 DEF InApplication, BeforeWrite, AAD
  <2>5. Single' /\ Tidy(r)'
    BY <1>1, <2>1, <2>3, <2>4, OrderlyKeep
  <2> QED
    BY <2>1, <2>2, <2>4, <2>5, OrderlyMove
<1>11. CASE GetRoleDefinition(r) \/ CreateRoleAssignment(r)
  <2>1. /\ pc[r] \in {"role", "assign"} /\ pc[r] # "start" /\ pc[r] \notin Ended
        /\ pc[r] \in PastApplication
        /\ UNCHANGED <<apps, principals, sa, opt, app, cachedApp, cachedSP, id>>
    BY <1>11 DEF GetRoleDefinition, CreateRoleAssignment, cloud, Ended, PastApplication
  <2>2. PICK s \in {"assign", "done"} : pc' = [pc EXCEPT ![r] = s]
    <3>1. CASE GetRoleDefinition(r)
      BY <3>1 DEF GetRoleDefinition, Go
    <3>2. CASE CreateRoleAssignment(r)
      <4>1. pc[r] = "assign" /\ (After(r, "role-assignment") \/ UNCHANGED pc)
        BY <3>2 DEF CreateRoleAssignment, TryAgain
      <4>2. After(r, "role-assignment") => pc' = [pc EXCEPT ![r] = "done"]
        BY AfterCases DEF PhaseNames
      <4>3. UNCHANGED pc => pc' = [pc EXCEPT ![r] = "assign"]
        BY <1>1, <4>1 DEF TypeOK
      <4> QED
        BY <4>1, <4>2, <4>3
    <3> QED
      BY <1>11, <3>1, <3>2
  <2>3. /\ s \notin {"start", "createApp", "createSP", "writeSA", "conflict"}
        /\ s \notin InApplication /\ s \notin BeforeWrite
    BY <2>2 DEF InApplication, BeforeWrite, AAD
  <2>4. Equipped(r)'
    BY <1>1, <2>1 DEF Equipped
  <2>5. Single' /\ Tidy(r)'
    BY <1>1, <2>1, <2>2, <2>3, <2>4, OrderlyKeep
  <2> QED
    BY <2>1, <2>2, <2>3, <2>5, OrderlyMove
<1>12. CASE CallFails(r) \/ Interrupt(r)
  <2>1. /\ pc[r] # "start" /\ pc[r] \notin Ended
        /\ UNCHANGED <<apps, principals, sa, opt, app, cachedApp, cachedSP, id>>
    BY <1>12 DEF CallFails, Interrupt, PhaseNames, Steps, cloud, Ended
  <2>2. PICK s \in {"failed", "interrupted"} : pc' = [pc EXCEPT ![r] = s]
    BY <1>12 DEF CallFails, Interrupt, Go
  <2>3. /\ s \notin {"start", "createApp", "createSP", "writeSA", "conflict"}
        /\ s \notin InApplication /\ s \notin BeforeWrite /\ s \notin PastApplication
    BY <2>2 DEF InApplication, BeforeWrite, AAD, PastApplication
  <2>4. Equipped(r)'
    BY <1>1, <2>1, <2>2, <2>3 DEF Equipped, TypeOK
  <2>5. Single' /\ Tidy(r)'
    BY <1>1, <2>1, <2>2, <2>3, <2>4, OrderlyKeep
  <2> QED
    BY <2>1, <2>2, <2>3, <2>5, OrderlyMove
<1> QED
  BY <1>2, <1>3, <1>4, <1>5, <1>6, <1>7, <1>8, <1>9, <1>10, <1>11, <1>12
     DEF CreateStep

LEMMA OInvInit == Init => OInv
<1> SUFFICES ASSUME Init PROVE Serial /\ Single /\ \A r \in Runs : Tidy(r)
  BY DEF OInv
<1> USE AzureAssumption DEF Init
<1>1. Serial /\ Single
  BY DEF Serial, Single
<1>2. ASSUME NEW r \in Runs PROVE Tidy(r)
  <2>1. pc[r] = "start" /\ app[r] = None /\ cachedSP[r] = None
    OBVIOUS
  <2>2. pc[r] \notin InApplication /\ pc[r] \notin PastApplication /\ pc[r] \notin BeforeWrite
    BY <2>1 DEF InApplication, PastApplication, BeforeWrite, AAD
  <2> QED
    BY <2>1, <2>2 DEF Tidy, Informed, Missing, Equipped, Blank, BeforeWrite
<1> QED
  BY <1>1, <1>2

LEMMA OInvStep == IInv /\ OInv /\ [Next]_vars => OInv'
<1> SUFFICES ASSUME IInv, OInv, [Next]_vars, Orderly'
             PROVE  Serial' /\ Single' /\ \A r \in Runs : Tidy(r)'
  BY DEF OInv
<1>1. opt' = opt
  <2>1. CASE UNCHANGED vars
    BY <2>1 DEF vars
  <2>2. CASE Next
    BY <2>2 DEF Next, CreateStep, Begin, FindApp, CreateApp, FindSP, CreateSP, ReadClient,
                CreateOrUpdateServiceAccount, ReadObject, AddFederatedCredential,
                ReadPrincipal, GetRoleDefinition, CreateRoleAssignment, CallFails, Interrupt
  <2> QED
    BY <2>1, <2>2
<1>2. Orderly /\ Serial /\ Single /\ \A r \in Runs : Tidy(r)
  BY <1>1 DEF Orderly, OInv
<1>3. CASE Next
  BY <1>2, <1>3, OrderlyStep DEF Next
<1>4. CASE UNCHANGED vars
  <2>1. UNCHANGED <<apps, principals, sa, opt, pc, app, cachedApp, cachedSP, id>>
    BY <1>4 DEF vars, cloud
  <2>2. Serial' /\ Single'
    BY <1>2, <2>1 DEF Serial, Single
  <2>3. ASSUME NEW r \in Runs PROVE Tidy(r)'
    BY <1>2, <2>1 DEF Tidy, Informed, Missing, Equipped, Blank
  <2> QED
    BY <2>2, <2>3
<1> QED
  BY <1>3, <1>4

LEMMA OrderlyInvariance == Spec => []OInv
<1> QED
  BY Invariance, OInvInit, OInvStep, PTL DEF Spec

\* Orderly runs, any number of them and with any flags, leave at most one
\* application, wherever they stop and whatever answers they lose
\* (aadapplication.go creates one only when none is found).
THEOREM OneApplicationThm == Spec => []OneApplication
<1>1. OInv => OneApplication
  <2> SUFFICES ASSUME OInv, Orderly PROVE Cardinality(apps) <= 1
    BY DEF OneApplication
  <2>1. \A a, b \in apps : a = b
    BY DEF OInv, Single
  <2>2. CASE apps = {}
    BY <2>2, FS_EmptySet
  <2>3. CASE apps # {}
    <3>1. PICK a \in apps : apps = {a}
      BY <2>1, <2>3
    <3> QED
      BY <3>1, FS_Singleton
  <2> QED
    BY <2>2, <2>3
<1> QED
  BY <1>1, OrderlyInvariance, PTL

\* Orderly runs give the application its one service principal: a run that ends
\* well leaves it there, and none asks for a second one unless it looks for it
\* by a name that is not in use (aadapplication.go).
THEOREM OnePrincipalThm == Spec => []OnePrincipal
<1>1. OInv => OnePrincipal
  BY DEF OInv, Tidy, Missing, Equipped, OnePrincipal, PastApplication
<1> QED
  BY <1>1, OrderlyInvariance, PTL

\* No orderly run with an aad-application phase replaces a client ID on the
\* service account by an empty one, also when the listing fails as the
\* service-account phase asks (data.go answers from the cache, and a run that
\* created the application found no client ID there).
THEOREM AnnotationKeptThm == Spec => AnnotationKept
<1>1. ASSUME IInv, OInv, [Next]_vars, Orderly, sa \in Apps, sa' = Empty
      PROVE  AAD \notin Active(opt[writer'])
  <2>1. sa' # sa
    BY <1>1, AzureAssumption
  <2>2. PICK r \in Runs : CreateOrUpdateServiceAccount(r)
    BY <1>1, <2>1
       DEF Next, CreateStep, vars, cloud, Begin, FindApp, CreateApp, FindSP, CreateSP, ReadClient,
           ReadObject, AddFederatedCredential, ReadPrincipal, GetRoleDefinition,
           CreateRoleAssignment, CallFails, Interrupt
  <2>3. writer' = r /\ pc[r] = "writeSA" /\ id[r] = Empty
    BY <1>1, <2>2 DEF CreateOrUpdateServiceAccount
  <2>4. Blank(r)
    BY <1>1 DEF OInv, Tidy
  <2> QED
    BY <1>1, <2>3, <2>4 DEF Blank, BeforeWrite
<1>2. IInv /\ OInv /\ [Next]_vars =>
        [(Orderly /\ sa \in Apps /\ sa' = Empty) => AAD \notin Active(opt[writer'])]_vars
  BY <1>1
<1> QED
  BY <1>2, Invariance, OrderlyInvariance, PTL DEF Spec, AnnotationKept, AAD
=============================================================================
