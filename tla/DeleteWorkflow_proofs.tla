----------------------- MODULE DeleteWorkflow_proofs -----------------------
(***************************************************************************)
(* Proofs about DeleteWorkflow for any runs and flags, whether or not runs *)
(* overlap and listings lag.                                               *)
(***************************************************************************)
EXTENDS DeleteWorkflow, TLAPS

\* Where a run can be once it has left a phase behind.
PastApplication == {"done"}
PastAccount == {"aad-application", "objectAgain", "deleteApp"} \cup PastApplication
PastCredential == {"service-account", "deleteSA"} \cup PastAccount
PastAssignment == {"federated-identity", "getFIC", "deleteFIC"} \cup PastCredential

\* A run is only in phases that are its own, and its calls are for the
\* application it was given, if it was given one.
Placed(r) ==
    /\ pc[r] \in PastAssignment \ PastCredential
          => "federated-identity" \in DeletePhases(opt[r])
    /\ pc[r] \in PastAccount \ PastApplication
          => "aad-application" \in DeletePhases(opt[r])
    /\ pc[r] \in {"getFIC", "deleteFIC", "deleteApp"} => object[r] = Target(r)

\* What a run has left behind is gone.
Passed(r) ==
    /\ pc[r] \in PastAssignment /\ "role-assignment" \in DeletePhases(opt[r])
          => opt[r].assignment \notin role
    /\ pc[r] \in PastCredential /\ "federated-identity" \in DeletePhases(opt[r])
          => Target(r) \notin fics
    /\ pc[r] \in PastAccount /\ "service-account" \in DeletePhases(opt[r])
          => sa = Absent
    /\ pc[r] \in PastApplication /\ "aad-application" \in DeletePhases(opt[r])
          => Target(r) \in Apps \ apps

IInv ==
    /\ TypeOK
    /\ \A r \in Runs : Placed(r) /\ Passed(r)
    /\ NoDanglingAnnotation

-----------------------------------------------------------------------------
\* DeletePhases leaves out the credential when the application goes, and nothing
\* else.
LEMMA PhasesOfRun ==
    ASSUME NEW o
    PROVE  /\ \A p \in {"role-assignment", "service-account", "aad-application"} :
                 p \in Active(o) <=> p \in DeletePhases(o)
           /\ "federated-identity" \in Active(o)
                 => \/ "federated-identity" \in DeletePhases(o)
                    \/ "aad-application" \in DeletePhases(o)
           /\ ~ ("federated-identity" \in DeletePhases(o) /\ "aad-application" \in DeletePhases(o))
  BY DEF DeletePhases, Active, PhaseNames

\* The order of the phases.
LEMMA Order ==
    /\ Len(DeleteOrder) = 4
    /\ DeleteOrder[1] = "role-assignment" /\ DeleteOrder[2] = "federated-identity"
    /\ DeleteOrder[3] = "service-account" /\ DeleteOrder[4] = "aad-application"
    /\ \A i \in 1..4 : i = 1 \/ i = 2 \/ i = 3 \/ i = 4
  BY DEF DeleteOrder

LEMMA Positions ==
    /\ Position(DeleteOrder, "role-assignment") = 1
    /\ Position(DeleteOrder, "federated-identity") = 2
    /\ Position(DeleteOrder, "service-account") = 3
    /\ Position(DeleteOrder, "aad-application") = 4
  BY Order DEF Position

\* Where a run goes from its i-th phase: to one of its phases or the end, and past
\* none of its phases that are still to come.
LEMMA FollowingCases ==
    ASSUME NEW active, NEW i \in 0..4
    PROVE  LET s == Following(DeleteOrder, active, i)
           IN  /\ s \in (PhaseNames \cap active) \cup {"done"}
               /\ i = 0 /\ "role-assignment" \in active => s \notin PastAssignment
               /\ i <= 1 /\ "federated-identity" \in active => s \notin PastCredential
               /\ i <= 2 /\ "service-account" \in active => s \notin PastAccount
               /\ i <= 3 /\ "aad-application" \in active => s \notin PastApplication
<1> DEFINE left == {j \in i+1..4 : DeleteOrder[j] \in active}
<1> DEFINE first == CHOOSE j \in left : \A k \in left : j <= k
<1> DEFINE s == Following(DeleteOrder, active, i)
<1>1. s = IF left = {} THEN "done" ELSE DeleteOrder[first]
  BY Order DEF Following
<1>2. left # {} => first \in left /\ \A k \in left : first <= k
  <2>1. ASSUME left # {} PROVE \E j \in left : \A k \in left : j <= k
    <3>1. left \subseteq {1, 2, 3, 4}
      BY Order
    <3>2. CASE 1 \in left
      BY <3>1, <3>2
    <3>3. CASE 1 \notin left /\ 2 \in left
      BY <3>1, <3>3
    <3>4. CASE 1 \notin left /\ 2 \notin left /\ 3 \in left
      BY <3>1, <3>4
    <3>5. CASE 1 \notin left /\ 2 \notin left /\ 3 \notin left
      BY <2>1, <3>1, <3>5
    <3> QED
      BY <3>2, <3>3, <3>4, <3>5
  <2> QED
    BY <2>1
<1>3. left # {} => first \in 1..4 /\ DeleteOrder[first] \in active
  BY <1>2
<1> HIDE DEF first
<1>4. s \in (PhaseNames \cap active) \cup {"done"}
  BY <1>1, <1>3, Order DEF PhaseNames
\* With the k-th phase still to come, the next one is at most the k-th.
<1>5. ASSUME NEW k \in 1..4, i < k, DeleteOrder[k] \in active
      PROVE  \E j \in 1..k : s = DeleteOrder[j]
  <2>1. k \in left
    BY <1>5
  <2> QED
    BY <1>1, <1>2, <1>3, <2>1
<1> HIDE DEF s
<1>6. ASSUME i = 0, "role-assignment" \in active PROVE s \notin PastAssignment
  <2>1. PICK j \in 1..1 : s = DeleteOrder[j]
    BY <1>5, <1>6, Order
  <2>2. j = 1
    BY <2>1
  <2> QED
    BY <2>1, <2>2, Order DEF PastAssignment, PastCredential, PastAccount, PastApplication
<1>7. ASSUME i <= 1, "federated-identity" \in active PROVE s \notin PastCredential
  <2>1. PICK j \in 1..2 : s = DeleteOrder[j]
    BY <1>5, <1>7, Order
  <2>2. j = 1 \/ j = 2
    BY <2>1
  <2> QED
    BY <2>1, <2>2, Order DEF PastCredential, PastAccount, PastApplication
<1>8. ASSUME i <= 2, "service-account" \in active PROVE s \notin PastAccount
  <2>1. PICK j \in 1..3 : s = DeleteOrder[j]
    BY <1>5, <1>8, Order
  <2>2. j = 1 \/ j = 2 \/ j = 3
    BY <2>1
  <2> QED
    BY <2>1, <2>2, Order DEF PastAccount, PastApplication
<1>9. ASSUME i <= 3, "aad-application" \in active PROVE s \notin PastApplication
  <2>1. PICK j \in 1..4 : s = DeleteOrder[j]
    BY <1>5, <1>9, Order
  <2> QED
    BY <2>1, Order DEF PastApplication
<1> QED
  BY <1>4, <1>6, <1>7, <1>8, <1>9 DEF s

\* A run that leaves a phase behind.
LEMMA AfterCases ==
    ASSUME NEW r, NEW phase \in PhaseNames, After(r, phase)
    PROVE  \E s \in (PhaseNames \cap DeletePhases(opt[r])) \cup {"done"} :
              /\ pc' = [pc EXCEPT ![r] = s]
              /\ phase = "role-assignment" /\ "federated-identity" \in DeletePhases(opt[r])
                    => s \notin PastCredential
              /\ phase \in {"role-assignment", "federated-identity"}
                    /\ "service-account" \in DeletePhases(opt[r])
                    => s \notin PastAccount
              /\ phase # "aad-application" /\ "aad-application" \in DeletePhases(opt[r])
                    => s \notin PastApplication
<1> DEFINE i == Position(DeleteOrder, phase)
<1> DEFINE s == Following(DeleteOrder, DeletePhases(opt[r]), i)
<1>1. pc' = [pc EXCEPT ![r] = s]
  BY DEF After, Go
<1>2. /\ i \in 0..4
      /\ phase = "role-assignment" => i <= 1
      /\ phase \in {"role-assignment", "federated-identity"} => i <= 2
      /\ phase # "aad-application" => i <= 3
  BY Positions DEF PhaseNames
<1> HIDE DEF i
<1>3. /\ s \in (PhaseNames \cap DeletePhases(opt[r])) \cup {"done"}
      /\ i <= 1 /\ "federated-identity" \in DeletePhases(opt[r]) => s \notin PastCredential
      /\ i <= 2 /\ "service-account" \in DeletePhases(opt[r]) => s \notin PastAccount
      /\ i <= 3 /\ "aad-application" \in DeletePhases(opt[r]) => s \notin PastApplication
  BY <1>2, FollowingCases
<1> HIDE DEF s
<1> QED
  BY <1>1, <1>2, <1>3

\* AADApplicationObjectID answers with the object ID of the flag, if there is one.
LEMMA ObjectIDEffect ==
    ASSUME TypeOK, NEW r \in Runs, AADApplicationObjectID(r)
    PROVE  /\ cachedApp' \in [Runs -> Apps \cup {None}]
           /\ object' \in [Runs -> Apps \cup {Empty, None}]
           /\ \A q \in Runs \ {r} : object'[q] = object[q]
           /\ \A q \in Runs \ {r} : cachedApp'[q] = cachedApp[q]
           /\ opt[r].objectID # None => object'[r] = opt[r].objectID
           /\ object'[r] \in Apps => object'[r] \in {opt[r].objectID, cachedApp'[r]}
<1> USE AzureAssumption
<1>1. opt[r].objectID \in Apps \cup {None}
  BY DeleteAssumption DEF TypeOK
<1>2. CASE opt[r].objectID # None
  BY <1>1, <1>2 DEF AADApplicationObjectID, TypeOK
<1>3. CASE opt[r].objectID = None
  <2>1. PICK a : IF a \in Apps
                 THEN /\ cachedApp' = [cachedApp EXCEPT ![r] = a]
                      /\ object' = [object EXCEPT ![r] = a]
                 ELSE object' = [object EXCEPT ![r] = Empty] /\ UNCHANGED cachedApp
    BY <1>3 DEF AADApplicationObjectID
  <2> QED
    BY <1>3, <2>1 DEF TypeOK
<1> QED
  BY <1>2, <1>3

LEMMA IInvInit == Init => IInv
<1> SUFFICES ASSUME Init PROVE IInv
  OBVIOUS
<1> USE DeleteAssumption, AzureAssumption DEF Init
<1>1. TypeOK
  BY DEF TypeOK, CloudTypeOK
<1>2. \A r \in Runs : Placed(r) /\ Passed(r)
  BY DEF Placed, Passed, PastAssignment, PastCredential, PastAccount, PastApplication
<1>3. NoDanglingAnnotation
  BY DEF NoDanglingAnnotation
<1> QED
  BY <1>1, <1>2, <1>3 DEF IInv

\* A step of run r keeps the invariant when it leaves the other runs alone,
\* creates nothing, takes no application the service account names, and takes r
\* to a step whose conditions hold.
LEMMA Move ==
    ASSUME IInv, NEW r \in Runs, CloudTypeOK',
           apps' \subseteq apps, fics' \subseteq fics, role' \subseteq role,
           sa' \in {sa, Absent},
           opt' = opt,
           NEW s \in {"start"} \cup PhaseNames \cup Steps \cup Ended,
           pc' = [pc EXCEPT ![r] = s],
           UNCHANGED <<cachedApp, object>> \/ AADApplicationObjectID(r),
           apps' = apps \/ NoDanglingAnnotation',
           Placed(r)', Passed(r)'
    PROVE  IInv'
<1>1. TypeOK /\ NoDanglingAnnotation /\ \A q \in Runs : Placed(q) /\ Passed(q)
  BY DEF IInv
<1>2. pc' \in [Runs -> {"start"} \cup PhaseNames \cup Steps \cup Ended]
  BY <1>1 DEF TypeOK
<1>0. /\ cachedApp' \in [Runs -> Apps \cup {None}]
      /\ object' \in [Runs -> Apps \cup {Empty, None}]
      /\ \A q \in Runs \ {r} : object'[q] = object[q]
      /\ \A q \in Runs : object'[q] \in Apps => object'[q] \in {opt[q].objectID, cachedApp'[q]}
  <2>1. CASE UNCHANGED <<cachedApp, object>>
    BY <1>1, <2>1 DEF TypeOK
  <2>2. CASE AADApplicationObjectID(r)
    <3>1. /\ cachedApp' \in [Runs -> Apps \cup {None}]
          /\ object' \in [Runs -> Apps \cup {Empty, None}]
          /\ \A q \in Runs \ {r} : object'[q] = object[q] /\ cachedApp'[q] = cachedApp[q]
          /\ object'[r] \in Apps => object'[r] \in {opt[r].objectID, cachedApp'[r]}
      BY <1>1, <2>2, ObjectIDEffect
    <3> QED
      BY <1>1, <3>1 DEF TypeOK
  <2> QED
    BY <2>1, <2>2
<1>3. TypeOK'
  BY <1>0, <1>1, <1>2 DEF TypeOK
<1>4. ASSUME NEW q \in Runs PROVE Placed(q)' /\ Passed(q)'
  <2>1. CASE q = r
    BY <2>1
  <2>2. CASE q # r
    <3>1. pc'[q] = pc[q] /\ object'[q] = object[q] /\ opt'[q] = opt[q] /\ Target(q)' = Target(q)
      BY <1>0, <1>1, <2>2 DEF TypeOK, Target
    <3>2. Placed(q) /\ Passed(q)
      BY <1>1
    <3>3. Placed(q)'
      BY <3>1, <3>2 DEF Placed
    <3>4. Passed(q)'
      BY <3>1, <3>2 DEF Passed
    <3> QED
      BY <3>3, <3>4
  <2> QED
    BY <2>1, <2>2
<1>5. NoDanglingAnnotation'
  BY <1>1, AzureAssumption DEF NoDanglingAnnotation
<1> QED
  BY <1>3, <1>4, <1>5 DEF IInv

\* The step of one run, by its actions.
LEMMA IInvDeleteStep ==
    ASSUME IInv, NEW r \in Runs, DeleteStep(r)
    PROVE  IInv'
<1> DEFINE PC == {"start"} \cup PhaseNames \cup Steps \cup Ended
<1> DEFINE mine == DeletePhases(opt[r])
<1>1. /\ TypeOK /\ CloudTypeOK /\ NoDanglingAnnotation
      /\ Placed(r) /\ Passed(r)
      /\ cachedApp \in [Runs -> Apps \cup {None}]
      /\ object \in [Runs -> Apps \cup {Empty, None}]
  BY DEF IInv, TypeOK
<1>2. /\ PhaseNames \subseteq PC
      /\ {"done", "refused", "failed", "unlisted", "gone", "interrupted"} \subseteq PC
      /\ {"getFIC", "deleteFIC", "deleteSA", "objectAgain", "deleteApp"} \subseteq PC
  BY DEF Ended, Steps
<1> HIDE DEF PC
\* r's place in the next state.
<1>3. ASSUME NEW s, pc' = [pc EXCEPT ![r] = s] PROVE pc'[r] = s
  BY <1>1, <1>3 DEF TypeOK
\* A run that ends badly has nothing to show.
<1>4. ASSUME NEW s \in {"refused", "failed", "unlisted", "gone", "interrupted"},
             pc' = [pc EXCEPT ![r] = s]
      PROVE  Placed(r)' /\ Passed(r)'
  BY <1>3, <1>4
     DEF Placed, Passed, PastAssignment, PastCredential, PastAccount, PastApplication
<1>5. CASE Begin(r)
  <2> DEFINE first == Following(DeleteOrder, mine, 0)
  <2>1. /\ UNCHANGED <<apps, principals, fics, role, sa, opt, cachedApp, object>>
        /\ CloudTypeOK'
    BY <1>1, <1>5 DEF Begin, CloudTypeOK, cloud
  <2>2. CASE Go(r, "refused")
    BY <1>1, <1>2, <1>4, <2>1, <2>2, Move DEF PC, Go
  <2>3. CASE Go(r, first)
    <3>1. /\ first \in (PhaseNames \cap mine) \cup {"done"}
          /\ "role-assignment" \in mine => first \notin PastAssignment
          /\ "federated-identity" \in mine => first \notin PastCredential
          /\ "service-account" \in mine => first \notin PastAccount
          /\ "aad-application" \in mine => first \notin PastApplication
      BY FollowingCases
    <3> HIDE DEF first
    <3>2. pc' = [pc EXCEPT ![r] = first] /\ pc'[r] = first
      BY <1>3, <2>3 DEF Go
    <3>3. Placed(r)'
      BY <2>1, <3>1, <3>2 DEF Placed, PhaseNames, PastAssignment, PastCredential, PastAccount,
                              PastApplication
    <3>4. Passed(r)'
      BY <2>1, <3>1, <3>2 DEF Passed
    <3>5. first \in PC
      BY <1>2, <3>1
    <3> QED
      BY <1>1, <2>1, <3>2, <3>3, <3>4, <3>5, Move DEF PC
  <2> QED
    BY <1>5, <2>2, <2>3 DEF Begin
<1>6. CASE DeleteRoleAssignment(r)
  <2>1. /\ UNCHANGED <<apps, principals, fics, sa, opt, cachedApp, object>>
        /\ role' = role \ {opt[r].assignment}
        /\ CloudTypeOK'
    BY <1>1, <1>6 DEF DeleteRoleAssignment, CloudTypeOK
  <2>2. CASE Go(r, "failed")
    BY <1>1, <1>2, <1>4, <2>1, <2>2, Move DEF PC, Go
  <2>3. CASE After(r, "role-assignment")
    <3>1. PICK s \in (PhaseNames \cap mine) \cup {"done"} :
            /\ pc' = [pc EXCEPT ![r] = s]
            /\ "federated-identity" \in mine => s \notin PastCredential
            /\ "service-account" \in mine => s \notin PastAccount
            /\ "aad-application" \in mine => s \notin PastApplication
      BY <2>3, AfterCases DEF PhaseNames
    <3>2. pc'[r] = s /\ s \in PC
      BY <1>2, <1>3, <3>1
    <3>3. Placed(r)'
      BY <2>1, <3>1, <3>2 DEF Placed, PhaseNames, PastAssignment, PastCredential, PastAccount,
                              PastApplication
    <3>4. Passed(r)'
      BY <2>1, <3>1, <3>2 DEF Passed
    <3> QED
      BY <1>1, <2>1, <3>1, <3>2, <3>3, <3>4, Move DEF PC
  <2> QED
    BY <1>6, <2>2, <2>3 DEF DeleteRoleAssignment
<1>7. CASE ReadObject(r) \/ ReadObjectToLog(r) \/ ReadObjectAgain(r)
  <2>1. /\ UNCHANGED <<apps, principals, fics, role, sa, opt>>
        /\ CloudTypeOK'
        /\ AADApplicationObjectID(r)
    BY <1>1, <1>7 DEF ReadObject, ReadObjectToLog, ReadObjectAgain, CloudTypeOK, cloud
  <2>2. /\ cachedApp' \in [Runs -> Apps \cup {None}]
        /\ object' \in [Runs -> Apps \cup {Empty, None}]
        /\ \A q \in Runs \ {r} : object'[q] = object[q]
        /\ object'[r] = Target(r)'
    BY <1>1, <2>1, ObjectIDEffect DEF Target
  <2>3. PICK s \in {"getFIC", "objectAgain", "deleteApp"} :
          /\ pc' = [pc EXCEPT ![r] = s]
          /\ s = "getFIC" => pc[r] = "federated-identity"
          /\ s # "getFIC" => pc[r] \in {"aad-application", "objectAgain"}
    BY <1>7 DEF ReadObject, ReadObjectToLog, ReadObjectAgain, Go
  <2>4. pc'[r] = s /\ s \in PC
    BY <1>2, <1>3, <2>3
  <2>5. /\ s = "getFIC" => "federated-identity" \in mine
        /\ s # "getFIC" => "aad-application" \in mine
    BY <1>1, <2>3 DEF Placed, PastAssignment, PastCredential, PastAccount, PastApplication
  <2>6. Placed(r)'
    BY <2>1, <2>2, <2>3, <2>4, <2>5
       DEF Placed, PastAssignment, PastCredential, PastAccount, PastApplication
  <2>7. /\ s # "getFIC" => "federated-identity" \notin mine
        /\ pc[r] \in PastAssignment
        /\ s # "getFIC" => pc[r] \in PastAccount
    BY <2>3, <2>5, PhasesOfRun DEF PastAssignment, PastCredential, PastAccount, PastApplication
  <2>8. /\ s \notin PastApplication
        /\ s = "getFIC" => s \notin PastCredential /\ s \notin PastAccount
    BY <2>3 DEF PastCredential, PastAccount, PastApplication
  <2>9. Passed(r)'
    BY <1>1, <2>1, <2>4, <2>7, <2>8 DEF Passed
  <2> QED
    BY <1>1, <2>1, <2>2, <2>3, <2>4, <2>6, <2>9, Move DEF PC
<1>8. CASE GetFederatedCredential(r) \/ DeleteFederatedCredential(r)
  <2>1. /\ UNCHANGED <<apps, principals, role, sa, opt, cachedApp, object>>
        /\ fics' = fics \/ fics' = fics \ {object[r]}
        /\ CloudTypeOK'
        /\ pc[r] \in {"getFIC", "deleteFIC"}
    BY <1>1, <1>8 DEF GetFederatedCredential, DeleteFederatedCredential, CloudTypeOK, cloud
  <2>2. /\ "federated-identity" \in mine /\ object[r] = Target(r) /\ Target(r)' = Target(r)
        /\ pc[r] \in PastAssignment
    BY <1>1, <2>1
       DEF Placed, Target, PastAssignment, PastCredential, PastAccount, PastApplication
  <2>3. CASE Go(r, "failed") \/ Go(r, "gone") \/ Go(r, "unlisted")
    <3>1. PICK s \in {"failed", "gone", "unlisted"} : pc' = [pc EXCEPT ![r] = s]
      BY <2>3 DEF Go
    <3> QED
      BY <1>1, <1>2, <1>4, <2>1, <3>1, Move DEF PC
  <2>4. CASE pc[r] = "getFIC" /\ Go(r, "deleteFIC") /\ fics' = fics
    <3>1. pc'[r] = "deleteFIC" /\ pc' = [pc EXCEPT ![r] = "deleteFIC"]
      BY <1>3, <2>4 DEF Go
    <3>2. Placed(r)'
      BY <2>1, <2>2, <3>1
         DEF Placed, PastAssignment, PastCredential, PastAccount, PastApplication
    <3>3. "deleteFIC" \notin PastCredential \cup PastAccount \cup PastApplication
      BY DEF PastCredential, PastAccount, PastApplication
    <3>4. Passed(r)'
      BY <1>1, <2>1, <2>2, <3>1, <3>3 DEF Passed
    <3> QED
      BY <1>1, <1>2, <2>1, <3>1, <3>2, <3>4, Move DEF PC
  <2>5. CASE After(r, "federated-identity") /\ Target(r) \notin fics'
    <3>1. PICK s \in (PhaseNames \cap mine) \cup {"done"} :
            /\ pc' = [pc EXCEPT ![r] = s]
            /\ "service-account" \in mine => s \notin PastAccount
            /\ "aad-application" \in mine => s \notin PastApplication
      BY <2>5, AfterCases DEF PhaseNames
    <3>2. pc'[r] = s /\ s \in PC
      BY <1>2, <1>3, <3>1
    <3>3. Placed(r)'
      BY <2>1, <3>1, <3>2 DEF Placed, PhaseNames, PastAssignment, PastCredential, PastAccount,
                              PastApplication
    <3>4. Passed(r)'
      BY <1>1, <2>1, <2>2, <2>5, <3>1, <3>2 DEF Passed
    <3> QED
      BY <1>1, <2>1, <3>1, <3>2, <3>3, <3>4, Move DEF PC
  <2>6. CASE GetFederatedCredential(r)
    <3>1. fics' = fics
      BY <2>6 DEF GetFederatedCredential, cloud
    <3>2. object[r] \notin apps => Target(r) \notin fics
      BY <1>1, <2>2 DEF CloudTypeOK
    <3> QED
      BY <2>3, <2>4, <2>5, <2>6, <3>1, <3>2 DEF GetFederatedCredential
  <2>7. CASE DeleteFederatedCredential(r)
    <3>1. Target(r) \notin fics'
      BY <2>2, <2>7 DEF DeleteFederatedCredential
    <3> QED
      BY <2>3, <2>5, <2>7, <3>1 DEF DeleteFederatedCredential
  <2> QED
    BY <1>8, <2>6, <2>7
<1>9. CASE GetServiceAccount(r) \/ DeleteServiceAccount(r)
  <2>1. /\ UNCHANGED <<apps, principals, fics, role, opt, cachedApp, object>>
        /\ sa' \in {sa, Absent}
        /\ CloudTypeOK'
        /\ pc[r] \in {"service-account", "deleteSA"}
    BY <1>1, <1>9 DEF GetServiceAccount, DeleteServiceAccount, CloudTypeOK, cloud
  <2>2. pc[r] \in PastAssignment /\ pc[r] \in PastCredential /\ Target(r)' = Target(r)
    BY <2>1 DEF PastAssignment, PastCredential, Target
  <2>3. CASE Go(r, "failed")
    BY <1>1, <1>2, <1>4, <2>1, <2>3, Move DEF PC, Go
  <2>4. CASE Go(r, "deleteSA")
    <3>1. pc'[r] = "deleteSA" /\ pc' = [pc EXCEPT ![r] = "deleteSA"]
      BY <1>3, <2>4 DEF Go
    <3>2. Placed(r)'
      BY <3>1 DEF Placed, PastAssignment, PastCredential, PastAccount, PastApplication
    <3>3. "deleteSA" \notin PastAccount \cup PastApplication
      BY DEF PastAccount, PastApplication
    <3>4. Passed(r)'
      BY <1>1, <2>1, <2>2, <3>1, <3>3 DEF Passed
    <3> QED
      BY <1>1, <1>2, <2>1, <3>1, <3>2, <3>4, Move DEF PC
  <2>5. CASE After(r, "service-account") /\ sa' = Absent
    <3>1. PICK s \in (PhaseNames \cap mine) \cup {"done"} :
            /\ pc' = [pc EXCEPT ![r] = s]
            /\ "aad-application" \in mine => s \notin PastApplication
      BY <2>5, AfterCases DEF PhaseNames
    <3>2. pc'[r] = s /\ s \in PC
      BY <1>2, <1>3, <3>1
    <3>3. Placed(r)'
      BY <2>1, <3>1, <3>2 DEF Placed, PhaseNames, PastAssignment, PastCredential, PastAccount,
                              PastApplication
    <3>4. Passed(r)'
      BY <1>1, <2>1, <2>2, <2>5, <3>1, <3>2 DEF Passed
    <3> QED
      BY <1>1, <2>1, <3>1, <3>2, <3>3, <3>4, Move DEF PC
  <2>6. CASE GetServiceAccount(r)
    BY <2>4, <2>5, <2>6 DEF GetServiceAccount, cloud
  <2>7. CASE DeleteServiceAccount(r)
    BY <2>3, <2>5, <2>7 DEF DeleteServiceAccount
  <2> QED
    BY <1>9, <2>6, <2>7
<1>10. CASE DeleteApplication(r)
  <2>1. /\ UNCHANGED <<role, sa, opt, cachedApp, object>>
        /\ apps' = apps \ {object[r]} /\ fics' = fics \ {object[r]}
        /\ CloudTypeOK'
        /\ pc[r] = "deleteApp"
    BY <1>1, <1>10 DEF DeleteApplication, CloudTypeOK
  <2>2. /\ "aad-application" \in mine /\ object[r] = Target(r) /\ Target(r)' = Target(r)
        /\ "federated-identity" \notin mine
        /\ pc[r] \in PastAssignment /\ pc[r] \in PastAccount
    BY <1>1, <2>1, PhasesOfRun
       DEF Placed, Target, PastAssignment, PastCredential, PastAccount, PastApplication
  \* The service account went first, if this run and the others take it at all.
  <2>3. NoDanglingAnnotation'
    <3>1. ASSUME "service-account" \in Active(opt[r]) PROVE sa = Absent
      BY <1>1, <2>2, <3>1, PhasesOfRun DEF Passed
    <3>2. "aad-application" \in Active(opt[r])
      BY <2>2, PhasesOfRun
    <3> QED
      BY <2>1, <3>1, <3>2, AzureAssumption DEF NoDanglingAnnotation
  <2>4. CASE Go(r, "failed") \/ Go(r, "gone")
    <3>1. PICK s \in {"failed", "gone"} : pc' = [pc EXCEPT ![r] = s]
      BY <2>4 DEF Go
    <3> QED
      BY <1>1, <1>2, <1>4, <2>1, <2>3, <3>1, Move DEF PC
  <2>5. CASE After(r, "aad-application") /\ object[r] \in apps
    <3>1. PICK s \in (PhaseNames \cap mine) \cup {"done"} : pc' = [pc EXCEPT ![r] = s]
      BY <2>5, AfterCases DEF PhaseNames
    <3>2. pc'[r] = s /\ s \in PC
      BY <1>2, <1>3, <3>1
    <3>3. Placed(r)'
      BY <2>1, <3>1, <3>2 DEF Placed, PhaseNames, PastAssignment, PastCredential, PastAccount,
                              PastApplication
    <3>4. Target(r) \in Apps \ apps'
      BY <1>1, <2>1, <2>2, <2>5 DEF CloudTypeOK
    <3>5. Passed(r)'
      BY <1>1, <2>1, <2>2, <3>2, <3>4 DEF Passed
    <3> QED
      BY <1>1, <2>1, <2>3, <3>1, <3>2, <3>3, <3>5, Move DEF PC
  <2> QED
    BY <1>10, <2>4, <2>5 DEF DeleteApplication
<1>11. CASE CallFails(r) \/ Interrupt(r)
  <2>1. PICK s \in {"failed", "interrupted"} : pc' = [pc EXCEPT ![r] = s]
    BY <1>11 DEF CallFails, Interrupt, Go
  <2>2. /\ UNCHANGED <<apps, principals, fics, role, sa, opt, cachedApp, object>>
        /\ CloudTypeOK'
    BY <1>1, <1>11 DEF CallFails, Interrupt, CloudTypeOK, cloud
  <2> QED
    BY <1>1, <1>2, <1>4, <2>1, <2>2, Move DEF PC
<1> QED
  BY <1>5, <1>6, <1>7, <1>8, <1>9, <1>10, <1>11 DEF DeleteStep

LEMMA IInvStep == IInv /\ [Next]_vars => IInv'
<1> SUFFICES ASSUME IInv, [Next]_vars PROVE IInv'
  OBVIOUS
<1>1. CASE Next
  BY <1>1, IInvDeleteStep DEF Next
<1>2. CASE UNCHANGED vars
  <2>1. UNCHANGED <<apps, principals, fics, role, sa, opt, pc, cachedApp, object>>
    BY <1>2 DEF vars, cloud
  <2>2. TypeOK'
    BY <2>1 DEF IInv, TypeOK, CloudTypeOK
  <2>3. \A r \in Runs : Placed(r)' /\ Passed(r)'
    BY <2>1 DEF IInv, Placed, Passed, Target
  <2>4. NoDanglingAnnotation'
    BY <2>1 DEF IInv, NoDanglingAnnotation
  <2> QED
    BY <2>2, <2>3, <2>4 DEF IInv
<1> QED
  BY <1>1, <1>2

-----------------------------------------------------------------------------
LEMMA Invariance == Spec => []IInv
<1> QED
  BY IInvInit, IInvStep, PTL DEF Spec

\* Every state of the runs and the cloud has the types of the model: no deletion
\* leaves a credential or a principal of an application that is gone
\* (phases/delete).
THEOREM TypeOKThm == Spec => []TypeOK
<1>1. IInv => TypeOK
  BY DEF IInv
<1> QED
  BY <1>1, Invariance, PTL

\* A run that ends well has left nothing of what it was asked to delete, for any
\* number of runs, at the same time or not, with any flags, failures and stale
\* listings: also the credential, for which delete.go has no phase when the
\* application goes, and although the phases take "not found" for success.
THEOREM DoneMeansGoneThm == Spec => []DoneMeansGone
<1>1. ASSUME IInv PROVE DoneMeansGone
  <2>1. ASSUME NEW r \in Runs, pc[r] = "done"
        PROVE  /\ "role-assignment" \in Active(opt[r]) => opt[r].assignment \notin role
               /\ "service-account" \in Active(opt[r]) => sa = Absent
               /\ "federated-identity" \in Active(opt[r]) => Target(r) \notin fics
               /\ "aad-application" \in Active(opt[r]) => Target(r) \in Apps \ apps
    <3>1. Passed(r) /\ fics \subseteq apps
      BY <1>1 DEF IInv, TypeOK, CloudTypeOK
    <3>2. /\ pc[r] \in PastAssignment /\ pc[r] \in PastCredential
          /\ pc[r] \in PastAccount /\ pc[r] \in PastApplication
      BY <2>1 DEF PastAssignment, PastCredential, PastAccount, PastApplication
    <3>3. CASE "aad-application" \in DeletePhases(opt[r])
      BY <3>1, <3>2, <3>3, PhasesOfRun DEF Passed
    <3>4. CASE "aad-application" \notin DeletePhases(opt[r])
      BY <3>1, <3>2, <3>4, PhasesOfRun DEF Passed
    <3> QED
      BY <3>3, <3>4
  <2> QED
    BY <2>1 DEF DoneMeansGone
<1> QED
  BY <1>1, Invariance, PTL

\* Wherever runs stop, the service account never names an application that is
\* gone, as long as no run takes the application without the service account:
\* delete.go has the application last.
THEOREM NoDanglingAnnotationThm == Spec => []NoDanglingAnnotation
<1>1. IInv => NoDanglingAnnotation
  BY DEF IInv
<1> QED
  BY <1>1, Invariance, PTL
=============================================================================
