------------------------- MODULE ProxyServer_proofs -------------------------
(***************************************************************************)
(* Proofs about ProxyServer, for any number of requests, attempts, starts  *)
(* and crashes.                                                            *)
(***************************************************************************)
EXTENDS ProxyServer, TLAPS

\* A process that does not run Run has no listener, one that is over had one
\* at most; the probe has attempts left; withShutdownSignal hears only what is
\* counted.
Shape ==
    /\ proc \in {"waiting", "flags", "setup"} => listener = "none"
    /\ proc \in {"draining", "exited"} => listener = "closed"
    /\ proc = "running" => listener # "closed"
    /\ hook = "probing" => tries < RetryCount
    /\ heard => signals = 1

\* Requests are under way only in a process that has listened.
Accepted ==
    \A r \in Requests : req[r] \in UnderWay =>
        proc \in {"running", "draining"} /\ listener # "none"

\* A native sidecar gets a signal after a failed hook, or after the
\* application.
Quiet == native => signals = 0 \/ hook = "failed" \/ app = "ended"

\* Without crashes and with a free port such a sidecar serves from its
\* successful probe to the end of the application, which runs at no other time.
Sound == native /\ port = "free" /\ crashes = 0

Serves ==
    Sound /\ app # "ended" =>
        /\ hook = "ok" => proc = "running" /\ listener = "open" /\ signals = 0
        /\ app = "running" => hook = "ok"

IInv == TypeOK /\ Shape /\ Accepted /\ Quiet /\ Serves /\ NoRefusal /\ PartialIsError

-----------------------------------------------------------------------------
\* The types of TypeOK by name.
Replies == [status : Seq({"200", "400", "500", "IMDS"}), body : Seq({"token", "error", "part", "whole"})]
ReqStates == {"unsent", "refused", "cut", "answered"} \cup UnderWay

LEMMA IInvInit == Init => IInv
<1> SUFFICES ASSUME Init PROVE IInv
  OBVIOUS
<1> USE ProxyAssumption DEF Init
<1>1. TypeOK
  <2>1. [status |-> <<>>, body |-> <<>>] \in Replies
    BY DEF Replies
  <2>2. reply \in [Requests -> Replies]
    BY <2>1
  <2>3. tries \in 0..RetryCount /\ starts \in 0..MaxStarts /\ crashes \in 0..MaxCrashes
    OBVIOUS
  <2>4. heard \in BOOLEAN /\ deadline \in BOOLEAN /\ deleted \in BOOLEAN
    BY Zenon
  <2>5. req \in [Requests -> ReqStates]
    BY DEF ReqStates
  <2>6. signals \in 0..1
    OBVIOUS
  <2> HIDE DEF Init
  <2>7. /\ native \in BOOLEAN /\ tenant \in BOOLEAN /\ port \in {"free", "busy", "ready"}
        /\ proc = "waiting" /\ listener = "none" /\ hook = "none" /\ app = "waiting"
    BY DEF Init
  <2> QED
    BY <2>2, <2>3, <2>4, <2>5, <2>6, <2>7 DEF TypeOK, Replies, ReqStates
<1>2. Shape /\ Accepted /\ Quiet /\ Serves /\ NoRefusal /\ PartialIsError
  BY DEF Shape, Accepted, UnderWay, Quiet, Serves, NoRefusal, PartialIsError
<1> QED
  BY <1>1, <1>2 DEF IInv

\* When the process ends, no request is under way, and none becomes refused.
LEMMA ExitEffect ==
    ASSUME TypeOK, Exit
    PROVE  /\ req' \in [Requests -> ReqStates]
           /\ \A r \in Requests : /\ req'[r] \notin UnderWay
                                  /\ req'[r] = "refused" => req[r] = "refused"
                                  /\ req'[r] = "cut" => req[r] = "cut" \/ req[r] \in UnderWay
           /\ proc' = "exited" /\ listener' = "closed"
           /\ signals' = signals /\ heard' = heard /\ deadline' = deadline /\ reply' = reply
  BY DEF Exit, TypeOK, ReqStates, UnderWay

\* A handler that answers keeps the invariant when the status of IMDS, if it is
\* the first, comes with the whole body.
LEMMA AnswerKeeps ==
    ASSUME IInv, NEW q \in Requests, req[q] \in UnderWay,
           NEW statuses \in Seq({"200", "400", "500", "IMDS"}),
           NEW body \in Seq({"token", "error", "part", "whole"}),
           statuses # <<>> /\ Head(statuses) = "IMDS" => body = <<"whole">>,
           Answer(q, statuses, body), UNCHANGED <<pod, process, probing, kubelet, crashes>>
    PROVE  IInv'
<1> USE DEF IInv, Answer, pod, process, probing, kubelet
<1>1. TypeOK'
  <2>1. [status |-> statuses, body |-> body] \in Replies
    BY DEF Replies
  <2>2. reply' \in [Requests -> Replies]
    BY <2>1 DEF TypeOK, Replies
  <2>3. req' \in [Requests -> ReqStates]
    BY DEF TypeOK, ReqStates
  <2> QED
    BY <2>2, <2>3 DEF TypeOK, ReqStates, Replies
<1>2. Shape' /\ Accepted' /\ Quiet' /\ Serves' /\ NoRefusal'
  BY DEF TypeOK, Shape, Accepted, UnderWay, Quiet, Serves, Sound, NoRefusal
<1>3. PartialIsError'
  BY DEF TypeOK, PartialIsError
<1> QED
  BY <1>1, <1>2, <1>3

\* The answers of the handlers are such.
LEMMA Statuses ==
    /\ \A s \in {"200", "400", "500", "IMDS"} :
          <<s>> \in Seq({"200", "400", "500", "IMDS"}) /\ Head(<<s>>) = s
    /\ <<"500", "IMDS">> \in Seq({"200", "400", "500", "IMDS"}) /\ Head(<<"500", "IMDS">>) = "500"
    /\ \A b \in {"token", "error", "part", "whole"} :
          <<b>> \in Seq({"token", "error", "part", "whole"})
    /\ <<"error", "part">> \in Seq({"token", "error", "part", "whole"})
  OBVIOUS

LEMMA IInvStep == IInv /\ [Next]_vars => IInv'
<1> SUFFICES ASSUME IInv, [Next]_vars PROVE IInv'
  OBVIOUS
<1> USE ProxyAssumption DEF IInv, pod, process, probing, serving, kubelet
<1>1. CASE SetupSignalHandler
  <2>1. TypeOK'
    BY <1>1 DEF SetupSignalHandler, TypeOK, Shape, ReqStates
  <2>2. Shape' /\ Accepted' /\ Quiet' /\ Serves'
    BY <1>1 DEF SetupSignalHandler, TypeOK, Shape, Accepted, Quiet, Serves, Sound
  <2>3. NoRefusal' /\ PartialIsError'
    BY <1>1 DEF SetupSignalHandler, TypeOK, Serves, Sound, NoRefusal, PartialIsError
  <2> QED
    BY <2>1, <2>2, <2>3
<1>2. CASE Setup
  <2>1. TypeOK'
    BY <1>2, ExitEffect DEF Setup, TypeOK, Shape, ReqStates
  <2>2. Shape' /\ Accepted' /\ Quiet' /\ Serves'
    BY <1>2, ExitEffect DEF Setup, TypeOK, Shape, Accepted, Quiet, Serves, Sound
  <2>3. NoRefusal' /\ PartialIsError'
    BY <1>2, ExitEffect DEF Setup, TypeOK, Serves, Sound, NoRefusal, PartialIsError
  <2> QED
    BY <2>1, <2>2, <2>3
<1>3. CASE ListenAndServe
  <2>1. TypeOK'
    BY <1>3, ExitEffect DEF ListenAndServe, TypeOK, Shape, ReqStates
  <2>2. Shape' /\ Accepted' /\ Quiet' /\ Serves'
    BY <1>3, ExitEffect DEF ListenAndServe, TypeOK, Shape, Accepted, Quiet, Serves, Sound
  <2>3. NoRefusal' /\ PartialIsError'
    BY <1>3, ExitEffect DEF ListenAndServe, TypeOK, Serves, Sound, NoRefusal, PartialIsError
  <2> QED
    BY <2>1, <2>2, <2>3
<1>4. CASE BeginShutdown
  <2>1. TypeOK'
    BY <1>4 DEF BeginShutdown, TypeOK, Shape, ReqStates
  <2>2. Shape' /\ Accepted' /\ Quiet' /\ Serves'
    BY <1>4 DEF BeginShutdown, TypeOK, Shape, Accepted, Quiet, Serves, Sound
  <2>3. NoRefusal' /\ PartialIsError'
    BY <1>4 DEF BeginShutdown, TypeOK, Serves, Sound, NoRefusal, PartialIsError
  <2> QED
    BY <2>1, <2>2, <2>3
<1>5. CASE DeadlinePasses
  <2>1. TypeOK'
    BY <1>5 DEF DeadlinePasses, TypeOK, Shape, ReqStates
  <2>2. Shape' /\ Accepted' /\ Quiet' /\ Serves'
    BY <1>5 DEF DeadlinePasses, TypeOK, Shape, Accepted, Quiet, Serves, Sound
  <2>3. NoRefusal' /\ PartialIsError'
    BY <1>5 DEF DeadlinePasses, TypeOK, Serves, Sound, NoRefusal, PartialIsError
  <2> QED
    BY <2>1, <2>2, <2>3
<1>6. CASE EndShutdown
  <2>1. TypeOK'
    BY <1>6, ExitEffect DEF EndShutdown, TypeOK, Shape, ReqStates
  <2>2. Shape' /\ Accepted' /\ Quiet' /\ Serves'
    BY <1>6, ExitEffect DEF EndShutdown, TypeOK, Shape, Accepted, Quiet, Serves, Sound
  <2>3. NoRefusal' /\ PartialIsError'
    BY <1>6, ExitEffect DEF EndShutdown, TypeOK, Serves, Sound, NoRefusal, PartialIsError
  <2> QED
    BY <2>1, <2>2, <2>3
<1>7. CASE probe
  <2>1. TypeOK'
    BY <1>7 DEF probe, TypeOK, Shape, ReqStates
  <2>2. Shape' /\ Accepted' /\ Quiet' /\ Serves'
    BY <1>7 DEF probe, TypeOK, Shape, Accepted, Quiet, Serves, Sound
  <2>3. NoRefusal' /\ PartialIsError'
    BY <1>7 DEF probe, TypeOK, Serves, Sound, NoRefusal, PartialIsError
  <2> QED
    BY <2>1, <2>2, <2>3
<1>8. CASE StartProxy
  <2>1. TypeOK'
    <3>1. starts' \in 0..MaxStarts /\ tries' \in 0..RetryCount
      BY <1>8 DEF StartProxy, TypeOK
    <3>2. heard' \in BOOLEAN /\ deadline' \in BOOLEAN
      BY <1>8, Zenon DEF StartProxy
    <3>3. signals' \in 0..1
      BY <1>8 DEF StartProxy
    <3> QED
      BY <1>8, <3>1, <3>2, <3>3 DEF StartProxy, TypeOK
  <2>2. Shape' /\ Accepted' /\ Quiet' /\ Serves'
    BY <1>8 DEF StartProxy, TypeOK, Shape, Accepted, Quiet, Serves, Sound
  <2>3. NoRefusal' /\ PartialIsError'
    BY <1>8 DEF StartProxy, TypeOK, Serves, Sound, NoRefusal, PartialIsError
  <2> QED
    BY <2>1, <2>2, <2>3
<1>9. CASE StartApp
  <2>1. TypeOK'
    BY <1>9 DEF StartApp, TypeOK, Shape, ReqStates
  <2>2. Shape' /\ Accepted' /\ Quiet' /\ Serves'
    BY <1>9 DEF StartApp, TypeOK, Shape, Accepted, Quiet, Serves, Sound
  <2>3. NoRefusal' /\ PartialIsError'
    BY <1>9 DEF StartApp, TypeOK, Serves, Sound, NoRefusal, PartialIsError
  <2> QED
    BY <2>1, <2>2, <2>3
<1>10. CASE DeletePod
  <2>1. TypeOK'
    BY <1>10 DEF DeletePod, TypeOK, Shape, ReqStates
  <2>2. Shape' /\ Accepted' /\ Quiet' /\ Serves'
    BY <1>10 DEF DeletePod, TypeOK, Shape, Accepted, Quiet, Serves, Sound
  <2>3. NoRefusal' /\ PartialIsError'
    BY <1>10 DEF DeletePod, TypeOK, Serves, Sound, NoRefusal, PartialIsError
  <2> QED
    BY <2>1, <2>2, <2>3
<1>11. CASE EndApp
  <2>1. TypeOK'
    BY <1>11 DEF EndApp, TypeOK, Shape, ReqStates
  <2>2. Shape' /\ Accepted' /\ Quiet' /\ Serves'
    BY <1>11 DEF EndApp, TypeOK, Shape, Accepted, Quiet, Serves, Sound
  <2>3. NoRefusal' /\ PartialIsError'
    BY <1>11 DEF EndApp, TypeOK, Serves, Sound, NoRefusal, PartialIsError
  <2> QED
    BY <2>1, <2>2, <2>3
<1>12. CASE Signal
  <2>1. TypeOK'
    <3>1. CASE Exit
      BY <1>12, <3>1, ExitEffect DEF Signal, TypeOK, ReqStates
    <3>2. CASE ~Exit
      <4>1. heard' \in BOOLEAN
        BY <1>12, <3>2, Zenon DEF Signal
      <4>2. signals' \in 0..1
        BY <1>12, <3>2 DEF Signal
      <4>3. UNCHANGED <<proc, listener, deadline, serving>>
        BY <1>12, <3>2 DEF Signal
      <4> QED
        BY <1>12, <4>1, <4>2, <4>3 DEF Signal, TypeOK
    <3> QED
      BY <3>1, <3>2
  <2>2. Shape' /\ Accepted' /\ Quiet' /\ Serves'
    BY <1>12, ExitEffect DEF Signal, Alive, Reasons, TypeOK, Shape, Accepted, Quiet, Serves, Sound
  <2>3. NoRefusal' /\ PartialIsError'
    BY <1>12, ExitEffect DEF Signal, Alive, Reasons, TypeOK, Serves, Sound, NoRefusal, PartialIsError
  <2> QED
    BY <2>1, <2>2, <2>3
<1>13. CASE Kill
  <2>1. TypeOK'
    BY <1>13, ExitEffect DEF Kill, Alive, Reasons, TypeOK, Shape, ReqStates
  <2>2. Shape' /\ Accepted' /\ Quiet' /\ Serves'
    BY <1>13, ExitEffect DEF Kill, Alive, Reasons, TypeOK, Shape, Accepted, Quiet, Serves, Sound
  <2>3. NoRefusal' /\ PartialIsError'
    BY <1>13, ExitEffect DEF Kill, Alive, Reasons, TypeOK, Serves, Sound, NoRefusal, PartialIsError
  <2> QED
    BY <2>1, <2>2, <2>3
<1>14. CASE Crash
  <2>1. TypeOK'
    BY <1>14, ExitEffect DEF Crash, Alive, Reasons, TypeOK, Shape, ReqStates
  <2>2. Shape' /\ Accepted' /\ Quiet' /\ Serves'
    BY <1>14, ExitEffect DEF Crash, Alive, Reasons, TypeOK, Shape, Accepted, Quiet, Serves, Sound
  <2>3. NoRefusal' /\ PartialIsError'
    BY <1>14, ExitEffect DEF Crash, Alive, Reasons, TypeOK, Serves, Sound, NoRefusal, PartialIsError
  <2> QED
    BY <2>1, <2>2, <2>3
<1>15. ASSUME NEW q \in Requests, Send(q) PROVE IInv'
  <2>1. TypeOK'
    <3>1. PICK s \in {"token", "forward", "refused"} : req' = [req EXCEPT ![q] = s]
      BY <1>15 DEF Send
    <3>2. req' \in [Requests -> ReqStates]
      BY <3>1 DEF TypeOK, ReqStates, UnderWay
    <3> QED
      BY <1>15, <3>2 DEF Send, TypeOK, ReqStates
  <2>2. Shape' /\ Accepted' /\ Quiet' /\ Serves'
    BY <1>15 DEF Send, TypeOK, Shape, Accepted, UnderWay, Quiet, Serves, Sound
  <2>3. NoRefusal' /\ PartialIsError'
    BY <1>15 DEF Send, TypeOK, Serves, Sound, NoRefusal, PartialIsError
  <2> QED
    BY <2>1, <2>2, <2>3
<1>16. ASSUME NEW q \in Requests, msiHandler(q) PROVE IInv'
  <2>1. req[q] \in UnderWay
    BY <1>16 DEF msiHandler, UnderWay
  <2>2. CASE Answer(q, <<"200">>, <<"token">>)
    BY <1>16, <2>1, <2>2, AnswerKeeps, Statuses DEF msiHandler
  <2>3. CASE \E s \in {"400", "500"} : Answer(q, <<s>>, <<"error">>)
    BY <1>16, <2>1, <2>3, AnswerKeeps, Statuses DEF msiHandler
  <2> QED
    BY <1>16, <2>2, <2>3 DEF msiHandler, doTokenRequest
<1>17. ASSUME NEW q \in Requests, client_Do(q) PROVE IInv'
  <2>1. CASE Answer(q, <<"500">>, <<"error">>)
    <3>1. req[q] \in UnderWay
      BY <1>17 DEF client_Do, UnderWay
    <3> QED
      BY <1>17, <2>1, <3>1, AnswerKeeps, Statuses DEF client_Do
  <2>2. CASE req' = [req EXCEPT ![q] = "body"] /\ UNCHANGED reply
    <3>1. TypeOK'
      BY <1>17, <2>2 DEF client_Do, TypeOK, UnderWay
    <3>2. Shape' /\ Accepted' /\ Quiet' /\ Serves' /\ NoRefusal' /\ PartialIsError'
      BY <1>17, <2>2 DEF client_Do, TypeOK, Shape, Accepted, UnderWay, Quiet, Serves, Sound,
                         NoRefusal, PartialIsError
    <3> QED
      BY <3>1, <3>2
  <2> QED
    BY <1>17, <2>1, <2>2 DEF client_Do
<1>18. ASSUME NEW q \in Requests, ReadAll(q) PROVE IInv'
  <2>1. req[q] \in UnderWay
    BY <1>18 DEF ReadAll, UnderWay
  <2>2. CASE Answer(q, <<"IMDS">>, <<"whole">>)
    BY <1>18, <2>1, <2>2, AnswerKeeps, Statuses DEF ReadAll
  <2>3. CASE Answer(q, <<"500", "IMDS">>, <<"error", "part">>)
    BY <1>18, <2>1, <2>3, AnswerKeeps, Statuses DEF ReadAll
  <2> QED
    BY <1>18, <2>2, <2>3 DEF ReadAll
<1>19. CASE UNCHANGED vars
  <2>1. TypeOK'
    BY <1>19 DEF vars, TypeOK
  <2>2. Shape' /\ Accepted' /\ Quiet' /\ Serves' /\ NoRefusal' /\ PartialIsError'
    BY <1>19 DEF vars, Shape, Accepted, Quiet, Serves, Sound, NoRefusal, PartialIsError
  <2> QED
    BY <2>1, <2>2
<1> QED
  BY <1>1, <1>2, <1>3, <1>4, <1>5, <1>6, <1>7, <1>8, <1>9, <1>10, <1>11, <1>12, <1>13, <1>14,
     <1>15, <1>16, <1>17, <1>18, <1>19
  DEF Next, Process, Kubelet, Handler

LEMMA Invariance == Spec => []IInv
  BY IInvInit, IInvStep, PTL DEF Spec

\* The proxy's variables keep to their types: the probe makes no more attempts
\* than RetryCount, and handlers write only the replies modelled.
THEOREM TypeOKThm == Spec => []TypeOK
<1>1. IInv => TypeOK
  BY DEF IInv
<1> QED
  BY <1>1, Invariance, PTL

\* However many requests there are, the first status a client sees is that of
\* IMDS only with the whole body.
THEOREM PartialIsErrorThm == Spec => []PartialIsError
<1>1. IInv => PartialIsError
  BY DEF IInv
<1> QED
  BY <1>1, Invariance, PTL

\* For any number of requests, attempts and restarts: a native sidecar with a
\* free port that does not crash refuses no request of the application.
THEOREM NoRefusalThm == Spec => []NoRefusal
<1>1. IInv => NoRefusal
  BY DEF IInv
<1> QED
  BY <1>1, Invariance, PTL

\* The actions that end the process cut off requests only with one of the
\* reasons of CutOnlyLate; the others cut off nothing.
LEMMA CutStep ==
    ASSUME IInv, [Next]_vars, NEW q \in Requests, req[q] # "cut", req'[q] = "cut"
    PROVE  \/ deadline
           \/ signals = 1 /\ (~heard \/ (hook = "failed" /\ deleted))
           \/ crashes' > crashes
<1> USE DEF IInv, pod, process, probing, serving, kubelet
<1>1. Exit => req[q] \in UnderWay /\ proc \in {"running", "draining"} /\ listener # "none"
  BY ExitEffect DEF Accepted
<1>2. CASE Setup \/ ListenAndServe \/ EndShutdown
  BY <1>1, <1>2 DEF Setup, ListenAndServe, EndShutdown
<1>3. CASE Signal
  BY <1>1, <1>3 DEF Signal, Alive, Reasons, TypeOK
<1>4. CASE Kill \/ Crash
  BY <1>4 DEF Kill, Crash, TypeOK
<1>5. CASE \/ SetupSignalHandler \/ BeginShutdown \/ DeadlinePasses \/ probe
           \/ StartProxy \/ StartApp \/ DeletePod \/ EndApp \/ UNCHANGED vars
  BY <1>5 DEF SetupSignalHandler, BeginShutdown, DeadlinePasses, probe, StartProxy, StartApp,
              DeletePod, EndApp, vars
<1>6. ASSUME NEW r \in Requests, Send(r) \/ Handler(r)
      PROVE  FALSE
  BY <1>6 DEF Send, Handler, msiHandler, doTokenRequest, client_Do, ReadAll, Answer, TypeOK
<1> QED
  BY <1>2, <1>3, <1>4, <1>5, <1>6 DEF Next, Process, Kubelet

\* A request is cut off by the end of the 5 s, a second signal, a signal that
\* was lost between the two handlers, or a crash, and never by a shutdown
\* that could wait.
THEOREM CutOnlyLateThm == Spec => CutOnlyLate
<1>1. IInv /\ [Next]_vars =>
         [\A r \in Requests : req[r] # "cut" /\ req'[r] = "cut" =>
             \/ deadline
             \/ signals = 1 /\ (~heard \/ (hook = "failed" /\ deleted))
             \/ crashes' > crashes]_vars
  BY CutStep
<1> QED
  BY <1>1, Invariance, PTL DEF Spec, CutOnlyLate
=============================================================================
