---------------------------- MODULE ProxyServer ----------------------------
(***************************************************************************)
(* The life of the proxy sidecar in a pod (src/cmd/proxy/main.go,          *)
(* src/pkg/proxy/proxy.go and probe.go): its main goroutine, the goroutine *)
(* that listens, the handlers of its requests, the probe that the kubelet  *)
(* executes as the container's postStart hook, and signals.                *)
(*                                                                         *)
(* External: the kubelet, which starts the containers of the pod in order, *)
(* waits for the hook, kills a container whose hook failed and starts it   *)
(* again, and ends the containers when the pod is deleted: a native        *)
(* sidecar after the others, any other container together with them; the   *)
(* application, IMDS, and net/http, whose ResponseWriter keeps the first   *)
(* status.  What happens to credentials is in CredCache.                   *)
(***************************************************************************)
EXTENDS Naturals, Sequences

CONSTANTS
    Requests,
    RetryCount,   \* retryCount of the probe
    MaxStarts,    \* bound on the starts of the container
    MaxCrashes    \* bound on the times it dies for no reason modelled

ASSUME ProxyAssumption ==
    RetryCount \in Nat \ {0} /\ MaxStarts \in Nat /\ MaxCrashes \in Nat

VARIABLES
    native,     \* whether the proxy is a native sidecar
    tenant,     \* whether AZURE_TENANT_ID is set
    port,       \* "free", or another server has it, which answers readyz
                \* with 200 ("ready") or not ("busy")
    proc,       \* the process of the proxy
    listener,
    signals,    \* those that SetupSignalHandler received
    heard,      \* whether withShutdownSignal received one
    deadline,   \* whether the 5 s of the shutdown have passed
    hook,       \* the probe of the postStart hook
    tries,
    app,        \* the application's container
    deleted,    \* whether the pod is being deleted
    req,        \* where each request of the application is
    reply,      \* the statuses and the pieces of the body written for it
    starts, crashes

pod == <<native, tenant, port>>
process == <<proc, listener, signals, heard, deadline>>
probing == <<hook, tries>>
serving == <<req, reply>>
kubelet == <<app, deleted, starts>>
vars == <<pod, process, probing, serving, kubelet, crashes>>

UnderWay == {"token", "forward", "body"}

TypeOK ==
    /\ native \in BOOLEAN /\ tenant \in BOOLEAN /\ port \in {"free", "busy", "ready"}
    /\ proc \in {"waiting", "flags", "setup", "running", "draining", "exited"}
    /\ listener \in {"none", "open", "closed"}
    /\ signals \in 0..1 /\ heard \in BOOLEAN /\ deadline \in BOOLEAN
    /\ hook \in {"none", "probing", "ok", "failed"} /\ tries \in 0..RetryCount
    /\ app \in {"waiting", "running", "ended"} /\ deleted \in BOOLEAN
    /\ req \in [Requests -> {"unsent", "refused", "cut", "answered"} \cup UnderWay]
    /\ reply \in [Requests -> [status : Seq({"200", "400", "500", "IMDS"}),
                               body : Seq({"token", "error", "part", "whole"})]]
    /\ starts \in 0..MaxStarts /\ crashes \in 0..MaxCrashes

Init ==
    /\ native \in BOOLEAN /\ tenant \in BOOLEAN /\ port \in {"free", "busy", "ready"}
    /\ proc = "waiting" /\ listener = "none" /\ signals = 0 /\ heard = FALSE /\ deadline = FALSE
    /\ hook = "none" /\ tries = 0
    /\ app = "waiting" /\ deleted = FALSE
    /\ req = [r \in Requests |-> "unsent"]
    /\ reply = [r \in Requests |-> [status |-> <<>>, body |-> <<>>]]
    /\ starts = 0 /\ crashes = 0

-----------------------------------------------------------------------------
\* The process is gone, with it the requests under way.
Exit ==
    /\ proc' = "exited" /\ listener' = "closed"
    /\ req' = [r \in Requests |-> IF req[r] \in UnderWay THEN "cut" ELSE req[r]]
    /\ UNCHANGED <<signals, heard, deadline, reply>>

\* mainErr up to SetupSignalHandler.  Its flags are those of the webhook and of
\* detect, so it does not end here for --version or a log level nobody knows.
SetupSignalHandler ==
    /\ proc = "flags"
    /\ proc' = "setup"
    /\ UNCHANGED <<pod, listener, signals, heard, deadline, probing, serving, kubelet, crashes>>

\* mainErr up to Run, with withShutdownSignal and NewProxy, which needs the
\* tenant.
Setup ==
    /\ proc = "setup"
    /\ IF tenant
       THEN proc' = "running" /\ UNCHANGED <<listener, signals, heard, deadline, serving>>
       ELSE Exit
    /\ UNCHANGED <<pod, probing, kubelet, crashes>>

\* The goroutine of ListenAndServe: it panics when the port is taken.  Once
\* Shutdown was called it does not listen any more.
ListenAndServe ==
    /\ proc = "running" /\ listener = "none"
    /\ IF port = "free"
       THEN listener' = "open" /\ UNCHANGED <<proc, signals, heard, deadline, serving>>
       ELSE Exit
    /\ UNCHANGED <<pod, probing, kubelet, crashes>>

\* The context of withShutdownSignal ends, then the rest of Run: Shutdown closes
\* the listener, waits until no request is under way or 5 s have passed, and the
\* process ends.
BeginShutdown ==
    /\ proc = "running" /\ heard
    /\ proc' = "draining" /\ listener' = "closed"
    /\ UNCHANGED <<pod, signals, heard, deadline, probing, serving, kubelet, crashes>>

DeadlinePasses ==
    /\ proc = "draining" /\ ~deadline
    /\ deadline' = TRUE
    /\ UNCHANGED <<pod, proc, listener, signals, heard, probing, serving, kubelet, crashes>>

\* Mutant of EndShutdown: the process does not wait.
EndAtOnce ==
    /\ proc = "draining"
    /\ Exit
    /\ UNCHANGED <<pod, probing, kubelet, crashes>>

\* Mutant of EndShutdown: Shutdown has a context without a deadline.
EndWhenIdle ==
    /\ proc = "draining"
    /\ \A r \in Requests : req[r] \notin UnderWay
    /\ Exit
    /\ UNCHANGED <<pod, probing, kubelet, crashes>>

EndShutdown ==
    /\ proc = "draining"
    /\ deadline \/ \A r \in Requests : req[r] \notin UnderWay
    /\ Exit
    /\ UNCHANGED <<pod, probing, kubelet, crashes>>

-----------------------------------------------------------------------------
\* Mutant of probe: a process that runs is taken to listen.
ProbeProcess ==
    /\ hook = "probing" /\ proc \notin {"flags", "setup"}
    /\ hook' = IF proc = "running" THEN "ok" ELSE "failed"
    /\ UNCHANGED <<pod, process, tries, serving, kubelet, crashes>>

\* Mutant of probe: one attempt more than the constant.
ProbeOnceMore ==
    /\ hook = "probing"
    /\ proc # "exited" /\ port = "busy"
    /\ tries' = tries + 1
    /\ hook' = IF tries < RetryCount THEN "probing" ELSE "failed"
    /\ UNCHANGED <<pod, process, serving, kubelet, crashes>>

\* One attempt of probe: it is over with an answer 200 and with any error of
\* the call, also when nobody listens yet; another answer is an attempt.  It
\* cannot tell who answers.  The command dies with its container.
probe ==
    /\ hook = "probing"
    /\ \/ /\ proc # "exited"
          /\ listener = "open" \/ port = "ready"
          /\ hook' = "ok" /\ UNCHANGED tries
       \/ /\ proc # "exited" /\ port = "busy"
          /\ tries' = tries + 1
          /\ hook' = IF tries + 1 < RetryCount THEN "probing" ELSE "failed"
       \/ /\ proc = "exited" \/ port = "free"        \* nobody listens, or 5 s pass
          /\ hook' = "failed" /\ UNCHANGED tries
    /\ UNCHANGED <<pod, process, serving, kubelet, crashes>>

-----------------------------------------------------------------------------
Answer(r, statuses, body) ==
    /\ req' = [req EXCEPT ![r] = "answered"]
    /\ reply' = [reply EXCEPT ![r] = [status |-> statuses, body |-> body]]

\* The application asks for a token, or for something else, which
\* defaultPathHandler forwards.
Send(r) ==
    /\ app = "running" /\ req[r] = "unsent"
    /\ \/ listener = "open" /\ req' \in {[req EXCEPT ![r] = s] : s \in {"token", "forward"}}
       \/ listener # "open" /\ req' = [req EXCEPT ![r] = "refused"]
    /\ UNCHANGED <<pod, process, probing, reply, kubelet, crashes>>

\* The exchange of the token, which need not end.
doTokenRequest(r) ==
    Answer(r, <<"200">>, <<"token">>) \/ Answer(r, <<"500">>, <<"error">>)

\* msiHandler: 400 without a client ID or a resource, otherwise getOrCreateCred,
\* which CredCache has in detail, and the exchange.
msiHandler(r) ==
    /\ req[r] = "token"
    /\ Answer(r, <<"400">>, <<"error">>) \/ doTokenRequest(r)
    /\ UNCHANGED <<pod, process, probing, kubelet, crashes>>

\* defaultPathHandler up to the answer of IMDS, which may never come.
client_Do(r) ==
    /\ req[r] = "forward"
    /\ \/ Answer(r, <<"500">>, <<"error">>)
       \/ req' = [req EXCEPT ![r] = "body"] /\ UNCHANGED reply
    /\ UNCHANGED <<pod, process, probing, kubelet, crashes>>

\* Mutant of ReadAll: the error of the body is logged and not answered.
ReadAllSilently(r) ==
    /\ req[r] = "body"
    /\ Answer(r, <<"IMDS">>, <<"whole">>) \/ Answer(r, <<"IMDS">>, <<"part">>)
    /\ UNCHANGED <<pod, process, probing, kubelet, crashes>>

\* The rest of it.  When the body ends early the handler writes its error and
\* then, without a return, the status of IMDS and the part of the body.
ReadAll(r) ==
    /\ req[r] = "body"
    /\ \/ Answer(r, <<"IMDS">>, <<"whole">>)
       \/ Answer(r, <<"500", "IMDS">>, <<"error", "part">>)
    /\ UNCHANGED <<pod, process, probing, kubelet, crashes>>

-----------------------------------------------------------------------------
\* The kubelet starts the container of the proxy and executes its hook.
StartProxy ==
    /\ ~deleted /\ starts < MaxStarts
    /\ proc = "waiting" \/ (proc = "exited" /\ hook # "probing")
    /\ starts' = starts + 1
    /\ proc' = "flags" /\ listener' = "none"
    /\ signals' = 0 /\ heard' = FALSE /\ deadline' = FALSE
    /\ hook' = "probing" /\ tries' = 0
    /\ UNCHANGED <<pod, serving, app, deleted, crashes>>

\* The application's container is next: after the hook, and when the proxy is
\* a native sidecar only if the hook succeeded.
StartApp ==
    /\ ~deleted /\ app = "waiting"
    /\ IF native THEN hook = "ok" ELSE hook \in {"ok", "failed"}
    /\ app' = "running"
    /\ UNCHANGED <<pod, process, probing, serving, deleted, starts, crashes>>

DeletePod ==
    /\ ~deleted
    /\ deleted' = TRUE
    /\ UNCHANGED <<pod, process, probing, serving, app, starts, crashes>>

EndApp ==
    /\ deleted /\ app # "ended"
    /\ app' = "ended"
    /\ UNCHANGED <<pod, process, probing, serving, deleted, starts, crashes>>

Alive == proc \in {"flags", "setup", "running", "draining"}

\* What the kubelet has to end the container for: a failed hook, and the
\* deletion of the pod.
Reasons == (IF hook = "failed" THEN 1 ELSE 0) + (IF deleted /\ (native => app = "ended") THEN 1 ELSE 0)

\* SIGTERM.  It ends the process before there are handlers, and when it is the
\* second one for SetupSignalHandler, whose context only the log uses.
Signal ==
    /\ Alive /\ signals < Reasons
    /\ IF proc = "flags" \/ signals = 1
       THEN Exit
       ELSE /\ signals' = 1
            /\ heard' = (proc # "setup")
            /\ UNCHANGED <<proc, listener, deadline, serving>>
    /\ UNCHANGED <<pod, probing, kubelet, crashes>>

\* SIGKILL, at the end of the pod's grace period.  The model assumes that it
\* is longer than the 5 s of Run, as the default of 30 s is: a process that has
\* heard the signal has ended by then.  With a shorter one CutOnlyLate would
\* have to except this step too.
Kill ==
    /\ Alive /\ signals = 1 /\ ~heard
    /\ Exit
    /\ UNCHANGED <<pod, probing, kubelet, crashes>>

\* The process dies, for lack of memory for example.
Crash ==
    /\ Alive /\ crashes < MaxCrashes
    /\ crashes' = crashes + 1
    /\ Exit
    /\ UNCHANGED <<pod, probing, kubelet>>

Process == SetupSignalHandler \/ Setup \/ ListenAndServe \/ BeginShutdown \/ DeadlinePasses \/ EndShutdown

Handler(r) == msiHandler(r) \/ client_Do(r) \/ ReadAll(r)

Kubelet == StartProxy \/ StartApp \/ DeletePod \/ EndApp \/ Signal \/ Kill

Next ==
    \/ Process \/ probe \/ Kubelet \/ Crash
    \/ \E r \in Requests : Send(r) \/ Handler(r)

Spec == Init /\ [][Next]_vars

\* The goroutines of the process and the clock go on.  IMDS and Microsoft Entra
\* need not answer, nor need the kubelet kill what does not end.
FairSpec == Spec /\ WF_vars(Process)

-----------------------------------------------------------------------------
\* A client that sees the status of IMDS has the whole body: when the body
\* ends early, the status 500 is the first that is written, although the
\* handler then writes the other one too (proxy.go:219).
PartialIsError ==
    \A r \in Requests :
        reply[r].status # <<>> /\ Head(reply[r].status) = "IMDS" => reply[r].body = <<"whole">>

\* With a native sidecar whose port is free, no request of the application is
\* refused unless the proxy has crashed: the application starts after a probe
\* that met the listening proxy, so never with one that has no tenant, and ends
\* before the proxy shuts down (probe.go, NewProxy, Run, and the restart policy
\* that webhook.go gives the sidecar).
NoRefusal ==
    native /\ port = "free" /\ crashes = 0 => \A r \in Requests : req[r] # "refused"

\* A request under way is cut off only by the end of the 5 s, a second signal,
\* a crash, or when the signal came between the two handlers of main.go:45 and
\* 62 and was lost: never by a shutdown that could wait for it.
CutOnlyLate ==
    [][\A r \in Requests : req[r] # "cut" /\ req'[r] = "cut" =>
          \/ deadline
          \/ signals = 1 /\ (~heard \/ (hook = "failed" /\ deleted))
          \/ crashes' > crashes]_vars

\* A proxy that withShutdownSignal has told to end does so, whatever IMDS and
\* Microsoft Entra do with the requests that are under way (Run).
Terminates == heard ~> proc = "exited"
=============================================================================
