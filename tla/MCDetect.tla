------------------------------ MODULE MCDetect ------------------------------
(***************************************************************************)
(* A TLC instance of Detect: namespaces of a few objects.                  *)
(***************************************************************************)
EXTENDS Detect, TLC

CONSTANTS s1, s2, i1, i2, i3, c1, c2, c3

Web == <<"web">>
Shared == <<"shared">>
WebSA == <<"web", "serviceaccount">>
MCNames ==
    {Web, Shared, WebSA, <<"p">>, <<"q">>, <<"new">>, <<"old">>, <<"node">>, <<"job">>}
MCParts == {"web", "shared", "serviceaccount", "p", "q", "new", "old", "node", "job"}

Obj(kind, name) == [kind |-> kind, name |-> name]

\* An object with this controller, or with None, and this label and account.
With(owner, label, account) ==
    [label |-> label, account |-> account,
     refs |-> IF owner = None THEN {} ELSE {[object |-> owner, controller |-> TRUE]},
     containers |-> <<"app">>, initContainers |-> <<>>]

Deployment == Obj("Deployment", Web)
NewSet == Obj("ReplicaSet", <<"new">>)
OldSet == Obj("ReplicaSet", <<"old">>)
P == Obj("Pod", <<"p">>)
Q == Obj("Pod", <<"q">>)

\* A deployment in the middle of a rollout, whose pods have the same or
\* different labels.
Rollout(label) ==
    Deployment :> With(None, None, Default)
    @@ OldSet :> With(Deployment, None, Default) @@ NewSet :> With(Deployment, None, Default)
    @@ P :> With(OldSet, s1, Default) @@ Q :> With(NewSet, label, Default)

\* Two workloads with a pod each, of these names and accounts.
Two(first, second, account) ==
    first :> With(None, None, Default) @@ second :> With(None, None, account)
    @@ P :> With(first, s1, Default) @@ Q :> With(second, s2, account)

\* A pod with an owner that is not its controller and an image that counts as
\* the proxy's, and one of the kubelet.
Standalone ==
    P :> [With(None, s1, Shared) EXCEPT
            !.refs = {[object |-> Deployment, controller |-> FALSE]},
            !.containers = <<"proxy-init", "app">>]
    @@ Q :> With(Obj("Node", <<"node">>), s2, Default)
    @@ Deployment :> With(None, None, Default)
    @@ Obj("Node", <<"node">>) :> With(None, None, Default)

MCClusters ==
    {Rollout(s1), Rollout(s2),
     Two(Deployment, Obj("StatefulSet", Web), Shared),
     Two(Deployment, Obj("CronJob", WebSA), Default),
     Two(Obj("DaemonSet", Shared), Obj("Job", <<"job">>), Shared),
     Standalone}

Binding(name, selector, identity) ==
    [name |-> name, selector |-> selector, identity |-> identity]

\* Two bindings of one selector; bindings that cannot be used before one that
\* can.
MCBindings ==
    {{Binding(1, s1, i1), Binding(2, s1, i2), Binding(3, s2, i2)},
     {Binding(1, s1, None), Binding(2, None, i1), Binding(3, s1, i3), Binding(4, s1, i2)}}

MCIdentities ==
    {[name |-> i1, msi |-> TRUE, client |-> c1],
     [name |-> i2, msi |-> TRUE, client |-> c2],
     [name |-> i3, msi |-> FALSE, client |-> c3]}
=============================================================================
