---------------------------- MODULE MCPodMutator ----------------------------
(***************************************************************************)
(* TLC instances of PodMutator: two replicas, one service account, a few   *)
(* pods that differ in what the webhook tells apart.                       *)
(***************************************************************************)
EXTENDS PodMutator, TLC

Strings == STRING

\* A container without variables but for those given.
Container(name, from, env) ==
    [name |-> name, from |-> from, mount |-> "none",
     env |-> env @@ [v \in EnvVars |-> Absent]]

Plain ==
    [inits |-> <<>>, ctrs |-> <<Container("app", "user", <<>>)>>, volume |-> Absent,
     inject |-> Absent, port |-> Absent, expiry |-> Absent, custom |-> Absent,
     skip |-> {}, hostNetwork |-> FALSE]

\* Two containers, one with an identity of its own, an init container that
\* mounts the reserved volume elsewhere, a volume of the reserved name.
Busy ==
    [Plain EXCEPT
        !.inits = <<[Container("setup", "user", <<>>) EXCEPT !.mount = "other"]>>,
        !.ctrs = <<Container("app", "user", <<>>),
                   Container("job", "user", "client" :> "preset" @@ "tenant" :> Empty)>>,
        !.volume = [expiration |-> 60, audience |-> "other", ca |-> "none"],
        !.inject = "true"]

MCPods ==
    {Plain, Busy,
     [Busy EXCEPT !.skip = {"setup"}, !.port = 8080, !.expiry = 86400],
     [Busy EXCEPT !.custom = "true"],
     [Plain EXCEPT !.custom = "true", !.skip = {"app"}],
     [Plain EXCEPT !.inject = "true", !.hostNetwork = TRUE],
     [Plain EXCEPT !.inject = "true", !.port = Junk],
     [Plain EXCEPT !.expiry = 86401], [Plain EXCEPT !.expiry = 3599],
     [Plain EXCEPT !.expiry = Junk]}

\* A pod whose author already put the proxy next to the containers, as azwi
\* podidentity detect does, and asks for its injection, which detect does not.
MCManualPods ==
    {[Busy EXCEPT !.inits = @ \o <<Container(ProxyInit, "user", <<>>)>>,
                  !.ctrs = @ \o <<Container(Proxy, "user", <<>>)>>]}

MCAccounts ==
    {[client |-> "id1", tenant |-> Absent, expiry |-> Absent],
     [client |-> "id2", tenant |-> "t2", expiry |-> 7200],
     [client |-> "id1", tenant |-> Empty, expiry |-> Absent],
     [client |-> Empty, tenant |-> Absent, expiry |-> 100]}

MCAdded == {Container("mesh", "other", <<>>)}

MCConfig ==
    [tenantID |-> "t1", authorityHost |-> "host", customEndpoint |-> TRUE,
     tokenProxy |-> "endpoint", sniName |-> Empty, caSource |-> "configMap"]

\* Every replica found the same server version.
Uniform == {{}, Replicas}
AnyVersion == SUBSET Replicas
=============================================================================
