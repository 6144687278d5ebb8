-------------------------- MODULE MCWebhookStartup --------------------------
(***************************************************************************)
(* TLC instances of WebhookStartup.                                        *)
(***************************************************************************)
EXTENDS WebhookStartup

Plain ==
    [rotation |-> TRUE, tls |-> "1.3", backend |-> "prometheus", logLevel |-> "known",
     tenant |-> "set", cloud |-> "known", ca |-> {}, selector |-> "blank",
     suffix |-> "empty", audience |-> "empty"]

\* Every combination of the settings that depend on each other, and every
\* setting that is refused on its own.
MCConfigs ==
    {[Plain EXCEPT !.ca = ca, !.selector = s] :
        ca \in SUBSET {"data", "configMap", "signer"}, s \in {"blank", "selector", "other"}}
    \cup {[Plain EXCEPT !.suffix = x, !.audience = a, !.rotation = b] :
        x \in {"empty", "valid", "other"}, a \in {"empty", "default", "custom"},
        b \in BOOLEAN}
    \cup {[Plain EXCEPT !.tenant = t, !.cloud = c] :
        t \in {"unset", "empty", "set"}, c \in {"known", "other"}}
    \cup {[Plain EXCEPT !.tls = t, !.backend = b, !.logLevel = l] :
        t \in {"1.0", "1.1", "1.2", "1.3", "other"}, b \in {"prometheus", "other"},
        l \in {"known", "other"}}

MCPlain == {Plain}
=============================================================================
