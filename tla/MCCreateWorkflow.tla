-------------------------- MODULE MCCreateWorkflow --------------------------
(***************************************************************************)
(* TLC instances of CreateWorkflow.                                        *)
(***************************************************************************)
EXTENDS CreateWorkflow

Full ==
    [only |-> None, skip |-> {}, unknown |-> FALSE, sp |-> "application",
     given |-> {"namespace", "account", "issuer", "expiration", "scope", "role"},
     clientID |-> None, objectID |-> None, principalID |-> None,
     alone |-> TRUE, lag |-> FALSE]

An == CHOOSE a \in Apps : TRUE

\* The whole command, with and without a service principal of its own, with
\* identifiers instead of names, without some phases, one phase that does not
\* know the name of the application, and a flag too few.
Orderlies ==
    {Full,
     [Full EXCEPT !.sp = "taken"], [Full EXCEPT !.sp = "unused"],
     [Full EXCEPT !.skip = {"aad-application", "role-assignment"}],
     [Full EXCEPT !.skip = {"aad-application"}, !.clientID = An, !.objectID = An,
                  !.principalID = An],
     [Full EXCEPT !.only = "service-account",
                  !.given = {"namespace", "account", "expiration"}],
     [Full EXCEPT !.skip = {"role-assignment"}, !.given = @ \ {"issuer"}]}

\* Runs that neither wait for each other nor see up to date listings.
Hasty ==
    {[Full EXCEPT !.skip = {"role-assignment"}, !.alone = FALSE, !.lag = TRUE],
     [Full EXCEPT !.skip = {"aad-application", "role-assignment"}, !.alone = FALSE,
                  !.lag = TRUE]}

Misspelt == [Full EXCEPT !.unknown = TRUE]

MCChoices == Orderlies \cup Hasty \cup {Misspelt}

\* Three orderly runs, or two hasty ones before one that is refused.
MCPlans ==
    [Runs -> Orderlies] \cup
    {p \in [Runs -> MCChoices] : \A r \in Runs : p[r] \in IF r < 3 THEN Hasty ELSE {Misspelt}}

MCFull == {Full}

MCFullPlan == [Runs -> MCFull]
=============================================================================
