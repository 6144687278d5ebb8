-------------------------- MODULE MCDeleteWorkflow --------------------------
(***************************************************************************)
(* TLC instances of DeleteWorkflow.                                        *)
(***************************************************************************)
EXTENDS DeleteWorkflow

Whole ==
    [only |-> None, skip |-> {}, unknown |-> FALSE, given |-> {"namespace", "account", "issuer"},
     objectID |-> None, assignment |-> CHOOSE a \in Apps : TRUE]

\* The whole command, with a known object ID, without some phases, one phase on
\* its own, and flags that are refused.
MCChoices ==
    {Whole,
     [Whole EXCEPT !.objectID = Whole.assignment, !.skip = {"role-assignment"},
                   !.assignment = None, !.given = {"namespace", "account"}],
     [Whole EXCEPT !.skip = {"aad-application"}, !.objectID = Whole.assignment,
                   !.assignment = Other],
     [Whole EXCEPT !.only = "federated-identity"],
     [Whole EXCEPT !.skip = {"service-account"}],
     [Whole EXCEPT !.assignment = None],
     [Whole EXCEPT !.unknown = TRUE]}
=============================================================================
