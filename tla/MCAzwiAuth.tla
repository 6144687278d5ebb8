----------------------------- MODULE MCAzwiAuth -----------------------------
(***************************************************************************)
(* A TLC instance of AzwiAuth.                                             *)
(***************************************************************************)
EXTENDS AzwiAuth

CONSTANTS public, china, u1, u2, u3, t1, t2

MCTenantOf == [s \in Subscriptions |-> IF s = u3 THEN t2 ELSE t1]

\* With each method, flags that are complete and flags that are not.
MCFlags ==
    [method : {"cli"}, clientID : {None, Malformed, "id"}, secret : BOOLEAN,
     certificate : {None}, key : {None}, subscription : Subscriptions \cup {None, Malformed}, env : {TRUE}]
    \cup
    [method : {"", "client_secret", "client_certificate", "other"}, clientID : {Malformed, "id"},
     secret : BOOLEAN, certificate : {None}, key : {None}, subscription : {u1, None},
     env : BOOLEAN]
    \cup
    [method : {"client_certificate"}, clientID : {"id"}, secret : {FALSE},
     certificate : {None, Malformed, "file"}, key : {None, Malformed, "file"},
     subscription : {u1, None}, env : {TRUE}]
=============================================================================
