----------------------------- MODULE MCAccounts -----------------------------
(* A small instance of Accounts: the first admin creates the account of     *)
(* another user, changes its role and its activity, and logs in with it in  *)
(* the same browser.  The page sends one of role and activity at a time;    *)
(* the handler takes both, and an error in between leaves the first done.   *)
EXTENDS Accounts

CONSTANTS a1, a2, p1, p2, r1, r2, k1, b1, b2

Asking(k, x) ==
    [kind |-> k, user |-> x, old |-> p1, new |-> p2, fit |-> TRUE,
     role |-> None, active |-> None]

MCAsks ==
    [r \in Req |->
        IF r = r1
        THEN {Asking("login", a1), Asking("name", None),
              [Asking("create", a2) EXCEPT !.role = "viewer"],
              [Asking("update", a2) EXCEPT !.role = "editor", !.active = FALSE]}
        ELSE {Asking("login", a2), Asking("password", None),
              [Asking("password", None) EXCEPT !.fit = FALSE], Asking("logout", None)}]
=============================================================================
