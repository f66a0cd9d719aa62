------------------------------ MODULE MCShares ------------------------------
(* Small instances of Shares: d1 above d2 above d3 above d4, links to d2    *)
(* and to a file, and walks of two rounds at most: d1 is outside the shared *)
(* folder, d3 as deep below it as can be reached, d4 too deep.              *)
EXTENDS Shares

CONSTANTS d1, d2, d3, d4, f1, u1, u2, r1, r2

MCChain ==
    [d \in Folder |-> CASE d = d1 -> <<d1>>
                        [] d = d2 -> <<d2, d1>>
                        [] d = d3 -> <<d3, d2, d1>>
                        [] OTHER -> <<d4, d3, d2, d1>>]

Asking(k, u, i, s, d, f) ==
    [kind |-> k, by |-> u, item |-> i, share |-> s, folder |-> d, file |-> f]
Create(u, i) == Asking("create", u, i, 1, None, None)
Page(s, d) == Asking("page", u1, None, s, d, None)

Revocations == {Asking("revoke", u, None, 1, None, None) : u \in User}
Visits ==
    {Page(1, None), Page(1, d4), Asking("zip", u1, None, 1, d3, None),
     Asking("direct", u1, None, 1, None, None), Asking("open", u1, None, 1, None, f1)}

(* Links are made from two tabs, revoked from one and followed in the other.*)
MCAsks ==
    [r \in Req |->
        IF r = r1 THEN Revocations \cup {Create(u1, d2)}
        ELSE Visits \cup {Create(u2, d2), Create(u1, f1)}]
=============================================================================
