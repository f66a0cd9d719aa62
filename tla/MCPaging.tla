------------------------------ MODULE MCPaging ------------------------------
(* A small instance of Paging: five entries make three pages of two.        *)
EXTENDS Paging

CONSTANTS e1, e2, e3, e4, e5

MCBorn ==
    [e \in Entry |-> CASE e = e1 -> 1 [] e = e2 -> 2 [] e = e3 -> 3
                        [] e = e4 -> 4 [] OTHER -> 5]
=============================================================================
