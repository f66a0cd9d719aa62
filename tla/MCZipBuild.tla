----------------------------- MODULE MCZipBuild -----------------------------
(* Small instances of ZipBuild.  Names of stem "a" have no extension, so    *)
(* that "a" sorts before "a (2)"; those of stem "b" have one, and "b (2).x" *)
(* sorts before "b.x".  Both folders have the same path.                    *)
EXTENDS ZipBuild

CONSTANTS f1, f2, f3, d1, d2

MCRel == [p \in Place |-> IF p = Root THEN 0 ELSE 1]

(* Directories come before what is in them.                                 *)
MCRank ==
    [p \in [in : {0, 1}, stem : {"a", "b", "/"}, tags : {<<>>, <<2>>}] |->
        10 * p.in
        + (CASE p.stem = "/" -> 0 [] p.stem = "a" -> 1 [] OTHER -> 4)
        + (IF (p.stem = "a") <=> (p.tags = <<>>) THEN 0 ELSE 1)]

At(p, s, t) == [place |-> p, stem |-> s, tags |-> t]
a == At(Root, "a", <<>>)
a2 == At(Root, "a", <<2>>)
b == At(Root, "b", <<>>)
b2 == At(Root, "b", <<2>>)

Naming(x, y, z) == [f \in File |-> CASE f = f1 -> x [] f = f2 -> y [] OTHER -> z]

(* The same name twice, with and without an extension, a    *)
(* file that really has the name a counter would give, and files in the     *)
(* two folders.                                                             *)
MCPlacings ==
    {Naming(a, a, a2), Naming(a, a2, a2), Naming(b2, b, b),
     Naming(a, At(d1, "a", <<>>), At(d2, "a", <<>>)), Naming(a, b, At(d1, "b", <<2>>))}

MCFilters == {File, {f1, f3}}
=============================================================================
