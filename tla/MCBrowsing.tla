----------------------------- MODULE MCBrowsing -----------------------------
(* A small instance of Browsing: an admin, an editor whose file and folder  *)
(* it is, and a viewer who may be given both.                               *)
EXTENDS Browsing

CONSTANTS a, e, v, d1, d2, f1

MCRole == [u \in User |-> CASE u = a -> "admin" [] u = e -> "editor" [] OTHER -> "viewer"]
MCUploader == [f \in File |-> IF f = f1 THEN e ELSE a]
MCGrants == {<<v, d1>>, <<v, f1>>}
=============================================================================
