--------------------------- MODULE MCFileLifecycle ---------------------------
(* Small instances of FileLifecycle.                                        *)
EXTENDS FileLifecycle, TLC

Symmetric == Permutations(Request)
=============================================================================
