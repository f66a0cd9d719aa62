---------------------------- MODULE MCThumbnails ----------------------------
(* Small instances of Thumbnails: f1 was registered before the others.      *)
EXTENDS Thumbnails

CONSTANTS f1

MCBorn == [f \in File |-> IF f = f1 THEN 1 ELSE 2]
=============================================================================
