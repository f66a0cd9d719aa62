---------------------------- MODULE WholeArchive ----------------------------
(***************************************************************************)
(* What a request for an archive promises, whatever pipes, fetches and     *)
(* writers it is made of: somebody asks for the files of a folder, and     *)
(* gets an archive of all of them or none at all.                          *)
(***************************************************************************)
CONSTANT File

VARIABLES
    phase,      \* "new", "asked", "delivered", "over"
    wanted,     \* the files that were to be in the archive
    got         \* the files of the archive the receiver has

vars == <<phase, wanted, got>>

Init ==
    /\ phase = "new"
    /\ wanted = {}
    /\ got = {}

Ask ==
    /\ phase = "new"
    /\ phase' = "asked"
    /\ wanted' \in SUBSET File
    /\ UNCHANGED got

Deliver ==
    /\ phase = "asked"
    /\ phase' = "delivered"
    /\ got' = wanted
    /\ UNCHANGED wanted

GiveUp ==
    /\ phase \in {"new", "asked"}
    /\ phase' = "over"
    /\ UNCHANGED <<wanted, got>>

Next == Ask \/ Deliver \/ GiveUp

Spec == Init /\ [][Next]_vars
=============================================================================
