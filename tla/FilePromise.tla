------------------------------ MODULE FilePromise ------------------------------
(***************************************************************************)
(* What the product promises of the files people keep in it, whatever      *)
(* requests, statements and bucket calls it is made of: a file is          *)
(* registered, its bytes arrive, it is listed, put into the trash and      *)
(* taken out again, and destroyed.  It is listed only with its bytes, they *)
(* leave the bucket only after its destruction was asked for, and what is  *)
(* destroyed never comes back.                                             *)
(***************************************************************************)
CONSTANTS
    File,
    Old,        \* files that are there from the start
    Reliable    \* the bucket does what it is asked

VARIABLES
    phase,      \* "none", "pending", "active", "deleted", "gone"
    held,       \* files whose bytes are in the bucket
    doomed      \* files whose destruction was asked for

vars == <<phase, held, doomed>>

In(p) == {f \in File : phase[f] = p}
Listed == In("active") \cup In("deleted")
Move(S, p) == phase' = [f \in File |-> IF f \in S THEN p ELSE phase[f]]

Init ==
    /\ phase = [f \in File |-> IF f \in Old THEN "active" ELSE "none"]
    /\ held = Old
    /\ doomed = {}

Register(f) == f \in In("none") /\ Move({f}, "pending") /\ UNCHANGED <<held, doomed>>
Arrive(f) == f \in In("pending") /\ held' = held \cup {f} /\ UNCHANGED <<phase, doomed>>
List(f) == f \in In("pending") \cap held /\ Move({f}, "active") /\ UNCHANGED <<held, doomed>>

Trash(S) == S \subseteq In("active") /\ Move(S, "deleted") /\ UNCHANGED <<held, doomed>>
Restore(f) == f \in In("deleted") /\ Move({f}, "active") /\ UNCHANGED <<held, doomed>>

Doom(S) == S \subseteq Listed /\ doomed' = doomed \cup S /\ UNCHANGED <<phase, held>>
Erase(f) == f \in doomed /\ held' = held \ {f} /\ UNCHANGED <<phase, doomed>>

(* The bytes go before the row does.                                        *)
Destroy(S) ==
    /\ S \subseteq Listed \cap doomed
    /\ Reliable => S \cap held = {}
    /\ Move(S, "gone")
    /\ UNCHANGED <<held, doomed>>

Next ==
    \/ \E f \in File : Register(f) \/ Arrive(f) \/ List(f) \/ Restore(f) \/ Erase(f)
    \/ \E S \in SUBSET File : Trash(S) \/ Doom(S) \/ Destroy(S)

Spec == Init /\ [][Next]_vars

(* What is listed can be downloaded, unless its destruction was asked for.  *)
ListedHeld == Listed \subseteq held \cup doomed

(* What is destroyed leaves nothing behind.                                 *)
GoneLeavesNothing == Reliable => In("gone") \cap held = {}

(* What is destroyed never comes back.                                      *)
GoneForGood == [][In("gone") \subseteq In("gone")']_vars
=============================================================================
