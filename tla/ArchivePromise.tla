--------------------------- MODULE ArchivePromise ---------------------------
(***************************************************************************)
(* What the prepared-zip feature promises of one archive, whatever tables, *)
(* loops and sweeps it is made of: it is asked for, built, put in the      *)
(* bucket, offered for a day and withdrawn.  It may be given up at any     *)
(* point; what has been given up or withdrawn never comes back, and what   *)
(* is offered is in the bucket the whole time.                             *)
(***************************************************************************)
CONSTANT Job

VARIABLES
    phase,      \* "new", "queued", "building", "offered", "over"
    held        \* the archives that are in the bucket

vars == <<phase, held>>

Phase == {"new", "queued", "building", "offered", "over"}
In(p) == {j \in Job : phase[j] = p}
Move(S, p) == phase' = [j \in Job |-> IF j \in S THEN p ELSE phase[j]]

Init == phase = [j \in Job |-> "new"] /\ held = {}

Ask(j) == j \in In("new") /\ Move({j}, "queued") /\ UNCHANGED held
Begin(j) == j \in In("queued") /\ Move({j}, "building") /\ UNCHANGED held

(* The archive is complete; one whose folder has just been deleted may     *)
(* still arrive.                                                           *)
Store(j) == j \in In("building") \cup In("over") /\ held' = held \cup {j} /\ UNCHANGED phase

Offer(j) == j \in In("building") \cap held /\ Move({j}, "offered") /\ UNCHANGED held

(* Failure, a restart, the deletion of a folder, the end of a day.         *)
GiveUp(S) ==
    /\ S # {}
    /\ S \subseteq In("queued") \cup In("building") \cup In("offered")
    /\ Move(S, "over")
    /\ UNCHANGED held

Discard(j) == j \in In("over") /\ held' = held \ {j} /\ UNCHANGED phase

Next ==
    \/ \E j \in Job : Ask(j) \/ Begin(j) \/ Store(j) \/ Offer(j) \/ Discard(j)
    \/ \E S \in SUBSET Job : GiveUp(S)

Spec == Init /\ [][Next]_vars

(* What is offered can be downloaded.                                       *)
OfferHeld == In("offered") \subseteq held
=============================================================================
