--------------------------- MODULE ThumbnailsProofs ---------------------------
(***************************************************************************)
(* Theorems about Thumbnails for any number of files, claim loops,         *)
(* backfills and deletions, with every fault.                              *)
(***************************************************************************)
EXTENDS Thumbnails, TLAPS

USE DEF vars, rows, bucket, makers, deletions

(* The first state is well typed.                                           *)
LEMMA InitType == Init => TypeOK
  BY ThumbnailAssumption DEF Init, TypeOK, Maker

(* Every step keeps the variables well typed.                               *)
LEMMA NextType == TypeOK /\ [Next]_vars => TypeOK'
  <1> SUFFICES ASSUME TypeOK, [Next]_vars PROVE TypeOK'
    OBVIOUS
  <1> USE ThumbnailAssumption DEF TypeOK, Maker
  <1>1. ASSUME NEW f \in File,
               Register(f) \/ Arrive(f) \/ Activate(f) \/ SoftDelete(f) \/ Restore(f)
        PROVE  TypeOK'
    BY <1>1 DEF Register, Arrive, Activate, SoftDelete, Restore
  <1>2. ASSUME NEW a \in Admin, NEW f \in File, ReadVictim(a, f) PROVE TypeOK'
    BY <1>2 DEF ReadVictim
  <1>3. ASSUME NEW a \in Admin, DeleteOriginal(a) PROVE TypeOK'
    BY <1>3 DEF DeleteOriginal
  <1>4. ASSUME NEW a \in Admin, DeleteThumb(a) PROVE TypeOK'
    BY <1>4 DEF DeleteThumb
  <1>5. ASSUME NEW a \in Admin, HardDelete(a) PROVE TypeOK'
    BY <1>5 DEF HardDelete
  <1>6. ASSUME NEW w \in Worker, Pick(w) PROVE TypeOK'
    BY <1>6 DEF Pick, Goto, Oldest, Unmade
  <1>7. ASSUME NEW w \in Worker, Claim(w) PROVE TypeOK'
    BY <1>7 DEF Claim, Done, Goto
  <1>8. ASSUME NEW m \in Maker, Fetch(m) PROVE TypeOK'
    BY <1>8 DEF Fetch, Goto
  <1>9. ASSUME NEW m \in Maker, Upload(m) PROVE TypeOK'
    BY <1>9 DEF Upload, Goto
  <1>10. ASSUME NEW m \in Maker, MarkReady(m) PROVE TypeOK'
    BY <1>10 DEF MarkReady, Done, Goto
  <1>11. ASSUME NEW m \in Maker, MarkFailed(m) PROVE TypeOK'
    BY <1>11 DEF MarkFailed, Done, Goto
  <1>12. ASSUME NEW b \in Batch, List(b) PROVE TypeOK'
    BY <1>12 DEF List, Goto, Missing
  <1>13. ASSUME NEW b \in Batch, NextListed(b) PROVE TypeOK'
    BY <1>13 DEF NextListed, Goto, Oldest
  <1>14. ASSUME NEW b \in Batch, Kill(b) PROVE TypeOK'
    BY <1>14 DEF Kill, Done, Goto
  <1>15. CASE Crash
    BY <1>15 DEF Crash
  <1>16. CASE Restart
    BY <1>16 DEF Restart, Reset
  <1>17. CASE UNCHANGED vars
    BY <1>17
  <1> QED
    BY <1>1, <1>2, <1>3, <1>4, <1>5, <1>6, <1>7, <1>8, <1>9, <1>10, <1>11, <1>12,
       <1>13, <1>14, <1>15, <1>16, <1>17
    DEF Next, Delete, Loop, Backfill, Make

(* The columns, the bucket and the locals always hold values of their       *)
(* types, and a maker or a deletion holds a file exactly while it is busy.  *)
THEOREM TypeCorrect == Spec => []TypeOK
  BY InitType, NextType, PTL DEF Spec

-----------------------------------------------------------------------------
(* The first state satisfies the inductive invariant.                       *)
LEMMA InitInductive == Init => Inductive
  BY InitType, ThumbnailAssumption
  DEF Init, Inductive, ReadyHasThumb, ExclusiveClaim, PendingIsMade, MarkHasThumb,
      VictimsAreDoomed, NewIsBlank, DownIsIdle, AloneIsPending, Claimed, Maker

(* Every step keeps the inductive invariant.                                *)
LEMMA NextInductive == Inductive /\ [Next]_vars => Inductive'
  <1> SUFFICES ASSUME Inductive, [Next]_vars PROVE Inductive'
    OBVIOUS
  <1>t. TypeOK /\ TypeOK'
    BY NextType DEF Inductive
  <1> DEFINE Parts == /\ ReadyHasThumb /\ ExclusiveClaim /\ PendingIsMade /\ MarkHasThumb
                      /\ VictimsAreDoomed /\ NewIsBlank /\ DownIsIdle /\ AloneIsPending
  <1> SUFFICES Parts'
    BY <1>t DEF Inductive
  <1>p. Parts
    BY DEF Inductive
  <1> USE ThumbnailAssumption
      DEF ReadyHasThumb, ExclusiveClaim, PendingIsMade, MarkHasThumb, VictimsAreDoomed,
          NewIsBlank, DownIsIdle, AloneIsPending, Claimed,
          Maker, HasRow
  <1>1. ASSUME NEW f \in File,
               Register(f) \/ Arrive(f) \/ Activate(f) \/ SoftDelete(f) \/ Restore(f)
        PROVE  Parts'
    <2>4. CASE Register(f)
      BY <2>4, <1>t, <1>p DEF Register, TypeOK
    <2>5. CASE Arrive(f)
      BY <2>5, <1>t, <1>p DEF Arrive, TypeOK
    <2>1. CASE Activate(f)
      BY <2>1, <1>t, <1>p DEF Activate, TypeOK
    <2>2. CASE SoftDelete(f)
      BY <2>2, <1>t, <1>p DEF SoftDelete, TypeOK
    <2>3. CASE Restore(f)
      BY <2>3, <1>t, <1>p DEF Restore, TypeOK
    <2> QED
      BY <1>1, <2>1, <2>2, <2>3, <2>4, <2>5
  <1>2. ASSUME NEW a \in Admin, NEW f \in File, ReadVictim(a, f) PROVE Parts'
    BY <1>2, <1>t, <1>p DEF ReadVictim, TypeOK
  <1>3. ASSUME NEW a \in Admin, DeleteOriginal(a) PROVE Parts'
    BY <1>3, <1>t, <1>p DEF DeleteOriginal, TypeOK
  <1>4. ASSUME NEW a \in Admin, DeleteThumb(a) PROVE Parts'
    BY <1>4, <1>t, <1>p DEF DeleteThumb, TypeOK
  <1>5. ASSUME NEW a \in Admin, HardDelete(a) PROVE Parts'
    BY <1>5, <1>t, <1>p DEF HardDelete, TypeOK
  <1>6. ASSUME NEW w \in Worker, Pick(w) PROVE Parts'
    BY <1>6, <1>t, <1>p DEF Pick, Goto, Oldest, Unmade, TypeOK
  <1>7. ASSUME NEW w \in Worker, Claim(w) PROVE Parts'
    BY <1>7, <1>t, <1>p DEF Claim, Done, Goto, TypeOK
  <1>8. ASSUME NEW m \in Maker, Fetch(m) PROVE Parts'
    BY <1>8, <1>t, <1>p DEF Fetch, Goto, TypeOK
  <1>9. ASSUME NEW m \in Maker, Upload(m) PROVE Parts'
    BY <1>9, <1>t, <1>p DEF Upload, Goto, TypeOK
  <1>10. ASSUME NEW m \in Maker, MarkReady(m) PROVE Parts'
    BY <1>10, <1>t, <1>p DEF MarkReady, Done, Goto, TypeOK
  <1>11. ASSUME NEW m \in Maker, MarkFailed(m) PROVE Parts'
    BY <1>11, <1>t, <1>p DEF MarkFailed, Done, Goto, TypeOK
  <1>12. ASSUME NEW b \in Batch, List(b) PROVE Parts'
    BY <1>12, <1>t, <1>p DEF List, Goto, Missing, TypeOK
  <1>13. ASSUME NEW b \in Batch, NextListed(b) PROVE Parts'
    BY <1>13, <1>t, <1>p DEF NextListed, Goto, Oldest, TypeOK
  <1>14. ASSUME NEW b \in Batch, Kill(b) PROVE Parts'
    BY <1>14, <1>t, <1>p DEF Kill, Done, Goto, TypeOK
  <1>15. CASE Crash
    BY <1>15, <1>t, <1>p DEF Crash, TypeOK
  <1>16. CASE Restart
    BY <1>16, <1>t, <1>p DEF Restart, Reset, TypeOK
  <1>17. CASE UNCHANGED vars
    BY <1>17, <1>p
  <1> QED
    BY <1>1, <1>2, <1>3, <1>4, <1>5, <1>6, <1>7, <1>8, <1>9, <1>10, <1>11, <1>12,
       <1>13, <1>14, <1>15, <1>16, <1>17
    DEF Next, Delete, Loop, Backfill, Make

(* The inductive invariant holds in every reachable state.                  *)
THEOREM InductiveHolds == Spec => []Inductive
  BY InitInductive, NextInductive, PTL DEF Spec

(* A row that says its thumbnail is ready has a key, and an object unless   *)
(* its permanent deletion has begun, whatever fails or is killed.           *)
THEOREM ReadyFilesHaveThumbs == Spec => []ReadyHasThumb
  <1>1. Inductive => ReadyHasThumb
    BY DEF Inductive
  <1> QED
    BY <1>1, InductiveHolds, PTL

(* No two claim loops make the same thumbnail, whatever backfills run.      *)
THEOREM ClaimsAreExclusive == Spec => []ExclusiveClaim
  <1>1. Inductive => ExclusiveClaim
    BY DEF Inductive
  <1> QED
    BY <1>1, InductiveHolds, PTL

(* When the database answers, a row that says pending has a loop of the     *)
(* running server that makes its thumbnail, across kills and restarts.      *)
THEOREM PendingThumbsAreMade == Spec => []PendingIsMade
  <1>1. Inductive => PendingIsMade
    BY DEF Inductive
  <1> QED
    BY <1>1, InductiveHolds, PTL

-----------------------------------------------------------------------------
(* No step takes a ready thumbnail back while no backfill has started.      *)
LEMMA StepKeepsReady ==
    ASSUME Inductive, [Next]_vars, NEW f \in File,
           thumb[f] = "ready", \A b \in Batch : pc[b] = "off"
    PROVE  thumb'[f] = "ready"
  <1> USE ThumbnailAssumption DEF Inductive, Maker
  <1>1. ASSUME NEW w \in Worker, Claim(w) PROVE thumb'[f] = "ready"
    BY <1>1 DEF Claim, TypeOK
  <1>2. ASSUME NEW m \in Maker, MarkReady(m) PROVE thumb'[f] = "ready"
    BY <1>2 DEF MarkReady, TypeOK
  <1>3. ASSUME NEW m \in Maker, MarkFailed(m) PROVE thumb'[f] = "ready"
    <2>1. m \in Worker
      BY <1>3 DEF MarkFailed
    <2>2. thumb[job[m]] = "pending"
      BY <1>3, <2>1 DEF MarkFailed, AloneIsPending, Claimed
    <2> QED
      BY <1>3, <2>2 DEF MarkFailed, TypeOK
  <1>4. CASE Restart
    BY <1>4 DEF Restart, Reset, TypeOK
  <1>5. CASE UNCHANGED thumb
    BY <1>5
  <1> QED
    BY <1>1, <1>2, <1>3, <1>4, <1>5
    DEF Next, Delete, Loop, Backfill, Make, Register, Arrive, Activate, SoftDelete, Restore,
        ReadVictim, DeleteOriginal, DeleteThumb, HardDelete, Pick, Fetch, Upload, List, NextListed,
        Kill, Crash

(* A ready thumbnail stays ready through failures, kills and recoveries     *)
(* until somebody starts the backfill.                                      *)
THEOREM ReadyThumbsStay == Spec => ReadyStays
  <1>1. Inductive /\ [Next]_vars =>
          [\A f \in File :
              thumb[f] = "ready" /\ (\A b \in Batch : pc[b] = "off") => thumb'[f] = "ready"]_vars
    BY StepKeepsReady
  <1> QED
    BY <1>1, InductiveHolds, PTL DEF Spec, ReadyStays

=============================================================================
