------------------------------ MODULE Thumbnails ------------------------------
(***************************************************************************)
(* Thumbnails of images: the thumb_ columns of files, the originals and    *)
(* the thumbnails in the bucket, the claim loops of                        *)
(* internal/thumbnail/worker.go, the one-shot command                      *)
(* cmd/thumbnail-backfill that works on the same rows from a process of    *)
(* its own, and the handlers that delete and restore the files meanwhile.  *)
(*                                                                         *)
(* One SQL statement is one step (two for the claim, which selects a row   *)
(* and then updates it without having locked it), one call to the bucket   *)
(* is one step.                                                            *)
(***************************************************************************)
EXTENDS Naturals

CONSTANTS
    File,       \* ids of the image files (raster images: the others are never claimed)
    NoFile,     \* no file
    Born,       \* files.created_at
    Worker,     \* the claim loops in the server
    Batch,      \* runs of the backfill command
    Admin,      \* permanent deletions that can be in flight at the same time
    Faults      \* what may go wrong: "db", "bucket", "crash"

ASSUME ThumbnailAssumption ==
    /\ NoFile \notin File
    /\ Born \in [File -> Nat]
    /\ Worker \cap Batch = {}
    /\ Faults \subseteq {"db", "bucket", "crash"}

(* Whoever makes thumbnails.                                                *)
Maker == Worker \cup Batch

VARIABLES
    status,     \* files.status; "none": no row yet, "gone": hard-deleted
    thumb,      \* files.thumb_status
    linked,     \* files whose thumb_s3_key is set
    originals,  \* files whose original object is in the bucket
    thumbs,     \* files whose thumbnail object is in the bucket
    up,         \* the server process is running
    pc,         \* where each maker is; "off": a backfill that was not started
    job,        \* the file it works on
    listed,     \* files a backfill has listed and not come to yet
    apc,        \* where each permanent deletion is
    victim,     \* the file it deletes
    knew,       \* whether that file had a thumb_s3_key when it was read
    doomed      \* files whose permanent deletion has begun (history)

rows == <<status, thumb, linked>>
bucket == <<originals, thumbs>>
makers == <<pc, job, listed>>
deletions == <<apc, victim, knew, doomed>>
vars == <<rows, bucket, up, makers, deletions>>

HasRow(f) == status[f] \in {"active", "deleted"}
Unmade == {f \in File : status[f] = "active" /\ thumb[f] = "none"}
Missing == {f \in File : status[f] = "active" /\ thumb[f] # "ready"}
Oldest(S) == {f \in S : \A g \in S : Born[f] <= Born[g]}

Init ==
    /\ status = [f \in File |-> "none"]
    /\ thumb = [f \in File |-> "none"]
    /\ linked = {}
    /\ originals = {}
    /\ thumbs = {}
    /\ up = TRUE
    /\ pc = [m \in Maker |-> IF m \in Batch THEN "off" ELSE "idle"]
    /\ job = [m \in Maker |-> NoFile]
    /\ listed = [b \in Batch |-> {}]
    /\ apc = [a \in Admin |-> "idle"]
    /\ victim = [a \in Admin |-> NoFile]
    /\ knew = [a \in Admin |-> FALSE]
    /\ doomed = {}

-----------------------------------------------------------------------------
(* The handlers that change a file's status.                                *)

(* An upload: the row, the bytes, and when all are there the row again.     *)
Register(f) ==
    /\ up
    /\ status[f] = "none"
    /\ status' = [status EXCEPT ![f] = "pending"]
    /\ UNCHANGED <<thumb, linked, bucket, up, makers, deletions>>

Arrive(f) ==
    /\ status[f] = "pending"
    /\ originals' = originals \cup {f}
    /\ UNCHANGED <<rows, thumbs, up, makers, deletions>>

(* The bucket has put the bytes together (a deletion may have begun since)  *)
(* and the row is updated by its id alone: a completion that is late takes  *)
(* a file out of the trash.                                                 *)
Activate(f) ==
    /\ up
    /\ f \in originals \cup doomed
    /\ status[f] = "pending" \/ HasRow(f)
    /\ status' = [status EXCEPT ![f] = "active"]
    /\ UNCHANGED <<thumb, linked, bucket, up, makers, deletions>>

(* To the trash and back; neither touches the thumbnail.                    *)
SoftDelete(f) ==
    /\ up
    /\ status[f] = "active"
    /\ status' = [status EXCEPT ![f] = "deleted"]
    /\ UNCHANGED <<thumb, linked, bucket, up, makers, deletions>>

Restore(f) ==
    /\ up
    /\ status[f] = "deleted"
    /\ status' = [status EXCEPT ![f] = "active"]
    /\ UNCHANGED <<thumb, linked, bucket, up, makers, deletions>>

(* A permanent deletion reads the row, deletes the objects the row it read  *)
(* names (errors are ignored) and deletes the row.                          *)
ReadVictim(a, f) ==
    /\ up
    /\ apc[a] = "idle"
    /\ HasRow(f)
    /\ apc' = [apc EXCEPT ![a] = "original"]
    /\ victim' = [victim EXCEPT ![a] = f]
    /\ knew' = [knew EXCEPT ![a] = f \in linked]
    /\ doomed' = doomed \cup {f}
    /\ UNCHANGED <<rows, bucket, up, makers>>

DeleteOriginal(a) ==
    /\ apc[a] = "original"
    /\ apc' = [apc EXCEPT ![a] = IF knew[a] THEN "thumb" ELSE "row"]
    /\ \/ originals' = originals \ {victim[a]}
       \/ "bucket" \in Faults /\ UNCHANGED originals
    /\ UNCHANGED <<rows, thumbs, up, makers, victim, knew, doomed>>

DeleteThumb(a) ==
    /\ apc[a] = "thumb"
    /\ apc' = [apc EXCEPT ![a] = "row"]
    /\ \/ thumbs' = thumbs \ {victim[a]}
       \/ "bucket" \in Faults /\ UNCHANGED thumbs
    /\ UNCHANGED <<rows, originals, up, makers, victim, knew, doomed>>

HardDelete(a) ==
    /\ apc[a] = "row"
    /\ apc' = [apc EXCEPT ![a] = "idle"]
    /\ victim' = [victim EXCEPT ![a] = NoFile]
    /\ knew' = [knew EXCEPT ![a] = FALSE]
    /\ \/ status' = [status EXCEPT ![victim[a]] = "gone"]
       \/ "db" \in Faults /\ UNCHANGED status
    /\ UNCHANGED <<thumb, linked, bucket, up, makers, doomed>>

-----------------------------------------------------------------------------
(* Making one thumbnail: run of the worker, process of the backfill.        *)

Goto(m, p) == pc' = [pc EXCEPT ![m] = p]
Done(m) == Goto(m, "idle") /\ job' = [job EXCEPT ![m] = NoFile]

(* ClaimPendingThumbnail, the subquery: the oldest active file that has no  *)
(* thumbnail.  It locks nothing.                                            *)
Pick(w) ==
    /\ up
    /\ pc[w] = "idle"
    /\ \E f \in Oldest(Unmade) : job' = [job EXCEPT ![w] = f]
    /\ Goto(w, "claim")
    /\ UNCHANGED <<rows, bucket, up, listed, deletions>>

Slip_ClaimUnchecked(w) ==
    /\ pc[w] = "claim"
    /\ thumb' = [thumb EXCEPT ![job[w]] = "pending"]
    /\ Goto(w, "fetch")
    /\ UNCHANGED <<status, linked, bucket, up, job, listed, deletions>>

(* ClaimPendingThumbnail, the update: only if the row still has no          *)
(* thumbnail (it need not be active any more).  Otherwise the statement     *)
(* updates nothing and RunOnce gives up until the next tick.                *)
Claim(w) ==
    /\ pc[w] = "claim"
    /\ \/ /\ HasRow(job[w])
          /\ thumb[job[w]] = "none"
          /\ thumb' = [thumb EXCEPT ![job[w]] = "pending"]
          /\ Goto(w, "fetch")
          /\ UNCHANGED job
       \/ /\ ~HasRow(job[w]) \/ thumb[job[w]] # "none" \/ "db" \in Faults
          /\ Done(w)
          /\ UNCHANGED thumb
    /\ UNCHANGED <<status, linked, bucket, up, listed, deletions>>

(* Fetch and Generate: the original is read and scaled down, or it is not   *)
(* there, cannot be read or is not an image after all.                      *)
Fetch(m) ==
    /\ pc[m] = "fetch"
    /\ \/ job[m] \in originals /\ Goto(m, "upload")
       \/ /\ job[m] \notin originals \/ "bucket" \in Faults
          /\ Goto(m, "fail")
    /\ UNCHANGED <<rows, bucket, up, job, listed, deletions>>

Slip_UploadIgnoresError(m) ==
    /\ pc[m] = "upload"
    /\ Goto(m, "mark")
    /\ \/ thumbs' = thumbs \cup {job[m]}
       \/ "bucket" \in Faults /\ UNCHANGED thumbs
    /\ UNCHANGED <<rows, originals, up, job, listed, deletions>>

(* Upload of the JPEG under the key that the file id gives.                 *)
Upload(m) ==
    /\ pc[m] = "upload"
    /\ \/ thumbs' = thumbs \cup {job[m]} /\ Goto(m, "mark")
       \/ "bucket" \in Faults /\ Goto(m, "fail") /\ UNCHANGED thumbs
    /\ UNCHANGED <<rows, originals, up, job, listed, deletions>>

(* MarkThumbnailReady, whatever the thumb_status; nothing when the row is   *)
(* gone.  The worker logs an error, the backfill takes it as a failure.     *)
MarkReady(m) ==
    /\ pc[m] = "mark"
    /\ \/ /\ HasRow(job[m])
          /\ thumb' = [thumb EXCEPT ![job[m]] = "ready"]
          /\ linked' = linked \cup {job[m]}
          /\ Done(m)
       \/ ~HasRow(job[m]) /\ Done(m) /\ UNCHANGED <<thumb, linked>>
       \/ /\ "db" \in Faults
          /\ IF m \in Batch THEN Goto(m, "fail") /\ UNCHANGED job ELSE Done(m)
          /\ UNCHANGED <<thumb, linked>>
    /\ UNCHANGED <<status, bucket, up, listed, deletions>>

Slip_MarkFailedNeverMarks(m) ==
    /\ pc[m] = "fail"
    /\ Done(m)
    /\ UNCHANGED <<rows, bucket, up, listed, deletions>>

(* MarkThumbnailFailed, whatever the thumb_status; its error is dropped.    *)
MarkFailed(m) ==
    /\ pc[m] = "fail"
    /\ \/ HasRow(job[m]) /\ thumb' = [thumb EXCEPT ![job[m]] = "failed"]
       \/ ~HasRow(job[m]) /\ UNCHANGED thumb
       \/ "db" \in Faults /\ UNCHANGED thumb
    /\ Done(m)
    /\ UNCHANGED <<status, linked, bucket, up, listed, deletions>>

-----------------------------------------------------------------------------
(* The backfill command.                                                    *)

(* ListFilesMissingThumbnails, and the files that failed before are skipped *)
(* unless the command was started with -retry-failed.                       *)
List(b) ==
    /\ pc[b] = "off"
    /\ Goto(b, "idle")
    /\ \/ listed' = [listed EXCEPT ![b] = Missing]
       \/ listed' = [listed EXCEPT ![b] = {f \in Missing : thumb[f] # "failed"}]
    /\ UNCHANGED <<rows, bucket, up, job, deletions>>

(* The next file of the listing, as it was listed.                          *)
NextListed(b) ==
    /\ pc[b] = "idle"
    /\ \E f \in Oldest(listed[b]) :
        /\ job' = [job EXCEPT ![b] = f]
        /\ listed' = [listed EXCEPT ![b] = @ \ {f}]
    /\ Goto(b, "fetch")
    /\ UNCHANGED <<rows, bucket, up, deletions>>

(* The command is interrupted.                                              *)
Kill(b) ==
    /\ "crash" \in Faults
    /\ pc[b] # "off"
    /\ listed' = [listed EXCEPT ![b] = {}]
    /\ Done(b)
    /\ UNCHANGED <<rows, bucket, up, deletions>>

-----------------------------------------------------------------------------
(* The server process.                                                      *)

(* Its loops and its requests are lost.                                     *)
Crash ==
    /\ "crash" \in Faults
    /\ up
    /\ up' = FALSE
    /\ pc' = [m \in Maker |-> IF m \in Worker THEN "idle" ELSE pc[m]]
    /\ job' = [m \in Maker |-> IF m \in Worker THEN NoFile ELSE job[m]]
    /\ apc' = [a \in Admin |-> "idle"]
    /\ victim' = [a \in Admin |-> NoFile]
    /\ knew' = [a \in Admin |-> FALSE]
    /\ UNCHANGED <<rows, bucket, listed, doomed>>

Slip_ResetAll(S) == [f \in File |-> IF HasRow(f) THEN "none" ELSE thumb[f]]

(* ResetPendingThumbnails, ResetFailedThumbnails.                           *)
Reset(S) == [f \in File |-> IF HasRow(f) /\ thumb[f] \in S THEN "none" ELSE thumb[f]]

Slip_RestartSkipsPending ==
    /\ ~up
    /\ up' = TRUE
    /\ thumb' = Reset({"failed"})
    /\ UNCHANGED <<status, linked, bucket, makers, deletions>>

(* main: RecoverStale, then Start.  An error ends the recovery where it is. *)
Restart ==
    /\ ~up
    /\ up' = TRUE
    /\ \/ thumb' = Reset({"pending", "failed"})
       \/ "db" \in Faults /\ thumb' \in {thumb, Reset({"pending"})}
    /\ UNCHANGED <<status, linked, bucket, makers, deletions>>

-----------------------------------------------------------------------------
Make(m) == Fetch(m) \/ Upload(m) \/ MarkReady(m) \/ MarkFailed(m)
Loop(w) == Pick(w) \/ Claim(w) \/ Make(w)
Backfill(b) == NextListed(b) \/ Make(b)
Delete(a) == DeleteOriginal(a) \/ DeleteThumb(a) \/ HardDelete(a)

Next ==
    \/ \E f \in File : Register(f) \/ Arrive(f) \/ Activate(f) \/ SoftDelete(f) \/ Restore(f)
    \/ \E a \in Admin : Delete(a) \/ \E f \in File : ReadVictim(a, f)
    \/ \E w \in Worker : Loop(w)
    \/ \E b \in Batch : List(b) \/ Backfill(b) \/ Kill(b)
    \/ Crash
    \/ Restart

Spec == Init /\ [][Next]_vars

(* The loops of the server and a backfill that was started are scheduled,   *)
(* requests go on, and the server is started again.  Nobody has to start a  *)
(* backfill or a deletion.                                                  *)
Fairness ==
    /\ \A w \in Worker : WF_vars(Loop(w))
    /\ \A b \in Batch : WF_vars(Backfill(b))
    /\ \A a \in Admin : WF_vars(Delete(a))
    /\ WF_vars(Restart)

FairSpec == Spec /\ Fairness
-----------------------------------------------------------------------------
(* The variables hold what their columns and locals hold.                   *)
TypeOK ==
    /\ status \in [File -> {"none", "pending", "active", "deleted", "gone"}]
    /\ thumb \in [File -> {"none", "pending", "ready", "failed"}]
    /\ linked \subseteq File
    /\ originals \subseteq File
    /\ thumbs \subseteq File
    /\ up \in BOOLEAN
    /\ pc \in [Maker -> {"off", "idle", "claim", "fetch", "upload", "mark", "fail"}]
    /\ \A w \in Worker : pc[w] # "off"
    /\ job \in [Maker -> File \cup {NoFile}]
    /\ \A m \in Maker : job[m] = NoFile <=> pc[m] \in {"off", "idle"}
    /\ listed \in [Batch -> SUBSET File]
    /\ apc \in [Admin -> {"idle", "original", "thumb", "row"}]
    /\ victim \in [Admin -> File \cup {NoFile}]
    /\ \A a \in Admin : victim[a] = NoFile <=> apc[a] = "idle"
    /\ knew \in [Admin -> BOOLEAN]
    /\ doomed \subseteq File

(* A file that says it has a thumbnail has one, and knows its key, unless   *)
(* its permanent deletion has begun: with every failure, every kill and the *)
(* backfill working on the same rows, no row is marked before its object is *)
(* there.                                                                   *)
ReadyHasThumb ==
    \A f \in File :
        thumb[f] = "ready" => f \in linked /\ (f \in thumbs \/ f \in doomed)

Claimed(w) == pc[w] \in {"fetch", "upload", "mark", "fail"}

(* Two loops never make the same thumbnail, although the claim selects      *)
(* without locking and the backfill marks rows under their hands: a row     *)
(* that a loop has claimed is not free again while the loop works.          *)
ExclusiveClaim ==
    /\ \A v, w \in Worker : v # w /\ Claimed(v) /\ Claimed(w) => job[v] # job[w]
    /\ \A w \in Worker : Claimed(w) => thumb[job[w]] # "none"

(* Unless a database error hits a claim, a mark or the recovery, a file     *)
(* that says "pending" while the server runs is being worked on by one of   *)
(* its loops: no kill leaves a file that is never tried again.              *)
PendingIsMade ==
    up /\ "db" \notin Faults =>
        \A f \in File :
            HasRow(f) /\ thumb[f] = "pending" => \E w \in Worker : Claimed(w) /\ job[w] = f

(* A thumbnail that is ready stays ready, across failures, kills and        *)
(* recoveries, as long as nobody has started the backfill.                  *)
ReadyStays ==
    [][\A f \in File :
          thumb[f] = "ready" /\ (\A b \in Batch : pc[b] = "off") => thumb'[f] = "ready"]_vars

(* What every step relies on; together with the invariants above it is      *)
(* inductive.                                                               *)

(* Nobody is about to mark a file ready whose thumbnail is not there.       *)
MarkHasThumb == \A m \in Maker : pc[m] = "mark" => job[m] \in thumbs \cup doomed

VictimsAreDoomed == \A a \in Admin : apc[a] # "idle" => victim[a] \in doomed

(* Thumbnails are of files whose upload has completed.                      *)
NewIsBlank == \A f \in File : status[f] \in {"none", "pending"} => thumb[f] = "none"

DownIsIdle == ~up => \A w \in Worker : pc[w] = "idle"

(* Without a backfill, only the loop that has claimed a row changes it.     *)
AloneIsPending ==
    (\A b \in Batch : pc[b] = "off") =>
        \A w \in Worker : Claimed(w) => thumb[job[w]] = "pending"

Inductive ==
    /\ TypeOK
    /\ ReadyHasThumb
    /\ ExclusiveClaim
    /\ PendingIsMade
    /\ MarkHasThumb
    /\ VictimsAreDoomed
    /\ NewIsBlank
    /\ DownIsIdle
    /\ AloneIsPending

-----------------------------------------------------------------------------
StaysUp == <>[]up

(* Once the process stays up, every active image gets its thumbnail or is   *)
(* marked as failed, whatever order files arrive in and leave.              *)
ThumbsSettle ==
    StaysUp => \A f \in File :
        status[f] = "active" /\ thumb[f] \in {"none", "pending"}
            ~> status[f] # "active" \/ thumb[f] \in {"ready", "failed"}
=============================================================================
