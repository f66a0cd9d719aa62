------------------------------- MODULE ZipJobs -------------------------------
(***************************************************************************)
(* Prepared folder archives: the zip_jobs table, the archive objects in    *)
(* the bucket, the claim loops and the hourly sweep of                     *)
(* internal/zipjobs/worker.go, and the browsers that ask for an archive    *)
(* through the prepare and status handlers of internal/handler/zip.go.     *)
(* The folder contents change underneath all of them.                      *)
(*                                                                         *)
(* One SQL statement is one step (two for the claim, which locks a row and *)
(* then updates it); everything a handler or a worker does between two     *)
(* statements, or two calls to the bucket, can be interleaved with every   *)
(* other process.                                                          *)
(***************************************************************************)
EXTENDS Naturals, FiniteSets, FiniteSetsExt

CONSTANTS
    Folder,     \* ids of the folders
    Root,       \* folder_id NULL: the files that are in no folder
    Below,      \* Below[d]: d and every folder under it
    File,       \* ids of the files that may ever be registered
    Size,       \* size_bytes of a file
    Job,        \* ids zip_jobs rows may be given: bounds the jobs ever created
    NoJob,      \* no job
    Worker,     \* the claim loops, Worker.Concurrency of them
    Client,     \* browser tabs, each showing one zip status slot
    Faults,     \* what may go wrong: "bucket", "crash", and with the database: "look"
                \* (findJob's query) and "db" (every other statement)
    Edits       \* how contents may change: "upload", "move", "rmdir"

ASSUME FolderAssumption ==
    /\ Folder # {}
    /\ Root \notin Folder
    /\ Below \in [Folder -> SUBSET Folder]
    /\ \A d \in Folder : d \in Below[d]
    /\ \A d \in Folder : \A e \in Below[d] : Below[e] \subseteq Below[d]

ASSUME JobAssumption == NoJob \notin Job

ASSUME FileAssumption == Size \in [File -> Nat] /\ IsFiniteSet(File)

ASSUME SwitchAssumption ==
    /\ Faults \subseteq {"db", "look", "bucket", "crash"}
    /\ Edits \subseteq {"upload", "move", "rmdir"}

VARIABLES
    clock,      \* the last timestamp given out; created_at values are distinct
    horizon,    \* the timestamps up to this one are more than 24 hours old
    folders,    \* folder rows that exist
    fstatus,    \* files.status; "none": no row yet
    at,         \* files.folder_id
    born,       \* files.created_at
    status,     \* zip_jobs.status; "none": no row yet, "gone": cascaded away
    row,        \* the other columns of zip_jobs
    stored,     \* jobs whose archive object is in the bucket
    archive,    \* the files in that object
    up,         \* the server process is running
    wpc,        \* where each claim loop is
    wjob,       \* the job it has claimed
    entries,    \* what ListEntries gave it
    sweep,      \* expired jobs the sweep has listed and not yet handled
    reaped,     \* jobs whose object it has deleted and whose row it must mark
    cpc,        \* the request a tab has in flight, if any
    page,       \* the folder the tab shows
    seen,       \* the files findJob listed for the request
    chip,       \* the zip status slot of the tab
    blind,      \* history: tabs whose last look for a job met a database error
    asks        \* history: jobs a tab has inserted because it found none

files == <<folders, fstatus, at, born>>
jobs == <<status, row>>
bucket == <<stored, archive>>
loops == <<wpc, wjob, entries>>
cleaner == <<sweep, reaped>>
slots == <<cpc, page, seen, chip>>
history == <<blind, asks>>
tabs == <<slots, history>>
time == <<clock, horizon>>
vars == <<time, files, jobs, bucket, up, loops, cleaner, tabs>>

-----------------------------------------------------------------------------
JobStatus == {"none", "pending", "running", "ready", "failed", "gone"}
Views == {"blank", "preparing", "download", "failed", "empty"}

(* What collectEntries reports of a set of files and a row keeps of it.   *)
Fingerprint(S) ==
    [count |-> Cardinality(S), bytes |-> MapThenSumSet(LAMBDA f : Size[f], S)]

Prints == {Fingerprint(S) : S \in SUBSET File}

Row == [folder : Folder, print : Prints, created : Nat, expires : Nat]
Chip == [view : Views, job : Job \cup {NoJob}]

Active == {f \in File : fstatus[f] = "active"}

(* ListFolderTreeFiles: the active files of the folder and of every folder  *)
(* below it.  Deleting a folder moves its files to Root.                    *)
Tree(d) == {f \in Active : at[f] \in Below[d]}

HasRow(j) == status[j] \in {"pending", "running", "ready", "failed"}
InFlight(j) == status[j] \in {"pending", "running"}
Expired(j) == row[j].expires <= horizon
Pending == {j \in Job : status[j] = "pending"}

(* The rows that a claim has locked and not yet updated.                    *)
Locked == {wjob[w] : w \in {v \in Worker : wpc[v] = "claim"}}

(* Slips a change of the code could make stand before the definition they   *)
(* replace, under the name Slip_...; no behaviour of Spec uses them.        *)
Slip_ReusableWithoutCounts(d, S) ==
    {j \in Job :
        /\ HasRow(j)
        /\ row[j].folder = d
        /\ \/ InFlight(j)
           \/ /\ status[j] = "ready"
              /\ ~Expired(j)
              /\ S # {}
              /\ \A f \in S : born[f] < row[j].created}

Slip_ReusableComparesExpired(d, S) ==
    {j \in Job :
        /\ HasRow(j)
        /\ row[j].folder = d
        /\ \/ InFlight(j)
           \/ /\ status[j] = "ready"
              /\ Expired(j)
              /\ row[j].print = Fingerprint(S)}

Slip_ReusableForgetsPending(d, S) ==
    {j \in Job : status[j] = "running" /\ row[j].folder = d}

(* GetReusableZipJob.  The newest created_at of an empty listing is NULL,   *)
(* and no created_at is greater than NULL.                                  *)
Reusable(d, S) ==
    {j \in Job :
        /\ HasRow(j)
        /\ row[j].folder = d
        /\ \/ InFlight(j)
           \/ /\ status[j] = "ready"
              /\ ~Expired(j)
              /\ row[j].print = Fingerprint(S)
              /\ S # {}
              /\ \A f \in S : born[f] < row[j].created}

(* renderJobStatus for a row in status s.                                   *)
View(s) == CASE s = "ready" -> "download"
             [] s = "failed" -> "failed"
             [] OTHER -> "preparing"

-----------------------------------------------------------------------------
NoRow(d) == [folder |-> d, print |-> Fingerprint({}), created |-> 0, expires |-> 0]

(* The server has just started; the files it was started with are older     *)
(* than everything that is stamped from now on.                             *)
Init ==
    /\ clock = 0
    /\ horizon = 0
    /\ folders = Folder
    /\ fstatus \in [File -> {"none", "active"}]
    /\ at \in [File -> Folder \cup {Root}]
    /\ \A f \in File : fstatus[f] = "none" => at[f] = Root
    /\ born = [f \in File |-> 0]
    /\ status = [j \in Job |-> "none"]
    /\ row = [j \in Job |-> NoRow(CHOOSE d \in Folder : TRUE)]
    /\ stored = {}
    /\ archive = [j \in Job |-> {}]
    /\ up = TRUE
    /\ wpc = [w \in Worker |-> "idle"]
    /\ wjob = [w \in Worker |-> NoJob]
    /\ entries = [w \in Worker |-> {}]
    /\ sweep = {}
    /\ reaped = {}
    /\ cpc = [c \in Client |-> "idle"]
    /\ page \in [Client -> Folder]
    /\ seen = [c \in Client |-> {}]
    /\ chip = [c \in Client |-> [view |-> "blank", job |-> NoJob]]
    /\ blind = {}
    /\ asks = [c \in Client |-> {}]

-----------------------------------------------------------------------------
(* The folder contents, as the upload, delete, restore, move and folder     *)
(* handlers change them (each its one UPDATE, INSERT or DELETE).            *)

(* InitUpload, CreateMultipartUpload: created_at is stamped here, long      *)
(* before the file becomes active.                                          *)
CreateFile(f, d) ==
    /\ "upload" \in Edits
    /\ up
    /\ fstatus[f] = "none"
    /\ d \in folders \cup {Root}
    /\ clock' = clock + 1
    /\ fstatus' = [fstatus EXCEPT ![f] = "pending"]
    /\ at' = [at EXCEPT ![f] = d]
    /\ born' = [born EXCEPT ![f] = clock']
    /\ UNCHANGED <<horizon, folders, jobs, bucket, up, loops, cleaner, tabs>>

(* ConfirmUpload, CompleteMultipartUpload.                                  *)
CompleteUpload(f) ==
    /\ "upload" \in Edits
    /\ up
    /\ fstatus[f] = "pending"
    /\ fstatus' = [fstatus EXCEPT ![f] = "active"]
    /\ UNCHANGED <<time, folders, at, born, jobs, bucket, up, loops, cleaner, tabs>>

(* A file goes to another folder or to Root.  To the listings, a soft       *)
(* delete is a move to Root and a restore is a move back.                   *)
MoveFile(f, d) ==
    /\ "move" \in Edits
    /\ up
    /\ fstatus[f] = "active"
    /\ d \in folders \cup {Root}
    /\ d # at[f]
    /\ at' = [at EXCEPT ![f] = d]
    /\ UNCHANGED <<time, folders, fstatus, born, jobs, bucket, up, loops, cleaner, tabs>>

(* DELETE FROM folders: the subfolders and the zip_jobs rows of all of them *)
(* go with it (ON DELETE CASCADE), the files stay (ON DELETE SET NULL).     *)
(* It waits for the claims that have locked one of the rows.  Nothing is    *)
(* removed from the bucket.                                                 *)
DeleteFolder(d) ==
    /\ "rmdir" \in Edits
    /\ up
    /\ d \in folders
    /\ \A j \in Locked : row[j].folder \notin Below[d]
    /\ folders' = folders \ Below[d]
    /\ at' = [f \in File |-> IF at[f] \in Below[d] THEN Root ELSE at[f]]
    /\ status' = [j \in Job |-> IF HasRow(j) /\ row[j].folder \in Below[d]
                                THEN "gone" ELSE status[j]]
    /\ UNCHANGED <<time, fstatus, born, row, bucket, up, loops, cleaner, tabs>>

-----------------------------------------------------------------------------
(* The handlers.  A request is its listing, the query for a reusable job    *)
(* and, for prepare, the INSERT; each may find the world changed.           *)

(* The tab loads the page of a folder, with a blank slot.                   *)
Browse(c, d) ==
    /\ up
    /\ cpc[c] = "idle"
    /\ d \in folders
    /\ page' = [page EXCEPT ![c] = d]
    /\ chip' = [chip EXCEPT ![c] = [view |-> "blank", job |-> NoJob]]
    /\ blind' = blind \ {c}
    /\ UNCHANGED <<time, files, jobs, bucket, up, loops, cleaner, cpc, seen, asks>>

(* POST .../zip/prepare: the tab may show any folder, even one that has     *)
(* been deleted since the page was loaded.                                  *)
ClickPrepare(c) ==
    /\ up
    /\ cpc[c] = "idle"
    /\ cpc' = [cpc EXCEPT ![c] = "prepare"]
    /\ seen' = [seen EXCEPT ![c] = Tree(page[c])]
    /\ blind' = blind \ {c}
    /\ UNCHANGED <<time, files, jobs, bucket, up, loops, cleaner, page, chip, asks>>

(* GET .../zip/status: the fragment polls itself while it says "Preparing". *)
Poll(c) ==
    /\ up
    /\ cpc[c] = "idle"
    /\ chip[c].view = "preparing"
    /\ cpc' = [cpc EXCEPT ![c] = "status"]
    /\ seen' = [seen EXCEPT ![c] = Tree(page[c])]
    /\ blind' = blind \ {c}
    /\ UNCHANGED <<time, files, jobs, bucket, up, loops, cleaner, page, chip, asks>>

(* The response swaps the slot and the request is over.                     *)
Reply(c, view, j) ==
    /\ cpc' = [cpc EXCEPT ![c] = "idle"]
    /\ seen' = [seen EXCEPT ![c] = {}]
    /\ chip' = [chip EXCEPT ![c] = [view |-> view, job |-> j]]

(* findJob returns the newest reusable row and renderJobStatus shows it.    *)
FindJob(c) ==
    /\ cpc[c] \in {"prepare", "status"}
    /\ \E j \in Reusable(page[c], seen[c]) :
        /\ \A k \in Reusable(page[c], seen[c]) : row[k].created <= row[j].created
        /\ Reply(c, View(status[j]), j)
    /\ UNCHANGED <<time, files, jobs, bucket, up, loops, cleaner, page, history>>

Slip_FindNothingKeepsSlot(c) ==
    /\ cpc[c] = "status"
    /\ Reusable(page[c], seen[c]) = {}
    /\ Reply(c, "preparing", chip[c].job)
    /\ UNCHANGED <<time, files, jobs, bucket, up, loops, cleaner, page, history>>

(* status with no such row: the slot is emptied and stops polling.          *)
FindNothing(c) ==
    /\ cpc[c] = "status"
    /\ Reusable(page[c], seen[c]) = {}
    /\ Reply(c, "empty", NoJob)
    /\ UNCHANGED <<time, files, jobs, bucket, up, loops, cleaner, page, history>>

(* prepare with no such row goes on to the INSERT.                          *)
NeedJob(c) ==
    /\ cpc[c] = "prepare"
    /\ Reusable(page[c], seen[c]) = {}
    /\ cpc' = [cpc EXCEPT ![c] = "create"]
    /\ UNCHANGED <<time, files, jobs, bucket, up, loops, cleaner, page, seen, chip, history>>

(* The query fails, and findJob takes the error for "no such job": status   *)
(* empties the slot and prepare goes on to the INSERT, whatever there is.   *)
LookupFails(c) ==
    /\ "look" \in Faults
    /\ blind' = blind \cup {c}
    /\ \/ cpc[c] = "status" /\ Reply(c, "empty", NoJob)
       \/ /\ cpc[c] = "prepare"
          /\ cpc' = [cpc EXCEPT ![c] = "create"]
          /\ UNCHANGED <<seen, chip>>
    /\ UNCHANGED <<time, files, jobs, bucket, up, loops, cleaner, page, asks>>

(* CreateZipJob, with the counts of the listing findJob made.               *)
CreateZipJob(c) ==
    /\ cpc[c] = "create"
    /\ page[c] \in folders
    /\ \E j \in Job :
        /\ status[j] = "none"
        /\ clock' = clock + 1
        /\ status' = [status EXCEPT ![j] = "pending"]
        /\ row' = [row EXCEPT ![j] = [folder |-> page[c],
                                      print |-> Fingerprint(seen[c]),
                                      created |-> clock',
                                      expires |-> 0]]
        /\ Reply(c, "preparing", j)
        /\ asks' = IF c \in blind THEN asks ELSE [asks EXCEPT ![c] = @ \cup {j}]
    /\ blind' = blind \ {c}
    /\ UNCHANGED <<horizon, files, bucket, up, loops, cleaner, page>>

(* A 500 leaves the slot as it was (htmx does not swap an error): the       *)
(* listing failed, or the INSERT did.  The INSERT is refused when the       *)
(* folder is gone (foreign key), and when the model has run out of job ids. *)
RequestFails(c) ==
    /\ \/ cpc[c] # "idle" /\ "db" \in Faults
       \/ cpc[c] = "create" /\ page[c] \notin folders
       \/ cpc[c] = "create" /\ \A j \in Job : status[j] # "none"
    /\ cpc' = [cpc EXCEPT ![c] = "idle"]
    /\ seen' = [seen EXCEPT ![c] = {}]
    /\ blind' = blind \ {c}
    /\ UNCHANGED <<time, files, jobs, bucket, up, loops, cleaner, page, chip, asks>>

-----------------------------------------------------------------------------
(* The claim loops: RunOnce and run.                                        *)

(* A loop that finds a job keeps it from the moment it has locked the row.  *)
Take(w, S) ==
    /\ up
    /\ wpc[w] = "idle"
    /\ \E j \in S :
        /\ \A k \in S : row[j].created <= row[k].created
        /\ wjob' = [wjob EXCEPT ![w] = j]
    /\ wpc' = [wpc EXCEPT ![w] = "claim"]
    /\ UNCHANGED <<time, files, jobs, bucket, up, entries, cleaner, tabs>>

Slip_ClaimLocked(w) == Take(w, Pending)
Slip_ClaimFailedAgain(w) == Take(w, {j \in Job : status[j] \in {"pending", "failed"}} \ Locked)

(* ClaimNextPendingZipJob, the subquery: the oldest pending row that no     *)
(* other claim has locked (FOR UPDATE SKIP LOCKED).                         *)
Claim(w) == Take(w, Pending \ Locked)

(* The loop moves to pc; what it listed is kept only while it uploads.      *)
Goto(w, pc, S) ==
    /\ wpc' = [wpc EXCEPT ![w] = pc]
    /\ entries' = [entries EXCEPT ![w] = S]

Done(w) == Goto(w, "idle", {}) /\ wjob' = [wjob EXCEPT ![w] = NoJob]

(* ClaimNextPendingZipJob, the update.  An error leaves the row as it was,  *)
(* or loses the answer when the row is updated already; RunOnce gives up    *)
(* until the next tick.                                                     *)
SetRunning(w) ==
    /\ wpc[w] = "claim"
    /\ \/ /\ status' = [status EXCEPT ![wjob[w]] = "running"]
          /\ Goto(w, "list", {})
          /\ UNCHANGED wjob
       \/ /\ "db" \in Faults
          /\ status' \in {status, [status EXCEPT ![wjob[w]] = "running"]}
          /\ Done(w)
    /\ UNCHANGED <<time, files, row, bucket, up, cleaner, tabs>>

(* ListEntries: the folder as it is now, not as it was for the row's counts.*)
(* A deleted folder lists as an empty one.                                  *)
ListEntries(w) ==
    /\ wpc[w] = "list"
    /\ \/ Goto(w, "upload", Tree(row[wjob[w]].folder))
       \/ "db" \in Faults /\ Goto(w, "fail", {})
    /\ UNCHANGED <<time, files, jobs, bucket, up, wjob, cleaner, tabs>>

Slip_UploadIgnoresError(w) ==
    /\ wpc[w] = "upload"
    /\ Goto(w, "mark", {})
    /\ \/ /\ stored' = stored \cup {wjob[w]}
          /\ archive' = [archive EXCEPT ![wjob[w]] = entries[w]]
       \/ "bucket" \in Faults /\ UNCHANGED bucket
    /\ UNCHANGED <<time, files, jobs, up, wjob, cleaner, tabs>>

(* Upload returns: the whole archive is an object, or (a fetch, the build   *)
(* or the upload failed) there is none.                                     *)
Upload(w) ==
    /\ wpc[w] = "upload"
    /\ \/ /\ stored' = stored \cup {wjob[w]}
          /\ archive' = [archive EXCEPT ![wjob[w]] = entries[w]]
          /\ Goto(w, "mark", {})
       \/ /\ "bucket" \in Faults
          /\ Goto(w, "fail", {})
          /\ UNCHANGED bucket
    /\ UNCHANGED <<time, files, jobs, up, wjob, cleaner, tabs>>

(* MarkZipJobReady: UPDATE ... WHERE id, whatever the status; nothing when  *)
(* the row is gone.  Its error is only logged.                              *)
MarkReady(w) ==
    /\ wpc[w] = "mark"
    /\ \/ /\ HasRow(wjob[w])
          /\ clock' = clock + 1
          /\ status' = [status EXCEPT ![wjob[w]] = "ready"]
          /\ row' = [row EXCEPT ![wjob[w]].expires = clock']
       \/ ~HasRow(wjob[w]) /\ UNCHANGED <<clock, jobs>>
       \/ "db" \in Faults /\ UNCHANGED <<clock, jobs>>
    /\ Done(w)
    /\ UNCHANGED <<horizon, files, bucket, up, cleaner, tabs>>

Slip_MarkFailedNeverMarks(w) ==
    /\ wpc[w] = "fail"
    /\ Done(w)
    /\ UNCHANGED <<time, files, jobs, bucket, up, cleaner, tabs>>

(* fail: MarkZipJobFailed, whose error is only logged.                      *)
MarkFailed(w) ==
    /\ wpc[w] = "fail"
    /\ \/ /\ HasRow(wjob[w])
          /\ status' = [status EXCEPT ![wjob[w]] = "failed"]
       \/ ~HasRow(wjob[w]) /\ UNCHANGED status
       \/ "db" \in Faults /\ UNCHANGED status
    /\ Done(w)
    /\ UNCHANGED <<time, files, row, bucket, up, cleaner, tabs>>

-----------------------------------------------------------------------------
(* The hourly sweep: CleanupExpired.                                        *)

Slip_ListExpiredTakesAllReady ==
    /\ up
    /\ sweep = {}
    /\ reaped = {}
    /\ sweep' = {j \in Job : status[j] = "ready"}
    /\ sweep' # {}
    /\ UNCHANGED <<time, files, jobs, bucket, up, loops, reaped, tabs>>

(* ListExpiredReadyZipJobs.                                                 *)
ListExpired ==
    /\ up
    /\ sweep = {}
    /\ reaped = {}
    /\ sweep' = {j \in Job : status[j] = "ready" /\ Expired(j)}
    /\ sweep' # {}
    /\ UNCHANGED <<time, files, jobs, bucket, up, loops, reaped, tabs>>

(* Delete the object of one listed job.                                     *)
DeleteArchive(j) ==
    /\ reaped = {}
    /\ j \in sweep
    /\ sweep' = sweep \ {j}
    /\ reaped' = {j}
    /\ stored' = stored \ {j}
    /\ archive' = [archive EXCEPT ![j] = {}]
    /\ UNCHANGED <<time, files, jobs, up, loops, tabs>>

Slip_DeleteFailsButMarks(j) ==
    /\ "bucket" \in Faults
    /\ reaped = {}
    /\ j \in sweep
    /\ sweep' = sweep \ {j}
    /\ reaped' = {j}
    /\ UNCHANGED <<time, files, jobs, bucket, up, loops, tabs>>

(* The delete fails: the job is left for the next sweep, its row untouched. *)
DeleteFails(j) ==
    /\ "bucket" \in Faults
    /\ reaped = {}
    /\ j \in sweep
    /\ sweep' = sweep \ {j}
    /\ UNCHANGED <<time, files, jobs, bucket, up, loops, reaped, tabs>>

(* MarkZipJobExpired, whose error is only logged.                           *)
MarkExpired(j) ==
    /\ j \in reaped
    /\ reaped' = {}
    /\ \/ HasRow(j) /\ status' = [status EXCEPT ![j] = "failed"]
       \/ ~HasRow(j) /\ UNCHANGED status
       \/ "db" \in Faults /\ UNCHANGED status
    /\ UNCHANGED <<time, files, row, bucket, up, loops, sweep, tabs>>

-----------------------------------------------------------------------------
(* The process and the time.                                                *)

(* The process is killed: its loops and its requests are lost.  A slot that *)
(* polls goes on polling the server that comes back.                        *)
Crash ==
    /\ "crash" \in Faults
    /\ up
    /\ up' = FALSE
    /\ wpc' = [w \in Worker |-> "idle"]
    /\ wjob' = [w \in Worker |-> NoJob]
    /\ entries' = [w \in Worker |-> {}]
    /\ sweep' = {}
    /\ reaped' = {}
    /\ cpc' = [c \in Client |-> "idle"]
    /\ seen' = [c \in Client |-> {}]
    /\ UNCHANGED <<time, files, jobs, bucket, page, chip, history>>

Slip_RestartWithoutRecovery ==
    /\ ~up
    /\ up' = TRUE
    /\ UNCHANGED <<time, files, jobs, bucket, loops, cleaner, tabs>>

(* main: RecoverStale, then Start, then the first request.                  *)
Restart ==
    /\ ~up
    /\ up' = TRUE
    /\ \/ status' = [j \in Job |-> IF status[j] = "running" THEN "failed" ELSE status[j]]
       \/ "db" \in Faults /\ UNCHANGED status
    /\ UNCHANGED <<time, files, row, bucket, loops, cleaner, tabs>>

(* A day passes since a job became ready: expires_at is NOW() + 24 hours,   *)
(* kept here as the moment of MarkZipJobReady, so the older ones are over   *)
(* too.  (A horizon between two of these moments tells no row from another.)*)
Tick ==
    /\ \E j \in Job :
        /\ status[j] = "ready"
        /\ ~Expired(j)
        /\ horizon' = row[j].expires
    /\ UNCHANGED <<clock, files, jobs, bucket, up, loops, cleaner, tabs>>

-----------------------------------------------------------------------------
EditContents ==
    \/ \E f \in File : CompleteUpload(f)
    \/ \E f \in File, d \in Folder \cup {Root} : CreateFile(f, d) \/ MoveFile(f, d)
    \/ \E d \in Folder : DeleteFolder(d)

Request(c) ==
    \/ FindJob(c) \/ FindNothing(c) \/ NeedJob(c) \/ LookupFails(c)
    \/ CreateZipJob(c) \/ RequestFails(c)
Loop(w) ==
    \/ Claim(w) \/ SetRunning(w) \/ ListEntries(w) \/ Upload(w)
    \/ MarkReady(w) \/ MarkFailed(w)
Sweep == ListExpired \/ \E j \in Job : DeleteArchive(j) \/ DeleteFails(j) \/ MarkExpired(j)

Next ==
    \/ EditContents
    \/ \E c \in Client, d \in Folder : Browse(c, d)
    \/ \E c \in Client : ClickPrepare(c) \/ Poll(c) \/ Request(c)
    \/ \E w \in Worker : Loop(w)
    \/ Sweep
    \/ Crash
    \/ Restart
    \/ Tick

Spec == Init /\ [][Next]_vars

(***************************************************************************)
(* Fairness.  The goroutines of the process and the requests it serves are *)
(* scheduled; the process is started again after a crash; a fragment that  *)
(* says "Preparing" polls every 3 seconds, whatever else its tab does in   *)
(* between (strong fairness: the timer is not the click's); time passes.   *)
(* A sweep runs every hour, and a bucket that is asked over and over to    *)
(* delete an object does it at last (strong fairness: a failed delete is   *)
(* retried by the next sweep).  Nobody has to click, and nothing has to    *)
(* fail.                                                                   *)
(***************************************************************************)
Fairness ==
    /\ \A w \in Worker : WF_vars(Loop(w))
    /\ \A c \in Client : SF_vars(Poll(c)) /\ WF_vars(Request(c))
    /\ WF_vars(Sweep)
    /\ \A j \in Job : SF_vars(DeleteArchive(j))
    /\ WF_vars(Restart)
    /\ WF_vars(Tick)

FairSpec == Spec /\ Fairness
-----------------------------------------------------------------------------
(* The variables hold what their columns and locals hold.                   *)
TypeOK ==
    /\ clock \in Nat
    /\ horizon \in Nat
    /\ folders \subseteq Folder
    /\ fstatus \in [File -> {"none", "pending", "active"}]
    /\ at \in [File -> Folder \cup {Root}]
    /\ born \in [File -> Nat]
    /\ status \in [Job -> JobStatus]
    /\ row \in [Job -> Row]
    /\ stored \subseteq Job
    /\ archive \in [Job -> SUBSET File]
    /\ up \in BOOLEAN
    /\ wpc \in [Worker -> {"idle", "claim", "list", "upload", "mark", "fail"}]
    /\ wjob \in [Worker -> Job \cup {NoJob}]
    /\ \A w \in Worker : wjob[w] = NoJob <=> wpc[w] = "idle"
    /\ entries \in [Worker -> SUBSET File]
    /\ sweep \subseteq Job
    /\ reaped \subseteq Job
    /\ cpc \in [Client -> {"idle", "prepare", "status", "create"}]
    /\ page \in [Client -> Folder]
    /\ seen \in [Client -> SUBSET File]
    /\ chip \in [Client -> Chip]
    /\ blind \subseteq Client
    /\ asks \in [Client -> SUBSET Job]

(* While the row of a job says "ready" and has not expired, its archive is  *)
(* in the bucket: no crash, no error and no sweep takes it away early.      *)
ReadyHasArchive ==
    \A j \in Job : status[j] = "ready" /\ ~Expired(j) => j \in stored

(* Two claim loops never have the same job, from the claim on, and nobody   *)
(* else moves its row meanwhile: no sweep, restart or other loop.  Only the *)
(* deletion of its folder can take the row of a job that is being built.    *)
ExclusiveBuild ==
    /\ \A v, w \in Worker : v # w /\ wpc[v] # "idle" => wjob[v] # wjob[w]
    /\ \A w \in Worker :
        /\ wpc[w] = "claim" => status[wjob[w]] = "pending"
        /\ wpc[w] \notin {"idle", "claim"} => status[wjob[w]] \in {"running", "gone"}

(* Unless a database error hits a claim, a mark or the recovery, a row that *)
(* says "running" while the server runs is being built by one of its loops: *)
(* no kill leaves a job that looks busy and that nobody works on.           *)
RunningIsBuilt ==
    up /\ "db" \notin Faults =>
        \A j \in Job : status[j] = "running" => \E w \in Worker : wjob[w] = j

(* A tab does not add a job to a folder while one that it asked for before  *)
(* is in flight ("job dedupe already collapses repeat clicks"), whatever    *)
(* other tabs ask and whatever fails but the look itself: one that meets a  *)
(* database error is taken for "no job", and its insert is excepted.        *)
OneJobPerTab ==
    \A c \in Client : \A j, k \in asks[c] :
        InFlight(j) /\ InFlight(k) /\ row[j].folder = row[k].folder => j = k

(* The archive a tab is offered has every file findJob listed, and no file  *)
(* that the folder does not have ("a ready one whose snapshot still matches *)
(* the folder contents").                                                   *)
ServedIsCurrent ==
    [][\A c \in Client :
          FindJob(c) /\ chip'[c].view = "download"
              => /\ seen[c] \subseteq archive[chip'[c].job]
                 /\ archive[chip'[c].job] \subseteq Tree(page[c])]_vars

(* What is offered was listed for the offer or is in the folder, and what   *)
(* was listed and is still there is offered: no change during the request   *)
(* itself counts ("a ready one whose snapshot still matches the folder      *)
(* contents").                                                              *)
ServedMatches ==
    [][\A c \in Client :
          FindJob(c) /\ chip'[c].view = "download"
              => /\ seen[c] \cap Tree(page[c]) \subseteq archive[chip'[c].job]
                 /\ archive[chip'[c].job] \subseteq seen[c] \cup Tree(page[c])]_vars

(* An archive that is offered is never rewritten or removed before it       *)
(* expires: a resumed download continues the object it began with.          *)
ArchiveStable ==
    [][\A j \in Job :
          status[j] = "ready" /\ ~Expired(j)'
              => archive'[j] = archive[j] /\ j \in stored']_vars

(* A tab that polls for a job is offered its archive when it is ready and   *)
(* the folder is as it was when the archive was asked for.  A poll whose    *)
(* look for the job meets a database error does empty the slot and is       *)
(* excepted (blind), and so is a folder without files, whose archive is     *)
(* never offered: README.                                                   *)
ReadyShown ==
    [][\A c \in Client :
          chip[c].view = "preparing" /\ chip'[c].view = "empty"
          /\ c \notin blind' /\ seen[c] # {}
              => LET j == chip[c].job
                 IN ~(/\ status[j] = "ready"
                      /\ ~Expired(j)
                      /\ row[j].print = Fingerprint(Tree(page[c])))]_vars

(* How the table and the bucket keep the promise.                           *)
PromisedPhase ==
    [j \in Job |->
        CASE status[j] = "none" -> "new"
          [] status[j] = "pending" -> "queued"
          [] status[j] = "running" -> "building"
          [] status[j] = "ready" /\ ~Expired(j) -> "offered"
          [] OTHER -> "over"]

Promise == INSTANCE ArchivePromise WITH phase <- PromisedPhase, held <- stored

(* The jobs keep the promise: what is offered is in the bucket from before  *)
(* it is offered until after it has expired, and no row is revived.         *)
KeepsPromise == Promise!Spec

(* What every step relies on; together with the invariants above it is      *)
(* inductive.                                                               *)

(* The loop that is about to mark a job ready has put its archive away.     *)
MarkedIsStored ==
    \A w \in Worker :
        wpc[w] = "mark" /\ status[wjob[w]] = "running" => wjob[w] \in stored

(* What the sweep has listed stays over until it is dealt with.             *)
SweepIsOver ==
    \A j \in sweep \cup reaped :
        \/ status[j] \in {"failed", "gone"}
        \/ status[j] = "ready" /\ Expired(j)

DownIsIdle == ~up => \A w \in Worker : wpc[w] = "idle"

(* The clock is ahead of every expiry and of the horizon.                   *)
TimeOrder == horizon <= clock /\ \A j \in Job : row[j].expires <= clock

Inductive ==
    /\ TypeOK
    /\ ReadyHasArchive
    /\ ExclusiveBuild
    /\ RunningIsBuilt
    /\ MarkedIsStored
    /\ SweepIsOver
    /\ DownIsIdle
    /\ TimeOrder

StaysUp == <>[]up

(* Every job is settled: once the process stays up, a pending or running    *)
(* row becomes ready or failed, or goes with its folder.                    *)
JobsSettle == StaysUp => \A j \in Job : InFlight(j) ~> ~InFlight(j)

(* No tab polls for ever.                                                   *)
PollingEnds ==
    StaysUp => \A c \in Client : chip[c].view = "preparing" ~> chip[c].view # "preparing"

(* An archive that has been offered is deleted from the bucket in the end,  *)
(* however many deletes fail and however many sweeps are killed.            *)
OffersReclaimed ==
    StaysUp => \A j \in Job : status[j] = "ready" ~> j \notin stored
=============================================================================
