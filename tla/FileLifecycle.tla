---------------------------- MODULE FileLifecycle ----------------------------
(***************************************************************************)
(* The life of a file: registered, uploaded by the browser straight into   *)
(* the bucket, completed, put into the trash, restored, removed for good,  *)
(* alone or in bulk, with the rows the audit log gets (internal/handler:   *)
(* multipart.go, upload.go, files.go, bulk.go, admin.go;                   *)
(* web/static/upload.js).                                                  *)
(*                                                                         *)
(* A handler is a sequence of SQL statements and bucket calls; each is a   *)
(* step, and other requests run in between.                                *)
(***************************************************************************)
EXTENDS Naturals

CONSTANTS
    File,       \* ids that registered files can have
    Old,        \* files that are there, active, from the start
    Request,    \* requests that can be in flight at the same time
    NoRequest,  \* the browser waits for no answer
    Again,      \* the bucket answers a repeated completion of an upload as it
                \* did the first one, while the object is there
    Faults      \* "db", "bucket": calls fail; "crash": the server is killed;
                \* "lost": the browser gets no answer

ASSUME LifecycleAssumption ==
    /\ Old \subseteq File
    /\ NoRequest \notin Request
    /\ Again \in BOOLEAN
    /\ Faults \subseteq {"db", "bucket", "crash", "lost"}

VARIABLES
    status,     \* files.status; "none": no row yet, "gone": hard-deleted
    multipart,  \* the multipart upload of a file in the bucket
    bytes,      \* files whose object is in the bucket
    audit,      \* audit_log: pairs of an action and a file
    client,     \* how far the browser is with the upload of a file
    asked,      \* the request whose answer it waits for
    up,         \* the server process is running
    req,        \* the requests in flight
    shown,      \* files that have been listed in a folder (history)
    trashed,    \* files that have been listed in the trash (history)
    doomed      \* files whose permanent deletion has begun (history)

browser == <<client, asked>>
store == <<multipart, bytes>>
history == <<shown, trashed, doomed>>
vars == <<status, store, audit, browser, up, req, history>>

(* A request: its step, what it does, the files it is about, and those left *)
(* to do in the loop it is in.                                              *)
Req == [at : {"idle", "insert", "s3", "row", "object", "act", "log"},
        op : {"none", "create", "upload", "delete", "bulk", "hard_delete", "restore"},
        files : SUBSET File, left : SUBSET File]
Idle == [at |-> "idle", op |-> "none", files |-> {}, left |-> {}]

HasRow(f) == status[f] \in {"pending", "active", "deleted"}

Init ==
    /\ status = [f \in File |-> IF f \in Old THEN "active" ELSE "none"]
    /\ multipart = [f \in File |-> IF f \in Old THEN "done" ELSE "none"]
    /\ bytes = Old
    /\ audit = {}
    /\ client = [f \in File |-> IF f \in Old THEN "done" ELSE "none"]
    /\ asked = [f \in File |-> NoRequest]
    /\ up = TRUE
    /\ req = [r \in Request |-> Idle]
    /\ shown = Old
    /\ trashed = {}
    /\ doomed = {}

Begin(r, p, o, S) ==
    /\ up
    /\ req[r] = Idle
    /\ req' = [req EXCEPT ![r] = [at |-> p, op |-> o, files |-> S, left |-> S]]

Goto(r, p) ==
    req' = [req EXCEPT ![r] = [at |-> p, op |-> @.op, files |-> @.files, left |-> @.files]]
Strike(r, f) ==
    req' = [req EXCEPT ![r] = [at |-> @.at, op |-> @.op, files |-> @.files, left |-> @.left \ {f}]]
End(r) == req' = [req EXCEPT ![r] = Idle]

(* The answer to a request reaches the browser that still waits for it.     *)
Answer(r, c) ==
    /\ client' = [f \in File |-> IF asked[f] = r THEN c ELSE client[f]]
    /\ asked' = [f \in File |-> IF asked[f] = r THEN NoRequest ELSE asked[f]]

(* The request ends with an error: the browser stays where it was.          *)
Refuse(r) ==
    /\ End(r)
    /\ asked' = [f \in File |-> IF asked[f] = r THEN NoRequest ELSE asked[f]]
    /\ UNCHANGED client

(* A call of r fails, or its context ended with the browser's connection.   *)
Fails(r, fault) ==
    \/ fault \in Faults
    \/ req[r].op \in {"create", "upload"} /\ \A f \in req[r].files : asked[f] # r

-----------------------------------------------------------------------------
(* Registering an upload.                                                   *)

(* CreateMultipartUpload: first the bucket ...                              *)
Create(r, f) ==
    /\ client[f] = "none"
    /\ multipart[f] = "none"
    /\ status[f] = "none"
    /\ asked[f] = NoRequest
    /\ Begin(r, "insert", "create", {f})
    /\ multipart' = [multipart EXCEPT ![f] = "open"]
    /\ asked' = [asked EXCEPT ![f] = r]
    /\ UNCHANGED <<status, bytes, audit, client, up, history>>

(* ... then the row.  If that fails the upload stays open in the bucket.    *)
InsertRow(r) ==
    /\ req[r].at = "insert"
    /\ \/ /\ status' = [f \in File |-> IF f \in req[r].files THEN "pending" ELSE status[f]]
          /\ Answer(r, "parts")
          /\ End(r)
       \/ Fails(r, "db") /\ Refuse(r) /\ UNCHANGED status
    /\ UNCHANGED <<store, audit, up, history>>

(* InitUpload: a signed link for a single PUT, and the row.                 *)
InitUpload(f) ==
    /\ up
    /\ client[f] = "none"
    /\ multipart[f] = "none"
    /\ status[f] = "none"
    /\ asked[f] = NoRequest
    /\ status' = [status EXCEPT ![f] = "pending"]
    /\ client' = [client EXCEPT ![f] = "put"]
    /\ UNCHANGED <<store, audit, asked, up, req, history>>

-----------------------------------------------------------------------------
(* The browser.                                                             *)

(* The last part, or the one object, is in the bucket.                      *)
Send(f) ==
    /\ \/ client[f] = "parts" /\ multipart[f] = "open" /\ UNCHANGED bytes
       \/ client[f] = "put" /\ bytes' = bytes \cup {f}
    /\ client' = [client EXCEPT ![f] = "sent"]
    /\ UNCHANGED <<status, multipart, audit, asked, up, req, history>>

(* The upload is cancelled: AbortMultipartUpload, whose error is ignored;   *)
(* the row stays.  Or the browser is closed.                                *)
GiveUp(f) ==
    /\ client[f] \in {"parts", "put", "sent"}
    /\ client' = [client EXCEPT ![f] = "stopped"]
    /\ asked' = [asked EXCEPT ![f] = NoRequest]
    /\ \/ multipart[f] = "open" /\ multipart' = [multipart EXCEPT ![f] = "aborted"]
       \/ UNCHANGED multipart
    /\ UNCHANGED <<status, bytes, audit, up, req, history>>

(* The connection is lost; the browser may ask again.                       *)
Lose(f) ==
    /\ "lost" \in Faults
    /\ asked[f] # NoRequest
    /\ asked' = [asked EXCEPT ![f] = NoRequest]
    /\ UNCHANGED <<status, store, audit, client, up, req, history>>

-----------------------------------------------------------------------------
(* Completing an upload.                                                    *)

(* CompleteMultipartUpload: asked for by the browser once all parts are     *)
(* there, and again after an error or when no answer came.                  *)
Complete(r, f) ==
    /\ client[f] = "sent"
    /\ multipart[f] # "none"
    /\ asked[f] = NoRequest
    /\ Begin(r, "s3", "upload", {f})
    /\ asked' = [asked EXCEPT ![f] = r]
    /\ UNCHANGED <<status, store, audit, client, up, history>>

Recognised(f) == Again /\ multipart[f] = "done" /\ f \in bytes

(* The bucket puts the parts together.                                      *)
Assemble(f) ==
    /\ multipart[f] = "open"
    /\ multipart' = [multipart EXCEPT ![f] = "done"]
    /\ bytes' = bytes \cup {f}

Slip_CompleteS3NeverAgain(r) ==
    /\ req[r].at = "s3"
    /\ \E f \in req[r].files :
        \/ Assemble(f) /\ Goto(r, "row") /\ UNCHANGED browser
        \/ multipart[f] # "open" /\ Refuse(r) /\ UNCHANGED store
    /\ UNCHANGED <<status, audit, up, history>>

Slip_CompleteS3IgnoresError(r) ==
    /\ req[r].at = "s3"
    /\ \E f \in req[r].files : Assemble(f) \/ (multipart[f] # "open" /\ UNCHANGED store)
    /\ Goto(r, "row")
    /\ UNCHANGED <<status, audit, browser, up, history>>

(* CompleteS3.  A call that fails may have done its work.                   *)
CompleteS3(r) ==
    /\ req[r].at = "s3"
    /\ \E f \in req[r].files :
        \/ Assemble(f) /\ Goto(r, "row") /\ UNCHANGED browser
        \/ Recognised(f) /\ Goto(r, "row") /\ UNCHANGED <<store, browser>>
        \/ multipart[f] # "open" /\ ~Recognised(f) /\ Refuse(r) /\ UNCHANGED store
        \/ Fails(r, "bucket") /\ Refuse(r) /\ (Assemble(f) \/ UNCHANGED store)
    /\ UNCHANGED <<status, audit, up, history>>

(* UpdateFileSizeAndStatus: active, whatever the status was.  A completion  *)
(* that is late, or repeated, takes the file out of the trash.              *)
UpdateRow(r) ==
    /\ req[r].at = "row"
    /\ \E f \in req[r].files :
        \/ /\ HasRow(f)
           /\ status' = [status EXCEPT ![f] = "active"]
           /\ shown' = shown \cup {f}
           /\ Goto(r, "log")
           /\ UNCHANGED browser
        \/ /\ ~HasRow(f) \/ Fails(r, "db")
           /\ Refuse(r)
           /\ UNCHANGED <<status, shown>>
    /\ UNCHANGED <<store, audit, up, trashed, doomed>>

(* ConfirmUpload, after the single PUT: ActivateFile, only when pending;    *)
(* otherwise an error that changes nothing.                                 *)
Confirm(r, f) ==
    /\ client[f] = "sent"
    /\ multipart[f] = "none"
    /\ asked[f] = NoRequest
    /\ status[f] = "pending"
    /\ Begin(r, "log", "upload", {f})
    /\ asked' = [asked EXCEPT ![f] = r]
    /\ status' = [status EXCEPT ![f] = "active"]
    /\ shown' = shown \cup {f}
    /\ UNCHANGED <<store, audit, client, up, trashed, doomed>>

-----------------------------------------------------------------------------
(* Deleting and restoring.  The pages a request comes from list files that  *)
(* were active, or in the trash, when they were rendered.                   *)

(* DeleteFile: the row is read; its status is not looked at.                *)
Delete(r, f) ==
    /\ f \in shown
    /\ HasRow(f)
    /\ Begin(r, "act", "delete", {f})
    /\ UNCHANGED <<status, store, audit, browser, up, history>>

Slip_DestroyRowFirst(r, f) ==
    /\ f \in shown
    /\ HasRow(f)
    /\ Begin(r, "act", "hard_delete", {f})
    /\ doomed' = doomed \cup {f}
    /\ UNCHANGED <<status, store, audit, browser, up, shown, trashed>>

(* DeleteFile, permanent.                                                   *)
Destroy(r, f) ==
    /\ f \in shown
    /\ HasRow(f)
    /\ Begin(r, "object", "hard_delete", {f})
    /\ doomed' = doomed \cup {f}
    /\ UNCHANGED <<status, store, audit, browser, up, shown, trashed>>

(* BulkDelete: all rows are read, and all have to be active.                *)
BulkDelete(r, S) ==
    /\ S # {}
    /\ \A f \in S : status[f] = "active"
    /\ \/ Begin(r, "act", "bulk", S) /\ UNCHANGED doomed
       \/ Begin(r, "object", "hard_delete", S) /\ doomed' = doomed \cup S
    /\ UNCHANGED <<status, store, audit, browser, up, shown, trashed>>

Slip_DeleteObjectStopsEarly(r) ==
    /\ req[r].at = "object"
    /\ \E f \in req[r].left :
        /\ Goto(r, "act")
        /\ \/ bytes' = bytes \ {f}
           \/ "bucket" \in Faults /\ UNCHANGED bytes
    /\ UNCHANGED <<status, multipart, audit, browser, up, history>>

(* The objects first, one after the other; errors are ignored.              *)
DeleteObject(r) ==
    /\ req[r].at = "object"
    /\ \E f \in req[r].left :
        /\ IF req[r].left = {f} THEN Goto(r, "act")
                                ELSE Strike(r, f)
        /\ \/ bytes' = bytes \ {f}
           \/ "bucket" \in Faults /\ UNCHANGED bytes
    /\ UNCHANGED <<status, multipart, audit, browser, up, history>>

(* The rows r changes: HardDeleteFile(sMany) and SoftDeleteFile whatever    *)
(* the status is, SoftDeleteFilesMany only those that are still active.     *)
Hit(r) == {f \in req[r].files : IF req[r].op = "bulk" THEN status[f] = "active" ELSE HasRow(f)}

Slip_DeleteRowsIgnoresError(r) ==
    /\ req[r].at = "act"
    /\ Goto(r, "log")
    /\ \/ /\ req[r].op = "hard_delete"
          /\ status' = [f \in File |-> IF f \in Hit(r) THEN "gone" ELSE status[f]]
          /\ UNCHANGED trashed
       \/ /\ req[r].op # "hard_delete"
          /\ status' = [f \in File |-> IF f \in Hit(r) THEN "deleted" ELSE status[f]]
          /\ trashed' = trashed \cup Hit(r)
       \/ "db" \in Faults /\ UNCHANGED <<status, trashed>>
    /\ UNCHANGED <<store, audit, browser, up, shown, doomed>>

DeleteRows(r) ==
    /\ req[r].at = "act"
    /\ \/ /\ req[r].op = "hard_delete"
          /\ status' = [f \in File |-> IF f \in Hit(r) THEN "gone" ELSE status[f]]
          /\ Goto(r, "log")
          /\ UNCHANGED trashed
       \/ /\ req[r].op # "hard_delete"
          /\ status' = [f \in File |-> IF f \in Hit(r) THEN "deleted" ELSE status[f]]
          /\ trashed' = trashed \cup Hit(r)
          /\ Goto(r, "log")
       \/ "db" \in Faults /\ End(r) /\ UNCHANGED <<status, trashed>>
    /\ UNCHANGED <<store, audit, browser, up, shown, doomed>>

(* RestoreFile, only when deleted; otherwise a 404 that changes nothing.    *)
Restore(r, f) ==
    /\ status[f] = "deleted"
    /\ Begin(r, "log", "restore", {f})
    /\ status' = [status EXCEPT ![f] = "active"]
    /\ UNCHANGED <<store, audit, browser, up, history>>

-----------------------------------------------------------------------------
Action(o) == IF o = "bulk" THEN "delete" ELSE o

(* CreateAuditLog, one row per file; errors are dropped.  Then the answer.  *)
WriteAudit(r) ==
    /\ req[r].at = "log"
    /\ \E f \in req[r].left :
        /\ \/ audit' = audit \cup {<<Action(req[r].op), f>>}
           \/ Fails(r, "db") /\ UNCHANGED audit
        /\ IF req[r].left = {f} THEN End(r) /\ Answer(r, "done")
                                ELSE /\ Strike(r, f)
                                     /\ UNCHANGED browser
    /\ UNCHANGED <<status, store, up, history>>

(* The server is killed with the requests it was serving.                   *)
Crash ==
    /\ "crash" \in Faults
    /\ up
    /\ up' = FALSE
    /\ req' = [r \in Request |-> Idle]
    /\ asked' = [f \in File |-> NoRequest]
    /\ UNCHANGED <<status, store, audit, client, history>>

Restart ==
    /\ ~up
    /\ up' = TRUE
    /\ UNCHANGED <<status, store, audit, browser, req, history>>

-----------------------------------------------------------------------------
Step(r) ==
    \/ InsertRow(r) \/ CompleteS3(r) \/ UpdateRow(r)
    \/ DeleteObject(r) \/ DeleteRows(r) \/ WriteAudit(r)

Finish(f) == \E r \in Request : Complete(r, f) \/ Confirm(r, f)

Next ==
    \/ \E r \in Request : Step(r) \/ \E S \in SUBSET File : BulkDelete(r, S)
    \/ \E r \in Request, f \in File :
          Create(r, f) \/ Complete(r, f) \/ Confirm(r, f) \/ Delete(r, f) \/ Destroy(r, f) \/ Restore(r, f)
    \/ \E f \in File : InitUpload(f) \/ Send(f) \/ GiveUp(f) \/ Lose(f)
    \/ Crash
    \/ Restart

Spec == Init /\ [][Next]_vars

(* Handlers that have begun go on, the server is started again, and a       *)
(* browser that has sent everything asks for completion, again and again,   *)
(* unless it gives up.                                                      *)
FairSpec ==
    /\ Spec
    /\ \A r \in Request : WF_vars(Step(r))
    /\ WF_vars(Restart)
    /\ \A f \in File : SF_vars(Finish(f))
-----------------------------------------------------------------------------
(* The variables hold what their columns and locals hold, and a browser     *)
(* waits only for a request in flight that registers or completes its file. *)
TypeOK ==
    /\ status \in [File -> {"none", "pending", "active", "deleted", "gone"}]
    /\ multipart \in [File -> {"none", "open", "done", "aborted"}]
    /\ bytes \subseteq File
    /\ audit \subseteq {"upload", "delete", "hard_delete", "restore"} \X File
    /\ client \in [File -> {"none", "parts", "put", "sent", "done", "stopped"}]
    /\ asked \in [File -> Request \cup {NoRequest}]
    /\ \A f \in File : asked[f] # NoRequest =>
            f \in req[asked[f]].files /\ req[asked[f]].op \in {"create", "upload"}
    /\ up \in BOOLEAN
    /\ req \in [Request -> Req]
    /\ shown \subseteq File
    /\ trashed \subseteq shown
    /\ doomed \subseteq shown

(* A file that is listed, in its folder or in the trash, has its bytes,     *)
(* unless its permanent deletion has begun: whatever fails or is repeated,  *)
(* no row becomes active before its object is there.                        *)
ListedHasBytes ==
    \A f \in File : status[f] \in {"active", "deleted"} => f \in bytes \cup doomed

(* A permanent deletion, also in bulk, also together with other requests    *)
(* for the same files, leaves no object behind while the bucket answers.    *)
GoneIsClean ==
    "bucket" \notin Faults => \A f \in File : status[f] = "gone" => f \notin bytes

Happened(o, f) ==
    \/ o = "upload" /\ f \in shown
    \/ o = "delete" /\ (f \in trashed \/ status[f] = "gone")
    \/ o = "restore" /\ f \in trashed
    \/ o = "hard_delete" /\ status[f] = "gone"

(* What the audit log says did happen, even if several requests delete and  *)
(* restore the same files at once and some of their statements fail.        *)
LoggedHappened == \A e \in audit : Happened(e[1], e[2])

(* What every step relies on; together with the invariants above it is      *)
(* inductive.                                                               *)

Requests(p) == {r \in Request : req[r].at = p}

(* A handler is at a step of its own; an upload is of one file.             *)
Handlers ==
    \A r \in Request :
        /\ req[r].at = "insert" => req[r].op = "create"
        /\ req[r].at \in {"s3", "row"} => req[r].op = "upload"
        /\ req[r].at = "object" => req[r].op = "hard_delete"
        /\ req[r].at = "act" => req[r].op \in {"delete", "bulk", "hard_delete"}
        /\ req[r].at = "log" => req[r].op \in {"upload", "delete", "bulk", "hard_delete", "restore"}
        /\ req[r].left \subseteq req[r].files
        /\ req[r].op \in {"create", "upload"} => \E f \in File : req[r].files = {f}

ShownWasActive ==
    \A f \in File :
        /\ f \in shown <=> status[f] \in {"active", "deleted", "gone"}
        /\ status[f] = "deleted" => f \in trashed

(* Nothing is in the bucket under a key whose upload has not ended, and     *)
(* what the browser has put there is there when it says so.                 *)
Uploading ==
    \A f \in File :
        /\ multipart[f] = "open" => f \notin shown
        /\ client[f] = "put" => multipart[f] = "none" /\ f \notin shown
        /\ client[f] = "sent" /\ multipart[f] = "none" => f \in bytes \cup doomed

(* A row is inserted once for an upload the bucket knows.                   *)
InsertIsFirst ==
    \A r \in Requests("insert") : \A f \in req[r].files :
        /\ status[f] = "none" /\ multipart[f] # "none"
        /\ \A q \in Requests("insert") : q # r => f \notin req[q].files

(* No row is about to become active whose bytes are not there.              *)
RowHasBytes ==
    /\ \A r \in Requests("s3") : \A f \in req[r].files : multipart[f] # "none"
    /\ \A r \in Requests("row") : \A f \in req[r].files :
            multipart[f] = "done" /\ f \in bytes \cup doomed

(* Deletions are of listed files, and objects go before rows.               *)
ObjectsFirst ==
    /\ \A r \in Requests("object") \cup Requests("act") : req[r].files \subseteq shown
    /\ \A r \in Requests("object") :
            /\ req[r].files \subseteq doomed
            /\ "bucket" \notin Faults => (req[r].files \ req[r].left) \cap bytes = {}
    /\ \A r \in Requests("act") : req[r].op = "hard_delete" =>
            /\ req[r].files \subseteq doomed
            /\ "bucket" \notin Faults => req[r].files \cap bytes = {}

(* What is about to be logged has happened.                                 *)
LogIsLast ==
    \A r \in Requests("log") : \A f \in req[r].files : Happened(Action(req[r].op), f)

Inductive ==
    /\ TypeOK
    /\ ListedHasBytes
    /\ GoneIsClean
    /\ LoggedHappened
    /\ Handlers
    /\ ShownWasActive
    /\ Uploading
    /\ InsertIsFirst
    /\ RowHasBytes
    /\ ObjectsFirst
    /\ LogIsLast

-----------------------------------------------------------------------------
(* An upload the browser or a completion is busy with has its row.          *)
Registered ==
    /\ \A f \in File : client[f] \in {"parts", "put", "sent"} => status[f] # "none"
    /\ \A r \in Requests("s3") : \A f \in req[r].files : status[f] # "none"

Promise == INSTANCE FilePromise WITH
    phase <- status, held <- bytes, Reliable <- "bucket" \notin Faults

(* Whatever requests run at once, fail half way or are repeated, a file     *)
(* lives the life FilePromise describes: no handler's statement finds it in *)
(* a phase where that statement does harm.                                  *)
LivesAsPromised == Promise!Spec

-----------------------------------------------------------------------------
Calm == <>[]up /\ <>[][\A f \in File : ~Lose(f)]_vars

(* An upload whose bytes are all in the bucket becomes an active file,      *)
(* although the server may be killed between completing it in the bucket    *)
(* and updating the row, and answers may be lost, unless the browser gives  *)
(* up: a repetition does not get stuck half way, if the bucket recognises   *)
(* it.                                                                      *)
UploadsFinish ==
    Again /\ Calm =>
        \A f \in File : client[f] = "sent" ~> status[f] # "pending" \/ client[f] = "stopped"
=============================================================================
