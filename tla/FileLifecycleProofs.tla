-------------------------- MODULE FileLifecycleProofs --------------------------
(***************************************************************************)
(* Theorems about FileLifecycle for any number of files and requests, with *)
(* every fault and either kind of bucket.                                  *)
(***************************************************************************)
EXTENDS FileLifecycle, TLAPS

USE DEF vars, store, browser, history

(* The first state is well typed.                                           *)
LEMMA InitType == Init => TypeOK
  BY LifecycleAssumption DEF Init, TypeOK, Req, Idle

(* What TypeOK says of asked.                                               *)
Waits ==
    \A f \in File : asked[f] # NoRequest =>
        f \in req[asked[f]].files /\ req[asked[f]].op \in {"create", "upload"}

(* A request that goes on keeps its files and has all of them left to do.   *)
LEMMA GotoKeeps ==
    ASSUME TypeOK, NEW r \in Request, NEW p \in {"object", "act", "row", "log"}, Goto(r, p)
    PROVE  /\ req' \in [Request -> Req]
           /\ req'[r] = [at |-> p, op |-> req[r].op, files |-> req[r].files, left |-> req[r].files]
           /\ \A q \in Request : q # r => req'[q] = req[q]
           /\ \A q \in Request : req'[q].files = req[q].files /\ req'[q].op = req[q].op
           /\ asked' = asked => Waits'
  BY DEF Goto, TypeOK, Req, Waits

(* Strike takes one file off those left and nothing else.                  *)
LEMMA LeftShrinks ==
    ASSUME TypeOK, NEW r \in Request, NEW f, Strike(r, f)
    PROVE  /\ req' \in [Request -> Req]
           /\ req'[r] = [at |-> req[r].at, op |-> req[r].op,
                         files |-> req[r].files, left |-> req[r].left \ {f}]
           /\ \A q \in Request : q # r => req'[q] = req[q]
           /\ \A q \in Request : req'[q].files = req[q].files /\ req'[q].op = req[q].op
           /\ asked' = asked => Waits'
  BY DEF Strike, TypeOK, Req, Waits

(* A request that ends leaves the others as they were.                     *)
LEMMA EndForgets ==
    ASSUME TypeOK, NEW r \in Request, End(r)
    PROVE  /\ req' \in [Request -> Req]
           /\ req'[r] = Idle
           /\ \A q \in Request : q # r => req'[q] = req[q]
           /\ asked' = asked /\ req[r].op \notin {"create", "upload"} => Waits'
  BY DEF End, TypeOK, Req, Idle, Waits

(* After a refusal no browser waits for the request any more.              *)
LEMMA RefuseForgets ==
    ASSUME TypeOK, NEW r \in Request, Refuse(r)
    PROVE  /\ End(r) /\ UNCHANGED client
           /\ asked' \in [File -> Request \cup {NoRequest}]
           /\ Waits'
  <1>1. asked' \in [File -> Request \cup {NoRequest}] /\ End(r) /\ UNCHANGED client
    BY DEF Refuse, TypeOK
  <1>2. ASSUME NEW f \in File, asked'[f] # NoRequest
        PROVE  f \in req'[asked'[f]].files /\ req'[asked'[f]].op \in {"create", "upload"}
    BY <1>2, EndForgets, LifecycleAssumption DEF Refuse, TypeOK
  <1> QED
    BY <1>1, <1>2 DEF Waits

(* A request that begins has its step, its files, and all of them left.    *)
LEMMA BeginFills ==
    ASSUME TypeOK, NEW r \in Request, NEW S \in SUBSET File,
           NEW p \in {"insert", "s3", "object", "act", "log"},
           NEW o \in {"create", "upload", "delete", "bulk", "hard_delete", "restore"},
           Begin(r, p, o, S)
    PROVE  /\ req' \in [Request -> Req]
           /\ req'[r] = [at |-> p, op |-> o, files |-> S, left |-> S]
           /\ \A q \in Request : q # r => req'[q] = req[q]
           /\ asked' = asked => Waits'
  BY DEF Begin, TypeOK, Req, Idle, Waits

(* Every step keeps the variables well typed.                               *)
LEMMA NextType ==
    TypeOK /\ Handlers /\ ShownWasActive /\ ObjectsFirst /\ [Next]_vars => TypeOK'
  <1> SUFFICES ASSUME TypeOK, Handlers, ShownWasActive, ObjectsFirst, [Next]_vars PROVE TypeOK'
    OBVIOUS
  <1> USE LifecycleAssumption DEF TypeOK, Req, Idle
  <1>1. ASSUME NEW r \in Request, NEW f \in File, Create(r, f) PROVE TypeOK'
    BY <1>1 DEF Create, Begin
  <1>2. ASSUME NEW r \in Request, InsertRow(r) PROVE TypeOK'
    BY <1>2 DEF InsertRow, Answer, End, Refuse
  <1>3. ASSUME NEW f \in File, InitUpload(f) PROVE TypeOK'
    BY <1>3 DEF InitUpload
  <1>4. ASSUME NEW f \in File, Send(f) PROVE TypeOK'
    BY <1>4 DEF Send
  <1>5. ASSUME NEW f \in File, GiveUp(f) PROVE TypeOK'
    BY <1>5 DEF GiveUp
  <1>6. ASSUME NEW f \in File, Lose(f) PROVE TypeOK'
    BY <1>6 DEF Lose
  <1>7. ASSUME NEW r \in Request, NEW f \in File, Complete(r, f) PROVE TypeOK'
    BY <1>7 DEF Complete, Begin
  <1>8. ASSUME NEW r \in Request, CompleteS3(r) PROVE TypeOK'
    <2>1. PICK f \in req[r].files :
            \/ Assemble(f) /\ Goto(r, "row") /\ UNCHANGED browser
            \/ Goto(r, "row") /\ UNCHANGED <<store, browser>>
            \/ Refuse(r) /\ (Assemble(f) \/ UNCHANGED store)
      BY <1>8 DEF CompleteS3
    <2>2. f \in File /\ UNCHANGED <<status, audit, up, history>>
      BY <1>8 DEF CompleteS3
    <2>3. multipart' \in [File -> {"none", "open", "done", "aborted"}] /\ bytes' \subseteq File
      BY <2>1, <2>2 DEF Assemble
    <2>4. CASE Goto(r, "row") /\ UNCHANGED browser
      BY <2>2, <2>3, <2>4, GotoKeeps DEF Waits
    <2>5. CASE Refuse(r)
      BY <2>2, <2>3, <2>5, RefuseForgets, EndForgets DEF Waits
    <2> QED
      BY <2>1, <2>4, <2>5
  <1>9. ASSUME NEW r \in Request, UpdateRow(r) PROVE TypeOK'
    <2>1. PICK f \in req[r].files :
            \/ /\ HasRow(f)
               /\ status' = [status EXCEPT ![f] = "active"]
               /\ shown' = shown \cup {f}
               /\ Goto(r, "log")
               /\ UNCHANGED browser
            \/ Refuse(r) /\ UNCHANGED <<status, shown>>
      BY <1>9 DEF UpdateRow
    <2>2. f \in File /\ UNCHANGED <<store, audit, up, trashed, doomed>>
      BY <1>9 DEF UpdateRow
    <2>3. CASE /\ status' = [status EXCEPT ![f] = "active"]
               /\ shown' = shown \cup {f}
               /\ Goto(r, "log")
               /\ UNCHANGED browser
      <3>1. req' \in [Request -> Req] /\ Waits'
        BY <2>3, GotoKeeps
      <3> QED
        BY <2>2, <2>3, <3>1 DEF Waits
    <2>4. CASE Refuse(r)
      BY <2>1, <2>2, <2>4, RefuseForgets, EndForgets DEF Waits
    <2> QED
      BY <2>1, <2>3, <2>4
  <1>10. ASSUME NEW r \in Request, NEW f \in File, Confirm(r, f) PROVE TypeOK'
    BY <1>10 DEF Confirm, Begin
  <1>11. ASSUME NEW r \in Request, NEW f \in File, Delete(r, f) PROVE TypeOK'
    BY <1>11 DEF Delete, Begin, Requests, Handlers, ShownWasActive, ObjectsFirst, HasRow
  <1>12. ASSUME NEW r \in Request, NEW f \in File, Destroy(r, f) PROVE TypeOK'
    BY <1>12 DEF Destroy, Begin, Requests, Handlers, ShownWasActive, ObjectsFirst, HasRow
  <1>13. ASSUME NEW r \in Request, NEW S \in SUBSET File, BulkDelete(r, S) PROVE TypeOK'
    <2>1. req' \in [Request -> Req] /\ Waits'
      BY <1>13, BeginFills DEF BulkDelete
    <2>2. S \subseteq shown
      BY <1>13 DEF BulkDelete, ShownWasActive
    <2> QED
      BY <1>13, <2>1, <2>2 DEF BulkDelete, Waits
  <1>14. ASSUME NEW r \in Request, DeleteObject(r) PROVE TypeOK'
    <2>1. req' \in [Request -> Req] /\ Waits'
      BY <1>14, GotoKeeps, LeftShrinks DEF DeleteObject
    <2> QED
      BY <1>14, <2>1 DEF DeleteObject, Waits
  <1>15. ASSUME NEW r \in Request, DeleteRows(r) PROVE TypeOK'
    <2>1. status' \in [File -> {"none", "pending", "active", "deleted", "gone"}]
      BY <1>15 DEF DeleteRows
    <2>2. trashed' \subseteq shown /\ shown' = shown /\ doomed' = doomed
      BY <1>15 DEF DeleteRows, Hit, Requests, ObjectsFirst
    <2>3. req' \in [Request -> Req] /\ Waits'
      <3>1. CASE Goto(r, "log")
        BY <1>15, <3>1, GotoKeeps DEF DeleteRows, Waits
      <3>2. CASE End(r)
        <4>1. req[r].op \in {"delete", "bulk", "hard_delete"}
          BY <1>15 DEF DeleteRows, Handlers
        <4> QED
          BY <1>15, <3>2, <4>1, EndForgets DEF DeleteRows, Waits
      <3> QED
        BY <1>15, <3>1, <3>2 DEF DeleteRows
    <2> QED
      BY <1>15, <2>1, <2>2, <2>3 DEF DeleteRows, Waits
  <1>16. ASSUME NEW r \in Request, NEW f \in File, Restore(r, f) PROVE TypeOK'
    BY <1>16 DEF Restore, Begin, Requests, Handlers, ShownWasActive, ObjectsFirst, HasRow
  <1>17. ASSUME NEW r \in Request, WriteAudit(r) PROVE TypeOK'
    <2>1. PICK f \in req[r].left :
            /\ audit' \subseteq audit \cup {<<Action(req[r].op), f>>}
            /\ \/ End(r) /\ Answer(r, "done")
               \/ Strike(r, f) /\ UNCHANGED browser
      BY <1>17 DEF WriteAudit
    <2>2. req[r].at = "log" /\ UNCHANGED <<status, store, up, history>>
      BY <1>17 DEF WriteAudit
    <2>3. audit' \subseteq {"upload", "delete", "hard_delete", "restore"} \X File
      BY <2>1, <2>2 DEF Handlers, Action
    <2>4. CASE End(r) /\ Answer(r, "done")
      <3>1. /\ client' \in [File -> {"none", "parts", "put", "sent", "done", "stopped"}]
            /\ asked' \in [File -> Request \cup {NoRequest}]
        BY <2>4 DEF Answer
      <3>2. \A f_1 \in File : asked'[f_1] # NoRequest => asked'[f_1] = asked[f_1] /\ asked[f_1] # r
        BY <2>4 DEF Answer
      <3>3. /\ req' \in [Request -> Req]
            /\ \A q \in Request : q # r => req'[q] = req[q]
        BY <2>4, EndForgets
      <3>4. Waits'
        BY <3>1, <3>2, <3>3 DEF Waits
      <3> QED
        BY <2>2, <2>3, <3>1, <3>3, <3>4 DEF Waits
    <2>5. CASE Strike(r, f) /\ UNCHANGED browser
      <3>1. req' \in [Request -> Req] /\ Waits'
        BY <2>5, LeftShrinks
      <3> QED
        BY <2>2, <2>3, <2>5, <3>1 DEF Waits
    <2> QED
      BY <2>1, <2>4, <2>5
  <1>18. CASE Crash
    BY <1>18 DEF Crash
  <1>19. CASE Restart
    BY <1>19 DEF Restart
  <1>20. CASE UNCHANGED vars
    BY <1>20
  <1> QED
    BY <1>1, <1>2, <1>3, <1>4, <1>5, <1>6, <1>7, <1>8, <1>9, <1>10, <1>11,
       <1>12, <1>13, <1>14, <1>15, <1>16, <1>17, <1>18, <1>19, <1>20
    DEF Next, Step
-----------------------------------------------------------------------------
(* The first state satisfies the inductive invariant.                       *)
LEMMA InitInductive == Init => Inductive
  BY InitType, LifecycleAssumption
  DEF Init, Inductive, ListedHasBytes, GoneIsClean, LoggedHappened, Handlers, ShownWasActive,
      Uploading, InsertIsFirst, RowHasBytes, ObjectsFirst, LogIsLast, Requests, Idle

(* Every step keeps the inductive invariant.                                *)
LEMMA NextInductive == Inductive /\ [Next]_vars => Inductive'
  <1> SUFFICES ASSUME Inductive, [Next]_vars PROVE Inductive'
    OBVIOUS
  <1>t. TypeOK /\ TypeOK'
    BY NextType DEF Inductive
  <1>1. ASSUME NEW r \in Request, NEW f \in File, Create(r, f) PROVE Inductive'
    <2>r. /\ req[r] = Idle
          /\ req'[r] = [at |-> "insert", op |-> "create", files |-> {f}, left |-> {f}]
          /\ \A q \in Request : q # r => req'[q] = req[q]
      BY <1>1, <1>t DEF Create, Begin, TypeOK
    <2>1. ListedHasBytes'
      BY <1>1, <2>r, <1>t DEF Inductive, ListedHasBytes, TypeOK, Create, Idle
    <2>2. GoneIsClean'
      BY <1>1, <2>r, <1>t DEF Inductive, GoneIsClean, TypeOK, Create, Idle
    <2>3. LoggedHappened'
      BY <1>1, <2>r, <1>t DEF Inductive, LoggedHappened, TypeOK, Happened, LogIsLast,
         Requests, Action, ShownWasActive, Create, Idle, InsertIsFirst
    <2>4. Handlers'
      BY <1>1, <2>r, <1>t DEF Inductive, Handlers, TypeOK, Create, Idle
    <2>5. ShownWasActive'
      BY <1>1, <2>r, <1>t DEF Inductive, ShownWasActive, TypeOK, Create, Idle
    <2>6. Uploading'
      BY <1>1, <2>r, <1>t DEF Inductive, Uploading, TypeOK, ShownWasActive, InsertIsFirst,
         Requests, Create, Idle
    <2>7. InsertIsFirst'
      BY <1>1, <2>r, <1>t DEF Inductive, InsertIsFirst, TypeOK, Requests, Create, Idle
    <2>8. RowHasBytes'
      BY <1>1, <2>r, <1>t DEF Inductive, RowHasBytes, TypeOK, Requests, Create, Idle
    <2>10. ObjectsFirst'
      BY <1>1, <2>r, <1>t DEF Inductive, ObjectsFirst, TypeOK, Requests, Create, Idle
    <2>11. LogIsLast'
      BY <1>1, <2>r, <1>t DEF Inductive, LogIsLast, TypeOK, Requests, Happened, Action,
         ShownWasActive, Create, Idle, InsertIsFirst
    <2> QED
      BY <1>t, <2>1, <2>2, <2>3, <2>4, <2>5, <2>6, <2>7, <2>8, <2>10, <2>11 DEF
         Inductive
  <1>2. ASSUME NEW r \in Request, InsertRow(r) PROVE Inductive'
    <2>r. /\ req'[r] = Idle
          /\ \A q \in Request : q # r => req'[q] = req[q]
      BY <1>2, <1>t, EndForgets DEF InsertRow, Refuse
    <2>c. /\ UNCHANGED <<store, audit, up, history>>
          /\ \A g \in File : client'[g] # client[g] => client'[g] = "parts"
          /\ \A g \in File : status'[g] # status[g] => g \in req[r].files /\ status'[g] = "pending"
      BY <1>2, <1>t DEF InsertRow, Refuse, Answer, TypeOK
    <2>a. req[r].at = "insert"
      BY <1>2 DEF InsertRow
    <2>1. ListedHasBytes'
      BY <2>r, <2>c, <2>a, <1>t DEF Inductive, ListedHasBytes, TypeOK, Idle
    <2>2. GoneIsClean'
      BY <2>r, <2>c, <2>a, <1>t DEF Inductive, GoneIsClean, TypeOK, Idle
    <2>3. LoggedHappened'
      BY <2>r, <2>c, <2>a, <1>t DEF Inductive, LoggedHappened, TypeOK, Happened,
         LogIsLast, Requests, Action, ShownWasActive, InsertIsFirst, Idle
    <2>4. Handlers'
      BY <2>r, <2>c, <2>a, <1>t DEF Inductive, Handlers, TypeOK, Idle
    <2>5. ShownWasActive'
      BY <2>r, <2>c, <2>a, <1>t DEF Inductive, ShownWasActive, TypeOK, ObjectsFirst,
         Requests, InsertIsFirst, Idle
    <2>6. Uploading'
      BY <2>r, <2>c, <2>a, <1>t DEF Inductive, Uploading, TypeOK, Idle
    <2>7. InsertIsFirst'
      BY <2>r, <2>c, <2>a, <1>t DEF Inductive, InsertIsFirst, TypeOK, Requests,
         ShownWasActive, Handlers, Idle
    <2>8. RowHasBytes'
      BY <2>r, <2>c, <2>a, <1>t DEF Inductive, RowHasBytes, TypeOK, Requests, Idle
    <2>10. ObjectsFirst'
      <3>1. ASSUME NEW q \in Request, req'[q].at \in {"object", "act"} PROVE req'[q] = req[q]
        BY <2>r, <2>a, <3>1 DEF Idle
      <3>2. /\ UNCHANGED doomed
            /\ shown \subseteq shown'
            /\ \A g \in bytes' : g \in bytes \/ g \notin shown
        BY <2>c, <1>t DEF Inductive, Uploading, TypeOK
      <3> QED
        BY <3>1, <3>2 DEF ObjectsFirst, Inductive, Requests
    <2>11. LogIsLast'
      <3>1. ASSUME NEW o, NEW g \in File, Happened(o, g) PROVE Happened(o, g)'
        BY <2>c, <2>a, <3>1 DEF Happened, Inductive, InsertIsFirst, Requests
      <3>2. ASSUME NEW q \in Request, req'[q].at = "log", NEW g \in req'[q].files
            PROVE  Happened(Action(req[q].op), g)'
        <4>1. req'[q] = req[q]
          BY <2>r, <3>2 DEF Idle
        <4>2. g \in File
          BY <1>t, <3>2 DEF TypeOK, Req
        <4> QED
          BY <3>1, <3>2, <4>1, <4>2 DEF Inductive, LogIsLast, Requests
      <3> QED
        BY <3>2 DEF LogIsLast, Requests
    <2> QED
      BY <1>t, <2>1, <2>2, <2>3, <2>4, <2>5, <2>6, <2>7, <2>8, <2>10, <2>11 DEF
         Inductive
  <1>3. ASSUME NEW f \in File, InitUpload(f) PROVE Inductive'
    <2>1. ListedHasBytes'
      BY <1>3, <1>t DEF Inductive, ListedHasBytes, TypeOK, InitUpload
    <2>2. GoneIsClean'
      BY <1>3, <1>t DEF Inductive, GoneIsClean, TypeOK, InitUpload
    <2>3. LoggedHappened'
      BY <1>3, <1>t DEF Inductive, LoggedHappened, TypeOK, Happened, LogIsLast, Requests,
         Action, ShownWasActive, InitUpload, InsertIsFirst
    <2>4. Handlers'
      BY <1>3, <1>t DEF Inductive, Handlers, TypeOK, InitUpload
    <2>5. ShownWasActive'
      BY <1>3, <1>t DEF Inductive, ShownWasActive, TypeOK, InitUpload
    <2>6. Uploading'
      BY <1>3, <1>t DEF Inductive, Uploading, TypeOK, ShownWasActive, InsertIsFirst,
         Requests, InitUpload
    <2>7. InsertIsFirst'
      BY <1>3, <1>t DEF Inductive, InsertIsFirst, TypeOK, Requests, InitUpload
    <2>8. RowHasBytes'
      BY <1>3, <1>t DEF Inductive, RowHasBytes, TypeOK, Requests, InitUpload
    <2>10. ObjectsFirst'
      BY <1>3, <1>t DEF Inductive, ObjectsFirst, TypeOK, Requests, InitUpload
    <2>11. LogIsLast'
      BY <1>3, <1>t DEF Inductive, LogIsLast, TypeOK, Requests, Happened, Action,
         ShownWasActive, InitUpload, InsertIsFirst
    <2> QED
      BY <1>t, <2>1, <2>2, <2>3, <2>4, <2>5, <2>6, <2>7, <2>8, <2>10, <2>11 DEF
         Inductive
  <1>4. ASSUME NEW f \in File, Send(f) PROVE Inductive'
    <2>1. ListedHasBytes'
      BY <1>4, <1>t DEF Inductive, ListedHasBytes, TypeOK, Send
    <2>2. GoneIsClean'
      BY <1>4, <1>t DEF Inductive, GoneIsClean, TypeOK, ShownWasActive, Uploading,
         ObjectsFirst, Requests, Send
    <2>3. LoggedHappened'
      BY <1>4, <1>t DEF Inductive, LoggedHappened, TypeOK, Happened, LogIsLast, Requests,
         Action, ShownWasActive, Send
    <2>4. Handlers'
      BY <1>4, <1>t DEF Inductive, Handlers, TypeOK, Send
    <2>5. ShownWasActive'
      BY <1>4, <1>t DEF Inductive, ShownWasActive, TypeOK, Send
    <2>6. Uploading'
      BY <1>4, <1>t DEF Inductive, Uploading, TypeOK, Send
    <2>7. InsertIsFirst'
      BY <1>4, <1>t DEF Inductive, InsertIsFirst, TypeOK, Requests, Send
    <2>8. RowHasBytes'
      BY <1>4, <1>t DEF Inductive, RowHasBytes, TypeOK, Requests, Send
    <2>10. ObjectsFirst'
      BY <1>4, <1>t DEF Inductive, ObjectsFirst, TypeOK, Requests, ShownWasActive,
         Uploading, Handlers, Send
    <2>11. LogIsLast'
      BY <1>4, <1>t DEF Inductive, LogIsLast, TypeOK, Requests, Happened, Action,
         ShownWasActive, Send
    <2> QED
      BY <1>t, <2>1, <2>2, <2>3, <2>4, <2>5, <2>6, <2>7, <2>8, <2>10, <2>11 DEF
         Inductive
  <1>5. ASSUME NEW f \in File, GiveUp(f) PROVE Inductive'
    <2>m. /\ UNCHANGED <<status, bytes, audit, up, req, history>>
          /\ \A g \in File : client'[g] # client[g] => client'[g] = "stopped"
          /\ \A g \in File : multipart'[g] # multipart[g] =>
                  multipart[g] = "open" /\ multipart'[g] = "aborted"
      BY <1>5, <1>t DEF GiveUp, TypeOK
    <2>1. ListedHasBytes'
      BY <2>m, <1>t DEF Inductive, ListedHasBytes, TypeOK
    <2>2. GoneIsClean'
      BY <2>m, <1>t DEF Inductive, GoneIsClean, TypeOK
    <2>3. LoggedHappened'
      BY <2>m, <1>t DEF Inductive, LoggedHappened, TypeOK, Happened, LogIsLast, Requests,
         Action, ShownWasActive
    <2>4. Handlers'
      BY <2>m, <1>t DEF Inductive, Handlers, TypeOK
    <2>5. ShownWasActive'
      BY <2>m, <1>t DEF Inductive, ShownWasActive, TypeOK
    <2>6. Uploading'
      BY <2>m, <1>t DEF Inductive, Uploading, TypeOK
    <2>7. InsertIsFirst'
      BY <2>m, <1>t DEF Inductive, InsertIsFirst, TypeOK, Requests, ShownWasActive, Handlers
    <2>8. RowHasBytes'
      BY <2>m, <1>t DEF Inductive, RowHasBytes, TypeOK, Requests, Uploading, Handlers,
         ObjectsFirst
    <2>10. ObjectsFirst'
      BY <2>m, <1>t DEF Inductive, ObjectsFirst, TypeOK, Requests
    <2>11. LogIsLast'
      BY <2>m, <1>t DEF Inductive, LogIsLast, TypeOK, Requests, Happened, Action,
         ShownWasActive
    <2> QED
      BY <1>t, <2>1, <2>2, <2>3, <2>4, <2>5, <2>6, <2>7, <2>8, <2>10, <2>11 DEF
         Inductive
  <1>6. ASSUME NEW f \in File, Lose(f) PROVE Inductive'
    BY <1>6, <1>t DEF Inductive, TypeOK, Lose, ListedHasBytes, GoneIsClean,
       LoggedHappened, Handlers, ShownWasActive, Uploading, InsertIsFirst, RowHasBytes,
       ObjectsFirst, LogIsLast, Requests, Happened
  <1>7. ASSUME NEW r \in Request, NEW f \in File, Complete(r, f) PROVE Inductive'
    <2>r. /\ req[r] = Idle
          /\ req'[r] = [at |-> "s3", op |-> "upload", files |-> {f}, left |-> {f}]
          /\ \A q \in Request : q # r => req'[q] = req[q]
      BY <1>7, <1>t DEF Complete, Begin, TypeOK
    <2>1. ListedHasBytes'
      BY <1>7, <2>r, <1>t DEF Inductive, ListedHasBytes, TypeOK, Complete, Idle
    <2>2. GoneIsClean'
      BY <1>7, <2>r, <1>t DEF Inductive, GoneIsClean, TypeOK, Complete, Idle
    <2>3. LoggedHappened'
      BY <1>7, <2>r, <1>t DEF Inductive, LoggedHappened, TypeOK, Happened, LogIsLast,
         Requests, Action, ShownWasActive, Complete, Idle
    <2>4. Handlers'
      BY <1>7, <2>r, <1>t DEF Inductive, Handlers, TypeOK, Complete, Idle
    <2>5. ShownWasActive'
      BY <1>7, <2>r, <1>t DEF Inductive, ShownWasActive, TypeOK, Complete, Idle
    <2>6. Uploading'
      BY <1>7, <2>r, <1>t DEF Inductive, Uploading, TypeOK, Complete, Idle
    <2>7. InsertIsFirst'
      BY <1>7, <2>r, <1>t DEF Inductive, InsertIsFirst, TypeOK, Requests, Complete, Idle
    <2>8. RowHasBytes'
      BY <1>7, <2>r, <1>t DEF Inductive, RowHasBytes, TypeOK, Requests, Complete, Idle
    <2>10. ObjectsFirst'
      BY <1>7, <2>r, <1>t DEF Inductive, ObjectsFirst, TypeOK, Requests, Complete, Idle
    <2>11. LogIsLast'
      BY <1>7, <2>r, <1>t DEF Inductive, LogIsLast, TypeOK, Requests, Happened, Action,
         ShownWasActive, Complete, Idle
    <2> QED
      BY <1>t, <2>1, <2>2, <2>3, <2>4, <2>5, <2>6, <2>7, <2>8, <2>10, <2>11 DEF
         Inductive
  <1>8. ASSUME NEW r \in Request, CompleteS3(r) PROVE Inductive'
    <2>f. PICK f \in File : req[r].files = {f}
      BY <1>8, <1>t DEF CompleteS3, Inductive, Handlers
    <2>a. /\ req[r].at = "s3" /\ req[r].op = "upload"
          /\ UNCHANGED <<status, audit, up, history, client>>
      BY <1>8, <1>t DEF CompleteS3, Inductive, Handlers, Refuse
    <2>r. /\ \/ req'[r] = Idle
             \/ /\ req'[r] = [at |-> "row", op |-> "upload", files |-> {f}, left |-> {f}]
                /\ multipart'[f] = "done" /\ f \in bytes'
                /\ ~Again => multipart[f] = "open"
          /\ \A q \in Request : q # r => req'[q] = req[q]
      <3>1. CASE Refuse(r)
        BY <1>t, <3>1, EndForgets, RefuseForgets
      <3>2. CASE Assemble(f) /\ Goto(r, "row")
        BY <1>t, <2>f, <2>a, <3>2, GotoKeeps DEF Assemble, TypeOK
      <3>3. CASE Recognised(f) /\ Goto(r, "row") /\ UNCHANGED store
        BY <1>t, <2>f, <2>a, <3>3, GotoKeeps DEF Recognised, TypeOK
      <3> QED
        BY <1>8, <2>f, <3>1, <3>2, <3>3 DEF CompleteS3
    <2>m. /\ \A g \in File : multipart'[g] # multipart[g] =>
                  multipart[g] = "open" /\ multipart'[g] = "done"
          /\ bytes \subseteq bytes'
          /\ \A g \in bytes' : g \in bytes \/ multipart[g] = "open"
      BY <1>8, <1>t, <2>f DEF CompleteS3, Assemble, TypeOK
    <2>1. ListedHasBytes'
      BY <2>a, <2>r, <2>m, <1>t DEF Inductive, ListedHasBytes, TypeOK, Idle
    <2>2. GoneIsClean'
      BY <2>a, <2>r, <2>m, <1>t DEF Inductive, GoneIsClean, TypeOK, ShownWasActive,
         Uploading, ObjectsFirst, Requests, Idle
    <2>3. LoggedHappened'
      BY <2>a, <2>r, <2>m, <1>t DEF Inductive, LoggedHappened, TypeOK, Happened,
         LogIsLast, Requests, Action, ShownWasActive, Idle
    <2>4. Handlers'
      BY <2>a, <2>r, <2>m, <1>t DEF Inductive, Handlers, TypeOK, Idle
    <2>5. ShownWasActive'
      BY <2>a, <2>r, <2>m, <1>t DEF Inductive, ShownWasActive, TypeOK, Idle
    <2>6. Uploading'
      BY <2>a, <2>r, <2>m, <1>t DEF Inductive, Uploading, TypeOK, Idle
    <2>7. InsertIsFirst'
      BY <2>a, <2>r, <2>m, <1>t DEF Inductive, InsertIsFirst, TypeOK, Requests,
         ShownWasActive, Handlers, Idle
    <2>8. RowHasBytes'
      BY <2>a, <2>r, <2>m, <1>t DEF Inductive, RowHasBytes, TypeOK, Requests, Uploading,
         Handlers, ObjectsFirst, Idle
    <2>10. ObjectsFirst'
      <3>1. ASSUME NEW q \in Request, req'[q].at \in {"object", "act"} PROVE req'[q] = req[q]
        BY <2>r, <3>1 DEF Idle
      <3>2. /\ UNCHANGED doomed
            /\ shown \subseteq shown'
            /\ \A g \in bytes' : g \in bytes \/ g \notin shown
        BY <2>a, <2>m, <1>t DEF Inductive, Uploading, TypeOK
      <3> QED
        BY <3>1, <3>2 DEF ObjectsFirst, Inductive, Requests
    <2>11. LogIsLast'
      BY <2>a, <2>r, <2>m, <1>t DEF Inductive, LogIsLast, TypeOK, Requests, Happened,
         Action, ShownWasActive, Idle
    <2> QED
      BY <1>t, <2>1, <2>2, <2>3, <2>4, <2>5, <2>6, <2>7, <2>8, <2>10, <2>11 DEF
         Inductive
  <1>9. ASSUME NEW r \in Request, UpdateRow(r) PROVE Inductive'
    <2>f. PICK f \in File : req[r].files = {f}
      BY <1>9, <1>t DEF UpdateRow, Inductive, Handlers
    <2>a. /\ req[r].at = "row" /\ req[r].op = "upload"
          /\ UNCHANGED <<store, audit, up, trashed, doomed, client>>
      BY <1>9, <1>t DEF UpdateRow, Inductive, Handlers, Refuse
    <2>r. /\ \/ req'[r] = Idle /\ UNCHANGED <<status, shown>>
             \/ /\ req'[r] = [at |-> "log", op |-> "upload", files |-> {f}, left |-> {f}]
                /\ HasRow(f)
                /\ status' = [status EXCEPT ![f] = "active"] /\ shown' = shown \cup {f}
          /\ \A q \in Request : q # r => req'[q] = req[q]
      <3>1. CASE Refuse(r) /\ UNCHANGED <<status, shown>>
        BY <1>t, <3>1, EndForgets, RefuseForgets
      <3>2. CASE /\ Goto(r, "log") /\ HasRow(f)
                 /\ status' = [status EXCEPT ![f] = "active"] /\ shown' = shown \cup {f}
        BY <1>t, <2>f, <2>a, <3>2, GotoKeeps
      <3> QED
        BY <1>9, <2>f, <3>1, <3>2 DEF UpdateRow
    <2>b. multipart[f] = "done" /\ f \in bytes \cup doomed
      BY <2>a, <2>f DEF Inductive, RowHasBytes, Requests
    <2>1. ListedHasBytes'
      BY <2>f, <2>a, <2>r, <2>b, <1>t DEF Inductive, ListedHasBytes, TypeOK, Idle
    <2>2. GoneIsClean'
      BY <2>f, <2>a, <2>r, <2>b, <1>t DEF Inductive, GoneIsClean, TypeOK, Idle
    <2>3. LoggedHappened'
      BY <2>f, <2>a, <2>r, <2>b, <1>t DEF Inductive, LoggedHappened, TypeOK, Happened,
         LogIsLast, Requests, Action, ShownWasActive, HasRow, Idle
    <2>4. Handlers'
      BY <2>f, <2>a, <2>r, <2>b, <1>t DEF Inductive, Handlers, TypeOK, Idle
    <2>5. ShownWasActive'
      BY <2>f, <2>a, <2>r, <2>b, <1>t DEF Inductive, ShownWasActive, TypeOK, Idle
    <2>6. Uploading'
      BY <2>f, <2>a, <2>r, <2>b, <1>t DEF Inductive, Uploading, TypeOK, Idle
    <2>7. InsertIsFirst'
      BY <2>f, <2>a, <2>r, <2>b, <1>t DEF Inductive, InsertIsFirst, TypeOK, Requests,
         ShownWasActive, Handlers, HasRow, Idle
    <2>8. RowHasBytes'
      BY <2>f, <2>a, <2>r, <2>b, <1>t DEF Inductive, RowHasBytes, TypeOK, Requests, Idle
    <2>10. ObjectsFirst'
      <3>1. ASSUME NEW q \in Request, req'[q].at \in {"object", "act"} PROVE req'[q] = req[q]
        BY <2>r, <3>1 DEF Idle
      <3>2. /\ UNCHANGED doomed
            /\ shown \subseteq shown'
            /\ \A g \in bytes' : g \in bytes \/ g \notin shown
        BY <2>a, <2>r, <1>t DEF Inductive, Uploading, TypeOK
      <3> QED
        BY <3>1, <3>2 DEF ObjectsFirst, Inductive, Requests
    <2>11. LogIsLast'
      <3>0. shown \subseteq shown' /\ \A g \in File : status[g] = "gone" => status'[g] = "gone"
        BY <2>r, <1>t DEF HasRow, TypeOK
      <3>1. ASSUME NEW o, NEW g \in File, Happened(o, g) PROVE Happened(o, g)'
        BY <3>0, <2>a, <3>1 DEF Happened, Inductive
      <3>2. ASSUME NEW q \in Request, req'[q].at = "log", NEW g \in req'[q].files, q # r
            PROVE  Happened(Action(req[q].op), g)'
        <4>1. req'[q] = req[q]
          BY <2>r, <3>2 DEF Idle
        <4>2. g \in File
          BY <1>t, <3>2 DEF TypeOK, Req
        <4> QED
          BY <3>1, <3>2, <4>1, <4>2 DEF Inductive, LogIsLast, Requests
      <3>3. ASSUME req'[r].at = "log", NEW g \in req'[r].files
            PROVE  Happened(Action(req[r].op), g)'
        BY <2>r, <2>f, <3>3 DEF Happened, Action, Idle
      <3> QED
        BY <3>2, <3>3 DEF LogIsLast, Requests
    <2> QED
      BY <1>t, <2>1, <2>2, <2>3, <2>4, <2>5, <2>6, <2>7, <2>8, <2>10, <2>11 DEF
         Inductive
  <1>10. ASSUME NEW r \in Request, NEW f \in File, Confirm(r, f) PROVE Inductive'
    <2>r. /\ req[r] = Idle
          /\ req'[r] = [at |-> "log", op |-> "upload", files |-> {f}, left |-> {f}]
          /\ \A q \in Request : q # r => req'[q] = req[q]
      BY <1>10, <1>t DEF Confirm, Begin, TypeOK
    <2>1. ListedHasBytes'
      BY <1>10, <2>r, <1>t DEF Inductive, ListedHasBytes, TypeOK, ShownWasActive, Confirm,
         Idle, RowHasBytes, Uploading
    <2>2. GoneIsClean'
      BY <1>10, <2>r, <1>t DEF Inductive, GoneIsClean, TypeOK, Confirm, Idle
    <2>3. LoggedHappened'
      BY <1>10, <2>r, <1>t DEF Inductive, LoggedHappened, TypeOK, Happened, LogIsLast,
         Requests, Action, ShownWasActive, Confirm, Idle, RowHasBytes, Uploading
    <2>4. Handlers'
      BY <1>10, <2>r, <1>t DEF Inductive, Handlers, TypeOK, Confirm, Idle
    <2>5. ShownWasActive'
      BY <1>10, <2>r, <1>t DEF Inductive, ShownWasActive, TypeOK, Confirm, Idle
    <2>6. Uploading'
      BY <1>10, <2>r, <1>t DEF Inductive, Uploading, TypeOK, Confirm, Idle
    <2>7. InsertIsFirst'
      BY <1>10, <2>r, <1>t DEF Inductive, InsertIsFirst, TypeOK, Requests, Confirm, Idle
    <2>8. RowHasBytes'
      BY <1>10, <2>r, <1>t DEF Inductive, RowHasBytes, TypeOK, Requests, Confirm, Idle
    <2>10. ObjectsFirst'
      BY <1>10, <2>r, <1>t DEF Inductive, ObjectsFirst, TypeOK, Requests, ShownWasActive,
         Uploading, Handlers, Confirm, Idle, RowHasBytes
    <2>11. LogIsLast'
      BY <1>10, <2>r, <1>t DEF Inductive, LogIsLast, TypeOK, Requests, Happened, Action,
         ShownWasActive, Confirm, Idle, RowHasBytes, Uploading
    <2> QED
      BY <1>t, <2>1, <2>2, <2>3, <2>4, <2>5, <2>6, <2>7, <2>8, <2>10, <2>11 DEF
         Inductive
  <1>11. ASSUME NEW r \in Request, NEW f \in File, Delete(r, f) PROVE Inductive'
    <2>r. /\ req[r] = Idle
          /\ req'[r] = [at |-> "act", op |-> "delete", files |-> {f}, left |-> {f}]
          /\ \A q \in Request : q # r => req'[q] = req[q]
      BY <1>11, <1>t DEF Delete, Begin, TypeOK
    <2>1. ListedHasBytes'
      BY <1>11, <2>r, <1>t DEF Inductive, ListedHasBytes, TypeOK, Delete, Idle
    <2>2. GoneIsClean'
      BY <1>11, <2>r, <1>t DEF Inductive, GoneIsClean, TypeOK, Delete, Idle
    <2>3. LoggedHappened'
      BY <1>11, <2>r, <1>t DEF Inductive, LoggedHappened, TypeOK, Happened, LogIsLast,
         Requests, Action, ShownWasActive, Delete, Idle
    <2>4. Handlers'
      BY <1>11, <2>r, <1>t DEF Inductive, Handlers, TypeOK, Delete, Idle
    <2>5. ShownWasActive'
      BY <1>11, <2>r, <1>t DEF Inductive, ShownWasActive, TypeOK, Delete, Idle
    <2>6. Uploading'
      BY <1>11, <2>r, <1>t DEF Inductive, Uploading, TypeOK, Delete, Idle
    <2>7. InsertIsFirst'
      BY <1>11, <2>r, <1>t DEF Inductive, InsertIsFirst, TypeOK, Requests, Delete, Idle
    <2>8. RowHasBytes'
      BY <1>11, <2>r, <1>t DEF Inductive, RowHasBytes, TypeOK, Requests, Delete, Idle
    <2>10. ObjectsFirst'
      BY <1>11, <2>r, <1>t DEF Inductive, ObjectsFirst, TypeOK, Requests, Delete, Idle
    <2>11. LogIsLast'
      BY <1>11, <2>r, <1>t DEF Inductive, LogIsLast, TypeOK, Requests, Happened, Action,
         ShownWasActive, Delete, Idle
    <2> QED
      BY <1>t, <2>1, <2>2, <2>3, <2>4, <2>5, <2>6, <2>7, <2>8, <2>10, <2>11 DEF
         Inductive
  <1>12. ASSUME NEW r \in Request, NEW f \in File, Destroy(r, f) PROVE Inductive'
    <2>r. /\ req[r] = Idle
          /\ req'[r] = [at |-> "object", op |-> "hard_delete", files |-> {f}, left |-> {f}]
          /\ \A q \in Request : q # r => req'[q] = req[q]
      BY <1>12, <1>t DEF Destroy, Begin, TypeOK
    <2>1. ListedHasBytes'
      BY <1>12, <2>r, <1>t DEF Inductive, ListedHasBytes, TypeOK, Destroy, Idle
    <2>2. GoneIsClean'
      BY <1>12, <2>r, <1>t DEF Inductive, GoneIsClean, TypeOK, Destroy, Idle
    <2>3. LoggedHappened'
      BY <1>12, <2>r, <1>t DEF Inductive, LoggedHappened, TypeOK, Happened, LogIsLast,
         Requests, Action, ShownWasActive, Destroy, Idle, HasRow
    <2>4. Handlers'
      BY <1>12, <2>r, <1>t DEF Inductive, Handlers, TypeOK, Destroy, Idle
    <2>5. ShownWasActive'
      BY <1>12, <2>r, <1>t DEF Inductive, ShownWasActive, TypeOK, Destroy, Idle
    <2>6. Uploading'
      BY <1>12, <2>r, <1>t DEF Inductive, Uploading, TypeOK, Destroy, Idle
    <2>7. InsertIsFirst'
      BY <1>12, <2>r, <1>t DEF Inductive, InsertIsFirst, TypeOK, Requests, Destroy, Idle
    <2>8. RowHasBytes'
      BY <1>12, <2>r, <1>t DEF Inductive, RowHasBytes, TypeOK, Requests, Destroy, Idle
    <2>10. ObjectsFirst'
      BY <1>12, <2>r, <1>t DEF Inductive, ObjectsFirst, TypeOK, Requests, Destroy, Idle
    <2>11. LogIsLast'
      BY <1>12, <2>r, <1>t DEF Inductive, LogIsLast, TypeOK, Requests, Happened, Action,
         ShownWasActive, Destroy, Idle, HasRow
    <2> QED
      BY <1>t, <2>1, <2>2, <2>3, <2>4, <2>5, <2>6, <2>7, <2>8, <2>10, <2>11 DEF
         Inductive
  <1>13. ASSUME NEW r \in Request, NEW S \in SUBSET File, BulkDelete(r, S) PROVE Inductive'
    <2>r. /\ \/ req'[r] = [at |-> "act", op |-> "bulk", files |-> S, left |-> S] /\ UNCHANGED doomed
             \/ /\ req'[r] = [at |-> "object", op |-> "hard_delete", files |-> S, left |-> S]
                /\ doomed' = doomed \cup S
          /\ \A q \in Request : q # r => req'[q] = req[q]
      BY <1>13, <1>t DEF BulkDelete, Begin, TypeOK
    <2>a. /\ \A g \in S : status[g] = "active"
          /\ UNCHANGED <<status, store, audit, browser, up, shown, trashed>>
      BY <1>13 DEF BulkDelete
    <2>1. ListedHasBytes'
      BY <2>r, <2>a, <1>t DEF Inductive, ListedHasBytes, TypeOK
    <2>2. GoneIsClean'
      BY <2>r, <2>a, <1>t DEF Inductive, GoneIsClean, TypeOK
    <2>3. LoggedHappened'
      BY <2>r, <2>a, <1>t DEF Inductive, LoggedHappened, TypeOK, Happened, LogIsLast,
         Requests, Action, ShownWasActive
    <2>4. Handlers'
      BY <2>r, <2>a, <1>t DEF Inductive, Handlers, TypeOK
    <2>5. ShownWasActive'
      BY <2>r, <2>a, <1>t DEF Inductive, ShownWasActive, TypeOK
    <2>6. Uploading'
      BY <2>r, <2>a, <1>t DEF Inductive, Uploading, TypeOK
    <2>7. InsertIsFirst'
      BY <2>r, <2>a, <1>t DEF Inductive, InsertIsFirst, TypeOK, Requests
    <2>8. RowHasBytes'
      BY <2>r, <2>a, <1>t DEF Inductive, RowHasBytes, TypeOK, Requests
    <2>10. ObjectsFirst'
      BY <2>r, <2>a, <1>t DEF Inductive, ObjectsFirst, TypeOK, Requests, ShownWasActive,
         Uploading, Handlers
    <2>11. LogIsLast'
      BY <2>r, <2>a, <1>t DEF Inductive, LogIsLast, TypeOK, Requests, Happened, Action,
         ShownWasActive
    <2> QED
      BY <1>t, <2>1, <2>2, <2>3, <2>4, <2>5, <2>6, <2>7, <2>8, <2>10, <2>11 DEF
         Inductive
  <1>14. ASSUME NEW r \in Request, DeleteObject(r) PROVE Inductive'
    <2>f. PICK f \in req[r].left :
            /\ IF req[r].left = {f} THEN Goto(r, "act") ELSE Strike(r, f)
            /\ \/ bytes' = bytes \ {f}
               \/ "bucket" \in Faults /\ UNCHANGED bytes
      BY <1>14 DEF DeleteObject
    <2>a. /\ req[r].at = "object" /\ req[r].op = "hard_delete"
          /\ UNCHANGED <<status, multipart, audit, browser, up, history>>
      BY <1>14, <1>t DEF DeleteObject, Inductive, Handlers
    <2>b. f \in req[r].files /\ f \in doomed
      BY <2>f, <2>a, <1>t DEF Inductive, Handlers, ObjectsFirst, Requests
    <2>r. /\ \/ /\ req[r].left = {f}
                /\ req'[r] = [at |-> "act", op |-> "hard_delete",
                              files |-> req[r].files, left |-> req[r].files]
             \/ req'[r] = [at |-> "object", op |-> "hard_delete",
                           files |-> req[r].files, left |-> req[r].left \ {f}]
          /\ \A q \in Request : q # r => req'[q] = req[q]
      <3>1. CASE req[r].left = {f}
        BY <2>f, <2>a, <1>t, <3>1, GotoKeeps
      <3>2. CASE req[r].left # {f}
        BY <2>f, <2>a, <1>t, <3>2, LeftShrinks
      <3> QED
        BY <3>1, <3>2
    <2>1. ListedHasBytes'
      BY <2>f, <2>a, <2>b, <2>r, <1>t DEF Inductive, ListedHasBytes, TypeOK
    <2>2. GoneIsClean'
      BY <2>f, <2>a, <2>b, <2>r, <1>t DEF Inductive, GoneIsClean, TypeOK
    <2>3. LoggedHappened'
      BY <2>f, <2>a, <2>b, <2>r, <1>t DEF Inductive, LoggedHappened, TypeOK, Happened,
         LogIsLast, Requests, Action, ShownWasActive
    <2>4. Handlers'
      BY <2>f, <2>a, <2>b, <2>r, <1>t DEF Inductive, Handlers, TypeOK
    <2>5. ShownWasActive'
      BY <2>f, <2>a, <2>b, <2>r, <1>t DEF Inductive, ShownWasActive, TypeOK
    <2>6. Uploading'
      BY <2>f, <2>a, <2>b, <2>r, <1>t DEF Inductive, Uploading, TypeOK
    <2>7. InsertIsFirst'
      BY <2>f, <2>a, <2>b, <2>r, <1>t DEF Inductive, InsertIsFirst, TypeOK, Requests
    <2>8. RowHasBytes'
      BY <2>f, <2>a, <2>b, <2>r, <1>t DEF Inductive, RowHasBytes, TypeOK, Requests
    <2>10. ObjectsFirst'
      BY <2>f, <2>a, <2>b, <2>r, <1>t DEF Inductive, ObjectsFirst, TypeOK, Requests
    <2>11. LogIsLast'
      BY <2>f, <2>a, <2>b, <2>r, <1>t DEF Inductive, LogIsLast, TypeOK, Requests,
         Happened, Action, ShownWasActive
    <2> QED
      BY <1>t, <2>1, <2>2, <2>3, <2>4, <2>5, <2>6, <2>7, <2>8, <2>10, <2>11 DEF
         Inductive
  <1>15. ASSUME NEW r \in Request, DeleteRows(r) PROVE Inductive'
    <2>a. /\ req[r].at = "act" /\ req[r].op \in {"delete", "bulk", "hard_delete"}
          /\ UNCHANGED <<store, audit, browser, up, shown, doomed>>
      BY <1>15, <1>t DEF DeleteRows, Inductive, Handlers
    <2>b. req[r].files \subseteq shown
      BY <2>a DEF Inductive, ObjectsFirst, Requests
    <2>r. /\ \/ req'[r] = Idle
             \/ /\ req'[r] = [at |-> "log", op |-> req[r].op,
                              files |-> req[r].files, left |-> req[r].files]
                /\ \A g \in req[r].files : Happened(Action(req[r].op), g)'
          /\ \A q \in Request : q # r => req'[q] = req[q]
      <3>1. CASE End(r)
        BY <1>t, <3>1, EndForgets
      <3>2. CASE Goto(r, "log") /\ ~End(r)
        <4>1. CASE req[r].op = "hard_delete"
          BY <1>15, <1>t, <2>a, <2>b, <3>2, <4>1, GotoKeeps
          DEF DeleteRows, Hit, HasRow, Happened, Action, TypeOK, Inductive, ShownWasActive
        <4>2. CASE req[r].op # "hard_delete"
          BY <1>15, <1>t, <2>a, <2>b, <3>2, <4>2, GotoKeeps
          DEF DeleteRows, Hit, HasRow, Happened, Action, TypeOK, Inductive, ShownWasActive
        <4> QED
          BY <4>1, <4>2
      <3> QED
        BY <1>15, <3>1, <3>2 DEF DeleteRows
    <2>s. /\ trashed \subseteq trashed'
          /\ \A g \in File : status'[g] # status[g] =>
                /\ g \in req[r].files
                /\ \/ status'[g] = "gone" /\ req[r].op = "hard_delete"
                   \/ status'[g] = "deleted" /\ g \in trashed' /\ status[g] # "gone"
          /\ \A g \in File : status[g] = "gone" => status'[g] = "gone"
      BY <1>15, <1>t DEF DeleteRows, Hit, HasRow, TypeOK
    <2>1. ListedHasBytes'
      BY <2>a, <2>b, <2>r, <2>s, <1>t DEF Inductive, ListedHasBytes, TypeOK,
         ShownWasActive, ObjectsFirst, Idle
    <2>2. GoneIsClean'
      BY <2>a, <2>b, <2>r, <2>s, <1>t DEF Inductive, GoneIsClean, TypeOK, ShownWasActive,
         Uploading, ObjectsFirst, Requests, Idle
    <2>3. LoggedHappened'
      BY <2>a, <2>b, <2>r, <2>s, <1>t DEF Inductive, LoggedHappened, TypeOK, Happened,
         LogIsLast, Requests, Action, ShownWasActive, ObjectsFirst, Idle
    <2>4. Handlers'
      BY <2>a, <2>b, <2>r, <2>s, <1>t DEF Inductive, Handlers, TypeOK, Idle
    <2>5. ShownWasActive'
      BY <2>a, <2>b, <2>r, <2>s, <1>t DEF Inductive, ShownWasActive, TypeOK, Idle
    <2>6. Uploading'
      BY <2>a, <2>b, <2>r, <2>s, <1>t DEF Inductive, Uploading, TypeOK, Idle
    <2>7. InsertIsFirst'
      BY <2>a, <2>b, <2>r, <2>s, <1>t DEF Inductive, InsertIsFirst, TypeOK, Requests,
         ShownWasActive, Handlers, ObjectsFirst, Idle
    <2>8. RowHasBytes'
      BY <2>a, <2>b, <2>r, <2>s, <1>t DEF Inductive, RowHasBytes, TypeOK, Requests, Idle
    <2>10. ObjectsFirst'
      BY <2>a, <2>b, <2>r, <2>s, <1>t DEF Inductive, ObjectsFirst, TypeOK, Requests, Idle
    <2>11. LogIsLast'
      <3>1. ASSUME NEW o, NEW g \in File, Happened(o, g) PROVE Happened(o, g)'
        BY <2>a, <2>s, <3>1 DEF Happened, Inductive
      <3>2. ASSUME NEW q \in Request, req'[q].at = "log", NEW g \in req'[q].files, q # r
            PROVE  Happened(Action(req[q].op), g)'
        <4>1. req'[q] = req[q]
          BY <2>r, <3>2 DEF Idle
        <4>2. g \in File
          BY <1>t, <3>2 DEF TypeOK, Req
        <4> QED
          BY <3>1, <3>2, <4>1, <4>2 DEF Inductive, LogIsLast, Requests
      <3>3. ASSUME req'[r].at = "log", NEW g \in req'[r].files
            PROVE  Happened(Action(req[r].op), g)'
        BY <2>r, <3>3 DEF Idle
      <3> QED
        BY <3>2, <3>3 DEF LogIsLast, Requests
    <2> QED
      BY <1>t, <2>1, <2>2, <2>3, <2>4, <2>5, <2>6, <2>7, <2>8, <2>10, <2>11 DEF
         Inductive
  <1>16. ASSUME NEW r \in Request, NEW f \in File, Restore(r, f) PROVE Inductive'
    <2>r. /\ req[r] = Idle
          /\ req'[r] = [at |-> "log", op |-> "restore", files |-> {f}, left |-> {f}]
          /\ \A q \in Request : q # r => req'[q] = req[q]
      BY <1>16, <1>t DEF Restore, Begin, TypeOK
    <2>1. ListedHasBytes'
      BY <1>16, <2>r, <1>t DEF Inductive, ListedHasBytes, TypeOK, Restore, Idle
    <2>2. GoneIsClean'
      BY <1>16, <2>r, <1>t DEF Inductive, GoneIsClean, TypeOK, Restore, Idle
    <2>3. LoggedHappened'
      BY <1>16, <2>r, <1>t DEF Inductive, LoggedHappened, TypeOK, Happened, LogIsLast,
         Requests, Action, ShownWasActive, Restore, Idle
    <2>4. Handlers'
      BY <1>16, <2>r, <1>t DEF Inductive, Handlers, TypeOK, Restore, Idle
    <2>5. ShownWasActive'
      BY <1>16, <2>r, <1>t DEF Inductive, ShownWasActive, TypeOK, Restore, Idle
    <2>6. Uploading'
      BY <1>16, <2>r, <1>t DEF Inductive, Uploading, TypeOK, Restore, Idle
    <2>7. InsertIsFirst'
      BY <1>16, <2>r, <1>t DEF Inductive, InsertIsFirst, TypeOK, Requests, Restore, Idle
    <2>8. RowHasBytes'
      BY <1>16, <2>r, <1>t DEF Inductive, RowHasBytes, TypeOK, Requests, Restore, Idle
    <2>10. ObjectsFirst'
      BY <1>16, <2>r, <1>t DEF Inductive, ObjectsFirst, TypeOK, Requests, Restore, Idle
    <2>11. LogIsLast'
      BY <1>16, <2>r, <1>t DEF Inductive, LogIsLast, TypeOK, Requests, Happened, Action,
         ShownWasActive, Restore, Idle
    <2> QED
      BY <1>t, <2>1, <2>2, <2>3, <2>4, <2>5, <2>6, <2>7, <2>8, <2>10, <2>11 DEF
         Inductive
  <1>17. ASSUME NEW r \in Request, WriteAudit(r) PROVE Inductive'
    <2>a. req[r].at = "log" /\ UNCHANGED <<status, store, up, history>>
      BY <1>17 DEF WriteAudit
    <2>l. \A g \in req[r].files : Happened(Action(req[r].op), g)
      BY <2>a DEF Inductive, LogIsLast, Requests
    <2>f. PICK f \in req[r].left :
            /\ audit' \subseteq audit \cup {<<Action(req[r].op), f>>}
            /\ End(r) \/ Strike(r, f)
      BY <1>17 DEF WriteAudit
    <2>b. f \in req[r].files
      BY <2>f, <1>t DEF Inductive, Handlers
    <2>r. /\ \/ req'[r] = Idle
             \/ req'[r] = [at |-> "log", op |-> req[r].op,
                           files |-> req[r].files, left |-> req[r].left \ {f}]
          /\ \A q \in Request : q # r => req'[q] = req[q]
      BY <2>f, <2>a, <1>t, EndForgets, LeftShrinks
    <2>c. \A g \in File : client'[g] # client[g] => client'[g] = "done"
      BY <1>17, <1>t DEF WriteAudit, Answer, TypeOK
    <2>1. ListedHasBytes'
      BY <2>a, <2>l, <2>f, <2>b, <2>r, <2>c, <1>t DEF Inductive, ListedHasBytes, TypeOK,
         Idle
    <2>2. GoneIsClean'
      BY <2>a, <2>l, <2>f, <2>b, <2>r, <2>c, <1>t DEF Inductive, GoneIsClean, TypeOK, Idle
    <2>3. LoggedHappened'
      BY <2>a, <2>l, <2>f, <2>b, <2>r, <2>c, <1>t DEF Inductive, LoggedHappened, TypeOK,
         Happened, LogIsLast, Requests, Action, ShownWasActive, Idle
    <2>4. Handlers'
      BY <2>a, <2>l, <2>f, <2>b, <2>r, <2>c, <1>t DEF Inductive, Handlers, TypeOK, Idle
    <2>5. ShownWasActive'
      BY <2>a, <2>l, <2>f, <2>b, <2>r, <2>c, <1>t DEF Inductive, ShownWasActive, TypeOK,
         Idle
    <2>6. Uploading'
      BY <2>a, <2>l, <2>f, <2>b, <2>r, <2>c, <1>t DEF Inductive, Uploading, TypeOK, Idle
    <2>7. InsertIsFirst'
      BY <2>a, <2>l, <2>f, <2>b, <2>r, <2>c, <1>t DEF Inductive, InsertIsFirst, TypeOK,
         Requests, Idle
    <2>8. RowHasBytes'
      BY <2>a, <2>l, <2>f, <2>b, <2>r, <2>c, <1>t DEF Inductive, RowHasBytes, TypeOK,
         Requests, Idle
    <2>10. ObjectsFirst'
      <3>1. ASSUME NEW q \in Request, req'[q].at \in {"object", "act"} PROVE req'[q] = req[q]
        BY <2>r, <2>a, <3>1 DEF Idle
      <3>2. /\ UNCHANGED doomed
            /\ shown \subseteq shown'
            /\ \A g \in bytes' : g \in bytes \/ g \notin shown
        BY <2>a, <1>t DEF Inductive, Uploading, TypeOK
      <3> QED
        BY <3>1, <3>2 DEF ObjectsFirst, Inductive, Requests
    <2>11. LogIsLast'
      BY <2>a, <2>l, <2>f, <2>b, <2>r, <2>c, <1>t DEF Inductive, LogIsLast, TypeOK,
         Requests, Happened, Action, ShownWasActive, Idle
    <2> QED
      BY <1>t, <2>1, <2>2, <2>3, <2>4, <2>5, <2>6, <2>7, <2>8, <2>10, <2>11 DEF
         Inductive
  <1>18. CASE Crash
    <2>1. ListedHasBytes'
      BY <1>18, <1>t DEF Inductive, ListedHasBytes, TypeOK, Crash, Idle
    <2>2. GoneIsClean'
      BY <1>18, <1>t DEF Inductive, GoneIsClean, TypeOK, Crash, Idle
    <2>3. LoggedHappened'
      BY <1>18, <1>t DEF Inductive, LoggedHappened, TypeOK, Happened, LogIsLast, Requests,
         Action, ShownWasActive, Crash, Idle
    <2>4. Handlers'
      BY <1>18, <1>t DEF Inductive, Handlers, TypeOK, Crash, Idle
    <2>5. ShownWasActive'
      BY <1>18, <1>t DEF Inductive, ShownWasActive, TypeOK, Crash, Idle
    <2>6. Uploading'
      BY <1>18, <1>t DEF Inductive, Uploading, TypeOK, Crash, Idle
    <2>7. InsertIsFirst'
      BY <1>18, <1>t DEF Inductive, InsertIsFirst, TypeOK, Requests, Crash, Idle
    <2>8. RowHasBytes'
      BY <1>18, <1>t DEF Inductive, RowHasBytes, TypeOK, Requests, Crash, Idle
    <2>10. ObjectsFirst'
      BY <1>18, <1>t DEF Inductive, ObjectsFirst, TypeOK, Requests, Crash, Idle
    <2>11. LogIsLast'
      BY <1>18, <1>t DEF Inductive, LogIsLast, TypeOK, Requests, Crash, Idle
    <2> QED
      BY <1>t, <2>1, <2>2, <2>3, <2>4, <2>5, <2>6, <2>7, <2>8, <2>10, <2>11 DEF
         Inductive
  <1>19. CASE Restart
    BY <1>19, <1>t DEF Inductive, TypeOK, Restart, ListedHasBytes, GoneIsClean,
       LoggedHappened, Handlers, ShownWasActive, Uploading, InsertIsFirst, RowHasBytes,
       ObjectsFirst, LogIsLast, Requests, Happened
  <1>20. CASE UNCHANGED vars
    BY <1>20, <1>t DEF Inductive, TypeOK, ListedHasBytes, GoneIsClean, LoggedHappened,
       Handlers, ShownWasActive, Uploading, InsertIsFirst, RowHasBytes,
       ObjectsFirst, LogIsLast, Requests, Happened
  <1> QED
    BY <1>1, <1>2, <1>3, <1>4, <1>5, <1>6, <1>7, <1>8, <1>9, <1>10, <1>11, <1>12, <1>13,
       <1>14, <1>15, <1>16, <1>17, <1>18, <1>19, <1>20
    DEF Next, Step
-----------------------------------------------------------------------------
(* The invariant the other theorems are read off: together with the         *)
(* properties, what every handler relies on at each of its steps.           *)
THEOREM InductiveHolds == Spec => []Inductive
  <1>1. Inductive /\ UNCHANGED vars => Inductive'
    BY NextInductive
  <1> QED
    BY InitInductive, NextInductive, PTL DEF Spec

(* The variables hold what their columns and locals hold, and a browser     *)
(* waits only for a request of its own.                                     *)
THEOREM TypeCorrect == Spec => []TypeOK
  <1>1. Inductive => TypeOK
    BY DEF Inductive
  <1> QED
    BY <1>1, InductiveHolds, PTL

(* A listed file has its bytes unless its permanent deletion has begun,     *)
(* whatever fails, is lost or repeated, for either kind of bucket.          *)
THEOREM ListedFilesHaveBytes == Spec => []ListedHasBytes
  <1>1. Inductive => ListedHasBytes
    BY DEF Inductive
  <1> QED
    BY <1>1, InductiveHolds, PTL

(* A permanent deletion leaves no object while the bucket answers.          *)
THEOREM DeletionsAreClean == Spec => []GoneIsClean
  <1>1. Inductive => GoneIsClean
    BY DEF Inductive
  <1> QED
    BY <1>1, InductiveHolds, PTL

(* What the audit log says has happened.                                    *)
THEOREM LogIsTrue == Spec => []LoggedHappened
  <1>1. Inductive => LoggedHappened
    BY DEF Inductive
  <1> QED
    BY <1>1, InductiveHolds, PTL

(* Where the bucket completes an upload only once, what is in the trash     *)
(* stays there until an admin restores it or it is removed for good.  Where *)
-----------------------------------------------------------------------------
(* The promise.                                                             *)

(* Every step leaves what is being uploaded registered.                     *)
LEMMA StaysRegistered ==
    ASSUME Inductive, Registered, [Next]_vars
    PROVE  Registered'
  <1>t. TypeOK /\ TypeOK'
    BY NextType DEF Inductive
  <1>1. ASSUME \A g \in File : client'[g] \in {client[g], "sent", "done", "stopped"},
               \A g \in File : client'[g] = "sent" =>
                    client[g] \in {"parts", "put", "sent"},
               \A g \in File : status'[g] = "none" => status[g] = "none",
               \A q \in Requests("s3")' : req'[q] = req[q]
        PROVE  Registered'
    <2>1. \A g \in File : client'[g] \in {"parts", "put", "sent"} => status'[g] # "none"
      BY <1>1 DEF Registered
    <2>2. ASSUME NEW q \in Requests("s3")', NEW g \in req'[q].files PROVE status'[g] # "none"
      <3>1. req'[q] = req[q] /\ q \in Requests("s3")
        BY <1>1 DEF Requests
      <3>2. g \in File
        BY <1>t, <3>1 DEF TypeOK, Req, Requests
      <3> QED
        BY <1>1, <3>1, <3>2 DEF Registered
    <2> QED
      BY <2>1, <2>2 DEF Registered
  <1>2. ASSUME NEW r \in Request, NEW f \in File, Create(r, f) PROVE Registered'
    <2>1. /\ req'[r].at # "s3"
          /\ \A q \in Request : q # r => req'[q] = req[q]
          /\ UNCHANGED <<status, client>>
      BY <1>2, <1>t DEF Create, Begin, TypeOK
    <2> QED
      BY <1>1, <2>1 DEF Requests
  <1>3. ASSUME NEW r \in Request, InsertRow(r) PROVE Registered'
    <2>1. req'[r] = Idle /\ \A q \in Request : q # r => req'[q] = req[q]
      BY <1>3, <1>t, EndForgets DEF InsertRow, Refuse
    <2>2. CASE Refuse(r) /\ UNCHANGED status
      BY <1>1, <2>1, <2>2 DEF Refuse, Requests, Idle
    <2>3. CASE Answer(r, "parts") /\
               status' = [f \in File |-> IF f \in req[r].files THEN "pending" ELSE status[f]]
      <3>1. ASSUME NEW g \in File, client'[g] \in {"parts", "put", "sent"}
            PROVE  status'[g] # "none"
        BY <2>3, <3>1, <1>t, LifecycleAssumption DEF Answer, Registered, TypeOK
      <3>2. ASSUME NEW q \in Requests("s3")', NEW g \in req'[q].files
            PROVE  status'[g] # "none"
        <4>1. req'[q] = req[q] /\ q \in Requests("s3")
          BY <2>1 DEF Requests, Idle
        <4>2. g \in File
          BY <1>t, <4>1 DEF TypeOK, Req, Requests
        <4> QED
          BY <2>3, <4>1, <4>2 DEF Registered
      <3> QED
        BY <3>1, <3>2 DEF Registered
    <2> QED
      BY <1>3, <2>2, <2>3 DEF InsertRow
  <1>4. ASSUME NEW f \in File, InitUpload(f) PROVE Registered'
    BY <1>4, <1>t DEF InitUpload, Registered, Requests, TypeOK, Req
  <1>5. ASSUME NEW f \in File, Send(f) \/ GiveUp(f) \/ Lose(f) PROVE Registered'
    BY <1>1, <1>5, <1>t DEF Send, GiveUp, Lose, Requests, TypeOK
  <1>6. ASSUME NEW r \in Request, NEW f \in File, Complete(r, f) PROVE Registered'
    <2>1. /\ req'[r].files = {f}
          /\ \A q \in Request : q # r => req'[q] = req[q]
          /\ UNCHANGED <<status, client>>
      BY <1>6, <1>t DEF Complete, Begin, TypeOK
    <2> QED
      BY <1>6, <2>1 DEF Complete, Registered, Requests
  <1>7. ASSUME NEW r \in Request, NEW f \in File,
               Confirm(r, f) \/ Delete(r, f) \/ Destroy(r, f) \/ Restore(r, f)
        PROVE  Registered'
    <2>1. /\ req'[r].at # "s3"
          /\ \A q \in Request : q # r => req'[q] = req[q]
      BY <1>7, <1>t DEF Confirm, Delete, Destroy, Restore, Begin, TypeOK
    <2>2. client' = client /\ \A g \in File : status'[g] = "none" => status[g] = "none"
      BY <1>7, <1>t DEF Confirm, Delete, Destroy, Restore, TypeOK
    <2> QED
      BY <1>1, <2>1, <2>2 DEF Requests
  <1>8. ASSUME NEW r \in Request, NEW S \in SUBSET File, BulkDelete(r, S) PROVE Registered'
    <2>1. /\ req'[r].at # "s3"
          /\ \A q \in Request : q # r => req'[q] = req[q]
      BY <1>8, <1>t DEF BulkDelete, Begin, TypeOK
    <2> QED
      BY <1>1, <1>8, <2>1 DEF BulkDelete, Requests
  <1>9. ASSUME NEW r \in Request,
               CompleteS3(r) \/ UpdateRow(r) \/ DeleteObject(r) \/ DeleteRows(r) \/ WriteAudit(r)
        PROVE  Registered'
    <2>1. \A g \in File : client'[g] \in {client[g], "done"}
      BY <1>9, <1>t DEF CompleteS3, UpdateRow, DeleteObject, DeleteRows, WriteAudit,
         Refuse, Answer, TypeOK
    <2>2. \A g \in File : status'[g] = "none" => status[g] = "none"
      BY <1>9, <1>t DEF CompleteS3, UpdateRow, DeleteObject, DeleteRows, WriteAudit, TypeOK
    <2>3. /\ req'[r].at # "s3"
          /\ \A q \in Request : q # r => req'[q] = req[q]
      <3>1. CASE End(r)
        BY <1>t, <3>1, EndForgets DEF Idle
      <3>2. CASE \E p \in {"row", "log", "act"} : Goto(r, p)
        BY <1>t, <3>2 DEF Goto, TypeOK
      <3>3. CASE req[r].at \in {"object", "log"} /\ \E f : Strike(r, f)
        BY <1>t, <3>3 DEF Strike, TypeOK
      <3> QED
        BY <1>9, <3>1, <3>2, <3>3
        DEF CompleteS3, UpdateRow, DeleteObject, DeleteRows, WriteAudit, Refuse
    <2> QED
      BY <1>1, <2>1, <2>2, <2>3 DEF Requests
  <1>10. CASE Crash \/ Restart \/ UNCHANGED vars
    BY <1>1, <1>10 DEF Crash, Restart, Requests, Idle
  <1> QED
    BY <1>2, <1>3, <1>4, <1>5, <1>6, <1>7, <1>8, <1>9, <1>10 DEF Next, Step

(* The first state is one in which nothing has been promised but old files. *)
LEMMA PromiseInit == Init => Promise!Init /\ Registered
  BY LifecycleAssumption DEF Init, Promise!Init, Registered, Requests, Idle

(* Every step is a step of the promise, or none.                            *)
LEMMA PromiseStep ==
    ASSUME Inductive, Registered, [Next]_vars
    PROVE  [Promise!Next]_(Promise!vars)
  <1>t. TypeOK
    BY DEF Inductive
  <1>1. ASSUME UNCHANGED <<status, bytes, doomed>> PROVE [Promise!Next]_(Promise!vars)
    BY <1>1 DEF Promise!vars
  <1>2. ASSUME NEW f \in File, status[f] = "pending" PROVE f \notin doomed
    BY <1>2, <1>t DEF Inductive, ShownWasActive, TypeOK
  <1>3. ASSUME NEW r \in Request, NEW f \in File, Create(r, f) \/ Complete(r, f) \/ Delete(r, f)
        PROVE  [Promise!Next]_(Promise!vars)
    BY <1>1, <1>3 DEF Create, Complete, Delete
  <1>4. ASSUME NEW r \in Request, InsertRow(r) PROVE [Promise!Next]_(Promise!vars)
    <2>1. UNCHANGED <<bytes, doomed>>
      BY <1>4 DEF InsertRow
    <2>2. CASE status' = [f \in File |-> IF f \in req[r].files THEN "pending" ELSE status[f]]
      <3>1. PICK f \in File : req[r].files = {f}
        BY <1>4 DEF InsertRow, Inductive, Handlers
      <3>2. status[f] = "none"
        BY <1>4, <3>1 DEF InsertRow, Inductive, InsertIsFirst, Requests
      <3>3. Promise!Register(f)
        BY <2>1, <2>2, <3>1, <3>2 DEF Promise!Register, Promise!In, Promise!Move
      <3> QED
        BY <3>3 DEF Promise!Next
    <2> QED
      BY <1>1, <1>4, <2>1, <2>2 DEF InsertRow
  <1>5. ASSUME NEW f \in File, InitUpload(f) PROVE [Promise!Next]_(Promise!vars)
    <2>1. Promise!Register(f)
      BY <1>5, <1>t DEF InitUpload, Promise!Register, Promise!In, Promise!Move, TypeOK
    <2> QED
      BY <2>1 DEF Promise!Next
  <1>6. ASSUME NEW f \in File, Send(f) PROVE [Promise!Next]_(Promise!vars)
    <2>1. UNCHANGED <<status, doomed>>
      BY <1>6 DEF Send
    <2>2. CASE client[f] = "put" /\ bytes' = bytes \cup {f}
      <3>1. status[f] = "pending"
        BY <1>t, <2>2 DEF Inductive, Uploading, ShownWasActive, Registered, TypeOK
      <3>2. Promise!Arrive(f)
        BY <2>1, <2>2, <3>1 DEF Promise!Arrive, Promise!In
      <3> QED
        BY <3>2 DEF Promise!Next
    <2> QED
      BY <1>1, <1>6, <2>1, <2>2 DEF Send
  <1>7. ASSUME NEW f \in File, GiveUp(f) \/ Lose(f) PROVE [Promise!Next]_(Promise!vars)
    BY <1>1, <1>7 DEF GiveUp, Lose
  <1>8. ASSUME NEW r \in Request, CompleteS3(r) PROVE [Promise!Next]_(Promise!vars)
    <2>1. UNCHANGED <<status, doomed>>
      BY <1>8 DEF CompleteS3
    <2>2. ASSUME NEW f \in req[r].files, Assemble(f) PROVE [Promise!Next]_(Promise!vars)
      <3>1. f \in File /\ status[f] # "none"
        BY <1>8, <1>t DEF CompleteS3, TypeOK, Req, Registered, Requests
      <3>2. status[f] = "pending"
        BY <1>t, <2>2, <3>1 DEF Assemble, Inductive, Uploading, ShownWasActive, TypeOK
      <3>3. Promise!Arrive(f)
        BY <2>1, <2>2, <3>1, <3>2 DEF Assemble, Promise!Arrive, Promise!In
      <3> QED
        BY <3>1, <3>3 DEF Promise!Next
    <2> QED
      BY <1>1, <1>8, <2>1, <2>2 DEF CompleteS3
  <1>9. ASSUME NEW f \in File, UNCHANGED <<bytes, doomed>>,
               status' = [status EXCEPT ![f] = "active"],
               \/ status[f] = "pending" /\ f \in bytes \cup doomed
               \/ status[f] \in {"active", "deleted"}
        PROVE  [Promise!Next]_(Promise!vars)
    <2>1. Promise!Move({f}, "active")
      BY <1>9, <1>t DEF Promise!Move, TypeOK
    <2>2. CASE status[f] = "pending"
      <3>1. Promise!List(f)
        BY <1>2, <1>9, <2>1, <2>2 DEF Promise!List, Promise!In
      <3> QED
        BY <3>1 DEF Promise!Next
    <2>3. CASE status[f] = "deleted"
      <3>1. Promise!Restore(f)
        BY <1>9, <2>1, <2>3 DEF Promise!Restore, Promise!In
      <3> QED
        BY <3>1 DEF Promise!Next
    <2>4. CASE status[f] = "active"
      BY <1>1, <1>9, <1>t, <2>4 DEF TypeOK
    <2> QED
      BY <1>9, <2>2, <2>3, <2>4
  <1>10. ASSUME NEW r \in Request, UpdateRow(r) PROVE [Promise!Next]_(Promise!vars)
    <2>1. UNCHANGED <<bytes, doomed>>
      BY <1>10 DEF UpdateRow
    <2>2. ASSUME NEW f \in req[r].files, HasRow(f), status' = [status EXCEPT ![f] = "active"]
          PROVE  [Promise!Next]_(Promise!vars)
      <3>1. f \in File /\ f \in bytes \cup doomed
        BY <1>10, <1>t DEF UpdateRow, Inductive, RowHasBytes, Requests, TypeOK, Req
      <3> QED
        BY <1>9, <2>1, <2>2, <3>1 DEF HasRow
    <2> QED
      BY <1>1, <1>10, <2>1, <2>2 DEF UpdateRow
  <1>11. ASSUME NEW r \in Request, NEW f \in File, Confirm(r, f)
         PROVE  [Promise!Next]_(Promise!vars)
    <2>1. f \in bytes \cup doomed
      BY <1>11 DEF Confirm, Inductive, Uploading
    <2> QED
      BY <1>9, <1>11, <2>1 DEF Confirm
  <1>12. ASSUME NEW r \in Request, NEW f \in File, Restore(r, f)
         PROVE  [Promise!Next]_(Promise!vars)
    BY <1>9, <1>12 DEF Restore
  <1>13. ASSUME NEW S \in SUBSET File, S \subseteq shown, \A f \in S : HasRow(f),
                UNCHANGED <<status, bytes>>, doomed' = doomed \cup S
         PROVE  [Promise!Next]_(Promise!vars)
    <2>1. Promise!Doom(S)
      BY <1>13, <1>t DEF Promise!Doom, Promise!Listed, Promise!In, HasRow, TypeOK,
         Inductive, ShownWasActive
    <2> QED
      BY <2>1 DEF Promise!Next
  <1>14. ASSUME NEW r \in Request, NEW f \in File, Destroy(r, f)
         PROVE  [Promise!Next]_(Promise!vars)
    BY <1>13, <1>14 DEF Destroy
  <1>15. ASSUME NEW r \in Request, NEW S \in SUBSET File, BulkDelete(r, S)
         PROVE  [Promise!Next]_(Promise!vars)
    <2>1. S \subseteq shown /\ (\A f \in S : HasRow(f)) /\ UNCHANGED <<status, bytes>>
      BY <1>15 DEF BulkDelete, HasRow, Inductive, ShownWasActive
    <2> QED
      BY <1>1, <1>13, <1>15, <2>1 DEF BulkDelete
  <1>16. ASSUME NEW r \in Request, DeleteObject(r) PROVE [Promise!Next]_(Promise!vars)
    <2>1. UNCHANGED <<status, doomed>>
      BY <1>16 DEF DeleteObject
    <2>2. ASSUME NEW f \in req[r].left, bytes' = bytes \ {f} PROVE [Promise!Next]_(Promise!vars)
      <3>1. f \in File /\ f \in doomed
        BY <1>16, <1>t DEF DeleteObject, Inductive, ObjectsFirst, Handlers, Requests, TypeOK, Req
      <3>2. Promise!Erase(f)
        BY <2>1, <2>2, <3>1 DEF Promise!Erase
      <3> QED
        BY <3>1, <3>2 DEF Promise!Next
    <2> QED
      BY <1>1, <1>16, <2>1, <2>2 DEF DeleteObject
  <1>17. ASSUME NEW r \in Request, DeleteRows(r) PROVE [Promise!Next]_(Promise!vars)
    <2>1. UNCHANGED <<bytes, doomed>> /\ Hit(r) \in SUBSET File
      BY <1>17, <1>t DEF DeleteRows, Hit, TypeOK, Req
    <2>2. \A f \in Hit(r) : status[f] \in {"active", "deleted"}
      BY <1>17, <1>t, <2>1
      DEF DeleteRows, Hit, HasRow, Inductive, ObjectsFirst, ShownWasActive, Requests
    <2>3. CASE /\ req[r].op = "hard_delete"
               /\ status' = [f \in File |-> IF f \in Hit(r) THEN "gone" ELSE status[f]]
      <3>1. Hit(r) \subseteq doomed /\ ("bucket" \notin Faults => Hit(r) \cap bytes = {})
        BY <1>17, <2>3 DEF DeleteRows, Hit, Inductive, ObjectsFirst, Requests
      <3>2. Promise!Destroy(Hit(r))
        BY <2>1, <2>2, <2>3, <3>1
        DEF Promise!Destroy, Promise!Listed, Promise!In, Promise!Move
      <3> QED
        BY <2>1, <3>2 DEF Promise!Next
    <2>4. CASE status' = [f \in File |-> IF f \in Hit(r) THEN "deleted" ELSE status[f]]
      <3> DEFINE S == {f \in Hit(r) : status[f] = "active"}
      <3>1. S \in SUBSET File /\ S \subseteq Promise!In("active")
        BY <2>1 DEF Promise!In
      <3>2. Promise!Move(S, "deleted")
        BY <2>1, <2>2, <2>4, <1>t DEF Promise!Move, TypeOK
      <3>3. Promise!Trash(S)
        BY <2>1, <3>1, <3>2 DEF Promise!Trash
      <3> QED
        BY <3>1, <3>3 DEF Promise!Next
    <2> QED
      BY <1>1, <1>17, <2>1, <2>3, <2>4 DEF DeleteRows
  <1>18. ASSUME NEW r \in Request, WriteAudit(r) PROVE [Promise!Next]_(Promise!vars)
    BY <1>1, <1>18 DEF WriteAudit
  <1>19. CASE Crash \/ Restart \/ UNCHANGED vars
    BY <1>1, <1>19 DEF Crash, Restart
  <1> QED
    BY <1>3, <1>4, <1>5, <1>6, <1>7, <1>8, <1>10, <1>11, <1>12, <1>14, <1>15, <1>16,
       <1>17, <1>18, <1>19
    DEF Next, Step

(* The requests, statements and bucket calls implement the promise: for     *)
(* either kind of bucket, whatever runs at once, fails or is repeated.      *)
THEOREM PromiseKept == Spec => LivesAsPromised
  <1>1. Inductive /\ Registered /\ [Next]_vars => Registered' /\ [Promise!Next]_(Promise!vars)
    BY StaysRegistered, PromiseStep
  <1> QED
    BY <1>1, PromiseInit, InductiveHolds, PTL DEF Spec, LivesAsPromised, Promise!Spec

(* The promise is worth having: whoever keeps it can serve what it lists,   *)
(* leaves nothing of what it destroyed in a bucket that answers, and never  *)
(* brings that back.                                                        *)
THEOREM PromiseIsWorthHaving ==
    Promise!Spec => [](Promise!ListedHeld /\ Promise!GoneLeavesNothing) /\ Promise!GoneForGood
  <1> USE DEF Promise!In, Promise!Listed, Promise!Move, Promise!vars
  <1> DEFINE Held == Promise!ListedHeld /\ Promise!GoneLeavesNothing
  <1>1. Promise!Init => Held
    BY LifecycleAssumption
    DEF Promise!Init, Promise!ListedHeld, Promise!GoneLeavesNothing
  <1>2. ASSUME Held, [Promise!Next]_(Promise!vars)
        PROVE  Held' /\ Promise!In("gone") \subseteq Promise!In("gone")'
    <2> USE <1>2 DEF Promise!ListedHeld, Promise!GoneLeavesNothing
    <2>1. ASSUME NEW f \in File, Promise!Register(f) \/ Promise!List(f) \/ Promise!Restore(f)
          PROVE  Held' /\ Promise!In("gone") \subseteq Promise!In("gone")'
      BY <2>1 DEF Promise!Register, Promise!List, Promise!Restore
    <2>2. ASSUME NEW f \in File, Promise!Arrive(f) \/ Promise!Erase(f)
          PROVE  Held' /\ Promise!In("gone") \subseteq Promise!In("gone")'
      BY <2>2 DEF Promise!Arrive, Promise!Erase
    <2>3. ASSUME NEW S \in SUBSET File, Promise!Trash(S) \/ Promise!Doom(S)
          PROVE  Held' /\ Promise!In("gone") \subseteq Promise!In("gone")'
      BY <2>3 DEF Promise!Trash, Promise!Doom
    <2>4. ASSUME NEW S \in SUBSET File, Promise!Destroy(S)
          PROVE  Held' /\ Promise!In("gone") \subseteq Promise!In("gone")'
      BY <2>4 DEF Promise!Destroy
    <2>5. CASE UNCHANGED Promise!vars
      BY <2>5
    <2> QED
      BY <2>1, <2>2, <2>3, <2>4, <2>5 DEF Promise!Next
  <1>3. Held /\ [Promise!Next]_(Promise!vars) => Held'
    BY <1>2
  <1>4. Held /\ [Promise!Next]_(Promise!vars) =>
            [Promise!In("gone") \subseteq Promise!In("gone")']_(Promise!vars)
    BY <1>2
  <1> QED
    BY <1>1, <1>3, <1>4, PTL DEF Promise!Spec, Promise!GoneForGood
=============================================================================
