--------------------------- MODULE ZipJobsProofs ---------------------------
(***************************************************************************)
(* Theorems about ZipJobs for every number of folders, files, jobs, claim  *)
(* loops and tabs, with every fault and every kind of edit.                *)
(***************************************************************************)
EXTENDS ZipJobs, FiniteSetTheorems, TLAPS

(* A fingerprint is one a set of files can have, and so a value the columns *)
(* of a row can hold.                                                       *)
LEMMA FingerprintType == \A S \in SUBSET File : Fingerprint(S) \in Prints
  BY DEF Prints

(* The listing of a folder is a set of files.                               *)
LEMMA TreeType == \A d : Tree(d) \in SUBSET File
  BY DEF Tree, Active

(* The first state is well typed.                                           *)
LEMMA InitType == Init => TypeOK
  <1> SUFFICES ASSUME Init PROVE TypeOK
    OBVIOUS
  <1> DEFINE d0 == CHOOSE d \in Folder : TRUE
  <1>1. NoRow(d0) \in Row
    BY FingerprintType, FolderAssumption DEF NoRow, Row
  <1>2. row \in [Job -> Row]
    BY <1>1 DEF Init
  <1> QED
    BY <1>2, JobAssumption DEF Init, TypeOK, JobStatus, Chip, Views

USE DEF vars, time, files, jobs, bucket, loops, cleaner, tabs, slots, history

(* Every step keeps the variables well typed.                               *)
LEMMA NextType == TypeOK /\ [Next]_vars => TypeOK'
  <1> SUFFICES ASSUME TypeOK, [Next]_vars PROVE TypeOK'
    OBVIOUS
  <1> USE JobAssumption DEF TypeOK
  <1>1. ASSUME NEW f \in File, NEW d \in Folder \cup {Root}, CreateFile(f, d)
        PROVE TypeOK'
    BY <1>1 DEF CreateFile
  <1>2. ASSUME NEW f \in File, CompleteUpload(f)
        PROVE TypeOK'
    BY <1>2 DEF CompleteUpload
  <1>3. ASSUME NEW f \in File, NEW d \in Folder \cup {Root}, MoveFile(f, d)
        PROVE TypeOK'
    BY <1>3 DEF MoveFile
  <1>4. ASSUME NEW d \in Folder, DeleteFolder(d) PROVE TypeOK'
    BY <1>4 DEF DeleteFolder, JobStatus
  <1>5. ASSUME NEW c \in Client, NEW d \in Folder, Browse(c, d) PROVE TypeOK'
    BY <1>5 DEF Browse, Chip, Views
  <1>6. ASSUME NEW c \in Client, ClickPrepare(c) \/ Poll(c) PROVE TypeOK'
    BY <1>6, TreeType DEF ClickPrepare, Poll
  <1>7. ASSUME NEW c \in Client, FindJob(c) PROVE TypeOK'
    BY <1>7 DEF FindJob, Reply, Reusable, View, Chip, Views
  <1>8. ASSUME NEW c \in Client, FindNothing(c) PROVE TypeOK'
    BY <1>8 DEF FindNothing, Reply, Chip, Views
  <1>9. ASSUME NEW c \in Client, NeedJob(c) \/ RequestFails(c) PROVE TypeOK'
    BY <1>9 DEF NeedJob, RequestFails
  <1>24. ASSUME NEW c \in Client, LookupFails(c) PROVE TypeOK'
    <2>1. UNCHANGED <<time, files, jobs, bucket, up, loops, cleaner, page, asks>>
      BY <1>24 DEF LookupFails
    <2>2. blind' \in SUBSET Client
      BY <1>24 DEF LookupFails
    <2>3. CASE cpc[c] = "status" /\ Reply(c, "empty", NoJob)
      <3>1. [view |-> "empty", job |-> NoJob] \in Chip
        BY DEF Chip, Views
      <3> QED
        BY <2>1, <2>2, <2>3, <3>1 DEF Reply
    <2>4. CASE cpc' = [cpc EXCEPT ![c] = "create"] /\ UNCHANGED <<seen, chip>>
      BY <2>1, <2>2, <2>4
    <2> QED
      BY <1>24, <2>3, <2>4 DEF LookupFails
  <1>10. ASSUME NEW c \in Client, CreateZipJob(c) PROVE TypeOK'
    <2>1. PICK j \in Job :
             /\ clock' = clock + 1
             /\ status' = [status EXCEPT ![j] = "pending"]
             /\ row' = [row EXCEPT ![j] = [folder |-> page[c],
                                           print |-> Fingerprint(seen[c]),
                                           created |-> clock',
                                           expires |-> 0]]
             /\ Reply(c, "preparing", j)
      BY <1>10 DEF CreateZipJob
    <2>2. [folder |-> page[c], print |-> Fingerprint(seen[c]),
           created |-> clock', expires |-> 0] \in Row
      BY <2>1, FingerprintType DEF Row
    <2>3. row' \in [Job -> Row]
      BY <2>1, <2>2
    <2> QED
      BY <1>10, <2>1, <2>3 DEF CreateZipJob, Reply, Chip, Views, JobStatus
  <1>11. ASSUME NEW w \in Worker, Claim(w) PROVE TypeOK'
    BY <1>11 DEF Claim, Take, Pending, JobStatus
  <1>23. ASSUME NEW w \in Worker, SetRunning(w) PROVE TypeOK'
    BY <1>23 DEF SetRunning, Done, Goto, JobStatus
  <1>12. ASSUME NEW w \in Worker, ListEntries(w) PROVE TypeOK'
    BY <1>12, TreeType DEF ListEntries, Goto
  <1>13. ASSUME NEW w \in Worker, Upload(w) PROVE TypeOK'
    BY <1>13 DEF Upload, Goto
  <1>14. ASSUME NEW w \in Worker, MarkReady(w) PROVE TypeOK'
    <2>1. wjob[w] \in Job /\ clock + 1 \in Nat
      BY <1>14 DEF MarkReady
    <2>2. clock' \in Nat /\ status' \in [Job -> JobStatus]
      BY <1>14, <2>1 DEF MarkReady, JobStatus
    <2>3. row' \in [Job -> Row]
      <3>0. row[wjob[w]] \in Row /\ clock' \in Nat
        BY <2>1, <2>2
      <3>1. [row[wjob[w]] EXCEPT !.expires = clock'] \in Row
        <4> HIDE DEF TypeOK
        <4> QED
          BY <3>0 DEF Row
      <3> QED
        BY <1>14, <2>1, <3>1 DEF MarkReady
    <2> QED
      BY <1>14, <2>2, <2>3 DEF MarkReady, Done, Goto
  <1>15. ASSUME NEW w \in Worker, MarkFailed(w) PROVE TypeOK'
    BY <1>15 DEF MarkFailed, Done, Goto, JobStatus
  <1>16. CASE ListExpired
    BY <1>16 DEF ListExpired
  <1>17. ASSUME NEW j \in Job, DeleteArchive(j) PROVE TypeOK'
    BY <1>17 DEF DeleteArchive
  <1>18. ASSUME NEW j \in Job, DeleteFails(j) \/ MarkExpired(j) PROVE TypeOK'
    BY <1>18 DEF DeleteFails, MarkExpired, JobStatus
  <1>19. CASE Crash
    BY <1>19 DEF Crash
  <1>20. CASE Restart
    BY <1>20 DEF Restart, JobStatus
  <1>21. CASE Tick
    BY <1>21 DEF Tick, Row
  <1>22. CASE UNCHANGED vars
    BY <1>22
  <1> QED
    BY <1>1, <1>2, <1>3, <1>4, <1>5, <1>6, <1>7, <1>8, <1>9, <1>10, <1>11, <1>12,
       <1>13, <1>14, <1>15, <1>16, <1>17, <1>18, <1>19, <1>20, <1>21, <1>22, <1>23, <1>24
    DEF Next, EditContents, Request, Loop, Sweep

(* The columns, the bucket and the locals of the loops always hold values   *)
(* of their types, and a loop holds a job exactly while it is busy.         *)
THEOREM TypeCorrect == Spec => []TypeOK
  BY InitType, NextType, PTL DEF Spec

-----------------------------------------------------------------------------
(* The first state satisfies the inductive invariant.                       *)
LEMMA InitInductive == Init => Inductive
  BY InitType DEF Init, Inductive, ReadyHasArchive, ExclusiveBuild, RunningIsBuilt,
     MarkedIsStored, SweepIsOver, DownIsIdle, TimeOrder, NoRow, TypeOK

(* Steps that touch neither the jobs nor what the loops and the sweep do:   *)
(* the edits (but for folder deletion) and what the tabs ask.               *)
Quiet ==
    /\ clock' \in {clock, clock + 1}
    /\ UNCHANGED <<horizon, status, row, stored, archive, up, wpc, wjob, sweep, reaped>>

(* A step is quiet, or one of those that the invariant is about.            *)
LEMMA StepCases ==
    ASSUME TypeOK, [Next]_vars
    PROVE \/ Quiet
          \/ \E d \in Folder : DeleteFolder(d)
          \/ \E c \in Client : CreateZipJob(c)
          \/ \E w \in Worker : Claim(w) \/ SetRunning(w) \/ ListEntries(w)
                                  \/ Upload(w) \/ MarkReady(w) \/ MarkFailed(w)
          \/ ListExpired
          \/ \E j \in Job : DeleteArchive(j) \/ DeleteFails(j) \/ MarkExpired(j)
          \/ Crash \/ Restart \/ Tick
  <1>1. ASSUME NEW f \in File, NEW d \in Folder \cup {Root},
               CreateFile(f, d) \/ MoveFile(f, d)
        PROVE Quiet
    BY <1>1 DEF CreateFile, MoveFile, Quiet
  <1>2. ASSUME NEW f \in File, CompleteUpload(f)
        PROVE Quiet
    BY <1>2 DEF CompleteUpload, Quiet
  <1>3. ASSUME NEW c \in Client, NEW d \in Folder, Browse(c, d) PROVE Quiet
    BY <1>3 DEF Browse, Quiet
  <1>4. ASSUME NEW c \in Client, ClickPrepare(c) \/ Poll(c) \/ FindJob(c)
                                     \/ FindNothing(c) \/ NeedJob(c) \/ LookupFails(c) \/ RequestFails(c)
        PROVE Quiet
    BY <1>4 DEF ClickPrepare, Poll, FindJob, FindNothing, NeedJob, LookupFails, RequestFails, Quiet
  <1>5. CASE UNCHANGED vars
    BY <1>5 DEF Quiet
  <1> QED
    BY <1>1, <1>2, <1>3, <1>4, <1>5 DEF Next, EditContents, Request, Loop, Sweep

(* Every step keeps the inductive invariant.                                *)
LEMMA NextInductive == Inductive /\ [Next]_vars => Inductive'
  <1> SUFFICES ASSUME Inductive, [Next]_vars PROVE Inductive'
    OBVIOUS
  <1>0. TypeOK /\ TypeOK'
    BY NextType DEF Inductive
  <1> USE <1>0
  <1> DEFINE Parts == /\ ReadyHasArchive /\ ExclusiveBuild /\ RunningIsBuilt
                      /\ MarkedIsStored
                      /\ SweepIsOver /\ DownIsIdle /\ TimeOrder
  <1> SUFFICES Parts'
    BY DEF Inductive
  <1>a. Parts
    BY DEF Inductive
  <1> USE DEF ReadyHasArchive, ExclusiveBuild, RunningIsBuilt, MarkedIsStored,
              SweepIsOver, DownIsIdle, TimeOrder, Expired, HasRow
  <1>1. CASE Quiet
    BY <1>1, <1>a DEF Quiet, TypeOK, Row
  <1>2. ASSUME NEW d \in Folder, DeleteFolder(d) PROVE Parts'
    <2>1. ReadyHasArchive'
      BY <1>2, <1>a DEF DeleteFolder, TypeOK, Row
    <2>2. ExclusiveBuild'
      <3>1. UNCHANGED <<wpc, wjob>>
        BY <1>2 DEF DeleteFolder
      <3>2. \A j \in Job : status'[j] \in {status[j], "gone"}
        BY <1>2 DEF DeleteFolder
      <3>3. ASSUME NEW w \in Worker, wpc[w] = "claim"
            PROVE  status'[wjob[w]] = "pending"
        <4>1. wjob[w] \in Job /\ status[wjob[w]] = "pending"
          BY <3>3, <1>a DEF TypeOK
        <4>2. row[wjob[w]].folder \notin Below[d]
          BY <1>2, <3>3 DEF DeleteFolder, Locked
        <4> QED
          BY <1>2, <4>1, <4>2 DEF DeleteFolder
      <3>4. ASSUME NEW w \in Worker, wpc[w] \notin {"idle", "claim"}
            PROVE  status'[wjob[w]] \in {"running", "gone"}
        <4>1. wjob[w] \in Job /\ status[wjob[w]] \in {"running", "gone"}
          BY <3>4, <1>a DEF TypeOK
        <4> QED
          BY <3>2, <4>1
      <3> QED
        BY <3>1, <3>3, <3>4, <1>a
    <2>3. RunningIsBuilt'
      BY <1>2, <1>a DEF DeleteFolder, TypeOK, Row
    <2>4. MarkedIsStored'
      BY <1>2, <1>a DEF DeleteFolder, TypeOK, Row
    <2>5. SweepIsOver'
      BY <1>2, <1>a DEF DeleteFolder, TypeOK, Row
    <2>6. DownIsIdle'
      BY <1>2, <1>a DEF DeleteFolder, TypeOK, Row
    <2>7. TimeOrder'
      BY <1>2, <1>a DEF DeleteFolder, TypeOK, Row
    <2> QED
      BY <2>1, <2>2, <2>3, <2>4, <2>5, <2>6, <2>7
  <1>3. ASSUME NEW c \in Client, CreateZipJob(c) PROVE Parts'
    <2>1. ReadyHasArchive'
      BY <1>3, <1>a DEF CreateZipJob, Reply, TypeOK, Row
    <2>2. ExclusiveBuild'
      BY <1>3, <1>a DEF CreateZipJob, Reply, TypeOK, Row
    <2>3. RunningIsBuilt'
      BY <1>3, <1>a DEF CreateZipJob, Reply, TypeOK, Row
    <2>4. MarkedIsStored'
      BY <1>3, <1>a DEF CreateZipJob, Reply, TypeOK, Row
    <2>5. SweepIsOver'
      BY <1>3, <1>a DEF CreateZipJob, Reply, TypeOK, Row
    <2>6. DownIsIdle'
      BY <1>3, <1>a DEF CreateZipJob, Reply, TypeOK, Row
    <2>7. TimeOrder'
      BY <1>3, <1>a DEF CreateZipJob, Reply, TypeOK, Row
    <2> QED
      BY <2>1, <2>2, <2>3, <2>4, <2>5, <2>6, <2>7
  <1>4. ASSUME NEW w \in Worker, Claim(w) PROVE Parts'
    <2>1. ReadyHasArchive'
      BY <1>4, <1>a, JobAssumption DEF Claim, Take, Pending, Locked, TypeOK, Row
    <2>2. ExclusiveBuild'
      BY SMTT(60), <1>4, <1>a, JobAssumption DEF Claim, Take, Pending, Locked, TypeOK, Row
    <2>3. RunningIsBuilt'
      BY <1>4, <1>a, JobAssumption DEF Claim, Take, Pending, Locked, TypeOK, Row
    <2>4. MarkedIsStored'
      BY <1>4, <1>a, JobAssumption DEF Claim, Take, Pending, Locked, TypeOK, Row
    <2>5. SweepIsOver'
      BY <1>4, <1>a, JobAssumption DEF Claim, Take, Pending, Locked, TypeOK, Row
    <2>6. DownIsIdle'
      BY <1>4, <1>a, JobAssumption DEF Claim, Take, Pending, Locked, TypeOK, Row
    <2>7. TimeOrder'
      BY <1>4, <1>a, JobAssumption DEF Claim, Take, Pending, Locked, TypeOK, Row
    <2> QED
      BY <2>1, <2>2, <2>3, <2>4, <2>5, <2>6, <2>7
  <1>16. ASSUME NEW w \in Worker, SetRunning(w) PROVE Parts'
    <2>1. ReadyHasArchive'
      BY SMTT(60), <1>16, <1>a, JobAssumption DEF SetRunning, Done, Goto, TypeOK, Row
    <2>2. ExclusiveBuild'
      <3>1. wpc[w] = "claim" /\ wjob[w] \in Job
        BY <1>16 DEF SetRunning, TypeOK
      <3>2. /\ \A v \in Worker : v # w => wpc'[v] = wpc[v] /\ wjob'[v] = wjob[v]
            /\ \/ wpc'[w] = "list" /\ wjob'[w] = wjob[w] /\ status'[wjob[w]] = "running"
               \/ wpc'[w] = "idle" /\ wjob'[w] = NoJob
        BY <1>16, <3>1 DEF SetRunning, Done, Goto, TypeOK
      <3>3. \A j \in Job : j # wjob[w] => status'[j] = status[j]
        BY <1>16 DEF SetRunning, TypeOK
      <3>4. ASSUME NEW u \in Worker, NEW v \in Worker, u # v, wpc'[u] # "idle"
            PROVE  wjob'[u] # wjob'[v]
        BY <3>1, <3>2, <3>4, <1>a, JobAssumption DEF TypeOK
      <3>5. ASSUME NEW v \in Worker
            PROVE  /\ wpc'[v] = "claim" => status'[wjob'[v]] = "pending"
                   /\ wpc'[v] \notin {"idle", "claim"}
                          => status'[wjob'[v]] \in {"running", "gone"}
        <4>1. CASE v = w
          BY <3>2, <4>1
        <4>2. CASE v # w /\ wpc[v] # "idle"
          <5>1. wjob[v] # wjob[w] /\ wjob[v] \in Job
            BY <3>1, <4>2, <1>a DEF TypeOK
          <5> QED
            BY <3>2, <3>3, <4>2, <5>1, <1>a
        <4>3. CASE v # w /\ wpc[v] = "idle"
          BY <3>2, <4>3
        <4> QED
          BY <4>1, <4>2, <4>3
      <3> QED
        BY <3>4, <3>5
    <2>3. RunningIsBuilt'
      BY SMTT(60), <1>16, <1>a, JobAssumption DEF SetRunning, Done, Goto, TypeOK, Row
    <2>4. MarkedIsStored'
      BY SMTT(60), <1>16, <1>a, JobAssumption DEF SetRunning, Done, Goto, TypeOK, Row
    <2>5. SweepIsOver'
      BY SMTT(60), <1>16, <1>a, JobAssumption DEF SetRunning, Done, Goto, TypeOK, Row
    <2>6. DownIsIdle'
      BY SMTT(60), <1>16, <1>a, JobAssumption DEF SetRunning, Done, Goto, TypeOK, Row
    <2>7. TimeOrder'
      BY SMTT(60), <1>16, <1>a, JobAssumption DEF SetRunning, Done, Goto, TypeOK, Row
    <2> QED
      BY <2>1, <2>2, <2>3, <2>4, <2>5, <2>6, <2>7
  <1>5. ASSUME NEW w \in Worker, ListEntries(w) PROVE Parts'
    <2>1. ReadyHasArchive'
      BY <1>5, <1>a DEF ListEntries, Goto, TypeOK, Row
    <2>2. ExclusiveBuild'
      BY <1>5, <1>a DEF ListEntries, Goto, TypeOK, Row
    <2>3. RunningIsBuilt'
      BY <1>5, <1>a DEF ListEntries, Goto, TypeOK, Row
    <2>4. MarkedIsStored'
      BY <1>5, <1>a DEF ListEntries, Goto, TypeOK, Row
    <2>5. SweepIsOver'
      BY <1>5, <1>a DEF ListEntries, Goto, TypeOK, Row
    <2>6. DownIsIdle'
      BY <1>5, <1>a DEF ListEntries, Goto, TypeOK, Row
    <2>7. TimeOrder'
      BY <1>5, <1>a DEF ListEntries, Goto, TypeOK, Row
    <2> QED
      BY <2>1, <2>2, <2>3, <2>4, <2>5, <2>6, <2>7
  <1>6. ASSUME NEW w \in Worker, Upload(w) PROVE Parts'
    <2>1. ReadyHasArchive'
      BY <1>6, <1>a DEF Upload, Goto, TypeOK, Row
    <2>2. ExclusiveBuild'
      BY <1>6, <1>a DEF Upload, Goto, TypeOK, Row
    <2>3. RunningIsBuilt'
      BY <1>6, <1>a DEF Upload, Goto, TypeOK, Row
    <2>4. MarkedIsStored'
      BY <1>6, <1>a DEF Upload, Goto, TypeOK, Row
    <2>5. SweepIsOver'
      BY <1>6, <1>a DEF Upload, Goto, TypeOK, Row
    <2>6. DownIsIdle'
      BY <1>6, <1>a DEF Upload, Goto, TypeOK, Row
    <2>7. TimeOrder'
      BY <1>6, <1>a DEF Upload, Goto, TypeOK, Row
    <2> QED
      BY <2>1, <2>2, <2>3, <2>4, <2>5, <2>6, <2>7
  <1>7. ASSUME NEW w \in Worker, MarkReady(w) PROVE Parts'
    <2>1. ReadyHasArchive'
      BY <1>7, <1>a, JobAssumption DEF MarkReady, Done, Goto, TypeOK, Row
    <2>2. ExclusiveBuild'
      BY <1>7, <1>a, JobAssumption DEF MarkReady, Done, Goto, TypeOK, Row
    <2>3. RunningIsBuilt'
      BY <1>7, <1>a, JobAssumption DEF MarkReady, Done, Goto, TypeOK, Row
    <2>4. MarkedIsStored'
      BY <1>7, <1>a, JobAssumption DEF MarkReady, Done, Goto, TypeOK, Row
    <2>5. SweepIsOver'
      BY <1>7, <1>a, JobAssumption DEF MarkReady, Done, Goto, TypeOK, Row
    <2>6. DownIsIdle'
      BY <1>7, <1>a, JobAssumption DEF MarkReady, Done, Goto, TypeOK, Row
    <2>7. TimeOrder'
      <3>1. CASE HasRow(wjob[w]) /\ clock' = clock + 1
                  /\ status' = [status EXCEPT ![wjob[w]] = "ready"]
                  /\ row' = [row EXCEPT ![wjob[w]].expires = clock']
        <4>1. \A j \in Job : row'[j].created = row[j].created
          BY <3>1 DEF TypeOK, Row
        <4>2. \A j \in Job : row'[j].expires \in {row[j].expires, clock'}
          BY <3>1 DEF TypeOK, Row
        <4>3. \A j \in Job : status'[j] # "none" => status[j] # "none"
          BY <3>1 DEF TypeOK
        <4>4. horizon' = horizon
          BY <1>7 DEF MarkReady
        <4>5. \A j \in Job : row[j].created \in Nat /\ row[j].expires \in Nat
          BY DEF TypeOK, Row
        <4> QED
          BY <1>a, <3>1, <4>1, <4>2, <4>3, <4>4, <4>5 DEF TypeOK
      <3>2. CASE UNCHANGED <<clock, jobs>>
        BY <1>7, <1>a, <3>2 DEF MarkReady
      <3> QED
        BY <1>7, <3>1, <3>2 DEF MarkReady
    <2> QED
      BY <2>1, <2>2, <2>3, <2>4, <2>5, <2>6, <2>7
  <1>8. ASSUME NEW w \in Worker, MarkFailed(w) PROVE Parts'
    <2>1. ReadyHasArchive'
      BY <1>8, <1>a, JobAssumption DEF MarkFailed, Done, Goto, TypeOK, Row
    <2>2. ExclusiveBuild'
      BY <1>8, <1>a, JobAssumption DEF MarkFailed, Done, Goto, TypeOK, Row
    <2>3. RunningIsBuilt'
      BY <1>8, <1>a, JobAssumption DEF MarkFailed, Done, Goto, TypeOK, Row
    <2>4. MarkedIsStored'
      BY <1>8, <1>a, JobAssumption DEF MarkFailed, Done, Goto, TypeOK, Row
    <2>5. SweepIsOver'
      BY <1>8, <1>a, JobAssumption DEF MarkFailed, Done, Goto, TypeOK, Row
    <2>6. DownIsIdle'
      BY <1>8, <1>a, JobAssumption DEF MarkFailed, Done, Goto, TypeOK, Row
    <2>7. TimeOrder'
      BY <1>8, <1>a, JobAssumption DEF MarkFailed, Done, Goto, TypeOK, Row
    <2> QED
      BY <2>1, <2>2, <2>3, <2>4, <2>5, <2>6, <2>7
  <1>9. CASE ListExpired
    <2>1. ReadyHasArchive'
      BY <1>9, <1>a DEF ListExpired, TypeOK, Row
    <2>2. ExclusiveBuild'
      BY <1>9, <1>a DEF ListExpired, TypeOK, Row
    <2>3. RunningIsBuilt'
      BY <1>9, <1>a DEF ListExpired, TypeOK, Row
    <2>4. MarkedIsStored'
      BY <1>9, <1>a DEF ListExpired, TypeOK, Row
    <2>5. SweepIsOver'
      BY <1>9, <1>a DEF ListExpired, TypeOK, Row
    <2>6. DownIsIdle'
      BY <1>9, <1>a DEF ListExpired, TypeOK, Row
    <2>7. TimeOrder'
      BY <1>9, <1>a DEF ListExpired, TypeOK, Row
    <2> QED
      BY <2>1, <2>2, <2>3, <2>4, <2>5, <2>6, <2>7
  <1>10. ASSUME NEW j \in Job, DeleteArchive(j) PROVE Parts'
    <2>a. /\ UNCHANGED <<clock, horizon, status, row, up, wpc, wjob>>
          /\ stored' = stored \ {j}
          /\ sweep' \cup reaped' \subseteq sweep \cup reaped
      BY <1>10 DEF DeleteArchive
    <2>b. status[j] # "running" /\ (status[j] = "ready" => Expired(j))
      BY <1>10, <1>a DEF DeleteArchive
    <2> HIDE <1>0
    <2>1. ReadyHasArchive'
      BY <2>a, <2>b, <1>a
    <2>2. ExclusiveBuild' /\ RunningIsBuilt' /\ DownIsIdle' /\ TimeOrder'
      BY <2>a, <1>a
    <2>3. MarkedIsStored'
      BY <2>a, <2>b, <1>a
    <2>4. SweepIsOver'
      BY <2>a, <1>a
    <2> QED
      BY <2>1, <2>2, <2>3, <2>4
  <1>11. ASSUME NEW j \in Job, DeleteFails(j) PROVE Parts'
    BY <1>11, <1>a DEF DeleteFails, TypeOK, Row
  <1>12. ASSUME NEW j \in Job, MarkExpired(j) PROVE Parts'
    <2>1. ReadyHasArchive'
      BY <1>12, <1>a DEF MarkExpired, TypeOK, Row
    <2>2. ExclusiveBuild'
      BY <1>12, <1>a DEF MarkExpired, TypeOK, Row
    <2>3. RunningIsBuilt'
      BY <1>12, <1>a DEF MarkExpired, TypeOK, Row
    <2>4. MarkedIsStored'
      BY <1>12, <1>a DEF MarkExpired, TypeOK, Row
    <2>5. SweepIsOver'
      BY <1>12, <1>a DEF MarkExpired, TypeOK, Row
    <2>6. DownIsIdle'
      BY <1>12, <1>a DEF MarkExpired, TypeOK, Row
    <2>7. TimeOrder'
      BY <1>12, <1>a DEF MarkExpired, TypeOK, Row
    <2> QED
      BY <2>1, <2>2, <2>3, <2>4, <2>5, <2>6, <2>7
  <1>13. CASE Crash
    <2>1. ReadyHasArchive'
      BY <1>13, <1>a DEF Crash, TypeOK, Row
    <2>2. ExclusiveBuild'
      BY <1>13, <1>a DEF Crash, TypeOK, Row
    <2>3. RunningIsBuilt'
      BY <1>13, <1>a DEF Crash, TypeOK, Row
    <2>4. MarkedIsStored'
      BY <1>13, <1>a DEF Crash, TypeOK, Row
    <2>5. SweepIsOver'
      BY <1>13, <1>a DEF Crash, TypeOK, Row
    <2>6. DownIsIdle'
      BY <1>13, <1>a DEF Crash, TypeOK, Row
    <2>7. TimeOrder'
      BY <1>13, <1>a DEF Crash, TypeOK, Row
    <2> QED
      BY <2>1, <2>2, <2>3, <2>4, <2>5, <2>6, <2>7
  <1>14. CASE Restart
    <2>1. ReadyHasArchive'
      BY <1>14, <1>a DEF Restart, TypeOK, Row
    <2>2. ExclusiveBuild'
      BY <1>14, <1>a DEF Restart, TypeOK, Row
    <2>3. RunningIsBuilt'
      BY <1>14, <1>a DEF Restart, TypeOK, Row
    <2>4. MarkedIsStored'
      BY <1>14, <1>a DEF Restart, TypeOK, Row
    <2>5. SweepIsOver'
      BY <1>14, <1>a DEF Restart, TypeOK, Row
    <2>6. DownIsIdle'
      BY <1>14, <1>a DEF Restart, TypeOK, Row
    <2>7. TimeOrder'
      BY <1>14, <1>a DEF Restart, TypeOK, Row
    <2> QED
      BY <2>1, <2>2, <2>3, <2>4, <2>5, <2>6, <2>7
  <1>15. CASE Tick
    <2>1. ReadyHasArchive'
      BY <1>15, <1>a DEF Tick, TypeOK, Row
    <2>2. ExclusiveBuild'
      BY <1>15, <1>a DEF Tick, TypeOK, Row
    <2>3. RunningIsBuilt'
      BY <1>15, <1>a DEF Tick, TypeOK, Row
    <2>4. MarkedIsStored'
      BY <1>15, <1>a DEF Tick, TypeOK, Row
    <2>5. SweepIsOver'
      BY <1>15, <1>a DEF Tick, TypeOK, Row
    <2>6. DownIsIdle'
      BY <1>15, <1>a DEF Tick, TypeOK, Row
    <2>7. TimeOrder'
      BY <1>15, <1>a DEF Tick, TypeOK, Row
    <2> QED
      BY <2>1, <2>2, <2>3, <2>4, <2>5, <2>6, <2>7
  <1> QED
    BY StepCases, <1>1, <1>2, <1>3, <1>4, <1>5, <1>6, <1>7, <1>8, <1>9, <1>10, <1>11,
       <1>12, <1>13, <1>14, <1>15, <1>16

(* The inductive invariant holds in every reachable state.                  *)
THEOREM InductiveHolds == Spec => []Inductive
  BY InitInductive, NextInductive, PTL DEF Spec

(* The row of an archive says "ready", and it has not expired: its object is *)
(* in the bucket (run, CleanupExpired and the restart respect each other).  *)
THEOREM ReadyJobsHaveArchives == Spec => []ReadyHasArchive
  <1>1. Inductive => ReadyHasArchive
    BY DEF Inductive
  <1> QED
    BY <1>1, InductiveHolds, PTL

(* No two claim loops build the same archive, and nobody else moves a row   *)
(* that a loop is working on.                                               *)
THEOREM BuildsAreExclusive == Spec => []ExclusiveBuild
  <1>1. Inductive => ExclusiveBuild
    BY DEF Inductive
  <1> QED
    BY <1>1, InductiveHolds, PTL

(* With a database that answers, no kill leaves a running row that no loop   *)
(* of the running server builds: recovery frees exactly the abandoned ones. *)
THEOREM RunningJobsAreBuilt == Spec => []RunningIsBuilt
  <1>1. Inductive => RunningIsBuilt
    BY DEF Inductive
  <1> QED
    BY <1>1, InductiveHolds, PTL

(* What is offered for download stays as it is until it expires.            *)
THEOREM OffersAreStable == Spec => ArchiveStable
  <1> DEFINE Kept == \A j \in Job :
                        status[j] = "ready" /\ ~Expired(j)'
                            => archive'[j] = archive[j] /\ j \in stored'
  <1>1. ASSUME Inductive, [Next]_vars PROVE Kept
    <2> SUFFICES ASSUME NEW j \in Job, status[j] = "ready", ~Expired(j)'
                 PROVE archive'[j] = archive[j] /\ j \in stored'
      OBVIOUS
    <2> USE DEF Inductive, TypeOK, Row
    <2>1. ~Expired(j) => j \in stored
      BY <1>1 DEF ReadyHasArchive
    <2>2. CASE Quiet
      BY <2>1, <2>2 DEF Quiet, Expired
    <2>3. CASE \E d \in Folder : DeleteFolder(d)
      BY <2>1, <2>3 DEF DeleteFolder, Expired
    <2>4. ASSUME NEW c \in Client, CreateZipJob(c) PROVE stored' = stored /\ archive' = archive
                                                      /\ row'[j] = row[j] /\ horizon' = horizon
      BY <1>1, <2>4 DEF CreateZipJob
    <2>5. ASSUME NEW w \in Worker, Claim(w) \/ SetRunning(w) \/ ListEntries(w) \/ MarkFailed(w)
          PROVE UNCHANGED <<stored, archive, row, horizon>>
      BY <2>5 DEF Claim, Take, SetRunning, ListEntries, MarkFailed
    <2>6. ASSUME NEW w \in Worker, Upload(w)
          PROVE archive'[j] = archive[j] /\ stored \subseteq stored' /\ UNCHANGED <<row, horizon>>
      <3>1. wjob[w] # j
        BY <1>1, <2>6 DEF ExclusiveBuild, Upload
      <3> QED
        BY <1>1, <2>6, <3>1 DEF Upload
    <2>7. ASSUME NEW w \in Worker, MarkReady(w)
          PROVE UNCHANGED <<stored, archive, horizon>> /\ row'[j] = row[j]
      <3>1. wjob[w] # j /\ wjob[w] \in Job
        BY <1>1, <2>7 DEF ExclusiveBuild, MarkReady
      <3> QED
        BY <1>1, <2>7, <3>1 DEF MarkReady
    <2>8. CASE ListExpired
      BY <2>1, <2>8 DEF ListExpired, Expired
    <2>9. ASSUME NEW k \in Job, DeleteArchive(k)
          PROVE UNCHANGED <<row, horizon>> /\ (~Expired(j) => archive'[j] = archive[j] /\ j \in stored')
      <3>1. ~Expired(j) => k # j
        BY <1>1, <2>9 DEF SweepIsOver, DeleteArchive
      <3> QED
        BY <1>1, <2>1, <2>9, <3>1 DEF DeleteArchive
    <2>10. ASSUME NEW k \in Job, DeleteFails(k) \/ MarkExpired(k)
           PROVE UNCHANGED <<stored, archive, row, horizon>>
      BY <2>10 DEF DeleteFails, MarkExpired
    <2>11. CASE Crash \/ Restart
      BY <2>1, <2>11 DEF Crash, Restart, Expired
    <2>12. CASE Tick
      <3>1. horizon <= horizon' /\ UNCHANGED <<stored, archive, row>>
        BY <1>1, <2>12 DEF Tick, Expired
      <3>2. ~Expired(j)
        BY <1>1, <2>12, <3>1 DEF Tick, Expired
      <3> QED
        BY <2>1, <3>1, <3>2
    <2> QED
      BY <1>1, <2>1, <2>2, <2>3, <2>4, <2>5, <2>6, <2>7, <2>8, <2>9, <2>10, <2>11, <2>12,
         StepCases DEF Expired
  <1>2. Inductive /\ [Next]_vars => [Kept]_vars
    BY <1>1
  <1> QED
    BY <1>2, InductiveHolds, PTL DEF Spec, ArchiveStable

-----------------------------------------------------------------------------
(* The promise.                                                             *)

(* Jobs that leave the queue, the workshop or the counter for good are one  *)
(* GiveUp of the promise.                                                   *)
LEMMA GivingUp ==
    ASSUME stored' = stored,
           \A j \in Job :
               \/ PromisedPhase'[j] = PromisedPhase[j]
               \/ /\ PromisedPhase[j] \in {"queued", "building", "offered"}
                  /\ PromisedPhase'[j] = "over"
    PROVE  [Promise!Next]_(Promise!vars)
  <1> DEFINE S == {j \in Job : PromisedPhase'[j] # PromisedPhase[j]}
  <1>1. PromisedPhase' = [j \in Job |-> IF j \in S THEN "over" ELSE PromisedPhase[j]]
    BY DEF PromisedPhase
  <1>2. CASE S = {}
    <2>1. PromisedPhase' = PromisedPhase
      BY <1>1, <1>2 DEF PromisedPhase
    <2> QED
      BY <2>1 DEF Promise!vars
  <1>3. CASE S # {}
    <2>1. S \subseteq Promise!In("queued") \cup Promise!In("building") \cup Promise!In("offered")
      BY DEF Promise!In
    <2>2. Promise!GiveUp(S)
      BY <1>1, <1>3, <2>1 DEF Promise!GiveUp, Promise!Move
    <2> QED
      BY <2>2 DEF Promise!Next
  <1> QED
    BY <1>2, <1>3

(* One job moves on and the others stay.                                    *)
LEMMA MovingOn ==
    ASSUME NEW j \in Job, NEW p,
           PromisedPhase'[j] = p,
           \A k \in Job : k # j => PromisedPhase'[k] = PromisedPhase[k]
    PROVE  Promise!Move({j}, p)
  BY DEF Promise!Move, PromisedPhase

(* What the promise offers can be downloaded: an archive is in the bucket as *)
(* long as it is offered.                                                   *)
THEOREM OffersAreHeld == Promise!Spec => []Promise!OfferHeld
  <1> USE DEF Promise!OfferHeld, Promise!In, Promise!Move
  <1>1. Promise!Init => Promise!OfferHeld
    BY DEF Promise!Init
  <1>2. Promise!OfferHeld /\ [Promise!Next]_(Promise!vars) => Promise!OfferHeld'
    <2> SUFFICES ASSUME Promise!OfferHeld, [Promise!Next]_(Promise!vars)
                 PROVE  Promise!OfferHeld'
      OBVIOUS
    <2>1. CASE UNCHANGED Promise!vars
      BY <2>1 DEF Promise!vars
    <2>2. CASE \E j \in Job : Promise!Ask(j) \/ Promise!Begin(j) \/ Promise!Offer(j)
      BY <2>2 DEF Promise!Ask, Promise!Begin, Promise!Offer
    <2>3. CASE \E j \in Job : Promise!Store(j) \/ Promise!Discard(j)
      BY <2>3 DEF Promise!Store, Promise!Discard
    <2>4. CASE \E S \in SUBSET Job : Promise!GiveUp(S)
      BY <2>4 DEF Promise!GiveUp
    <2> QED
      BY <2>1, <2>2, <2>3, <2>4 DEF Promise!Next
  <1> QED
    BY <1>1, <1>2, PTL DEF Promise!Spec

(* The first state keeps the promise.                                       *)
LEMMA PromiseInit == Init => Promise!Init
  BY DEF Init, Promise!Init, PromisedPhase

(* Every step is a step of the promise, or none.                            *)
LEMMA PromiseStep ==
    ASSUME Inductive, Inductive', [Next]_vars
    PROVE  [Promise!Next]_(Promise!vars)
  <1> USE DEF Inductive, TypeOK, Row
  <1>1. ASSUME UNCHANGED <<status, row, horizon, stored>>
        PROVE [Promise!Next]_(Promise!vars)
    BY <1>1, GivingUp DEF PromisedPhase, Expired
  <1>2. CASE Quiet \/ ListExpired \/ Crash
    BY <1>1, <1>2 DEF Quiet, ListExpired, Crash
  <1>3. ASSUME NEW d \in Folder, DeleteFolder(d) PROVE [Promise!Next]_(Promise!vars)
    BY <1>3, GivingUp DEF DeleteFolder, PromisedPhase, Expired, HasRow
  <1>4. ASSUME NEW c \in Client, CreateZipJob(c) PROVE [Promise!Next]_(Promise!vars)
    <2>0. PICK j \in Job :
             /\ status[j] = "none"
             /\ status' = [status EXCEPT ![j] = "pending"]
             /\ row' = [row EXCEPT ![j] = [folder |-> page[c],
                                           print |-> Fingerprint(seen[c]),
                                           created |-> clock',
                                           expires |-> 0]]
      <3> HIDE DEF TypeOK, Inductive
      <3> QED
        BY <1>4 DEF CreateZipJob
    <2>1. /\ status[j] = "none"
          /\ status' = [status EXCEPT ![j] = "pending"]
          /\ \A k \in Job : k # j => row'[k] = row[k]
      BY <2>0
    <2>2. UNCHANGED <<horizon, stored>>
      BY <1>4 DEF CreateZipJob
    <2>3. PromisedPhase[j] = "new" /\ PromisedPhase'[j] = "queued"
      BY <2>1 DEF PromisedPhase
    <2>4. \A k \in Job : k # j => PromisedPhase'[k] = PromisedPhase[k]
      BY <2>1, <2>2 DEF PromisedPhase, Expired
    <2>5. Promise!Ask(j)
      BY <2>2, <2>3, <2>4, MovingOn DEF Promise!Ask, Promise!In
    <2> QED
      BY <2>5 DEF Promise!Next
  <1>5. ASSUME NEW w \in Worker, SetRunning(w) PROVE [Promise!Next]_(Promise!vars)
    <2>1. UNCHANGED <<row, horizon, stored>>
      BY <1>5 DEF SetRunning
    <2>2. CASE UNCHANGED status
      BY <1>1, <2>1, <2>2
    <2>3. CASE status' = [status EXCEPT ![wjob[w]] = "running"]
      <3>1. wjob[w] \in Job /\ status[wjob[w]] = "pending"
        BY <1>5 DEF SetRunning, ExclusiveBuild
      <3>2. PromisedPhase[wjob[w]] = "queued" /\ PromisedPhase'[wjob[w]] = "building"
        BY <2>3, <3>1 DEF PromisedPhase
      <3>3. \A k \in Job : k # wjob[w] => PromisedPhase'[k] = PromisedPhase[k]
        BY <2>1, <2>3 DEF PromisedPhase, Expired
      <3>4. Promise!Begin(wjob[w])
        BY <2>1, <3>1, <3>2, <3>3, MovingOn DEF Promise!Begin, Promise!In
      <3> QED
        BY <3>1, <3>4 DEF Promise!Next
    <2> QED
      BY <1>5, <2>2, <2>3 DEF SetRunning
  <1>6. ASSUME NEW w \in Worker, Claim(w) \/ ListEntries(w)
        PROVE  [Promise!Next]_(Promise!vars)
    BY <1>1, <1>6 DEF Claim, Take, ListEntries
  <1>7. ASSUME NEW w \in Worker, Upload(w) PROVE [Promise!Next]_(Promise!vars)
    <2>1. UNCHANGED <<status, row, horizon>>
      BY <1>7 DEF Upload
    <2>2. PromisedPhase' = PromisedPhase
      BY <2>1 DEF PromisedPhase, Expired
    <2>3. CASE stored' = stored \cup {wjob[w]}
      <3>1. wjob[w] \in Job /\ status[wjob[w]] \in {"running", "gone"}
        <4>1. wpc[w] = "upload"
          BY <1>7 DEF Upload
        <4> QED
          BY <4>1 DEF ExclusiveBuild
      <3>2. wjob[w] \in Promise!In("building") \cup Promise!In("over")
        BY <3>1 DEF Promise!In, PromisedPhase
      <3>3. Promise!Store(wjob[w])
        BY <2>2, <2>3, <3>2 DEF Promise!Store
      <3> QED
        BY <3>1, <3>3 DEF Promise!Next
    <2>4. CASE UNCHANGED bucket
      BY <1>1, <2>1, <2>4
    <2> QED
      BY <1>7, <2>3, <2>4 DEF Upload
  <1>8. ASSUME NEW w \in Worker, MarkReady(w) PROVE [Promise!Next]_(Promise!vars)
    <2>1. wjob[w] \in Job /\ UNCHANGED <<horizon, stored>>
      BY <1>8 DEF MarkReady
    <2>2. CASE HasRow(wjob[w]) /\ clock' = clock + 1
                /\ status' = [status EXCEPT ![wjob[w]] = "ready"]
                /\ row' = [row EXCEPT ![wjob[w]].expires = clock']
      <3>1. status[wjob[w]] = "running" /\ wjob[w] \in stored
        BY <1>8, <2>2 DEF ExclusiveBuild, MarkReady, MarkedIsStored, HasRow
      <3>2. status'[wjob[w]] = "ready" /\ row'[wjob[w]].expires = clock'
        BY <2>1, <2>2
      <3>3. ~(row'[wjob[w]].expires <= horizon')
        BY <2>1, <2>2, <3>2 DEF TimeOrder
      <3>4. PromisedPhase[wjob[w]] = "building" /\ PromisedPhase'[wjob[w]] = "offered"
        BY <2>1, <3>1, <3>2, <3>3 DEF PromisedPhase, Expired
      <3>5. \A k \in Job : k # wjob[w] => PromisedPhase'[k] = PromisedPhase[k]
        BY <2>1, <2>2 DEF PromisedPhase, Expired
      <3>6. Promise!Offer(wjob[w])
        BY <2>1, <3>1, <3>4, <3>5, MovingOn DEF Promise!Offer, Promise!In
      <3> QED
        BY <2>1, <3>6 DEF Promise!Next
    <2>3. CASE UNCHANGED jobs
      BY <1>1, <2>1, <2>3
    <2> QED
      BY <1>8, <2>2, <2>3 DEF MarkReady
  <1>9. ASSUME NEW w \in Worker, MarkFailed(w) PROVE [Promise!Next]_(Promise!vars)
    <2>1. wjob[w] \in Job /\ UNCHANGED <<row, horizon, stored>>
      BY <1>9 DEF MarkFailed
    <2>2. CASE HasRow(wjob[w]) /\ status' = [status EXCEPT ![wjob[w]] = "failed"]
      <3>1. status[wjob[w]] = "running"
        BY <1>9, <2>2 DEF MarkFailed, ExclusiveBuild, HasRow
      <3> QED
        BY <2>1, <2>2, <3>1, GivingUp DEF PromisedPhase, Expired
    <2>3. CASE UNCHANGED status
      BY <1>1, <2>1, <2>3
    <2> QED
      BY <1>9, <2>2, <2>3 DEF MarkFailed
  <1>10. ASSUME NEW j \in Job, DeleteArchive(j) PROVE [Promise!Next]_(Promise!vars)
    <2>1. UNCHANGED <<status, row, horizon>> /\ stored' = stored \ {j}
      BY <1>10 DEF DeleteArchive
    <2>2. PromisedPhase' = PromisedPhase
      BY <2>1 DEF PromisedPhase, Expired
    <2>3. j \in Promise!In("over")
      BY <1>10 DEF DeleteArchive, SweepIsOver, Promise!In, PromisedPhase
    <2>4. Promise!Discard(j)
      BY <2>1, <2>2, <2>3 DEF Promise!Discard
    <2> QED
      BY <2>4 DEF Promise!Next
  <1>11. ASSUME NEW j \in Job, DeleteFails(j) PROVE [Promise!Next]_(Promise!vars)
    BY <1>1, <1>11 DEF DeleteFails
  <1>12. ASSUME NEW j \in Job, MarkExpired(j) PROVE [Promise!Next]_(Promise!vars)
    <2>1. UNCHANGED <<row, horizon, stored>>
      BY <1>12 DEF MarkExpired
    <2>2. PromisedPhase[j] = "over"
      BY <1>12 DEF MarkExpired, SweepIsOver, PromisedPhase
    <2>3. CASE HasRow(j) /\ status' = [status EXCEPT ![j] = "failed"]
      BY <2>1, <2>2, <2>3, GivingUp DEF PromisedPhase, Expired
    <2>4. CASE UNCHANGED status
      BY <1>1, <2>1, <2>4
    <2> QED
      BY <1>12, <2>3, <2>4 DEF MarkExpired
  <1>13. CASE Restart
    BY <1>13, GivingUp DEF Restart, PromisedPhase, Expired
  <1>14. CASE Tick
    <2>1. horizon <= horizon' /\ UNCHANGED <<status, row, stored>>
      BY <1>14 DEF Tick, Expired
    <2>2. \A k \in Job : Expired(k) => Expired(k)'
      BY <1>14, <2>1 DEF Expired
    <2> QED
      BY <2>1, <2>2, GivingUp DEF PromisedPhase
  <1> QED
    BY StepCases, <1>2, <1>3, <1>4, <1>5, <1>6, <1>7, <1>8, <1>9, <1>10, <1>11, <1>12,
       <1>13, <1>14

(* The table, the bucket, the loops and the sweep implement the promise.    *)
THEOREM PromiseKept == Spec => KeepsPromise
  <1>1. Inductive /\ Inductive' /\ [Next]_vars => [Promise!Next]_(Promise!vars)
    BY PromiseStep
  <1> QED
    BY <1>1, PromiseInit, InductiveHolds, PTL DEF Spec, KeepsPromise, Promise!Spec

-----------------------------------------------------------------------------
(* Repeated clicks.                                                         *)

(* A tab that looked, found no job and is about to insert one has none of   *)
(* its own in flight; so it never comes to have two.                        *)
AskedOnce ==
    /\ OneJobPerTab
    /\ \A c \in Client : cpc[c] = "create" /\ c \notin blind =>
          \A j \in asks[c] : ~(InFlight(j) /\ row[j].folder = page[c])
    /\ \A c \in Client : \A j \in asks[c] : status[j] # "none"

LEMMA InitAskedOnce == Init => AskedOnce
  BY DEF Init, AskedOnce, OneJobPerTab

(* Jobs that settle, tabs that give up, and tabs that cannot look.          *)
LEMMA FewerAskedOnce ==
    ASSUME TypeOK, AskedOnce, asks' = asks,
           \A j \in Job : InFlight(j)' => InFlight(j) /\ row'[j].folder = row[j].folder,
           \A j \in Job : status[j] # "none" => status'[j] # "none",
           \A c \in Client : cpc'[c] = "create" /\ c \notin blind' =>
               cpc[c] = "create" /\ c \notin blind /\ page'[c] = page[c]
    PROVE  AskedOnce'
  <1>1. \A c \in Client : asks[c] \subseteq Job
    BY DEF TypeOK
  <1> QED
    BY <1>1 DEF AskedOnce, OneJobPerTab

(* A tab that found nothing: no job of its folder is in flight.             *)
LEMMA NeedJobAskedOnce ==
    ASSUME TypeOK, AskedOnce, NEW b \in Client, NeedJob(b)
    PROVE  AskedOnce'
  <1>1. \A c \in Client : asks[c] \subseteq Job
    BY DEF TypeOK
  <1>2. \A j \in Job : ~(InFlight(j) /\ row[j].folder = page[b])
    BY DEF NeedJob, Reusable, InFlight, HasRow
  <1>3. /\ UNCHANGED <<status, row, page, blind, asks>>
        /\ \A c \in Client : c # b => cpc'[c] = cpc[c]
    BY DEF NeedJob, TypeOK
  <1> QED
    BY <1>1, <1>2, <1>3 DEF AskedOnce, OneJobPerTab, InFlight

(* The tab that inserts had no job in flight, or has looked in vain.        *)
LEMMA CreateAskedOnce ==
    ASSUME TypeOK, AskedOnce, NEW b \in Client, CreateZipJob(b)
    PROVE  AskedOnce'
  <1>1. PICK i \in Job :
          /\ status[i] = "none"
          /\ status' = [status EXCEPT ![i] = "pending"]
          /\ row' = [row EXCEPT ![i] = [folder |-> page[b], print |-> Fingerprint(seen[b]),
                                        created |-> clock', expires |-> 0]]
          /\ Reply(b, "preparing", i)
          /\ asks' = IF b \in blind THEN asks ELSE [asks EXCEPT ![b] = @ \cup {i}]
    BY DEF CreateZipJob
  <1>2. /\ cpc[b] = "create" /\ page' = page /\ blind' = blind \ {b}
        /\ cpc'[b] = "idle" /\ \A c \in Client : c # b => cpc'[c] = cpc[c]
    BY <1>1 DEF CreateZipJob, Reply, TypeOK
  <1>3. /\ \A k \in Job : k # i => status'[k] = status[k] /\ row'[k] = row[k]
        /\ status'[i] = "pending" /\ row'[i].folder = page[b]
    BY <1>1 DEF TypeOK
  <1>4. \A c \in Client : \A j \in asks[c] :
          /\ j \in Job /\ j # i
          /\ status'[j] = status[j] /\ row'[j] = row[j] /\ status[j] # "none"
    BY <1>1, <1>3 DEF TypeOK, AskedOnce
  <1>5. \A c \in Client : \A j \in asks'[c] : j \in asks[c] \/ (c = b /\ b \notin blind /\ j = i)
    BY <1>1 DEF TypeOK
  <1>6. \A c \in Client : cpc'[c] = "create" /\ c \notin blind' => c # b /\ cpc[c] = "create" /\ c \notin blind
    BY <1>2
  <1>7. OneJobPerTab'
    <2> SUFFICES ASSUME NEW c \in Client, NEW j \in asks'[c], NEW k \in asks'[c],
                        InFlight(j)', InFlight(k)', row'[j].folder = row'[k].folder
                 PROVE  j = k
      BY DEF OneJobPerTab
    <2>1. CASE j \in asks[c] /\ k \in asks[c]
      BY <1>4, <2>1 DEF AskedOnce, OneJobPerTab, InFlight
    <2>2. ASSUME NEW h \in asks[c], c = b, b \notin blind, InFlight(h)', row'[h].folder = page[b]
          PROVE  FALSE
      BY <1>2, <1>4, <2>2 DEF AskedOnce, InFlight
    <2> QED
      BY <1>3, <1>5, <2>1, <2>2
  <1>8. ASSUME NEW c \in Client, cpc'[c] = "create", c \notin blind', NEW j \in asks'[c]
        PROVE  ~(InFlight(j)' /\ row'[j].folder = page'[c])
    <2>1. c # b /\ cpc[c] = "create" /\ c \notin blind /\ j \in asks[c]
      BY <1>5, <1>6, <1>8
    <2> QED
      BY <1>2, <1>4, <2>1 DEF AskedOnce, InFlight
  <1>9. \A c \in Client : \A j \in asks'[c] : status'[j] # "none"
    BY <1>3, <1>4, <1>5
  <1> QED
    BY <1>7, <1>8, <1>9 DEF AskedOnce

LEMMA NextAskedOnce == Inductive /\ AskedOnce /\ [Next]_vars => AskedOnce'
  <1> SUFFICES ASSUME Inductive, AskedOnce, [Next]_vars PROVE AskedOnce'
    OBVIOUS
  <1>0. TypeOK /\ ExclusiveBuild
    BY DEF Inductive
  <1> USE <1>0
  <1> DEFINE Fewer == /\ asks' = asks
                      /\ \A j \in Job : InFlight(j)' => InFlight(j) /\ row'[j].folder = row[j].folder
                      /\ \A j \in Job : status[j] # "none" => status'[j] # "none"
                      /\ \A c \in Client : cpc'[c] = "create" /\ c \notin blind' =>
                            cpc[c] = "create" /\ c \notin blind /\ page'[c] = page[c]
  <1>1. ASSUME NEW c \in Client, NeedJob(c) \/ CreateZipJob(c) PROVE AskedOnce'
    BY <1>1, NeedJobAskedOnce, CreateAskedOnce
  <1> USE DEF InFlight
  <1>2. ASSUME NEW f \in File, NEW d \in Folder \cup {Root},
               CompleteUpload(f) \/ CreateFile(f, d) \/ MoveFile(f, d) PROVE Fewer
    BY <1>2 DEF CompleteUpload, CreateFile, MoveFile
  <1>3. ASSUME NEW d \in Folder, DeleteFolder(d) PROVE Fewer
    BY <1>3 DEF DeleteFolder, TypeOK
  <1>4. ASSUME NEW c \in Client, NEW d \in Folder, Browse(c, d) PROVE Fewer
    BY <1>4 DEF Browse, TypeOK
  <1>5. ASSUME NEW c \in Client, ClickPrepare(c) \/ Poll(c) \/ RequestFails(c) PROVE Fewer
    BY <1>5 DEF ClickPrepare, Poll, RequestFails, TypeOK
  <1>6. ASSUME NEW c \in Client, FindJob(c) \/ FindNothing(c) \/ LookupFails(c) PROVE Fewer
    BY <1>6 DEF FindJob, FindNothing, LookupFails, Reply, TypeOK
  <1>7. ASSUME NEW w \in Worker, Claim(w) \/ ListEntries(w) \/ Upload(w) PROVE Fewer
    BY <1>7 DEF Claim, Take, ListEntries, Upload
  <1>8. ASSUME NEW w \in Worker, SetRunning(w) PROVE Fewer
    <2>1. wjob[w] \in Job /\ status[wjob[w]] = "pending"
      BY <1>8 DEF SetRunning, ExclusiveBuild, TypeOK
    <2> QED
      BY <1>8, <2>1 DEF SetRunning, TypeOK
  <1>9. ASSUME NEW w \in Worker, MarkReady(w) \/ MarkFailed(w) PROVE Fewer
    BY <1>9 DEF MarkReady, MarkFailed, TypeOK, Row
  <1>10. ASSUME ListExpired \/ Crash \/ Tick PROVE Fewer
    BY <1>10 DEF ListExpired, Crash, Tick
  <1>11. ASSUME Restart PROVE Fewer
    BY <1>11 DEF Restart, TypeOK
  <1>12. ASSUME NEW j \in Job, DeleteArchive(j) \/ DeleteFails(j) \/ MarkExpired(j) PROVE Fewer
    BY <1>12 DEF DeleteArchive, DeleteFails, MarkExpired, TypeOK
  <1>13. ASSUME UNCHANGED vars PROVE Fewer
    BY <1>13
  <1>14. Fewer => AskedOnce'
    BY FewerAskedOnce
  <1> HIDE DEF Fewer
  <1> QED
    BY <1>1, <1>2, <1>3, <1>4, <1>5, <1>6, <1>7, <1>8, <1>9, <1>10, <1>11, <1>12, <1>13, <1>14
    DEF Next, EditContents, Request, Loop, Sweep

(* However many tabs ask for archives of a folder, no tab ever adds a job   *)
(* while one it asked for is in flight: whatever fails, and whatever        *)
(* happens to the folder, but for a look that fails itself.                 *)
THEOREM RepeatClicksCollapse == Spec => []OneJobPerTab
  <1>1. AskedOnce => OneJobPerTab
    BY DEF AskedOnce
  <1> QED
    BY <1>1, InitAskedOnce, NextAskedOnce, InductiveHolds, PTL DEF Spec

-----------------------------------------------------------------------------
(* While files only arrive: what the tabs are offered.  Any number of tabs, *)
(* jobs and loops, and every fault.                                         *)

(* What was listed is still there, and of two listings of a folder one has  *)
(* all that the other has.                                                  *)
Listings ==
    /\ \A f \in File : born[f] <= clock
    /\ \A c \in Client, d \in Folder : page[c] = d => seen[c] \subseteq Tree(d)
    /\ \A c \in Client : cpc[c] = "idle" => seen[c] = {}
    /\ \A b, c \in Client : page[b] = page[c] => seen[b] \subseteq seen[c] \/ seen[c] \subseteq seen[b]

(* A tab that says "Preparing" does so of a job of its folder.              *)
Waiting ==
    /\ \A c \in Client : cpc[c] = "status" => chip[c].view = "preparing"
    /\ \A c \in Client :
        chip[c].view = "preparing" =>
            /\ chip[c].job \in Job
            /\ status[chip[c].job] # "none"
            /\ row[chip[c].job].folder = page[c]

(* An archive has no file that its folder does not have.                    *)
Archives ==
    /\ \A w \in Worker, d \in Folder :
        wpc[w] = "upload" /\ row[wjob[w]].folder = d => entries[w] \subseteq Tree(d)
    /\ \A j \in Job, d \in Folder : row[j].folder = d => archive[j] \subseteq Tree(d)
    /\ \A j \in Job : status[j] = "none" => archive[j] = {}

(* S is what was listed for job j when it was created: all of it is in the  *)
(* archive, and in what a tab that waits for the job lists later.           *)
Snapshot(j, S) ==
    /\ Fingerprint(S) = row[j].print
    /\ \A d \in Folder : row[j].folder = d => S \subseteq Tree(d)
    /\ \A f \in S : born[f] < row[j].created
    /\ \A c \in Client : page[c] = row[j].folder => S \subseteq seen[c] \/ seen[c] \subseteq S
    /\ \A c \in Client : cpc[c] = "status" /\ chip[c].job = j => S \subseteq seen[c]
    /\ \A w \in Worker : wpc[w] = "upload" /\ wjob[w] = j => S \subseteq entries[w]
    /\ \A w \in Worker : wpc[w] = "mark" /\ wjob[w] = j /\ status[j] = "running" => S \subseteq archive[j]
    /\ status[j] = "ready" /\ ~Expired(j) => S \subseteq archive[j]

Snapshots == \A j \in Job : status[j] # "none" => \E S \in SUBSET File : Snapshot(j, S)

Current == Listings /\ Waiting /\ Archives /\ Snapshots

LEMMA InitCurrent == Init => Current
  <1> SUFFICES ASSUME Init PROVE Current
    OBVIOUS
  <1>1. Listings
    BY DEF Init, Listings
  <1>2. Waiting /\ Archives /\ Snapshots
    BY DEF Init, Waiting, Archives, Snapshots
  <1> QED
    BY <1>1, <1>2 DEF Current

LEMMA TreeStays ==
    ASSUME UNCHANGED files
    PROVE  \A d \in Folder : Tree(d)' = Tree(d)
  BY DEF Tree, Active

(* What an upload does to the folders: files come, and none that was listed *)
(* gets another date.                                                       *)
LEMMA TreeGrows ==
    ASSUME TypeOK, Listings, NEW f \in File, NEW e \in Folder \cup {Root},
           CompleteUpload(f) \/ CreateFile(f, e)
    PROVE  /\ \A d \in Folder : Tree(d) \subseteq Tree(d)'
           /\ \A d \in Folder : \A g \in Tree(d) : born'[g] = born[g]
           /\ \A g \in File : born'[g] <= clock'
           /\ UNCHANGED <<horizon, jobs, bucket, loops, cleaner, tabs>>
  <1>1. CASE CompleteUpload(f)
    BY <1>1 DEF CompleteUpload, Tree, Active, TypeOK, Listings
  <1>2. CASE CreateFile(f, e)
    <2>1. /\ fstatus[f] = "none" /\ clock' = clock + 1
          /\ fstatus' = [fstatus EXCEPT ![f] = "pending"]
          /\ at' = [at EXCEPT ![f] = e]
          /\ born' = [born EXCEPT ![f] = clock']
          /\ UNCHANGED <<horizon, jobs, bucket, loops, cleaner, tabs>>
      BY <1>2 DEF CreateFile
    <2>2. \A g \in Active : g # f /\ g \in File
      BY <2>1 DEF Active
    <2>3. \A g \in Active : g \in Active' /\ at'[g] = at[g] /\ born'[g] = born[g]
      BY <2>1, <2>2 DEF Active, TypeOK
    <2>4. \A d \in Folder : Tree(d) \subseteq Active
      BY DEF Tree
    <2>5. \A d \in Folder : Tree(d) \subseteq Tree(d)'
      BY <2>3 DEF Tree
    <2>6. \A g \in File : born'[g] <= clock'
      BY <2>1 DEF TypeOK, Listings
    <2> QED
      BY <2>1, <2>3, <2>4, <2>5, <2>6
  <1> QED
    BY <1>1, <1>2

LEMMA UploadCurrent ==
    ASSUME TypeOK, Current, NEW f \in File, NEW e \in Folder \cup {Root},
           CompleteUpload(f) \/ CreateFile(f, e)
    PROVE  Current'
  <1>1. /\ \A d \in Folder : Tree(d) \subseteq Tree(d)'
        /\ \A d \in Folder : \A g \in Tree(d) : born'[g] = born[g]
        /\ \A g \in File : born'[g] <= clock'
        /\ UNCHANGED <<horizon, jobs, bucket, loops, cleaner, tabs>>
    BY TreeGrows DEF Current
  <1>2. Listings'
    BY <1>1 DEF Current, Listings
  <1>3. Waiting'
    BY <1>1 DEF Current, Waiting
  <1>4. Archives'
    BY <1>1 DEF Current, Archives
  <1>5. ASSUME NEW j \in Job, NEW S \in SUBSET File, Snapshot(j, S) PROVE Snapshot(j, S)'
    <2>1. PICK d \in Folder : row[j].folder = d
      BY DEF TypeOK, Row
    <2>2. S \subseteq Tree(d)
      BY <1>5, <2>1 DEF Snapshot
    <2> QED
      BY <1>1, <1>5, <2>1, <2>2 DEF Snapshot, Expired
  <1>6. Snapshots'
    BY <1>1, <1>5 DEF Current, Snapshots
  <1> QED
    BY <1>2, <1>3, <1>4, <1>6 DEF Current

(* What a request or a click may do: it looks at the table and the folders. *)
AtTabs == UNCHANGED <<time, files, jobs, bucket, up, loops, cleaner>>

(* A tab lists its folder: the listing has all that any earlier one had.    *)
LEMMA LookCurrent ==
    ASSUME TypeOK, Current, NEW b \in Client, ClickPrepare(b) \/ Poll(b)
    PROVE  Current'
  <1>1. /\ AtTabs /\ UNCHANGED <<page, chip>>
        /\ seen' = [seen EXCEPT ![b] = Tree(page[b])]
        /\ \/ cpc' = [cpc EXCEPT ![b] = "prepare"]
           \/ chip[b].view = "preparing" /\ cpc' = [cpc EXCEPT ![b] = "status"]
    BY DEF ClickPrepare, Poll, AtTabs
  <1>2. PICK e \in Folder : e = page[b]
    BY DEF TypeOK
  <1>3. seen' = [seen EXCEPT ![b] = Tree(e)]
    BY <1>1, <1>2
  <1>4. \A d \in Folder : Tree(d)' = Tree(d)
    BY <1>1, TreeStays DEF AtTabs
  <1>5. seen'[b] = Tree(e) /\ \A c \in Client : c # b => seen'[c] = seen[c] /\ cpc'[c] = cpc[c]
    BY <1>1, <1>3 DEF TypeOK
  <1>6. cpc'[b] # "idle" /\ (cpc'[b] = "status" => chip[b].view = "preparing")
    BY <1>1 DEF TypeOK
  <1>7. Listings'
    BY <1>1, <1>2, <1>4, <1>5, <1>6 DEF Current, Listings, AtTabs
  <1>8. Waiting'
    BY <1>1, <1>5, <1>6 DEF Current, Waiting, AtTabs
  <1>9. Archives'
    BY <1>1, <1>4 DEF Current, Archives, AtTabs
  <1>10. ASSUME NEW j \in Job, NEW S \in SUBSET File, Snapshot(j, S) PROVE Snapshot(j, S)'
    <2>1. row[j].folder = e => S \subseteq Tree(e)
      BY <1>10 DEF Snapshot
    <2>2. chip[b].job = j /\ chip[b].view = "preparing" => row[j].folder = e
      BY <1>2 DEF Current, Waiting
    <2>3. \A c \in Client : page'[c] = row'[j].folder => S \subseteq seen'[c] \/ seen'[c] \subseteq S
      BY <1>1, <1>2, <1>5, <1>10, <2>1 DEF Snapshot, AtTabs
    <2>4. \A c \in Client : cpc'[c] = "status" /\ chip'[c].job = j => S \subseteq seen'[c]
      BY <1>1, <1>5, <1>6, <1>10, <2>1, <2>2 DEF Snapshot
    <2> QED
      BY <1>1, <1>4, <1>10, <2>3, <2>4 DEF Snapshot, AtTabs, Expired
  <1>11. Snapshots'
    BY <1>1, <1>10 DEF Current, Snapshots, AtTabs
  <1> QED
    BY <1>7, <1>8, <1>9, <1>11 DEF Current

(* Steps after which a tab has at most the listing it had, and waits for    *)
(* nothing, or for a job of its folder.                                     *)
LEMMA TabCurrent ==
    ASSUME TypeOK, TypeOK', Current, AtTabs, NEW b \in Client,
           \A c \in Client : c # b => seen'[c] = seen[c] /\ cpc'[c] = cpc[c] /\ page'[c] = page[c] /\ chip'[c] = chip[c],
           \/ seen'[b] = {}
           \/ seen'[b] = seen[b] /\ page'[b] = page[b] /\ cpc'[b] # "idle",
           cpc'[b] # "status",
           chip'[b].view = "preparing" =>
               /\ chip'[b].job \in Job
               /\ status[chip'[b].job] # "none"
               /\ row[chip'[b].job].folder = page'[b]
    PROVE  Current'
  <1>1. \A d \in Folder : Tree(d)' = Tree(d)
    BY TreeStays DEF AtTabs
  <1>2. Listings'
    BY <1>1 DEF Current, Listings, AtTabs
  <1>3. Waiting'
    <2>1. \A c \in Client : cpc'[c] = "status" => chip'[c].view = "preparing"
      BY DEF Current, Waiting
    <2>2. ASSUME NEW c \in Client, chip'[c].view = "preparing"
          PROVE  /\ chip'[c].job \in Job
                 /\ status'[chip'[c].job] # "none"
                 /\ row'[chip'[c].job].folder = page'[c]
      <3>1. CASE c = b
        BY <2>2, <3>1 DEF AtTabs
      <3>2. CASE c # b
        BY <2>2, <3>2 DEF AtTabs, Current, Waiting
      <3> QED
        BY <3>1, <3>2
    <2> QED
      BY <2>1, <2>2 DEF Waiting
  <1>4. Archives'
    BY <1>1 DEF Current, Archives, AtTabs
  <1>5. ASSUME NEW j \in Job, NEW S \in SUBSET File, Snapshot(j, S) PROVE Snapshot(j, S)'
    <2>1. \A c \in Client : page'[c] = row'[j].folder => S \subseteq seen'[c] \/ seen'[c] \subseteq S
      BY <1>5 DEF Snapshot, AtTabs
    <2>2. \A c \in Client : cpc'[c] = "status" /\ chip'[c].job = j => S \subseteq seen'[c]
      BY <1>5 DEF Snapshot
    <2> QED
      BY <1>1, <1>5, <2>1, <2>2 DEF Snapshot, AtTabs, Expired
  <1>6. Snapshots'
    BY <1>5 DEF Current, Snapshots, AtTabs
  <1> QED
    BY <1>2, <1>3, <1>4, <1>6 DEF Current

LEMMA BrowseCurrent ==
    ASSUME TypeOK, TypeOK', Current, NEW b \in Client, NEW d \in Folder, Browse(b, d)
    PROVE  Current'
  <1>1. AtTabs /\ UNCHANGED <<cpc, seen>> /\ cpc[b] = "idle"
    BY DEF Browse, AtTabs
  <1>2. seen'[b] = {} /\ cpc'[b] # "status"
    BY <1>1 DEF Current, Listings
  <1>3. chip'[b].view # "preparing"
    BY DEF Browse, TypeOK
  <1>4. \A c \in Client : c # b => page'[c] = page[c] /\ chip'[c] = chip[c]
    BY DEF Browse, TypeOK
  <1> QED
    BY <1>1, <1>2, <1>3, <1>4, TabCurrent

LEMMA ReplyIs ==
    ASSUME TypeOK, NEW b \in Client, NEW v, NEW j, Reply(b, v, j)
    PROVE  /\ cpc'[b] = "idle" /\ seen'[b] = {} /\ chip'[b].view = v /\ chip'[b].job = j
           /\ \A c \in Client : c # b => cpc'[c] = cpc[c] /\ seen'[c] = seen[c] /\ chip'[c] = chip[c]
  BY DEF Reply, TypeOK

LEMMA RequestCurrent ==
    ASSUME TypeOK, TypeOK', Current, NEW b \in Client,
           FindJob(b) \/ FindNothing(b) \/ NeedJob(b) \/ LookupFails(b) \/ RequestFails(b)
    PROVE  Current'
  <1>1. AtTabs /\ page' = page
    BY DEF FindJob, FindNothing, NeedJob, LookupFails, RequestFails, AtTabs
  <1>2. CASE FindJob(b)
    <2>1. PICK j \in Reusable(page[b], seen[b]) : Reply(b, View(status[j]), j)
      BY <1>2 DEF FindJob
    <2>2. j \in Job /\ status[j] # "none" /\ row[j].folder = page[b]
      BY <2>1 DEF Reusable, HasRow
    <2> QED
      BY <1>1, <2>1, <2>2, ReplyIs, TabCurrent
  <1>3. CASE FindNothing(b) \/ (LookupFails(b) /\ cpc[b] = "status")
    <2>1. Reply(b, "empty", NoJob)
      BY <1>3 DEF FindNothing, LookupFails
    <2> QED
      BY <1>1, <2>1, ReplyIs, TabCurrent
  <1>4. CASE NeedJob(b) \/ (LookupFails(b) /\ cpc[b] # "status")
    <2>1. /\ UNCHANGED <<seen, chip>>
          /\ cpc'[b] = "create" /\ \A c \in Client : c # b => cpc'[c] = cpc[c]
      BY <1>4 DEF NeedJob, LookupFails, TypeOK
    <2>2. chip[b].view = "preparing" =>
            /\ chip[b].job \in Job /\ status[chip[b].job] # "none" /\ row[chip[b].job].folder = page[b]
      BY DEF Current, Waiting
    <2> QED
      BY <1>1, <2>1, <2>2, TabCurrent
  <1>5. CASE RequestFails(b)
    <2>1. /\ UNCHANGED chip
          /\ seen'[b] = {} /\ cpc'[b] = "idle"
          /\ \A c \in Client : c # b => cpc'[c] = cpc[c] /\ seen'[c] = seen[c]
      BY <1>5 DEF RequestFails, TypeOK
    <2>2. chip[b].view = "preparing" =>
            /\ chip[b].job \in Job /\ status[chip[b].job] # "none" /\ row[chip[b].job].folder = page[b]
      BY DEF Current, Waiting
    <2> QED
      BY <1>1, <2>1, <2>2, TabCurrent
  <1> QED
    BY <1>2, <1>3, <1>4, <1>5

(* A job is created: what it is to have is what its tab has listed.         *)
LEMMA CreateCurrent ==
    ASSUME Inductive, TypeOK', Current, NEW b \in Client, CreateZipJob(b)
    PROVE  Current'
  <1>0. TypeOK /\ ExclusiveBuild
    BY DEF Inductive
  <1>1. PICK i \in Job :
          /\ status[i] = "none"
          /\ clock' = clock + 1
          /\ status' = [status EXCEPT ![i] = "pending"]
          /\ row' = [row EXCEPT ![i] = [folder |-> page[b], print |-> Fingerprint(seen[b]),
                                        created |-> clock', expires |-> 0]]
          /\ Reply(b, "preparing", i)
    BY DEF CreateZipJob
  <1>2. UNCHANGED <<horizon, files, bucket, up, loops, cleaner, page>>
    BY DEF CreateZipJob
  <1>3. /\ status'[i] = "pending" /\ row'[i].folder = page[b] /\ row'[i].created = clock + 1
        /\ row'[i].print = Fingerprint(seen[b])
        /\ \A k \in Job : k # i => status'[k] = status[k] /\ row'[k] = row[k]
    BY <1>0, <1>1 DEF TypeOK
  <1>4. /\ cpc'[b] = "idle" /\ seen'[b] = {} /\ chip'[b].view = "preparing" /\ chip'[b].job = i
        /\ \A c \in Client : c # b => cpc'[c] = cpc[c] /\ seen'[c] = seen[c] /\ chip'[c] = chip[c]
    BY <1>0, <1>1, ReplyIs
  <1>5. \A d \in Folder : Tree(d)' = Tree(d)
    BY <1>2, TreeStays
  <1>6. Listings'
    <2>1. \A f \in File : born'[f] <= clock'
      BY <1>0, <1>1, <1>2 DEF Current, Listings, TypeOK
    <2> QED
      BY <1>2, <1>4, <1>5, <2>1 DEF Current, Listings
  <1>7. Waiting'
    <2>1. \A c \in Client : cpc'[c] = "status" => chip'[c].view = "preparing"
      BY <1>4 DEF Current, Waiting
    <2>2. ASSUME NEW c \in Client, chip'[c].view = "preparing"
          PROVE  /\ chip'[c].job \in Job
                 /\ status'[chip'[c].job] # "none"
                 /\ row'[chip'[c].job].folder = page'[c]
      <3>1. CASE c = b
        BY <1>2, <1>3, <1>4, <3>1
      <3>2. CASE c # b
        <4>1. chip[c].job \in Job /\ status[chip[c].job] # "none" /\ row[chip[c].job].folder = page[c]
          BY <1>4, <2>2, <3>2 DEF Current, Waiting
        <4> QED
          BY <1>1, <1>2, <1>3, <1>4, <3>2, <4>1
      <3> QED
        BY <3>1, <3>2
    <2> QED
      BY <2>1, <2>2 DEF Waiting
  <1>8. ASSUME NEW w \in Worker PROVE wjob[w] # i
    <2>1. wjob[w] = i => wpc[w] # "idle"
      BY <1>0, JobAssumption DEF TypeOK
    <2>2. wpc[w] # "idle" => status[wjob[w]] # "none"
      BY <1>0 DEF ExclusiveBuild
    <2> QED
      BY <1>1, <2>1, <2>2
  <1>9. Archives'
    <2>1. \A w \in Worker, d \in Folder : wpc'[w] = "upload" /\ row'[wjob'[w]].folder = d => entries'[w] \subseteq Tree(d)'
      BY <1>0, <1>2, <1>3, <1>5, <1>8 DEF Current, Archives, TypeOK
    <2>2. \A j \in Job, d \in Folder : row'[j].folder = d => archive'[j] \subseteq Tree(d)'
      BY <1>1, <1>2, <1>3, <1>5 DEF Current, Archives
    <2>3. \A j \in Job : status'[j] = "none" => archive'[j] = {}
      BY <1>2, <1>3 DEF Current, Archives
    <2> QED
      BY <2>1, <2>2, <2>3 DEF Archives
  <1>10. ASSUME NEW j \in Job, j # i, NEW S \in SUBSET File, Snapshot(j, S) PROVE Snapshot(j, S)'
    <2>1. row'[j] = row[j] /\ status'[j] = status[j]
      BY <1>3, <1>10
    <2>2. \A c \in Client : page'[c] = row'[j].folder => S \subseteq seen'[c] \/ seen'[c] \subseteq S
      BY <1>2, <1>4, <1>10, <2>1 DEF Snapshot
    <2>3. \A c \in Client : cpc'[c] = "status" /\ chip'[c].job = j => S \subseteq seen'[c]
      BY <1>4, <1>10 DEF Snapshot
    <2> QED
      BY <1>2, <1>5, <1>10, <2>1, <2>2, <2>3 DEF Snapshot, Expired
  <1>11. \E S \in SUBSET File : Snapshot(i, S)'
    <2>1. PICK S \in SUBSET File : S = seen[b]
      BY <1>0 DEF TypeOK
    <2>2. Fingerprint(S) = row'[i].print
      BY <1>3, <2>1
    <2>3. \A d \in Folder : row'[i].folder = d => S \subseteq Tree(d)'
      <3>1. \A d \in Folder : page[b] = d => seen[b] \subseteq Tree(d)
        BY DEF Current, Listings
      <3> QED
        BY <1>3, <1>5, <2>1, <3>1
    <2>4. \A f \in S : born'[f] < row'[i].created
      <3>1. \A f \in S : f \in File /\ born'[f] = born[f] /\ born[f] \in Nat /\ clock \in Nat /\ born[f] <= clock
        BY <1>0, <1>2 DEF Current, Listings, TypeOK
      <3> QED
        BY <1>3, <3>1
    <2>5. \A c \in Client : page'[c] = row'[i].folder => S \subseteq seen'[c] \/ seen'[c] \subseteq S
      BY <1>2, <1>3, <1>4, <2>1 DEF Current, Listings
    <2>6. \A c \in Client : ~(cpc'[c] = "status" /\ chip'[c].job = i)
      BY <1>1, <1>4 DEF Current, Waiting
    <2>7. (\A w \in Worker : wjob'[w] # i) /\ status'[i] # "ready"
      BY <1>2, <1>3, <1>8
    <2> QED
      BY <2>2, <2>3, <2>4, <2>5, <2>6, <2>7 DEF Snapshot
  <1>12. Snapshots'
    BY <1>1, <1>3, <1>10, <1>11 DEF Current, Snapshots
  <1> QED
    BY <1>6, <1>7, <1>9, <1>12 DEF Current

(* What the loops, the sweep, a restart and time may do: what is listed is  *)
(* the folder as it is, what is stored is what was listed, and ready is     *)
(* what has been stored.                                                    *)
Built ==
    /\ UNCHANGED <<files, tabs>>
    /\ clock <= clock'
    /\ \A j \in Job :
        /\ row'[j].folder = row[j].folder /\ row'[j].print = row[j].print /\ row'[j].created = row[j].created
        /\ status'[j] = "none" <=> status[j] = "none"
    /\ \A w \in Worker :
        wpc'[w] = "upload" =>
            /\ wjob'[w] = wjob[w] /\ wjob[w] \in Job
            /\ \/ wpc[w] = "upload" /\ entries'[w] = entries[w]
               \/ \A d \in Folder : row[wjob[w]].folder = d => entries'[w] = Tree(d)
    /\ \A w \in Worker :
        wpc'[w] = "mark" =>
            /\ wjob'[w] = wjob[w] /\ wjob[w] \in Job
            /\ status'[wjob[w]] = "running" =>
                \/ wpc[w] = "mark" /\ status[wjob[w]] = "running" /\ archive'[wjob[w]] = archive[wjob[w]]
                \/ wpc[w] = "upload" /\ archive'[wjob[w]] = entries[w]
    /\ \A j \in Job :
        \/ archive'[j] = archive[j]
        \/ archive'[j] = {}
        \/ \E w \in Worker : wpc[w] = "upload" /\ wjob[w] = j /\ archive'[j] = entries[w]
    /\ \A j \in Job :
        status'[j] = "ready" /\ ~Expired(j)' =>
            /\ archive'[j] = archive[j]
            /\ \/ status[j] = "ready" /\ ~Expired(j)
               \/ status[j] = "running" /\ \E w \in Worker : wpc[w] = "mark" /\ wjob[w] = j

LEMMA BuiltCurrent ==
    ASSUME Inductive, TypeOK', Current, Built
    PROVE  Current'
  <1>0. TypeOK /\ ExclusiveBuild
    BY DEF Inductive
  <1>1. \A d \in Folder : Tree(d)' = Tree(d)
    BY TreeStays DEF Built
  <1>2. Listings'
    <2>1. \A f \in File : born'[f] <= clock'
      <3>1. \A f \in File : born[f] \in Nat /\ born[f] <= clock
        BY <1>0 DEF Current, Listings, TypeOK
      <3>2. clock \in Nat /\ clock' \in Nat /\ clock <= clock' /\ born' = born
        BY <1>0 DEF Built, TypeOK
      <3> QED
        BY <3>1, <3>2
    <2> QED
      BY <1>1, <2>1 DEF Current, Listings, Built
  <1>3. Waiting'
    BY DEF Current, Waiting, Built
  <1>4. ASSUME NEW j \in Job PROVE row'[j].folder = row[j].folder
    BY DEF Built
  <1>5. Archives'
    <2>1. ASSUME NEW w \in Worker, NEW d \in Folder, wpc'[w] = "upload", row'[wjob'[w]].folder = d
          PROVE  entries'[w] \subseteq Tree(d)'
      <3>1. /\ wjob'[w] = wjob[w] /\ wjob[w] \in Job
            /\ \/ wpc[w] = "upload" /\ entries'[w] = entries[w]
               \/ row[wjob[w]].folder = d => entries'[w] = Tree(d)
        BY <2>1 DEF Built
      <3>2. row[wjob[w]].folder = d
        BY <1>4, <2>1, <3>1
      <3> QED
        BY <1>1, <3>1, <3>2 DEF Current, Archives
    <2>2. ASSUME NEW j \in Job, NEW d \in Folder, row'[j].folder = d PROVE archive'[j] \subseteq Tree(d)'
      <3>1. row[j].folder = d
        BY <1>4, <2>2
      <3>2. archive[j] \subseteq Tree(d)
        BY <3>1 DEF Current, Archives
      <3>3. \A w \in Worker : wpc[w] = "upload" /\ wjob[w] = j => entries[w] \subseteq Tree(d)
        BY <3>1 DEF Current, Archives
      <3> QED
        BY <1>1, <3>2, <3>3 DEF Built
    <2>3. ASSUME NEW j \in Job, status'[j] = "none" PROVE archive'[j] = {}
      <3>1. status[j] = "none" /\ archive[j] = {}
        BY <2>3 DEF Built, Current, Archives
      <3>2. \A w \in Worker : wpc[w] = "upload" => wjob[w] # j
        BY <1>0, <3>1 DEF ExclusiveBuild
      <3> QED
        BY <3>1, <3>2 DEF Built
    <2> QED
      BY <2>1, <2>2, <2>3 DEF Archives
  <1>6. ASSUME NEW j \in Job, NEW S \in SUBSET File, Snapshot(j, S) PROVE Snapshot(j, S)'
    <2>1. /\ row'[j].folder = row[j].folder /\ row'[j].print = row[j].print /\ row'[j].created = row[j].created
          /\ UNCHANGED <<born, cpc, page, seen, chip>>
      BY DEF Built
    <2>2. PICK e \in Folder : e = row[j].folder
      BY <1>0 DEF TypeOK, Row
    <2>3. S \subseteq Tree(e)
      BY <1>6, <2>2 DEF Snapshot
    <2>4. ASSUME NEW w \in Worker, wpc'[w] = "upload", wjob'[w] = j PROVE S \subseteq entries'[w]
      <3>1. /\ wjob[w] = j
            /\ \/ wpc[w] = "upload" /\ entries'[w] = entries[w]
               \/ row[j].folder = e => entries'[w] = Tree(e)
        BY <2>4 DEF Built
      <3> QED
        BY <1>6, <2>2, <2>3, <3>1 DEF Snapshot
    <2>5. ASSUME NEW w \in Worker, wpc'[w] = "mark", wjob'[w] = j, status'[j] = "running" PROVE S \subseteq archive'[j]
      <3>1. /\ wjob[w] = j
            /\ \/ wpc[w] = "mark" /\ status[j] = "running" /\ archive'[j] = archive[j]
               \/ wpc[w] = "upload" /\ archive'[j] = entries[w]
        BY <2>5 DEF Built
      <3> QED
        BY <1>6, <3>1 DEF Snapshot
    <2>6. ASSUME status'[j] = "ready", ~Expired(j)' PROVE S \subseteq archive'[j]
      <3>1. /\ archive'[j] = archive[j]
            /\ \/ status[j] = "ready" /\ ~Expired(j)
               \/ status[j] = "running" /\ \E w \in Worker : wpc[w] = "mark" /\ wjob[w] = j
        BY <2>6 DEF Built
      <3> QED
        BY <1>6, <3>1 DEF Snapshot
    <2> QED
      BY <1>1, <1>6, <2>1, <2>4, <2>5, <2>6 DEF Snapshot
  <1>7. Snapshots'
    BY <1>6 DEF Built, Current, Snapshots
  <1> QED
    BY <1>2, <1>3, <1>5, <1>7 DEF Current

LEMMA LoopBuilt ==
    ASSUME Inductive, NEW v \in Worker, Loop(v)
    PROVE  Built
  <1>0. TypeOK /\ ExclusiveBuild
    BY DEF Inductive
  <1>1. clock \in Nat /\ clock <= clock + 1
    BY <1>0 DEF TypeOK
  <1> USE <1>0, <1>1
  <1>2. wpc[v] # "idle" => wjob[v] \in Job
    BY DEF TypeOK
  <1>3. CASE Claim(v)
    BY <1>3, JobAssumption DEF Claim, Take, Built, TypeOK, Expired
  <1>4. CASE SetRunning(v)
    <2>1. wjob[v] \in Job /\ status[wjob[v]] = "pending"
      BY <1>2, <1>4 DEF SetRunning, ExclusiveBuild
    <2>2. \A j \in Job : j # wjob[v] => status'[j] = status[j]
      BY <1>4, <2>1 DEF SetRunning, TypeOK
    <2>3. status'[wjob[v]] \in {"pending", "running"}
      BY <1>4, <2>1 DEF SetRunning, TypeOK
    <2>4. UNCHANGED <<files, tabs, clock, horizon, row, archive>>
      BY <1>4 DEF SetRunning
    <2>5. /\ \A w \in Worker : w # v => wpc'[w] = wpc[w] /\ wjob'[w] = wjob[w] /\ entries'[w] = entries[w]
          /\ wpc'[v] \in {"list", "idle"}
      BY <1>4 DEF SetRunning, Done, Goto, TypeOK
    <2>6. \A w \in Worker : w # v => wjob[w] # wjob[v]
      BY <1>4 DEF SetRunning, ExclusiveBuild
    <2>7. ASSUME NEW w \in Worker, wpc'[w] \in {"upload", "mark"}
          PROVE  /\ wpc'[w] = wpc[w] /\ wjob'[w] = wjob[w] /\ entries'[w] = entries[w]
                 /\ wjob[w] \in Job /\ status'[wjob[w]] = status[wjob[w]]
      BY <2>2, <2>5, <2>6, <2>7, JobAssumption DEF TypeOK
    <2>8. \A j \in Job : status'[j] = "ready" => status[j] = "ready"
      BY <2>2, <2>3
    <2>9. \A j \in Job : status'[j] = "none" <=> status[j] = "none"
      BY <2>1, <2>2, <2>3
    <2> QED
      BY <2>4, <2>7, <2>8, <2>9 DEF Built, Expired
  <1>5. CASE ListEntries(v)
    <2>1. wjob[v] \in Job /\ UNCHANGED <<files, tabs, clock, horizon, row, status, archive, wjob>>
      BY <1>2, <1>5 DEF ListEntries
    <2>2. \A w \in Worker : w # v => wpc'[w] = wpc[w] /\ entries'[w] = entries[w]
      BY <1>5 DEF ListEntries, Goto, TypeOK
    <2>3. /\ wpc'[v] \in {"upload", "fail"}
          /\ wpc'[v] = "upload" => \A d \in Folder : row[wjob[v]].folder = d => entries'[v] = Tree(d)
      BY <1>5 DEF ListEntries, Goto, TypeOK
    <2> QED
      BY <2>1, <2>2, <2>3, JobAssumption DEF Built, Expired, TypeOK
  <1>6. CASE Upload(v)
    <2>1. /\ wjob[v] \in Job /\ UNCHANGED <<files, tabs, clock, horizon, row, status, wjob>>
          /\ wpc[v] = "upload"
      BY <1>2, <1>6 DEF Upload
    <2>2. \A w \in Worker : w # v => wpc'[w] = wpc[w] /\ entries'[w] = entries[w]
      BY <1>6 DEF Upload, Goto, TypeOK
    <2>3. \/ wpc'[v] = "mark" /\ archive' = [archive EXCEPT ![wjob[v]] = entries[v]]
          \/ wpc'[v] = "fail" /\ archive' = archive
      BY <1>6 DEF Upload, Goto, TypeOK
    <2>4. /\ \A j \in Job : j # wjob[v] => archive'[j] = archive[j]
          /\ archive'[wjob[v]] \in {archive[wjob[v]], entries[v]}
          /\ wpc'[v] = "mark" => archive'[wjob[v]] = entries[v]
          /\ wpc'[v] \in {"mark", "fail"}
      BY <2>1, <2>3 DEF TypeOK
    <2>5. /\ \A w \in Worker : w # v => wjob[w] # wjob[v]
          /\ status[wjob[v]] # "ready"
      BY <2>1 DEF ExclusiveBuild
    <2>6. ASSUME NEW w \in Worker, wpc'[w] = "mark"
          PROVE  /\ wjob[w] \in Job
                 /\ \/ wpc[w] = "mark" /\ archive'[wjob[w]] = archive[wjob[w]]
                    \/ wpc[w] = "upload" /\ archive'[wjob[w]] = entries[w]
      BY <2>1, <2>2, <2>4, <2>5, <2>6, JobAssumption DEF TypeOK
    <2>7. ASSUME NEW w \in Worker, wpc'[w] = "upload"
          PROVE  wjob[w] \in Job /\ wpc[w] = "upload" /\ entries'[w] = entries[w]
      BY <2>2, <2>4, <2>7, JobAssumption DEF TypeOK
    <2>8. \A j \in Job : status'[j] = "ready" => archive'[j] = archive[j]
      BY <2>1, <2>4, <2>5
    <2>9. \A j \in Job : \/ archive'[j] = archive[j]
                         \/ \E w \in Worker : wpc[w] = "upload" /\ wjob[w] = j /\ archive'[j] = entries[w]
      BY <2>1, <2>4
    <2> QED
      BY <2>1, <2>6, <2>7, <2>8, <2>9 DEF Built, Expired
  <1>7. CASE MarkReady(v) \/ MarkFailed(v)
    <2>1. /\ wjob[v] \in Job /\ UNCHANGED <<files, tabs, horizon, archive>>
          /\ clock <= clock'
      BY <1>2, <1>7 DEF MarkReady, MarkFailed
    <2>2. status[wjob[v]] \in {"running", "gone"}
      BY <1>7 DEF MarkReady, MarkFailed, ExclusiveBuild
    <2>3. /\ \A j \in Job : j # wjob[v] => status'[j] = status[j] /\ row'[j] = row[j]
          /\ row'[wjob[v]].folder = row[wjob[v]].folder /\ row'[wjob[v]].print = row[wjob[v]].print
          /\ row'[wjob[v]].created = row[wjob[v]].created
          /\ status'[wjob[v]] # "none"
          /\ status'[wjob[v]] = "ready" => status[wjob[v]] = "running" /\ wpc[v] = "mark"
      BY <1>7, <2>1, <2>2 DEF MarkReady, MarkFailed, HasRow, TypeOK, Row
    <2>4. /\ \A w \in Worker : w # v => wpc'[w] = wpc[w] /\ wjob'[w] = wjob[w] /\ entries'[w] = entries[w]
          /\ wpc'[v] = "idle"
      BY <1>7 DEF MarkReady, MarkFailed, Done, Goto, TypeOK
    <2>5. \A w \in Worker : w # v => wjob[w] # wjob[v]
      BY <1>7 DEF MarkReady, MarkFailed, ExclusiveBuild
    <2>6. ASSUME NEW w \in Worker, wpc'[w] \in {"upload", "mark"}
          PROVE  /\ wpc'[w] = wpc[w] /\ wjob'[w] = wjob[w] /\ entries'[w] = entries[w]
                 /\ wjob[w] \in Job /\ status'[wjob[w]] = status[wjob[w]]
      BY <2>3, <2>4, <2>5, <2>6, JobAssumption DEF TypeOK
    <2>7. \A j \in Job : status'[j] = "none" <=> status[j] = "none"
      BY <2>2, <2>3
    <2>8. \A j \in Job : status'[j] = "ready" /\ ~Expired(j)' =>
            \/ status[j] = "ready" /\ ~Expired(j)
            \/ status[j] = "running" /\ \E w \in Worker : wpc[w] = "mark" /\ wjob[w] = j
      BY <2>1, <2>3 DEF Expired
    <2> QED
      BY <2>1, <2>3, <2>6, <2>7, <2>8 DEF Built
  <1> QED
    BY <1>3, <1>4, <1>5, <1>6, <1>7 DEF Loop

LEMMA SweepBuilt ==
    ASSUME Inductive, Sweep
    PROVE  Built
  <1>0. TypeOK /\ ExclusiveBuild /\ SweepIsOver /\ clock \in Nat
    BY DEF Inductive, TypeOK
  <1> USE <1>0
  <1>1. CASE ListExpired \/ \E i \in Job : DeleteFails(i)
    BY <1>1, JobAssumption DEF ListExpired, DeleteFails, Built, TypeOK, Expired
  <1>2. ASSUME NEW i \in Job, DeleteArchive(i) PROVE Built
    <2>1. /\ UNCHANGED <<clock, horizon, files, status, row, loops, tabs>>
          /\ archive' = [archive EXCEPT ![i] = {}]
      BY <1>2 DEF DeleteArchive
    <2>2. status[i] \in {"failed", "gone"} \/ (status[i] = "ready" /\ Expired(i))
      BY <1>2 DEF DeleteArchive, SweepIsOver
    <2>3. \A j \in Job : archive'[j] = IF j = i THEN {} ELSE archive[j]
      BY <2>1 DEF TypeOK
    <2>4. \A j \in Job : status[j] = "ready" /\ ~Expired(j) => archive'[j] = archive[j]
      BY <2>2, <2>3
    <2>5. \A w \in Worker : wpc[w] \in {"upload", "mark"} => wjob[w] \in Job
      BY JobAssumption DEF TypeOK
    <2>6. \A w \in Worker : wpc[w] = "mark" /\ status[wjob[w]] = "running" => archive'[wjob[w]] = archive[wjob[w]]
      BY <2>2, <2>3, <2>5
    <2> QED
      BY <2>1, <2>3, <2>4, <2>5, <2>6 DEF Built, Expired
  <1>3. ASSUME NEW i \in Job, MarkExpired(i) PROVE Built
    <2>1. UNCHANGED <<clock, horizon, files, row, archive, loops, tabs>>
      BY <1>3 DEF MarkExpired
    <2>2. \A j \in Job : /\ status'[j] = "ready" => status[j] = "ready"
                         /\ status'[j] = "none" <=> status[j] = "none"
                         /\ status'[j] = "running" => status[j] = "running"
      BY <1>3 DEF MarkExpired, HasRow, TypeOK
    <2>3. \A w \in Worker : wpc[w] \in {"upload", "mark"} => wjob[w] \in Job
      BY JobAssumption DEF TypeOK
    <2> QED
      BY <2>1, <2>2, <2>3 DEF Built, Expired
  <1> QED
    BY <1>1, <1>2, <1>3 DEF Sweep

LEMMA ServerBuilt ==
    ASSUME Inductive, Restart \/ Tick \/ UNCHANGED vars
    PROVE  Built
  <1>0. TypeOK /\ DownIsIdle /\ clock \in Nat
    BY DEF Inductive, TypeOK
  <1>1. \A w \in Worker : wpc[w] \in {"upload", "mark"} => wjob[w] \in Job
    BY <1>0, JobAssumption DEF TypeOK
  <1>2. CASE Restart
    <2>1. UNCHANGED <<clock, horizon, files, row, archive, loops, tabs>>
      BY <1>2 DEF Restart
    <2>2. \A j \in Job : /\ status'[j] = "ready" => status[j] = "ready"
                         /\ status'[j] = "none" <=> status[j] = "none"
                         /\ status'[j] = "running" => status[j] = "running"
      BY <1>2 DEF Restart
    <2> QED
      BY <1>0, <1>1, <2>1, <2>2 DEF Built, Expired
  <1>3. CASE Tick
    <2>1. UNCHANGED <<clock, files, row, status, archive, loops, tabs>>
      BY <1>3 DEF Tick
    <2>2. PICK i \in Job : ~Expired(i) /\ horizon' = row[i].expires
      BY <1>3 DEF Tick
    <2>3. horizon \in Nat /\ horizon' \in Nat /\ horizon < horizon' /\ \A j \in Job : row[j].expires \in Nat
      BY <1>0, <2>2 DEF TypeOK, Row, Expired
    <2>4. \A j \in Job : ~Expired(j)' => ~Expired(j)
      BY <2>1, <2>3 DEF Expired
    <2> QED
      BY <1>0, <1>1, <2>1, <2>4 DEF Built
  <1>4. CASE UNCHANGED vars
    BY <1>0, <1>1, <1>4 DEF Built, Expired
  <1> QED
    BY <1>2, <1>3, <1>4

(* A kill takes the listings with it.                                       *)
LEMMA CrashCurrent ==
    ASSUME TypeOK, Current, Crash
    PROVE  Current'
  <1>1. /\ UNCHANGED <<time, files, jobs, bucket, page, chip>>
        /\ wpc' = [w \in Worker |-> "idle"]
        /\ cpc' = [c \in Client |-> "idle"]
        /\ seen' = [c \in Client |-> {}]
    BY DEF Crash
  <1>2. \A d \in Folder : Tree(d)' = Tree(d)
    BY <1>1, TreeStays
  <1>3. Listings'
    BY <1>1, <1>2 DEF Current, Listings
  <1>4. Waiting'
    BY <1>1 DEF Current, Waiting
  <1>5. Archives'
    BY <1>1, <1>2 DEF Current, Archives
  <1>6. ASSUME NEW j \in Job, NEW S \in SUBSET File, Snapshot(j, S) PROVE Snapshot(j, S)'
    BY <1>1, <1>2, <1>6 DEF Snapshot, Expired
  <1>7. Snapshots'
    BY <1>1, <1>6 DEF Current, Snapshots
  <1> QED
    BY <1>3, <1>4, <1>5, <1>7 DEF Current

LEMMA NextCurrent ==
    ASSUME Edits \subseteq {"upload"}
    PROVE  Inductive /\ Current /\ [Next]_vars => Current'
  <1> SUFFICES ASSUME Inductive, Current, [Next]_vars PROVE Current'
    OBVIOUS
  <1>0. TypeOK /\ TypeOK'
    BY NextType DEF Inductive
  <1>1. CASE EditContents
    <2>1. \A f \in File, d \in Folder \cup {Root} : ~MoveFile(f, d)
      BY DEF MoveFile
    <2>2. \A d \in Folder : ~DeleteFolder(d)
      BY DEF DeleteFolder
    <2>3. PICK f \in File, e \in Folder \cup {Root} : CompleteUpload(f) \/ CreateFile(f, e)
      BY <1>1, <2>1, <2>2 DEF EditContents
    <2> QED
      BY <1>0, <2>3, UploadCurrent
  <1>2. CASE \E c \in Client, d \in Folder : Browse(c, d)
    BY <1>0, <1>2, BrowseCurrent
  <1>3. CASE \E c \in Client : ClickPrepare(c) \/ Poll(c) \/ Request(c)
    BY <1>0, <1>3, LookCurrent, RequestCurrent, CreateCurrent DEF Request
  <1>4. CASE (\E w \in Worker : Loop(w)) \/ Sweep \/ Restart \/ Tick \/ UNCHANGED vars
    BY <1>0, <1>4, LoopBuilt, SweepBuilt, ServerBuilt, BuiltCurrent
  <1>5. CASE Crash
    BY <1>0, <1>5, CrashCurrent
  <1> QED
    BY <1>1, <1>2, <1>3, <1>4, <1>5 DEF Next

LEMMA CurrentHolds ==
    ASSUME Edits \subseteq {"upload"}
    PROVE  Spec => []Current
  BY InitCurrent, NextCurrent, InductiveHolds, PTL DEF Spec

(* As many files, and one set has all of the other: the same files.         *)
LEMMA SameFiles ==
    ASSUME NEW S \in SUBSET File, NEW R \in SUBSET File, S \subseteq R \/ R \subseteq S,
           Fingerprint(S) = Fingerprint(R)
    PROVE  S = R
  <1>1. Cardinality(S) = Cardinality(R)
    BY DEF Fingerprint
  <1>2. IsFiniteSet(S) /\ IsFiniteSet(R)
    BY FileAssumption, FS_Subset
  <1> QED
    BY <1>1, <1>2, FS_Subset

LEMMA FindCurrent ==
    ASSUME TypeOK, Current, NEW c \in Client, FindJob(c), chip'[c].view = "download"
    PROVE  /\ seen[c] \subseteq archive[chip'[c].job]
           /\ archive[chip'[c].job] \subseteq Tree(page[c])
  <1>1. PICK j \in Reusable(page[c], seen[c]) : Reply(c, View(status[j]), j)
    BY DEF FindJob
  <1>2. chip'[c].job = j /\ status[j] = "ready"
    BY <1>1, ReplyIs DEF View
  <1>3. j \in Job /\ row[j].folder = page[c] /\ ~Expired(j) /\ row[j].print = Fingerprint(seen[c])
    BY <1>1, <1>2 DEF Reusable, InFlight
  <1>4. PICK S \in SUBSET File : Snapshot(j, S)
    BY <1>2, <1>3 DEF Current, Snapshots
  <1>5. S \subseteq archive[j] /\ (S \subseteq seen[c] \/ seen[c] \subseteq S) /\ Fingerprint(S) = Fingerprint(seen[c])
    BY <1>2, <1>3, <1>4 DEF Snapshot
  <1>6. S = seen[c]
    <2>1. PICK R \in SUBSET File : R = seen[c]
      BY DEF TypeOK
    <2> QED
      BY <1>5, <2>1, SameFiles
  <1>7. archive[j] \subseteq Tree(page[c])
    <2>1. PICK d \in Folder : d = page[c]
      BY DEF TypeOK
    <2>2. archive[j] \subseteq Tree(d)
      BY <1>3, <2>1 DEF Current, Archives
    <2> QED
      BY <2>1, <2>2
  <1> QED
    BY <1>2, <1>5, <1>6, <1>7

(* While files only arrive, no tab is ever offered a stale archive, however *)
(* many tabs ask, whatever fails and however late a listing is used: a      *)
(* folder that only grows and still counts as many files has not changed.   *)
THEOREM ServedArchivesAreCurrent ==
    ASSUME Edits \subseteq {"upload"}
    PROVE  Spec => ServedIsCurrent
  <1>1. Inductive /\ Current =>
          \A c \in Client :
            FindJob(c) /\ chip'[c].view = "download"
              => /\ seen[c] \subseteq archive[chip'[c].job]
                 /\ archive[chip'[c].job] \subseteq Tree(page[c])
    BY FindCurrent DEF Inductive
  <1> QED
    BY <1>1, InductiveHolds, CurrentHolds, PTL DEF ServedIsCurrent

LEMMA EmptiedTab ==
    ASSUME Inductive, Current, [Next]_vars, NEW c \in Client,
           chip[c].view = "preparing", chip'[c].view = "empty", c \notin blind'
    PROVE  FindNothing(c)
  <1>0. TypeOK
    BY DEF Inductive
  <1> USE <1>0
  <1>1. chip' # chip
    OBVIOUS
  <1>2. PICK b \in Client :
          (\E d \in Folder : Browse(b, d)) \/ FindJob(b) \/ FindNothing(b) \/ LookupFails(b) \/ CreateZipJob(b)
    BY <1>1 DEF Next, EditContents, CompleteUpload, CreateFile, MoveFile, DeleteFolder, ClickPrepare, Poll, Request,
                NeedJob, RequestFails, Loop, Claim, Take, SetRunning, ListEntries, Upload, MarkReady, MarkFailed,
                Sweep, ListExpired, DeleteArchive, DeleteFails, MarkExpired, Crash, Restart, Tick
  <1>3. ASSUME NEW d \in Folder, Browse(b, d) PROVE FALSE
    BY <1>3 DEF Browse, TypeOK
  <1>4. ASSUME FindJob(b) PROVE FALSE
    <2>1. PICK j \in Job : Reply(b, View(status[j]), j)
      BY <1>4 DEF FindJob, Reusable
    <2>2. View(status[j]) # "empty"
      BY DEF View
    <2> QED
      BY <2>1, <2>2, ReplyIs
  <1>5. ASSUME CreateZipJob(b) PROVE FALSE
    <2>1. PICK j \in Job : Reply(b, "preparing", j)
      BY <1>5 DEF CreateZipJob
    <2> QED
      BY <2>1, ReplyIs
  <1>7. ASSUME LookupFails(b) PROVE FALSE
    <2>1. b # c
      BY <1>7 DEF LookupFails
    <2>2. chip'[c] = chip[c]
      BY <1>7, <2>1 DEF LookupFails, Reply, TypeOK
    <2> QED
      BY <2>2
  <1>6. ASSUME FindNothing(b) PROVE b = c
    <2>1. Reply(b, "empty", NoJob)
      BY <1>6 DEF FindNothing
    <2> QED
      BY <2>1, ReplyIs
  <1> QED
    BY <1>2, <1>3, <1>4, <1>5, <1>6, <1>7

LEMMA EmptiedCurrent ==
    ASSUME TypeOK, Current, NEW c \in Client, FindNothing(c), seen[c] # {},
           NEW j, j = chip[c].job, status[j] = "ready", ~Expired(j),
           row[j].print = Fingerprint(Tree(page[c]))
    PROVE  FALSE
  <1>1. cpc[c] = "status" /\ Reusable(page[c], seen[c]) = {} 
    BY DEF FindNothing
  <1>2. j \in Job /\ row[j].folder = page[c]
    BY <1>1 DEF Current, Waiting
  <1>4. PICK S \in SUBSET File : Snapshot(j, S)
    BY <1>2 DEF Current, Snapshots
  <1>5. PICK d \in Folder : d = page[c]
    BY DEF TypeOK
  <1>6. S \subseteq seen[c] /\ seen[c] \subseteq Tree(d) /\ S \subseteq Tree(d)
    BY <1>1, <1>2, <1>4, <1>5 DEF Snapshot, Current, Listings
  <1>7. Fingerprint(S) = Fingerprint(Tree(d)) /\ Tree(d) \in SUBSET File
    BY <1>4, <1>5, TreeType DEF Snapshot
  <1>8. S = Tree(d)
    BY <1>6, <1>7, SameFiles
  <1>9. S = seen[c]
    BY <1>6, <1>8
  <1>10. row[j].print = Fingerprint(seen[c]) /\ \A f \in seen[c] : born[f] < row[j].created
    BY <1>4, <1>9 DEF Snapshot
  <1>11. j \in Reusable(page[c], seen[c])
    BY <1>2, <1>10 DEF Reusable, HasRow
  <1> QED
    BY <1>1, <1>11

(* While files only arrive, a tab that waits for an archive does not miss   *)
(* it: it is offered unless more has arrived, whatever has failed before    *)
(* the look that finds it.                                                  *)
THEOREM AwaitedArchivesAreShown ==
    ASSUME Edits \subseteq {"upload"}
    PROVE  Spec => ReadyShown
  <1>1. Inductive /\ Current /\ [Next]_vars =>
          \A c \in Client :
            chip[c].view = "preparing" /\ chip'[c].view = "empty"
            /\ c \notin blind' /\ seen[c] # {}
              => LET j == chip[c].job
                 IN ~(/\ status[j] = "ready"
                      /\ ~Expired(j)
                      /\ row[j].print = Fingerprint(Tree(page[c])))
    BY EmptiedTab, EmptiedCurrent DEF Inductive
  <1> QED
    BY <1>1, InductiveHolds, CurrentHolds, PTL DEF Spec, ReadyShown
=============================================================================
