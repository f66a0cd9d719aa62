------------------------------- MODULE Shares -------------------------------
(***************************************************************************)
(* Public links to files and folders: the shares table, the requests that  *)
(* create, open, list and revoke a link (internal/handler/share.go, and    *)
(* the part of zip.go that resolves a link), and the folders and files     *)
(* under them, which are moved, deleted and restored meanwhile.            *)
(*                                                                         *)
(* One SQL statement is one step.  max_views is left out: no statement     *)
(* ever sets it, so its checks never refuse anything.                      *)
(***************************************************************************)
EXTENDS Naturals, Sequences, FiniteSets

CONSTANTS
    Folder,     \* ids of folders
    Chain,      \* of each folder: itself, its parent, and so on to the top
    File,       \* ids of files
    None,       \* no folder, no item, no file, no user
    MaxShares,  \* bound: rows that are ever inserted; ids are given in order
    User,       \* who manages links
    Admin,      \* those of them who are admins
    Req,        \* requests that can be in progress at the same time
    Asks,       \* what each of them may ask for
    MaxWalk,    \* steps that folderInTree takes upwards (64)
    ViewBound,  \* bound: pages that are shown of one share
    Faults      \* what may go wrong: "db"

Item == Folder \cup File
Share == 1..MaxShares
Kind == {"create", "page", "direct", "open", "zip", "revoke"}

(* Who asks for what: the item to share, the link to follow or revoke, the  *)
(* ?folder= of the request, the file in the folder.                         *)
Ask == [kind : Kind, by : User, item : Item \cup {None}, share : Share,
        folder : Folder \cup {None}, file : File \cup {None}]

(* No statement changes a folder's parent_id, so the folders above a folder *)
(* are the same for ever.                                                   *)
ASSUME SharesAssumption ==
    /\ None \notin Item \cup User /\ Folder \cap File = {}
    /\ Chain \in [Folder -> Seq(Folder)]
    /\ \A d \in Folder :
        /\ Len(Chain[d]) > 0 /\ Chain[d][1] = d
        /\ \A i \in 1..Len(Chain[d]) : Chain[Chain[d][i]] = SubSeq(Chain[d], i, Len(Chain[d]))
    /\ Admin \subseteq User
    /\ IsFiniteSet(Req)
    /\ Asks \in [Req -> (SUBSET Ask) \ {{}}]
    /\ \A r \in Req : \A a \in Asks[r] :
        /\ a.kind = "create" => a.item # None
        /\ a.kind = "open" => a.file # None
    /\ MaxShares \in Nat /\ MaxWalk \in Nat /\ ViewBound \in Nat
    /\ Faults \subseteq {"db"}

VARIABLES
    folders,    \* the folders there are
    status,     \* files.status; "gone": no row
    at,         \* files.folder_id
    made,       \* how many shares were inserted
    rows,       \* those of them that are still in the table
    expired,    \* those whose expires_at has passed
    target,     \* file_id or folder_id
    owner,      \* created_by
    views,      \* view_count
    pc,         \* where each request is
    ask,        \* what it asks for
    root,       \* the target of the share it has read
    start,      \* the folder it serves, or whose file it serves
    cur,        \* where folderInTree is
    steps,      \* and how far it has come
    excuse,     \* what it asks for was not to be had at some time (history)
    doubled     \* items whose creation was not alone, or met an error (history)

items == <<folders, status, at>>
table == <<made, rows, expired, target, owner, views>>
walk == <<start, cur, steps>>
request == <<pc, ask, root, walk>>
vars == <<items, table, request, excuse, doubled>>

Parent(d) == IF Len(Chain[d]) = 1 THEN None ELSE Chain[d][2]
InTree(d, r) == \E i \in DOMAIN Chain[d] : Chain[d][i] = r
Level(d, r) == CHOOSE i \in DOMAIN Chain[d] : Chain[d][i] = r
Exists(i) == i \in folders \/ (i \in File /\ status[i] = "active")
Alive(s) == s \in rows \ expired

Init ==
    /\ folders = Folder
    /\ status = [f \in File |-> "active"]
    /\ at \in [File -> Folder]
    /\ made = 0
    /\ rows = {}
    /\ expired = {}
    /\ target = [s \in Share |-> None]
    /\ owner = [s \in Share |-> None]
    /\ views = [s \in Share |-> 0]
    /\ pc = [r \in Req |-> "idle"]
    /\ ask = [r \in Req |-> CHOOSE a \in Asks[r] : TRUE]
    /\ root = [r \in Req |-> None]
    /\ start = [r \in Req |-> None]
    /\ cur = [r \in Req |-> None]
    /\ steps = [r \in Req |-> 0]
    /\ excuse = [r \in Req |-> FALSE]
    /\ doubled = {}

-----------------------------------------------------------------------------
(* Files and folders change under the links.                                *)

Trash(f) ==
    /\ status[f] = "active"
    /\ status' = [status EXCEPT ![f] = "deleted"]
    /\ UNCHANGED <<folders, at, table, request, doubled>>

Restore(f) ==
    /\ status[f] = "deleted"
    /\ status' = [status EXCEPT ![f] = "active"]
    /\ UNCHANGED <<folders, at, table, request, doubled>>

(* Rows of shares are deleted, and what was in them is forgotten.           *)
Drop(S) ==
    /\ rows' = rows \ S
    /\ expired' = expired \ S
    /\ target' = [s \in Share |-> IF s \in S THEN None ELSE target[s]]
    /\ owner' = [s \in Share |-> IF s \in S THEN None ELSE owner[s]]
    /\ views' = [s \in Share |-> IF s \in S THEN 0 ELSE views[s]]
    /\ UNCHANGED made

Targeting(S) == {s \in rows : target[s] \in S}

(* file_id REFERENCES files ON DELETE CASCADE.                              *)
Erase(f) ==
    /\ status[f] # "gone"
    /\ status' = [status EXCEPT ![f] = "gone"]
    /\ at' = [at EXCEPT ![f] = None]
    /\ Drop(Targeting({f}))
    /\ UNCHANGED <<folders, request, doubled>>

Move(f, d) ==
    /\ status[f] = "active"
    /\ d \in folders \cup {None}
    /\ at' = [at EXCEPT ![f] = d]
    /\ UNCHANGED <<folders, status, table, request, doubled>>

Slip_DeleteFolderKeepsLinks(d) ==
    /\ d \in folders
    /\ LET tree == {e \in folders : InTree(e, d)}
       IN  /\ folders' = folders \ tree
           /\ at' = [f \in File |-> IF at[f] \in tree THEN None ELSE at[f]]
    /\ UNCHANGED <<status, table, request, doubled>>

(* The folders below it go too, files stay without a folder, and the links  *)
(* of all those folders are dropped.                                        *)
DeleteFolder(d) ==
    /\ d \in folders
    /\ LET tree == {e \in folders : InTree(e, d)}
       IN  /\ folders' = folders \ tree
           /\ at' = [f \in File |-> IF at[f] \in tree THEN None ELSE at[f]]
           /\ Drop(Targeting(tree))
    /\ UNCHANGED <<status, request, doubled>>

Expire(s) ==
    /\ Alive(s)
    /\ expired' = expired \cup {s}
    /\ UNCHANGED <<items, made, rows, target, owner, views, request, doubled>>

-----------------------------------------------------------------------------
Goto(r, p) == pc' = [pc EXCEPT ![r] = p]
Fault == "db" \in Faults

AllShares == rows

(* ListSharesByCreator.                                                     *)
SharesBy(u) == {s \in rows : owner[s] = u}

(* SharesPage, with a button to revoke every link it lists.                 *)
ShownTo(u) == IF u \in Admin THEN AllShares ELSE SharesBy(u)

(* What a request asks for can be had right now.                            *)
Within(d, r) == d \in folders /\ InTree(d, r) /\ Level(d, r) <= MaxWalk

Answerable(a) ==
    CASE a.kind = "create" -> Exists(a.item)
      [] a.kind = "page" ->
            /\ Alive(a.share) /\ Exists(target[a.share])
            /\ target[a.share] \in Folder /\ a.folder # None =>
                    Within(a.folder, target[a.share])
      [] a.kind = "direct" ->
            /\ Alive(a.share) /\ target[a.share] \in File /\ Exists(target[a.share])
      [] a.kind = "open" ->
            /\ Alive(a.share) /\ target[a.share] \in Folder /\ status[a.file] = "active"
            /\ at[a.file] # None /\ Within(at[a.file], target[a.share])
      [] a.kind = "zip" ->
            /\ Alive(a.share) /\ target[a.share] \in Folder
            /\ a.folder # None => Within(a.folder, target[a.share])
      [] a.kind = "revoke" -> a.share \in rows

Creating(i) == {r \in Req : pc[r] # "idle" /\ ask[r].kind = "create" /\ ask[r].item = i}

(* A request arrives.  Links are followed once they were given out; the     *)
(* button that revokes a link is on the page that lists it.                 *)
Arrive(r, a) ==
    /\ pc[r] = "idle"
    /\ a.kind \in {"page", "direct", "open", "zip"} => a.share <= made
    /\ a.kind = "create" =>
        made + Cardinality({q \in Req : pc[q] # "idle" /\ ask[q].kind = "create"}) < MaxShares
    /\ a.kind = "page" => views[a.share] < ViewBound
    /\ a.kind = "revoke" => a.share \in ShownTo(a.by)
    /\ ask' = [ask EXCEPT ![r] = a]
    /\ Goto(r, CASE a.kind = "create" -> "item"
                 [] a.kind = "revoke" -> "owner"
                 [] OTHER -> "share")
    /\ doubled' = IF a.kind = "create" /\ Creating(a.item) # {}
                  THEN doubled \cup {a.item} ELSE doubled
    /\ UNCHANGED <<items, table, root, walk>>

(* The answer is sent and the request forgotten.                            *)
End(r) ==
    /\ Goto(r, "idle")
    /\ root' = [root EXCEPT ![r] = None]
    /\ start' = [start EXCEPT ![r] = None]
    /\ cur' = [cur EXCEPT ![r] = None]
    /\ steps' = [steps EXCEPT ![r] = 0]
    /\ ask' = [ask EXCEPT ![r] = CHOOSE a \in Asks[r] : TRUE]
    /\ UNCHANGED <<items, table, doubled>>

Answer(r) == pc[r] \in {"served", "refused"} /\ End(r)

(* Where a database error ends the request, with status 500 or, where the   *)
(* code takes every error for "not found", 404.                             *)
Failing == {"item", "insert", "share", "file", "walk", "folder", "contents", "owner", "delete"}

Error(r) ==
    /\ Fault
    /\ pc[r] \in Failing
    /\ pc[r] = "walk" => steps[r] < MaxWalk /\ cur[r] # root[r]
    /\ End(r)

-----------------------------------------------------------------------------
(* CreateShare, CreateFolderShare: get or create.                           *)

Quiet == <<root, walk>>
Sharing(i) == {s \in rows \ expired : target[s] = i}

FindItem(r) ==
    /\ pc[r] = "item"
    /\ \/ Exists(ask[r].item) /\ Goto(r, "lookup")
       \/ ~Exists(ask[r].item) /\ Goto(r, "refused")
    /\ UNCHANGED <<items, table, ask, Quiet, doubled>>

Slip_LookupOfOwn(r) ==
    /\ pc[r] = "lookup"
    /\ Goto(r, IF \E s \in Sharing(ask[r].item) : owner[s] = ask[r].by
               THEN "served" ELSE "insert")
    /\ UNCHANGED <<items, table, ask, Quiet, doubled>>

(* GetActiveShareByFileID, ...ByFolderID: there is a link that has not      *)
(* expired.  An error is taken for "there is none".                         *)
Lookup(r) ==
    /\ pc[r] = "lookup"
    /\ \/ /\ Goto(r, IF Sharing(ask[r].item) # {} THEN "served" ELSE "insert")
          /\ UNCHANGED doubled
       \/ /\ Fault
          /\ Goto(r, "insert")
          /\ doubled' = doubled \cup {ask[r].item}
    /\ UNCHANGED <<items, table, ask, Quiet>>

(* The row needs its file (in whatever status) or folder.                   *)
Insert(r) ==
    /\ pc[r] = "insert"
    /\ \/ /\ ask[r].item \in folders \cup {f \in File : status[f] # "gone"}
          /\ made' = made + 1
          /\ rows' = rows \cup {made'}
          /\ target' = [target EXCEPT ![made'] = ask[r].item]
          /\ owner' = [owner EXCEPT ![made'] = ask[r].by]
          /\ Goto(r, "served")
          /\ UNCHANGED <<expired, views>>
       \/ /\ ask[r].item \notin folders \cup {f \in File : status[f] # "gone"}
          /\ Goto(r, "refused")
          /\ UNCHANGED table
    /\ UNCHANGED <<items, ask, Quiet, doubled>>

-----------------------------------------------------------------------------
(* Following a link.                                                        *)

Serve(r, d) == start' = [start EXCEPT ![r] = d] /\ UNCHANGED <<cur, steps>>

(* folderInTree begins at the folder in question.                           *)
Climb(r, d) ==
    /\ Goto(r, "walk")
    /\ start' = [start EXCEPT ![r] = d]
    /\ cur' = [cur EXCEPT ![r] = d]
    /\ UNCHANGED steps

(* GetShareBySlug and the checks that ResolveShare, SharedFileDirect-       *)
(* Download, SharedFileDownload, SharedFilePreview and resolveShareForZip   *)
(* make of the row.                                                         *)
ReadShare(r) ==
    LET a == ask[r] t == target[a.share] IN
    /\ pc[r] = "share"
    /\ \/ /\ Alive(a.share)
          /\ root' = [root EXCEPT ![r] = t]
          /\ \/ /\ \/ t \in File /\ a.kind \in {"page", "direct"}
                   \/ t \in Folder /\ a.kind = "open"
                /\ Goto(r, "file")
                /\ UNCHANGED walk
             \/ /\ t \in Folder /\ a.kind \in {"page", "zip"}
                /\ IF a.folder = None
                   THEN Goto(r, "folder") /\ Serve(r, t)
                   ELSE Climb(r, a.folder)
             \/ /\ \/ t \in File /\ a.kind \in {"open", "zip"}
                   \/ t \in Folder /\ a.kind = "direct"
                /\ Goto(r, "refused")
                /\ UNCHANGED walk
       \/ ~Alive(a.share) /\ Goto(r, "refused") /\ UNCHANGED <<root, walk>>
    /\ UNCHANGED <<items, table, ask, doubled>>

Slip_ReadFileServes(r) ==
    LET f == IF root[r] \in File THEN root[r] ELSE ask[r].file IN
    /\ pc[r] = "file"
    /\ Goto(r, IF status[f] # "active" THEN "refused"
               ELSE IF ask[r].kind = "page" THEN "count" ELSE "served")
    /\ Serve(r, at[f])
    /\ UNCHANGED <<items, table, ask, root, doubled>>

(* GetFile: the shared file, or the file asked for in the shared folder.    *)
ReadFile(r) ==
    LET f == IF root[r] \in File THEN root[r] ELSE ask[r].file IN
    /\ pc[r] = "file"
    /\ \/ /\ status[f] = "active"
          /\ \/ /\ root[r] \in File
                /\ Goto(r, IF ask[r].kind = "page" THEN "count" ELSE "served")
                /\ UNCHANGED walk
             \/ root[r] \in Folder /\ at[f] # None /\ Climb(r, at[f])
             \/ root[r] \in Folder /\ at[f] = None /\ Goto(r, "refused") /\ UNCHANGED walk
       \/ status[f] # "active" /\ Goto(r, "refused") /\ UNCHANGED walk
    /\ UNCHANGED <<items, table, ask, root, doubled>>

Slip_WalkCountsFirst(r) ==
    /\ pc[r] = "walk"
    /\ UNCHANGED <<items, table, ask, root, start, doubled>>
    /\ \/ /\ steps[r] + 1 < MaxWalk /\ cur[r] = root[r]
          /\ Goto(r, IF ask[r].kind = "open" THEN "served" ELSE "folder")
          /\ UNCHANGED <<cur, steps>>
       \/ /\ steps[r] + 1 < MaxWalk /\ cur[r] # root[r]
          /\ IF cur[r] \in folders /\ Parent(cur[r]) # None
             THEN /\ cur' = [cur EXCEPT ![r] = Parent(@)]
                  /\ steps' = [steps EXCEPT ![r] = @ + 1]
                  /\ UNCHANGED pc
             ELSE Goto(r, "refused") /\ UNCHANGED <<cur, steps>>
       \/ steps[r] + 1 >= MaxWalk /\ Goto(r, "refused") /\ UNCHANGED <<cur, steps>>

(* One round of folderInTree: the shared folder is reached, or the walk is  *)
(* as long as it may get, or one step up.                                   *)
Walk(r) ==
    /\ pc[r] = "walk"
    /\ \/ /\ steps[r] < MaxWalk /\ cur[r] = root[r]
          /\ Goto(r, IF ask[r].kind = "open" THEN "served" ELSE "folder")
          /\ UNCHANGED <<cur, steps>>
       \/ /\ steps[r] < MaxWalk /\ cur[r] # root[r]
          /\ cur[r] \in folders /\ Parent(cur[r]) # None
          /\ cur' = [cur EXCEPT ![r] = Parent(@)]
          /\ steps' = [steps EXCEPT ![r] = @ + 1]
          /\ UNCHANGED pc
       \/ /\ \/ steps[r] = MaxWalk
             \/ cur[r] # root[r] /\ (cur[r] \notin folders \/ Parent(cur[r]) = None)
          /\ Goto(r, "refused")
          /\ UNCHANGED <<cur, steps>>
    /\ UNCHANGED <<items, table, ask, root, start, doubled>>

(* GetFolder for the page or the name of the archive.                       *)
FindFolder(r) ==
    /\ pc[r] = "folder"
    /\ \/ start[r] \in folders /\ Goto(r, IF ask[r].kind = "zip" THEN "served" ELSE "contents")
       \/ start[r] \notin folders /\ Goto(r, "refused")
    /\ UNCHANGED <<items, table, ask, Quiet, doubled>>

(* ListFoldersByParent, ListFilesByFolder: whatever is there by now.        *)
ListContents(r) ==
    /\ pc[r] = "contents"
    /\ Goto(r, "count")
    /\ UNCHANGED <<items, table, ask, Quiet, doubled>>

(* IncrementShareViewCount, whose error is dropped, and the page.           *)
Count(r) ==
    LET s == ask[r].share IN
    /\ pc[r] = "count"
    /\ Goto(r, "served")
    /\ \/ s \in rows /\ views' = [views EXCEPT ![s] = @ + 1]
       \/ /\ Fault \/ s \notin rows
          /\ UNCHANGED views
    /\ UNCHANGED <<items, made, rows, expired, target, owner, ask, Quiet, doubled>>

-----------------------------------------------------------------------------
(* Managing links.                                                          *)

(* RevokeShare: GetShare, and only an admin or the creator goes on.         *)
ReadOwner(r) ==
    LET s == ask[r].share IN
    /\ pc[r] = "owner"
    /\ \/ s \in rows /\ (ask[r].by \in Admin \/ owner[s] = ask[r].by) /\ Goto(r, "delete")
       \/ ~(s \in rows /\ (ask[r].by \in Admin \/ owner[s] = ask[r].by)) /\ Goto(r, "refused")
    /\ UNCHANGED <<items, table, ask, Quiet, doubled>>

Revoke(r) ==
    /\ pc[r] = "delete"
    /\ Drop({ask[r].share})
    /\ Goto(r, "served")
    /\ UNCHANGED <<items, ask, Quiet, doubled>>

-----------------------------------------------------------------------------
Change ==
    \/ \E f \in File :
        Trash(f) \/ Restore(f) \/ Erase(f) \/ \E d \in Folder \cup {None} : Move(f, d)
    \/ \E d \in Folder : DeleteFolder(d)
    \/ \E s \in Share : Expire(s)

Work(r) ==
    \/ FindItem(r) \/ Lookup(r) \/ Insert(r)
    \/ ReadShare(r) \/ ReadFile(r) \/ Walk(r) \/ FindFolder(r) \/ ListContents(r) \/ Count(r)
    \/ ReadOwner(r) \/ Revoke(r)

(* History: has what the request asks for, or the folder in which it was    *)
(* found, been unavailable since the request came?                          *)
Excuse ==
    excuse' = [r \in Req |->
        pc'[r] # "idle"
        /\ (excuse[r] \/ ~Answerable(ask[r])' \/ start'[r] \notin folders' \cup {None})]

Next ==
    /\ \/ Change
       \/ \E r \in Req : Work(r) \/ Error(r) \/ Answer(r) \/ \E a \in Asks[r] : Arrive(r, a)
    /\ Excuse

Spec == Init /\ [][Next]_vars
-----------------------------------------------------------------------------
(* The variables hold what their columns and locals hold.                   *)
TypeOK ==
    /\ folders \subseteq Folder
    /\ status \in [File -> {"active", "deleted", "gone"}]
    /\ at \in [File -> Folder \cup {None}]
    /\ \A f \in File : at[f] # None => at[f] \in folders
    /\ made \in 0..MaxShares
    /\ rows \subseteq 1..made
    /\ expired \subseteq rows
    /\ target \in [Share -> Item \cup {None}]
    /\ \A s \in rows : target[s] \in folders \cup {f \in File : status[f] # "gone"}
    /\ owner \in [Share -> User \cup {None}]
    /\ views \in [Share -> Nat]
    /\ pc \in [Req -> {"idle", "item", "lookup", "insert", "share", "file", "walk", "folder",
                       "contents", "count", "owner", "delete", "served", "refused"}]
    /\ \A r \in Req : ask[r] \in Asks[r]
    /\ DOMAIN ask = Req
    /\ root \in [Req -> Item \cup {None}]
    /\ start \in [Req -> Folder \cup {None}]
    /\ cur \in [Req -> Folder \cup {None}]
    /\ steps \in [Req -> 0..MaxWalk]
    /\ excuse \in [Req -> BOOLEAN]
    /\ doubled \subseteq Item

Following(r) == pc[r] = "served" /\ ask[r].kind \in {"page", "open", "zip"}

(* "Only files inside the shared folder tree are served": whatever page,    *)
(* archive or file of a folder's link is answered with, the folder it is in *)
(* was the shared one or below it when it was read, wherever files are      *)
(* moved and whatever is deleted meanwhile.                                 *)
SharedOnly == \A r \in Req : Following(r) /\ root[r] \in Folder => InTree(start[r], root[r])

(* A request is turned down only if what it asks for could not be had at    *)
(* some time while it was in progress: links that were given out lead to    *)
(* what they were given out for until they are revoked, expire, or lose     *)
(* their target; what is less than MaxWalk levels below a shared folder can *)
(* be opened; and a link that its viewer's page lists can be revoked.  A    *)
(* 404 that hides a database error ends the request by Error and is not     *)
(* counted.                                                                 *)
RefusalHasReason == \A r \in Req : pc[r] = "refused" => excuse[r]

(* An item has one link at a time, unless two requests created it together  *)
(* or the lookup met an error.                                              *)
SingleActive ==
    \A i \in Item \ doubled : \A s, t \in Sharing(i) : s = t
=============================================================================
