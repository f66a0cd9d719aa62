------------------------------ MODULE Browsing ------------------------------
(***************************************************************************)
(* Folders, files and permissions as one session sees and changes them:    *)
(* it is shown a page, clicks on something the page offers, and the        *)
(* request runs statement by statement, while other sessions move, delete, *)
(* restore, create, grant and revoke (internal/handler: files.go, bulk.go, *)
(* download.go, permission.go; the cards of web/templates).                *)
(*                                                                         *)
(* Names are left out: renaming only needs its row.  What an admin sees of *)
(* a long folder at a time is in Paging, the links that are copied are in  *)
(* Shares, and deleting permanently, which only admins are offered, is in  *)
(* FileLifecycle.                                                          *)
(***************************************************************************)
EXTENDS Naturals, FiniteSets

CONSTANTS
    User,       \* whose session it may be, and who gets permissions
    Role,       \* the role that is stored in the session of each of them
    Folder,     \* ids that folders can have
    First,      \* the folders there are from the start
    File,       \* ids of files
    Uploader,   \* files.uploaded_by
    None,       \* no folder, no item, no user
    MaxGrants,  \* bound: permissions that are ever inserted
    Grants,     \* the permissions that are given: pairs of a user and an item
    Faults      \* what may go wrong: "db"

Item == Folder \cup File
Grant == 1..MaxGrants
Bulk == {"bulk", "bulk_delete"}
OnFolder == {"open", "link_folder", "rename_folder", "delete_folder"}
OnFile == {"preview", "download", "link", "rename", "move", "delete"} \cup Bulk

ASSUME BrowsingAssumption ==
    /\ Role \in [User -> {"admin", "editor", "viewer"}]
    /\ First \subseteq Folder /\ IsFiniteSet(First)
    /\ Folder \cap File = {} /\ None \notin Item \cup User
    /\ Uploader \in [File -> User]
    /\ MaxGrants \in Nat
    /\ Grants \subseteq User \X Item
    /\ Faults \subseteq {"db"}

VARIABLES
    folders,    \* the folders there are
    parent,     \* folders.parent_id, also of those that were deleted
    owner,      \* folders.owner_id, likewise
    used,       \* ids of folders that were ever given
    active,     \* files whose status is "active"; the others are in the trash
    at,         \* files.folder_id
    granted,    \* of each permission: the user and the item; {}: no row
    grants,     \* permissions that were ever inserted
    me,         \* whose session it is
    pc,         \* where the request is
    place,      \* the folder of the page; None: the top, or no folder at all
    cur,        \* where buildBreadcrumbs is
    click,      \* what is clicked on
    excuse      \* that has not been on offer any more at some time (history)

tree == <<folders, parent, owner, used>>
files == <<active, at>>
perms == <<granted, grants>>
tables == <<tree, files, perms>>
tab == <<pc, place, cur, click>>
vars == <<tables, me, tab, excuse>>

(* A click: on which page it was offered, what it is, on which folder, file *)
(* or files, the folder they go to, the permission and its user.            *)
Click == [page : {"none", "folder", "crumbs", "search", "permissions"},
          kind : {"none", "new_folder", "grant", "revoke"} \cup OnFolder \cup OnFile,
          on : SUBSET Item, to : Folder \cup {None}, row : Grant \cup {0},
          user : User \cup {None}]
NoClick == [page |-> "none", kind |-> "none", on |-> {}, to |-> None, row |-> 0, user |-> None]
On(p, k, S) == [NoClick EXCEPT !.page = p, !.kind = k, !.on = S]

Init ==
    /\ folders = First
    /\ parent = [d \in Folder |-> None]
    /\ owner \in [Folder -> User \cup {None}]
    /\ \A d \in Folder : owner[d] = None <=> d \notin First
    /\ used = First
    /\ active = File
    /\ at = [f \in File |-> None]
    /\ granted = [g \in Grant |-> {}]
    /\ grants = 0
    /\ me \in User
    /\ pc = "idle"
    /\ place = None
    /\ cur = None
    /\ click = NoClick
    /\ excuse = FALSE

-----------------------------------------------------------------------------
(* The statements that change tables, whoever issues them.                  *)

Slip_InsertFolderTrustsParent(p, u) ==
    /\ \E d \in Folder \ used :
        /\ folders' = folders \cup {d}
        /\ used' = used \cup {d}
        /\ parent' = [parent EXCEPT ![d] = p]
        /\ owner' = [owner EXCEPT ![d] = u]
    /\ UNCHANGED <<files, perms>>

(* CreateFolder: parent_id REFERENCES folders.                              *)
InsertFolder(p, u) ==
    /\ p \in folders \cup {None}
    /\ \E d \in Folder \ used :
        /\ folders' = folders \cup {d}
        /\ used' = used \cup {d}
        /\ parent' = [parent EXCEPT ![d] = p]
        /\ owner' = [owner EXCEPT ![d] = u]
    /\ UNCHANGED <<files, perms>>

(* A folder and all that are below it.                                      *)
Below(d) ==
    LET grown[n \in Nat] ==
            IF n = 0 THEN {d}
            ELSE grown[n - 1] \cup {e \in folders : parent[e] \in grown[n - 1]}
    IN  grown[Cardinality(folders)]

Slip_DropFolderKeepsFiles(d) ==
    /\ folders' = folders \ Below(d)
    /\ UNCHANGED <<parent, owner, used, files, perms>>

(* DeleteFolder: parent_id ... ON DELETE CASCADE, files.folder_id ... ON    *)
(* DELETE SET NULL; permissions stay.                                       *)
DropFolder(d) ==
    /\ folders' = folders \ Below(d)
    /\ at' = [f \in File |-> IF at[f] \in Below(d) THEN None ELSE at[f]]
    /\ UNCHANGED <<parent, owner, used, active, perms>>

(* MoveFileToFolder, MoveFilesToFolder: those that are active.              *)
SetFolder(S, d) ==
    /\ d \in folders \cup {None}
    /\ at' = [f \in File |-> IF f \in S \cap active THEN d ELSE at[f]]
    /\ UNCHANGED <<tree, active, perms>>

(* SoftDeleteFile, SoftDeleteFilesMany.                                     *)
Trash(S) ==
    /\ active' = active \ S
    /\ UNCHANGED <<tree, at, perms>>

Holding(u, i) == {g \in Grant : granted[g] = {<<u, i>>}}

Slip_UpsertInserts(u, i) ==
    /\ grants < MaxGrants
    /\ grants' = grants + 1
    /\ granted' = [granted EXCEPT ![grants'] = {<<u, i>>}]
    /\ UNCHANGED <<tree, files>>

(* GrantPermission: a second one for the same user and item only changes    *)
(* the level of the first.                                                  *)
Upsert(u, i) ==
    /\ \/ Holding(u, i) # {} /\ UNCHANGED perms
       \/ /\ Holding(u, i) = {}
          /\ grants < MaxGrants
          /\ grants' = grants + 1
          /\ granted' = [granted EXCEPT ![grants'] = {<<u, i>>}]
    /\ UNCHANGED <<tree, files>>

(* RevokePermission.                                                        *)
DropGrant(g) ==
    /\ granted' = [granted EXCEPT ![g] = {}]
    /\ UNCHANGED <<tree, files, grants>>

(* What other sessions do meanwhile.                                        *)
Others ==
    /\ \/ \E p \in folders \cup {None}, u \in User : Role[u] # "viewer" /\ InsertFolder(p, u)
       \/ \E d \in folders : DropFolder(d)
       \/ \E f \in active, d \in folders \cup {None} : SetFolder({f}, d)
       \/ \E f \in active : Trash({f})
       \/ \E f \in File \ active : active' = active \cup {f} /\ UNCHANGED <<tree, at, perms>>
       \/ \E g \in Grants : Upsert(g[1], g[2])
       \/ \E g \in Grant : granted[g] # {} /\ DropGrant(g)
    /\ UNCHANGED <<me, tab>>

-----------------------------------------------------------------------------
(* Who may do what: acl.go, CheckPermission, and the listings' WHERE.       *)

IsAdmin == Role[me] = "admin"
CanEdit == Role[me] \in {"admin", "editor"}
CanAccess(u) == IsAdmin \/ me = u
HasPermission(i) == Holding(me, i) # {}

(* ListRootFolders, ListFoldersByParent, and ...ForUser.                    *)
ListedFolders(p) ==
    {d \in folders : parent[d] = p /\ (IsAdmin \/ owner[d] = me \/ HasPermission(d))}

(* ListFilesPage, ListRootFilesForUser, ListFilesByFolderForUser.           *)
ListedFiles(p) ==
    {f \in active : at[f] = p /\ (IsAdmin \/ Uploader[f] = me \/ HasPermission(f))}

(* FileCard: what its menu, and the selection of several cards, can do.     *)
FileOffers(p, S) ==
    LET mine == {f \in S : IsAdmin \/ (Role[me] = "editor" /\ Uploader[f] = me)} IN
    {On(p, k, {f}) : k \in {"preview", "download", "link"}, f \in S}
    \cup {On(p, k, {f}) : k \in {"rename", "delete"}, f \in mine}
    \cup {[On(p, "move", {f}) EXCEPT !.to = d] : f \in mine, d \in folders \cup {None}}
    \cup {[On(p, "bulk", T) EXCEPT !.to = d] :
            T \in IF CanEdit THEN (SUBSET S) \ {{}} ELSE {}, d \in folders \cup {None}}
    \cup {On(p, "bulk_delete", T) : T \in IF CanEdit THEN (SUBSET S) \ {{}} ELSE {}}

(* FolderCard: everybody gets the whole menu.                               *)
FolderOffers(p, S) == {On(p, k, {d}) : k \in OnFolder, d \in S}

(* The button for a new folder.                                             *)
Toolbar == IF CanEdit THEN {[On("folder", "new_folder", {}) EXCEPT !.to = place]} ELSE {}

(* Of a permission page: what it lists can be revoked, and more granted.    *)
OnPermission(k, i, g, u) == [On("permissions", k, {i}) EXCEPT !.row = g, !.user = u]

PermissionOffers(i) ==
    (UNION {{OnPermission("revoke", i, g, u) : g \in Holding(u, i)} : u \in User})
    \cup {OnPermission("grant", i, 0, u) : u \in {v \in User : <<v, i>> \in Grants}}

The(S) == CHOOSE i \in S : TRUE

(* Would a page that is read now still offer the click?  The folder it was  *)
(* seen in does not matter.                                                 *)
StillOffered(c) ==
    /\ c.kind \in OnFile => \A f \in c.on : \E p \in Folder \cup {None} : f \in ListedFiles(p)
    /\ c.kind \in OnFolder => \E p \in Folder \cup {None} : The(c.on) \in ListedFolders(p)
    /\ c.to \in folders \cup {None}
    /\ c.kind = "revoke" => c.row \in Holding(c.user, The(c.on))

-----------------------------------------------------------------------------
(* Pages, statement by statement.  What is clicked on in the end is chosen  *)
(* from what the statements find.                                           *)

Goto(p) == pc' = p
Choose(C) == click' \in {click} \cup C
Still == <<tables, me>>

(* List: the top of the tree.                                               *)
LookAtTop ==
    /\ pc = "idle"
    /\ Goto("folders")
    /\ UNCHANGED <<Still, place, cur, click>>

(* ListRootFolders, ListFoldersByParent, or those for a user.               *)
ReadFolders ==
    /\ pc = "folders"
    /\ Goto("files")
    /\ Choose(FolderOffers("folder", ListedFolders(place)) \cup Toolbar)
    /\ UNCHANGED <<Still, place, cur>>

(* ListFilesPage and CountFiles, or ListFilesByFolderForUser.               *)
ReadFiles ==
    /\ pc = "files"
    /\ Goto(IF place = None THEN "shown" ELSE "crumbs")
    /\ Choose(FileOffers("folder", ListedFiles(place)))
    /\ cur' = place
    /\ UNCHANGED <<Still, place>>

(* buildBreadcrumbs: one GetFolder; every folder it finds becomes a link,   *)
(* and the first that it does not find, or an error, ends the walk.         *)
ReadCrumb ==
    /\ pc = "crumbs"
    /\ \/ /\ parent[cur] \in folders
          /\ cur' = parent[cur]
          /\ Choose({On("crumbs", "open", {cur'})})
          /\ UNCHANGED pc
       \/ /\ parent[cur] \notin folders \/ "db" \in Faults
          /\ Goto("shown")
          /\ cur' = None
          /\ UNCHANGED click
    /\ UNCHANGED <<Still, place>>

(* Search: SearchFiles, then SearchFolders, of everybody.                   *)
LookFor ==
    /\ pc = "idle"
    /\ Goto("search_files")
    /\ UNCHANGED <<Still, place, cur, click>>

SearchFiles ==
    /\ pc = "search_files"
    /\ Goto("search_folders")
    /\ Choose(FileOffers("search", active))
    /\ UNCHANGED <<Still, place, cur>>

SearchFolders ==
    /\ pc = "search_folders"
    /\ Goto("shown")
    /\ Choose(FolderOffers("search", folders))
    /\ UNCHANGED <<Still, place, cur>>

(* ListPermissionsForResource, of an item that need not exist any more.     *)
LookAtPermissions ==
    /\ pc = "idle"
    /\ IsAdmin
    /\ Goto("shown")
    /\ \E i \in {g[2] : g \in Grants} : Choose(PermissionOffers(i))
    /\ UNCHANGED <<Still, place, cur>>

(* The page is left, or the answer to the click was seen.                   *)
Idle ==
    /\ Goto("idle")
    /\ place' = None
    /\ cur' = None
    /\ click' = NoClick

Leave ==
    /\ pc \in {"shown", "served", "refused", "amiss"}
    /\ Idle
    /\ UNCHANGED Still

(* A database error that is told: 500.                                      *)
Error ==
    /\ "db" \in Faults
    /\ \/ pc \in {"folders", "files", "search_files", "search_folders", "act"}
       \/ pc = "read" /\ click.kind \in Bulk
    /\ Idle
    /\ UNCHANGED Still

(* A database error that is taken for "not found", of an item, or for "no   *)
(* permission": the answer is a 404 or a 403 that nobody has a reason for.  *)
Amiss ==
    /\ "db" \in Faults
    /\ \/ pc \in {"folder", "access", "perm"}
       \/ pc = "read" /\ click.kind \notin Bulk
    /\ Goto("amiss")
    /\ UNCHANGED <<Still, place, cur, click>>

-----------------------------------------------------------------------------
(* Requests that a click sends.                                             *)

Run ==
    /\ pc = "shown"
    /\ click # NoClick
    /\ Goto(CASE click.kind = "open" -> "folder"
              [] click.kind \in {"new_folder", "move", "grant", "revoke"} -> "act"
              [] OTHER -> "read")
    /\ UNCHANGED <<Still, place, cur, click>>

(* The listing of the folder follows.                                       *)
Enter ==
    /\ Goto("folders")
    /\ place' = The(click.on)
    /\ click' = NoClick

(* ListFolder: GetFolder, and who may see it.                               *)
ReadFolder ==
    LET d == The(click.on) IN
    /\ pc = "folder"
    /\ \/ d \in folders /\ CanAccess(owner[d]) /\ Enter
       \/ d \in folders /\ ~CanAccess(owner[d]) /\ Goto("access") /\ UNCHANGED <<place, click>>
       \/ d \notin folders /\ Goto("refused") /\ UNCHANGED <<place, click>>
    /\ UNCHANGED <<Still, cur>>

CheckFolder ==
    /\ pc = "access"
    /\ \/ HasPermission(The(click.on)) /\ Enter
       \/ ~HasPermission(The(click.on)) /\ Goto("refused") /\ UNCHANGED <<place, click>>
    /\ UNCHANGED <<Still, cur>>

Own(S) == IsAdmin \/ \A f \in S : Uploader[f] = me

(* GetFolder, GetFile or GetFilesByIDs, and what each handler demands.      *)
May(c) ==
    CASE c.kind = "link_folder" -> CanEdit /\ The(c.on) \in folders
      [] c.kind = "link" -> CanEdit /\ c.on \subseteq active
      [] c.kind \in {"rename_folder", "delete_folder"} ->
            The(c.on) \in folders /\ CanAccess(owner[The(c.on)])
      [] c.kind = "preview" -> c.on \subseteq active
      [] c.kind = "download" -> c.on \subseteq active /\ Own(c.on)
      [] c.kind \in {"rename", "delete"} -> CanEdit /\ Own(c.on)
      [] c.kind \in Bulk -> CanEdit /\ c.on \subseteq active /\ Own(c.on)

ReadItem ==
    /\ pc = "read"
    /\ \/ /\ May(click)
          /\ Goto(CASE click.kind = "download" -> "served"
                    [] click.kind = "preview" -> IF Own(click.on) THEN "served" ELSE "perm"
                    [] OTHER -> "act")
       \/ ~May(click) /\ Goto("refused")
    /\ UNCHANGED <<Still, place, cur, click>>

Slip_CheckFileNever ==
    /\ pc = "perm"
    /\ Goto("refused")
    /\ UNCHANGED <<Still, place, cur, click>>

(* PreviewFile: CheckPermission.                                            *)
CheckFile ==
    /\ pc = "perm"
    /\ Goto(IF HasPermission(The(click.on)) THEN "served" ELSE "refused")
    /\ UNCHANGED <<Still, place, cur, click>>

(* The statement a click is about; the audit log entry is left out, and of  *)
(* a link that a folder it REFERENCES exists is all that matters here.  An  *)
(* UPDATE or DELETE of rows that are gone succeeds, unless it returns them. *)
Statement(c) ==
    CASE c.kind = "new_folder" -> InsertFolder(c.to, me)
      [] c.kind \in {"rename_folder", "link_folder"} -> The(c.on) \in folders /\ UNCHANGED tables
      [] c.kind = "delete_folder" -> DropFolder(The(c.on))
      [] c.kind = "rename" -> c.on \subseteq active /\ UNCHANGED tables
      [] c.kind = "link" -> UNCHANGED tables
      [] c.kind \in {"delete", "bulk_delete"} -> Trash(c.on)
      [] c.kind = "move" -> c.to # None /\ c.on \subseteq active /\ SetFolder(c.on, c.to)
      [] c.kind = "bulk" -> SetFolder(c.on, c.to)
      [] c.kind = "grant" -> Upsert(c.user, The(c.on))
      [] c.kind = "revoke" -> DropGrant(c.row)

(* Or it fails: a folder that is referenced does not exist, or the row to   *)
(* return.  The card's entry for no folder at all sends a form, which       *)
(* MoveFile does not decode.                                                *)
Fails(c) ==
    \/ c.to \notin folders \cup {None}
    \/ c.kind \in {"rename_folder", "link_folder"} /\ The(c.on) \notin folders
    \/ c.kind \in {"rename", "move"} /\ ~(c.on \subseteq active)
    \/ c.kind = "move" /\ c.to = None

Act ==
    /\ pc = "act"
    /\ \/ Statement(click) /\ Goto("served")
       \/ Fails(click) /\ Goto("refused") /\ UNCHANGED tables
    /\ UNCHANGED <<me, place, cur, click>>

-----------------------------------------------------------------------------
Session ==
    \/ LookAtTop \/ ReadFolders \/ ReadFiles \/ ReadCrumb
    \/ LookFor \/ SearchFiles \/ SearchFolders \/ LookAtPermissions
    \/ Run \/ ReadFolder \/ CheckFolder \/ ReadItem \/ CheckFile \/ Act
    \/ Leave \/ Error \/ Amiss

(* History: has what is clicked on been gone from the listings since it was *)
(* seen?                                                                    *)
Excuse ==
    excuse' = (/\ click' # NoClick
               /\ ~StillOffered(click)' \/ (click' = click /\ excuse))

Next ==
    /\ Session \/ Others
    /\ Excuse

Spec == Init /\ [][Next]_vars
-----------------------------------------------------------------------------
(* The variables hold what their columns and locals hold; a file's folder   *)
(* exists.                                                                  *)
TypeOK ==
    /\ folders \subseteq used /\ used \subseteq Folder
    /\ parent \in [Folder -> Folder \cup {None}]
    /\ owner \in [Folder -> User \cup {None}]
    /\ active \subseteq File
    /\ at \in [File -> folders \cup {None}]
    /\ granted \in [Grant -> SUBSET (User \X Item)]
    /\ grants \in 0..MaxGrants
    /\ me \in User
    /\ pc \in {"idle", "folders", "files", "crumbs", "search_files", "search_folders", "shown",
               "folder", "access", "read", "perm", "act", "served", "refused", "amiss"}
    /\ place \in Folder \cup {None}
    /\ cur \in Folder \cup {None}
    /\ click \in Click
    /\ excuse \in BOOLEAN

(* Whatever is created, moved and deleted, and in whatever order: no folder *)
(* is in one that has gone, so an admin, who is listed everything, gets to  *)
(* every folder, and to the files in it, by opening folders from the top.   *)
(* Others need not get to what is theirs: below a folder that is not shared *)
(* with them it is neither listed nor opened from there.                    *)
AllReachable == folders = UNION {Below(d) : d \in {e \in folders : parent[e] = None}}

(* What pages offer although the handler will turn it down: a search finds  *)
(* everybody's files and folders; breadcrumbs lead to folders that are not  *)
(* shared with the user; a permission is enough to be shown a card, whose   *)
(* menu, and the selection of several, then offer what only the owner may   *)
(* do; every card has "Copy link", which viewers may not do; and a file's   *)
(* card has an entry for no folder at all.                                  *)
OfferedAnyway(c) ==
    \/ c.page \in {"search", "crumbs"} /\ ~IsAdmin
    \/ c.kind \in {"rename_folder", "delete_folder"} /\ ~CanAccess(owner[The(c.on)])
    \/ c.kind \in {"download"} \cup Bulk /\ ~Own(c.on)
    \/ c.kind \in {"link", "link_folder"} /\ ~CanEdit
    \/ c.kind = "move" /\ c.to = None

(* Apart from those, what a page offers is not turned down unless somebody  *)
(* has moved, deleted or revoked it since it was offered: the listings, the *)
(* cards and the handlers agree on who may do what.  An answer that hides a *)
(* database error, "amiss", has nothing to do with that.                    *)
RefusalHasReason == pc = "refused" /\ ~OfferedAnyway(click) => excuse

(* After "Access revoked" the user has no permission for the item left, if  *)
(* the page was not out of date.                                            *)
RevokeEnds ==
    [][click.kind = "revoke" /\ pc = "act" /\ pc' = "served" /\ ~excuse
        => Holding(click.user, The(click.on))' = {}]_vars
=============================================================================
