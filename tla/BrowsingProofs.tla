--------------------------- MODULE BrowsingProofs ---------------------------
(***************************************************************************)
(* Proofs about Browsing, for any users, roles, folders, files and          *)
(* permissions: what a page offers is not turned down without a reason, and *)
(* what is revoked is gone.                                                 *)
(***************************************************************************)
EXTENDS Browsing, FiniteSetTheorems, WellFoundedInduction, TLAPS

USE BrowsingAssumption DEF Item, Grant, OnFolder, OnFile, Bulk

-----------------------------------------------------------------------------
(* The tables are of their types, a folder's file exists, and nobody has    *)
(* two permissions for one item.                                            *)
TablesOK ==
    /\ folders \subseteq used /\ used \subseteq Folder
    /\ parent \in [Folder -> Folder \cup {None}]
    /\ owner \in [Folder -> User \cup {None}]
    /\ active \subseteq File
    /\ at \in [File -> folders \cup {None}]
    /\ granted \in [Grant -> SUBSET (User \X Item)]
    /\ grants \in 0..MaxGrants

OneGrantEach ==
    /\ \A g \in Grant : g > grants => granted[g] = {}
    /\ \A g, h \in Grant : granted[g] = granted[h] /\ granted[g] # {} => g = h

(* What a click can be, given who makes it.                                 *)
Fits(c) ==
    /\ c \in Click
    /\ c.kind = "none" => c = NoClick
    /\ c.kind \in OnFolder => \E d \in used : c.on = {d}
    /\ c.kind \in {"preview", "download", "link", "rename", "move", "delete"} => \E f \in File : c.on = {f}
    /\ c.kind \in {"rename", "delete"} \cup Bulk => CanEdit
    /\ c.kind \in {"rename", "delete"} => Own(c.on)
    /\ c.kind \in {"grant", "revoke"} => c.user \in User /\ \E i \in Item : c.on = {i}
    /\ c.kind = "revoke" => c.row \in Grant

(* Where a request is, and what has been found out about it.                *)
Underway ==
    /\ pc = "folder" => click.kind = "open"
    /\ pc = "access" => click.kind = "open" /\ ~CanAccess(owner[The(click.on)])
    /\ pc = "read" => click.kind \in {"link_folder", "rename_folder", "delete_folder", "preview", "download", "link",
                                      "rename", "delete"} \cup Bulk
    /\ pc = "perm" => click.kind = "preview" /\ ~Own(click.on)
    /\ pc = "act" => click.kind \in {"new_folder", "link_folder", "rename_folder", "delete_folder", "link", "rename",
                                     "move", "delete", "grant", "revoke"} \cup Bulk
    /\ pc = "refused" => click # NoClick

(* What is clicked on is on offer, or has an excuse.                        *)
Offered == click # NoClick => StillOffered(click) \/ excuse

Inductive ==
    /\ TypeOK /\ OneGrantEach
    /\ Fits(click) /\ Underway /\ Offered
    /\ RefusalHasReason

-----------------------------------------------------------------------------
(* The element of a set of one.                                             *)
LEMMA OfOne ==
    ASSUME NEW S, NEW x, S = {x}
    PROVE  The(S) = x
BY DEF The

(* It holds before the first request.                                       *)
THEOREM InitInductive == Init => Inductive
<1> SUFFICES ASSUME Init PROVE Inductive
  OBVIOUS
<1>1. NoClick \in Click
  BY DEF NoClick, Click
<1>2. 0 \in 0..MaxGrants
  OBVIOUS
<1>3. TypeOK
  BY <1>1, <1>2 DEF Init, TypeOK
<1>4. OneGrantEach
  BY DEF Init, OneGrantEach
<1>5. Fits(click)
  BY <1>1 DEF Init, Fits, NoClick
<1>6. Underway /\ Offered /\ RefusalHasReason
  BY DEF Init, Underway, Offered, RefusalHasReason
<1> QED
  BY <1>3, <1>4, <1>5, <1>6 DEF Inductive

-----------------------------------------------------------------------------
(* Statements.  They keep the tables in order, never take an id back, and   *)
(* never change whose a folder is.                                          *)
Kept ==
    /\ TablesOK' /\ OneGrantEach'
    /\ used \subseteq used'
    /\ \A d \in used : owner'[d] = owner[d]

LEMMA NothingDone ==
    ASSUME TablesOK, OneGrantEach, UNCHANGED tables
    PROVE  Kept
BY DEF tables, tree, files, perms, Kept, TablesOK, OneGrantEach

LEMMA InsertFolderKeeps ==
    ASSUME TablesOK, OneGrantEach, NEW p, NEW u \in User, InsertFolder(p, u)
    PROVE  Kept
<1>1. PICK d \in Folder \ used :
        /\ folders' = folders \cup {d}
        /\ used' = used \cup {d}
        /\ parent' = [parent EXCEPT ![d] = p]
        /\ owner' = [owner EXCEPT ![d] = u]
  BY DEF InsertFolder
<1>2. p \in Folder \cup {None} /\ UNCHANGED <<active, at, granted, grants>>
  BY DEF InsertFolder, TablesOK, files, perms
<1>3. TablesOK'
  BY <1>1, <1>2 DEF TablesOK
<1>4. OneGrantEach'
  BY <1>2 DEF OneGrantEach
<1>5. used \subseteq used' /\ \A e \in used : owner'[e] = owner[e]
  BY <1>1 DEF TablesOK
<1> QED
  BY <1>3, <1>4, <1>5 DEF Kept

LEMMA DropFolderKeeps ==
    ASSUME TablesOK, OneGrantEach, NEW d, DropFolder(d)
    PROVE  Kept
<1>1. /\ UNCHANGED <<parent, owner, used, active, granted, grants>>
      /\ folders' = folders \ Below(d)
      /\ at' = [f \in File |-> IF at[f] \in Below(d) THEN None ELSE at[f]]
  BY DEF DropFolder, perms
<1>2. at' \in [File -> folders' \cup {None}]
  BY <1>1 DEF TablesOK
<1>3. TablesOK' /\ OneGrantEach'
  BY <1>1, <1>2 DEF TablesOK, OneGrantEach
<1> QED
  BY <1>1, <1>3 DEF Kept

LEMMA SetFolderKeeps ==
    ASSUME TablesOK, OneGrantEach, NEW S, NEW d, SetFolder(S, d)
    PROVE  Kept
<1>1. /\ UNCHANGED <<folders, parent, owner, used, active, granted, grants>>
      /\ d \in folders \cup {None}
      /\ at' = [f \in File |-> IF f \in S \cap active THEN d ELSE at[f]]
  BY DEF SetFolder, tree, perms
<1>2. TablesOK' /\ OneGrantEach'
  BY <1>1 DEF TablesOK, OneGrantEach
<1> QED
  BY <1>1, <1>2 DEF Kept

LEMMA UpsertKeeps ==
    ASSUME TablesOK, OneGrantEach, NEW u \in User, NEW i \in Item, Upsert(u, i)
    PROVE  Kept
<1>1. UNCHANGED <<folders, parent, owner, used, active, at>>
  BY DEF Upsert, tree, files
<1>2. CASE UNCHANGED perms
  BY <1>1, <1>2, NothingDone DEF tables, tree, files
<1>3. CASE /\ Holding(u, i) = {}
           /\ grants < MaxGrants
           /\ grants' = grants + 1
           /\ granted' = [granted EXCEPT ![grants'] = {<<u, i>>}]
  <2>1. grants' \in Grant /\ grants' \in 0..MaxGrants
    BY <1>3 DEF TablesOK
  <2>2. granted' = [granted EXCEPT ![grants + 1] = {<<u, i>>}] /\ grants + 1 \in Grant /\ grants \in Nat
    BY <1>3, <2>1 DEF TablesOK
  <2>3. granted' \in [Grant -> SUBSET (User \X Item)]
    BY <2>2 DEF TablesOK
  <2>4. TablesOK'
    BY <1>1, <2>1, <2>3 DEF TablesOK
  <2>5. \A g \in Grant : granted'[g] = IF g = grants + 1 THEN {<<u, i>>} ELSE granted[g]
    BY <2>2 DEF TablesOK
  <2>6. \A g \in Grant : granted[g] # {<<u, i>>}
    BY <1>3 DEF Holding
  <2>7. \A g \in Grant : g > grants' => granted'[g] = {}
    BY <1>3, <2>2, <2>5 DEF OneGrantEach
  <2>8. \A g, h \in Grant : granted'[g] = granted'[h] /\ granted'[g] # {} => g = h
    BY <2>5, <2>6 DEF OneGrantEach
  <2> QED
    BY <1>1, <2>4, <2>7, <2>8 DEF Kept, OneGrantEach
<1> QED
  BY <1>2, <1>3 DEF Upsert

LEMMA DropGrantKeeps ==
    ASSUME TablesOK, OneGrantEach, NEW g \in Grant, DropGrant(g)
    PROVE  Kept
<1>1. /\ UNCHANGED <<folders, parent, owner, used, active, at, grants>>
      /\ granted' = [granted EXCEPT ![g] = {}]
  BY DEF DropGrant, tree, files
<1>2. granted' \in [Grant -> SUBSET (User \X Item)]
  BY <1>1 DEF TablesOK
<1>3. TablesOK'
  BY <1>1, <1>2 DEF TablesOK
<1>4. \A h \in Grant : granted'[h] = IF h = g THEN {} ELSE granted[h]
  BY <1>1 DEF TablesOK
<1>5. OneGrantEach'
  BY <1>1, <1>4 DEF OneGrantEach
<1> QED
  BY <1>1, <1>3, <1>5 DEF Kept

LEMMA TrashKeeps ==
    ASSUME TablesOK, OneGrantEach, active' \subseteq File, UNCHANGED <<tree, at, perms>>
    PROVE  Kept
BY DEF Kept, TablesOK, OneGrantEach, tree, perms

LEMMA OthersKeep ==
    ASSUME TablesOK, OneGrantEach, Others
    PROVE  Kept
<1>1. CASE \E p \in folders \cup {None}, u \in User : Role[u] # "viewer" /\ InsertFolder(p, u)
  BY <1>1, InsertFolderKeeps
<1>2. CASE \E d \in folders : DropFolder(d)
  BY <1>2, DropFolderKeeps
<1>3. CASE \E f \in active, d \in folders \cup {None} : SetFolder({f}, d)
  BY <1>3, SetFolderKeeps
<1>4. CASE \E f \in active : Trash({f})
  <2>1. active' \subseteq File
    BY <1>4 DEF TablesOK, Trash
  <2> QED
    BY <1>4, <2>1, TrashKeeps DEF Trash
<1>5. CASE \E f \in File \ active : active' = active \cup {f} /\ UNCHANGED <<tree, at, perms>>
  <2>1. active' \subseteq File
    BY <1>5 DEF TablesOK
  <2> QED
    BY <1>5, <2>1, TrashKeeps
<1>6. CASE \E g \in Grants : Upsert(g[1], g[2])
  BY <1>6, UpsertKeeps
<1>7. CASE \E g \in Grant : granted[g] # {} /\ DropGrant(g)
  BY <1>7, DropGrantKeeps
<1> QED
  BY <1>1, <1>2, <1>3, <1>4, <1>5, <1>6, <1>7 DEF Others

LEMMA StatementKeeps ==
    ASSUME Inductive, pc = "act", Statement(click)
    PROVE  Kept
<1>1. TablesOK /\ OneGrantEach /\ me \in User
  BY DEF Inductive, TypeOK, TablesOK
<1>2. /\ click.kind \in {"grant", "revoke"} => click.user \in User /\ The(click.on) \in Item
      /\ click.kind = "revoke" => click.row \in Grant
  BY OfOne DEF Inductive, Fits
<1>3. click.kind \in {"new_folder", "link_folder", "rename_folder", "delete_folder", "link", "rename", "move", "delete",
                      "grant", "revoke"} \cup Bulk
  BY DEF Inductive, Underway
<1>4. CASE click.kind = "new_folder"
  BY <1>1, <1>4, InsertFolderKeeps DEF Statement
<1>5. CASE click.kind \in {"rename_folder", "link_folder", "rename", "link"}
  BY <1>1, <1>5, NothingDone DEF Statement
<1>6. CASE click.kind = "delete_folder"
  BY <1>1, <1>6, DropFolderKeeps DEF Statement
<1>7. CASE click.kind \in {"move", "bulk"}
  BY <1>1, <1>7, SetFolderKeeps DEF Statement
<1>8. CASE click.kind = "grant"
  BY <1>1, <1>2, <1>8, UpsertKeeps DEF Statement
<1>9. CASE click.kind = "revoke"
  BY <1>1, <1>2, <1>9, DropGrantKeeps DEF Statement
<1>10. CASE click.kind \in {"delete", "bulk_delete"}
  <2>1. Trash(click.on)
    BY <1>10 DEF Statement
  <2>2. active' \subseteq File
    BY <1>1, <2>1 DEF TablesOK, Trash
  <2> QED
    BY <1>1, <2>1, <2>2, TrashKeeps DEF Trash
<1> QED
  BY <1>3, <1>4, <1>5, <1>6, <1>7, <1>8, <1>9, <1>10

-----------------------------------------------------------------------------
(* What holds of every step.                                                *)

LEMMA ExcuseStep ==
    ASSUME Excuse
    PROVE  /\ excuse' \in BOOLEAN
           /\ click' # NoClick /\ ~StillOffered(click)' => excuse'
           /\ click' # NoClick /\ click' = click /\ excuse => excuse'
BY DEF Excuse

(* What is clicked on as a folder was one.                                  *)
LEMMA ClickedFolder ==
    ASSUME NEW c, Fits(c), c.kind \in OnFolder
    PROVE  The(c.on) \in used
<1>1. PICK d \in used : c.on = {d}
  BY DEF Fits
<1>2. The(c.on) = d
  BY <1>1, OfOne
<1> QED
  BY <1>2

(* Who may click on what does not change, and neither does what is offered  *)
(* anyway.                                                                  *)
LEMMA FitsStays ==
    ASSUME NEW c, Fits(c), used \subseteq used', me' = me
    PROVE  Fits(c)'
BY DEF Fits, CanEdit, Own, IsAdmin

LEMMA ReasonStays ==
    ASSUME NEW c, Fits(c), me' = me, \A d \in used : owner'[d] = owner[d]
    PROVE  OfferedAnyway(c)' <=> OfferedAnyway(c)
<1>1. c.kind \in OnFolder => The(c.on) \in used
  BY ClickedFolder
<1>2. c.kind \in {"rename_folder", "delete_folder"} => owner'[The(c.on)] = owner[The(c.on)]
  BY <1>1
<1>3. (IsAdmin' <=> IsAdmin) /\ (CanEdit' <=> CanEdit) /\ (Own(c.on)' <=> Own(c.on))
  BY DEF IsAdmin, CanEdit, Own
<1>4. c.kind \in {"rename_folder", "delete_folder"} =>
        (CanAccess(owner[The(c.on)])' <=> CanAccess(owner[The(c.on)]))
  BY <1>2, <1>3 DEF CanAccess
<1> QED
  BY <1>3, <1>4 DEF OfferedAnyway

(* Steps of a page: what is going to be clicked on may be chosen.           *)
LEMMA PageStep ==
    ASSUME Inductive, Excuse, UNCHANGED <<tables, me>>,
           pc' \in {"idle", "folders", "files", "crumbs", "search_files", "search_folders", "shown"},
           place' \in Folder \cup {None}, cur' \in Folder \cup {None},
           NEW c, Fits(c), click' = c
    PROVE  Inductive'
<1>1. Kept
  BY NothingDone DEF Inductive, TypeOK, TablesOK
<1>2. Fits(c)'
  BY <1>1, FitsStays DEF Kept
<1>3. Fits(click)'
  BY <1>2 DEF Fits
<1>4. TypeOK'
  <2>1. click' \in Click
    BY <1>3 DEF Fits
  <2> QED
    BY <1>1, <2>1, ExcuseStep DEF Kept, TablesOK, Inductive, TypeOK
<1>5. Underway' /\ RefusalHasReason'
  BY DEF Underway, RefusalHasReason
<1>6. Offered'
  BY ExcuseStep DEF Offered
<1> QED
  BY <1>1, <1>3, <1>4, <1>5, <1>6 DEF Inductive, Kept

(* Steps of a request, and of other sessions.                               *)
LEMMA RequestStep ==
    ASSUME Inductive, Excuse, Kept, UNCHANGED <<me, place, cur, click>>,
           pc' \in {"idle", "folders", "files", "crumbs", "search_files", "search_folders", "shown",
                    "folder", "access", "read", "perm", "act", "served", "refused", "amiss"},
           Underway', pc' = "refused" => excuse \/ OfferedAnyway(click)
    PROVE  Inductive'
<1>1. \A c : c = click => Fits(c)' /\ (OfferedAnyway(c)' <=> OfferedAnyway(c))
  <2> SUFFICES ASSUME NEW c, c = click PROVE Fits(c)' /\ (OfferedAnyway(c)' <=> OfferedAnyway(c))
    OBVIOUS
  <2>1. Fits(c)
    BY DEF Inductive
  <2> QED
    BY <2>1, FitsStays, ReasonStays DEF Kept
<1>2. PICK c : c = click
  OBVIOUS
<1>3. Fits(c)' /\ (OfferedAnyway(c)' <=> OfferedAnyway(c)) /\ click' = c /\ click = c
  BY <1>1, <1>2
<1>4. Fits(click)'
  BY <1>3 DEF Fits
<1>5. TypeOK'
  <2>1. click' \in Click
    BY <1>4 DEF Fits
  <2> QED
    BY <2>1, ExcuseStep DEF Kept, TablesOK, Inductive, TypeOK
<1>6. Offered'
  BY ExcuseStep DEF Offered
<1>7. RefusalHasReason'
  <2> SUFFICES ASSUME pc' = "refused", ~OfferedAnyway(click)' PROVE excuse'
    BY DEF RefusalHasReason
  <2>1. OfferedAnyway(click)' <=> OfferedAnyway(c)'
    BY <1>3 DEF OfferedAnyway
  <2>2. ~OfferedAnyway(click)
    BY <1>3, <2>1
  <2>3. click # NoClick
    BY DEF Underway
  <2> QED
    BY <2>2, <2>3, ExcuseStep
<1> QED
  BY <1>4, <1>5, <1>6, <1>7 DEF Inductive, Kept

-----------------------------------------------------------------------------
(* What pages offer.                                                        *)

LEMMA FileOffersFit ==
    ASSUME TypeOK, NEW p \in {"folder", "search"}, NEW S \in SUBSET active, NEW c \in FileOffers(p, S)
    PROVE  Fits(c)
<1> DEFINE mine == {f \in S : IsAdmin \/ (Role[me] = "editor" /\ Uploader[f] = me)}
<1>1. S \subseteq File /\ folders \cup {None} \subseteq Folder \cup {None} /\ mine \subseteq S
  BY DEF TypeOK
<1>2. \A f \in mine : CanEdit /\ Own({f})
  BY DEF CanEdit, Own, IsAdmin
<1>3. ASSUME NEW k \in {"preview", "download", "link"}, NEW f \in S, c = On(p, k, {f}) PROVE Fits(c)
  <2>1. f \in File
    BY <1>1
  <2>2. c \in Click /\ c.kind = k /\ c.on = {f}
    BY <1>3, <2>1 DEF On, NoClick, Click
  <2> QED
    BY <2>1, <2>2 DEF Fits
<1>4. ASSUME NEW k \in {"rename", "delete"}, NEW f \in mine, c = On(p, k, {f}) PROVE Fits(c)
  <2>1. f \in File
    BY <1>1
  <2>2. c \in Click /\ c.kind = k /\ c.on = {f}
    BY <1>4, <2>1 DEF On, NoClick, Click
  <2> QED
    BY <1>2, <2>1, <2>2 DEF Fits
<1>5. ASSUME NEW f \in mine, NEW d \in folders \cup {None}, c = [On(p, "move", {f}) EXCEPT !.to = d] PROVE Fits(c)
  <2>1. f \in File /\ d \in Folder \cup {None}
    BY <1>1
  <2>2. c \in Click /\ c.kind = "move" /\ c.on = {f}
    BY <1>5, <2>1 DEF On, NoClick, Click
  <2> QED
    BY <2>1, <2>2 DEF Fits
<1>6. ASSUME NEW T \in SUBSET S, NEW d \in folders \cup {None}, CanEdit,
             c = [On(p, "bulk", T) EXCEPT !.to = d]
      PROVE  Fits(c)
  <2>1. T \subseteq File /\ d \in Folder \cup {None}
    BY <1>1
  <2>2. c \in Click /\ c.kind = "bulk"
    BY <1>6, <2>1 DEF On, NoClick, Click
  <2> QED
    BY <1>6, <2>2 DEF Fits
<1>7. ASSUME NEW T \in SUBSET S, CanEdit, c = On(p, "bulk_delete", T) PROVE Fits(c)
  <2>1. T \subseteq File
    BY <1>1
  <2>2. c \in Click /\ c.kind = "bulk_delete"
    BY <1>7, <2>1 DEF On, NoClick, Click
  <2> QED
    BY <1>7, <2>2 DEF Fits
<1> DEFINE card(k, f) == On(p, k, {f})
           moved(f, d) == [On(p, "move", {f}) EXCEPT !.to = d]
           Cards == {card(k, f) : k \in {"preview", "download", "link"}, f \in S}
           OwnCards == {card(k, f) : k \in {"rename", "delete"}, f \in mine}
           Moves == {moved(f, d) : f \in mine, d \in folders \cup {None}}
           Bulks == {[On(p, "bulk", T) EXCEPT !.to = d] :
                        T \in IF CanEdit THEN (SUBSET S) \ {{}} ELSE {}, d \in folders \cup {None}}
           Deletions == {On(p, "bulk_delete", T) : T \in IF CanEdit THEN (SUBSET S) \ {{}} ELSE {}}
<1>8. FileOffers(p, S) = Cards \cup OwnCards \cup Moves \cup Bulks \cup Deletions
  BY DEF FileOffers
<1>9. c \in Cards \/ c \in OwnCards \/ c \in Moves \/ c \in Bulks \/ c \in Deletions
  <2> HIDE DEF Cards, OwnCards, Moves, Bulks, Deletions
  <2> QED
    BY <1>8
<1> HIDE DEF mine
<1>10. CASE c \in Cards
  <2>1. PICK k \in {"preview", "download", "link"}, f \in S : c = card(k, f)
    <3> HIDE DEF card
    <3> QED
      BY <1>10
  <2> QED
    BY <1>3, <2>1
<1>11. CASE c \in OwnCards
  <2>1. PICK k \in {"rename", "delete"}, f \in mine : c = card(k, f)
    <3> HIDE DEF card
    <3> QED
      BY <1>11
  <2> QED
    BY <1>4, <2>1
<1>12. CASE c \in Moves
  <2>1. PICK f \in mine, d \in folders \cup {None} : c = moved(f, d)
    <3> HIDE DEF moved
    <3> QED
      BY <1>12
  <2> QED
    BY <1>5, <2>1
<1>13. CASE c \in Bulks
  <2>1. PICK T \in IF CanEdit THEN (SUBSET S) \ {{}} ELSE {}, d \in folders \cup {None} :
            c = [On(p, "bulk", T) EXCEPT !.to = d]
    BY <1>13
  <2>2. CanEdit /\ T \in SUBSET S
    OBVIOUS
  <2> QED
    BY <1>6, <2>1, <2>2
<1>14. CASE c \in Deletions
  <2>1. PICK T \in IF CanEdit THEN (SUBSET S) \ {{}} ELSE {} : c = On(p, "bulk_delete", T)
    BY <1>14
  <2>2. CanEdit /\ T \in SUBSET S
    OBVIOUS
  <2> QED
    BY <1>7, <2>1, <2>2
<1> HIDE DEF Cards, OwnCards, Moves, Bulks, Deletions
<1> QED
  BY <1>9, <1>10, <1>11, <1>12, <1>13, <1>14

LEMMA FolderClickFits ==
    ASSUME TypeOK, NEW p \in {"folder", "crumbs", "search"}, NEW k \in OnFolder, NEW d \in folders
    PROVE  Fits(On(p, k, {d}))
<1> DEFINE c == On(p, k, {d})
<1>1. d \in used /\ d \in Folder
  BY DEF TypeOK
<1>2. c \in Click /\ c.kind = k /\ c.on = {d}
  BY <1>1 DEF On, NoClick, Click
<1> HIDE DEF c
<1>3. Fits(c)
  BY <1>1, <1>2 DEF Fits
<1> QED
  BY <1>3 DEF c

LEMMA FolderOffersFit ==
    ASSUME TypeOK, NEW p \in {"folder", "search"}, NEW S \in SUBSET folders, NEW c \in FolderOffers(p, S)
    PROVE  Fits(c)
<1> DEFINE card(k, d) == On(p, k, {d})
<1>1. FolderOffers(p, S) = {card(k, d) : k \in OnFolder, d \in S}
  BY DEF FolderOffers
<1>2. PICK k \in OnFolder, d \in S : c = card(k, d)
  <2> HIDE DEF card
  <2> QED
    BY <1>1
<1> QED
  BY <1>2, FolderClickFits

LEMMA ToolbarFits ==
    ASSUME TypeOK, NEW c \in Toolbar
    PROVE  Fits(c)
<1>1. c = [On("folder", "new_folder", {}) EXCEPT !.to = place] /\ place \in Folder \cup {None}
  BY DEF Toolbar, TypeOK
<1>2. c \in Click /\ c.kind = "new_folder"
  BY <1>1 DEF On, NoClick, Click
<1> QED
  BY <1>2 DEF Fits

LEMMA PermissionOffersFit ==
    ASSUME TypeOK, NEW i \in Item, NEW c \in PermissionOffers(i)
    PROVE  Fits(c)
<1>1. PICK k \in {"grant", "revoke"}, g \in Grant \cup {0}, u \in User :
        c = OnPermission(k, i, g, u) /\ (k = "revoke" => g \in Grant)
  <2>1. ASSUME NEW u \in User, NEW g \in Holding(u, i), c = OnPermission("revoke", i, g, u)
        PROVE  \E k \in {"grant", "revoke"}, h \in Grant \cup {0}, v \in User :
                    c = OnPermission(k, i, h, v) /\ (k = "revoke" => h \in Grant)
    <3>1. g \in Grant
      BY DEF Holding
    <3> QED
      BY <2>1, <3>1
  <2>2. ASSUME NEW u \in User, c = OnPermission("grant", i, 0, u)
        PROVE  \E k \in {"grant", "revoke"}, h \in Grant \cup {0}, v \in User :
                    c = OnPermission(k, i, h, v) /\ (k = "revoke" => h \in Grant)
    BY <2>2
  <2>3. \/ \E u \in User : \E g \in Holding(u, i) : c = OnPermission("revoke", i, g, u)
        \/ \E u \in User : c = OnPermission("grant", i, 0, u)
    <3> DEFINE revocations(u) == {OnPermission("revoke", i, g, u) : g \in Holding(u, i)}
               Revocations == UNION {revocations(u) : u \in User}
               Givings == {OnPermission("grant", i, 0, u) : u \in {v \in User : <<v, i>> \in Grants}}
    <3>1. PermissionOffers(i) = Revocations \cup Givings
      BY DEF PermissionOffers
    <3>2. c \in Revocations \/ c \in Givings
      <4> HIDE DEF Revocations, Givings
      <4> QED
        BY <3>1
    <3>3. CASE c \in Revocations
      <4>1. PICK u \in User : c \in revocations(u)
        <5> HIDE DEF revocations
        <5> QED
          BY <3>3
      <4> QED
        BY <4>1
    <3>4. CASE c \in Givings
      BY <3>4
    <3> HIDE DEF Revocations, Givings
    <3> QED
      BY <3>2, <3>3, <3>4
  <2> QED
    BY <2>1, <2>2, <2>3
<1>2. c \in Click /\ c.kind = k /\ c.on = {i} /\ c.row = g /\ c.user = u
  BY <1>1 DEF OnPermission, On, NoClick, Click
<1> QED
  BY <1>1, <1>2 DEF Fits

LEMMA NoClickFits ==
    Fits(NoClick)
BY DEF Fits, NoClick, Click

-----------------------------------------------------------------------------
(* The steps of a page.                                                     *)

(* Whatever a statement finds to click on, or what was chosen before.       *)
LEMMA ChoiceFits ==
    ASSUME NEW C, Fits(click), \A c \in C : Fits(c), Choose(C)
    PROVE  \E c : Fits(c) /\ click' = c
BY DEF Choose

LEMMA LookStep ==
    ASSUME Inductive, Excuse, LookAtTop \/ LookFor
    PROVE  Inductive'
BY PageStep DEF LookAtTop, LookFor, Goto, Still, Inductive, TypeOK

LEMMA ReadFoldersStep ==
    ASSUME Inductive, Excuse, ReadFolders
    PROVE  Inductive'
<1> DEFINE C == FolderOffers("folder", ListedFolders(place)) \cup Toolbar
<1>1. \A c \in C : Fits(c)
  <2>1. TypeOK
    BY DEF Inductive
  <2>2. ListedFolders(place) \subseteq folders
    BY DEF ListedFolders
  <2>3. ASSUME NEW c \in FolderOffers("folder", ListedFolders(place)) PROVE Fits(c)
    BY <2>1, <2>2, FolderOffersFit
  <2>4. ASSUME NEW c \in Toolbar PROVE Fits(c)
    BY <2>1, ToolbarFits
  <2> QED
    BY <2>3, <2>4
<1>2. Choose(C) /\ UNCHANGED <<tables, me, place, cur>> /\ pc' = "files"
  BY DEF ReadFolders, Goto, Still
<1> HIDE DEF C
<1>3. PICK c : Fits(c) /\ click' = c
  BY <1>1, <1>2, ChoiceFits DEF Inductive
<1> QED
  BY <1>2, <1>3, PageStep DEF Inductive, TypeOK

LEMMA ReadFilesStep ==
    ASSUME Inductive, Excuse, ReadFiles
    PROVE  Inductive'
<1> DEFINE C == FileOffers("folder", ListedFiles(place))
<1>1. \A c \in C : Fits(c)
  <2>1. TypeOK /\ ListedFiles(place) \in SUBSET active
    BY DEF Inductive, ListedFiles
  <2> QED
    BY <2>1, FileOffersFit
<1>2. Choose(C) /\ UNCHANGED <<tables, me, place>> /\ pc' \in {"shown", "crumbs"} /\ cur' = place
  BY DEF ReadFiles, Goto, Still
<1> HIDE DEF C
<1>3. PICK c : Fits(c) /\ click' = c
  BY <1>1, <1>2, ChoiceFits DEF Inductive
<1> QED
  BY <1>2, <1>3, PageStep DEF Inductive, TypeOK

LEMMA ReadCrumbStep ==
    ASSUME Inductive, Excuse, ReadCrumb
    PROVE  Inductive'
<1>1. TypeOK /\ Fits(click) /\ UNCHANGED <<tables, me, place>> /\ pc = "crumbs"
  BY DEF ReadCrumb, Still, Inductive
<1>2. CASE /\ parent[cur] \in folders
           /\ cur' = parent[cur]
           /\ Choose({On("crumbs", "open", {cur'})})
           /\ UNCHANGED pc
  <2>1. Fits(On("crumbs", "open", {cur'}))
    BY <1>1, <1>2, FolderClickFits
  <2>2. PICK c : Fits(c) /\ click' = c
    BY <1>1, <1>2, <2>1, ChoiceFits
  <2>3. place' \in Folder \cup {None} /\ cur' \in Folder \cup {None}
    BY <1>1, <1>2 DEF TypeOK
  <2> QED
    BY <1>1, <1>2, <2>2, <2>3, PageStep
<1>3. CASE Goto("shown") /\ cur' = None /\ UNCHANGED click
  BY <1>1, <1>3, PageStep DEF Goto, TypeOK
<1> QED
  BY <1>2, <1>3 DEF ReadCrumb

LEMMA SearchFilesStep ==
    ASSUME Inductive, Excuse, SearchFiles
    PROVE  Inductive'
<1> DEFINE C == FileOffers("search", active)
<1>1. \A c \in C : Fits(c)
  BY FileOffersFit DEF Inductive
<1>2. Choose(C) /\ UNCHANGED <<tables, me, place, cur>> /\ pc' = "search_folders"
  BY DEF SearchFiles, Goto, Still
<1> HIDE DEF C
<1>3. PICK c : Fits(c) /\ click' = c
  BY <1>1, <1>2, ChoiceFits DEF Inductive
<1> QED
  BY <1>2, <1>3, PageStep DEF Inductive, TypeOK

LEMMA SearchFoldersStep ==
    ASSUME Inductive, Excuse, SearchFolders
    PROVE  Inductive'
<1> DEFINE C == FolderOffers("search", folders)
<1>1. \A c \in C : Fits(c)
  BY FolderOffersFit DEF Inductive
<1>2. Choose(C) /\ UNCHANGED <<tables, me, place, cur>> /\ pc' = "shown"
  BY DEF SearchFolders, Goto, Still
<1> HIDE DEF C
<1>3. PICK c : Fits(c) /\ click' = c
  BY <1>1, <1>2, ChoiceFits DEF Inductive
<1> QED
  BY <1>2, <1>3, PageStep DEF Inductive, TypeOK

LEMMA LookAtPermissionsStep ==
    ASSUME Inductive, Excuse, LookAtPermissions
    PROVE  Inductive'
<1>1. PICK i \in {g[2] : g \in Grants} : Choose(PermissionOffers(i))
  BY DEF LookAtPermissions
<1>2. i \in Item
  BY <1>1
<1>3. \A c \in PermissionOffers(i) : Fits(c)
  BY <1>2, PermissionOffersFit DEF Inductive
<1>4. PICK c : Fits(c) /\ click' = c
  BY <1>1, <1>3, ChoiceFits DEF Inductive
<1> QED
  BY <1>4, PageStep DEF LookAtPermissions, Goto, Still, Inductive, TypeOK

LEMMA IdleStep ==
    ASSUME Inductive, Excuse, Leave \/ Error
    PROVE  Inductive'
<1>1. Idle /\ UNCHANGED <<tables, me>>
  BY DEF Leave, Error, Still
<1>2. pc' = "idle" /\ place' = None /\ cur' = None /\ click' = NoClick
  BY <1>1 DEF Idle, Goto
<1> QED
  BY <1>1, <1>2, NoClickFits, PageStep

LEMMA EnterStep ==
    ASSUME Inductive, Excuse, Enter, click.kind = "open", UNCHANGED <<tables, me, cur>>
    PROVE  Inductive'
<1>1. PICK d \in used : click.on = {d}
  BY DEF Inductive, Fits
<1>2. The(click.on) = d /\ d \in Folder /\ cur \in Folder \cup {None}
  BY <1>1, OfOne DEF Inductive, TypeOK
<1>3. pc' = "folders" /\ place' \in Folder \cup {None} /\ cur' \in Folder \cup {None} /\ click' = NoClick
  BY <1>2 DEF Enter, Goto
<1> QED
  BY <1>3, NoClickFits, PageStep

-----------------------------------------------------------------------------
(* The steps of a request, and of other sessions.                           *)

(* What is still on offer is there, and may be seen.                        *)
LEMMA OfferedFolder ==
    ASSUME NEW c, StillOffered(c), c.kind \in OnFolder
    PROVE  /\ The(c.on) \in folders
           /\ CanAccess(owner[The(c.on)]) \/ HasPermission(The(c.on))
BY DEF StillOffered, ListedFolders, CanAccess

LEMMA OfferedFile ==
    ASSUME NEW c, StillOffered(c), c.kind \in OnFile
    PROVE  /\ c.on \subseteq active
           /\ \A f \in c.on : IsAdmin \/ Uploader[f] = me \/ HasPermission(f)
BY DEF StillOffered, ListedFiles

LEMMA RunStep ==
    ASSUME Inductive, Excuse, Run
    PROVE  Inductive'
<1>1. Kept /\ UNCHANGED <<me, place, cur, click>>
  BY NothingDone DEF Run, Still, Inductive, TypeOK, TablesOK
<1>2. click.kind \in {"new_folder", "grant", "revoke"} \cup OnFolder \cup OnFile
  BY DEF Run, Inductive, Fits, Click
<1>3. pc' = CASE click.kind = "open" -> "folder"
              [] click.kind \in {"new_folder", "move", "grant", "revoke"} -> "act"
              [] OTHER -> "read"
  BY DEF Run, Goto
<1>4. /\ pc' \in {"folder", "act", "read"}
      /\ pc' = "folder" => click.kind = "open"
      /\ pc' = "act" => click.kind \in {"new_folder", "move", "grant", "revoke"}
      /\ pc' = "read" => click.kind \in {"link_folder", "rename_folder", "delete_folder", "preview", "download", "link",
                                         "rename", "delete"} \cup Bulk
  BY <1>2, <1>3
<1>5. Underway'
  BY <1>1, <1>4 DEF Underway
<1> QED
  BY <1>1, <1>4, <1>5, RequestStep

LEMMA ReadFolderStep ==
    ASSUME Inductive, Excuse, ReadFolder
    PROVE  Inductive'
<1> DEFINE d == The(click.on)
<1>1. click.kind = "open" /\ click # NoClick /\ UNCHANGED <<tables, me, cur>>
  BY DEF ReadFolder, Still, Inductive, Underway, NoClick
<1>2. Kept
  BY <1>1, NothingDone DEF Inductive, TypeOK, TablesOK
<1>3. CASE Enter
  BY <1>1, <1>3, EnterStep
<1>4. CASE ~CanAccess(owner[d]) /\ Goto("access") /\ UNCHANGED <<place, click>>
  <2>1. ~CanAccess(owner[The(click.on)])'
    BY <1>1, <1>4 DEF CanAccess, IsAdmin, tables, tree
  <2>2. Underway'
    BY <1>1, <1>4, <2>1 DEF Underway, Goto
  <2> QED
    BY <1>1, <1>2, <1>4, <2>2, RequestStep DEF Goto
<1>5. CASE d \notin folders /\ Goto("refused") /\ UNCHANGED <<place, click>>
  <2>1. excuse
    BY <1>1, <1>5, OfferedFolder DEF Inductive, Offered
  <2>2. Underway'
    BY <1>1, <1>5 DEF Underway, Goto
  <2> QED
    BY <1>1, <1>2, <1>5, <2>1, <2>2, RequestStep DEF Goto
<1> QED
  BY <1>3, <1>4, <1>5 DEF ReadFolder

LEMMA CheckFolderStep ==
    ASSUME Inductive, Excuse, CheckFolder
    PROVE  Inductive'
<1>1. /\ click.kind = "open" /\ click # NoClick /\ ~CanAccess(owner[The(click.on)])
      /\ UNCHANGED <<tables, me, cur>>
  BY DEF CheckFolder, Still, Inductive, Underway, NoClick
<1>2. Kept
  BY <1>1, NothingDone DEF Inductive, TypeOK, TablesOK
<1>3. CASE Enter
  BY <1>1, <1>3, EnterStep
<1>4. CASE ~HasPermission(The(click.on)) /\ Goto("refused") /\ UNCHANGED <<place, click>>
  <2>1. excuse
    BY <1>1, <1>4, OfferedFolder DEF Inductive, Offered
  <2>2. Underway'
    BY <1>1, <1>4 DEF Underway, Goto
  <2> QED
    BY <1>1, <1>2, <1>4, <2>1, <2>2, RequestStep DEF Goto
<1> QED
  BY <1>3, <1>4 DEF CheckFolder

LEMMA ReadItemStep ==
    ASSUME Inductive, Excuse, ReadItem
    PROVE  Inductive'
<1>1. /\ click.kind \in {"link_folder", "rename_folder", "delete_folder", "preview", "download", "link", "rename",
                         "delete"} \cup Bulk
      /\ click # NoClick /\ UNCHANGED <<tables, me, place, cur, click>>
  BY DEF ReadItem, Still, Inductive, Underway, NoClick
<1>2. Kept
  BY <1>1, NothingDone DEF Inductive, TypeOK, TablesOK
<1>3. CASE pc' = CASE click.kind = "download" -> "served"
                   [] click.kind = "preview" -> IF Own(click.on) THEN "served" ELSE "perm"
                   [] OTHER -> "act"
  <2>1. /\ pc' \in {"served", "perm", "act"}
        /\ pc' = "perm" => click.kind = "preview" /\ ~Own(click.on)
        /\ pc' = "act" => click.kind \in {"link_folder", "rename_folder", "delete_folder", "link", "rename", "delete"}
                                           \cup Bulk
    BY <1>1, <1>3
  <2>2. Own(click.on)' <=> Own(click.on)
    BY <1>1 DEF Own, IsAdmin
  <2>3. Underway'
    BY <1>1, <2>1, <2>2 DEF Underway
  <2> QED
    BY <1>1, <1>2, <2>1, <2>3, RequestStep
<1>4. CASE ~May(click) /\ pc' = "refused"
  <2>1. Underway'
    BY <1>1, <1>4 DEF Underway
  <2>2. StillOffered(click) \/ excuse
    BY <1>1 DEF Inductive, Offered
  <2>3. excuse \/ OfferedAnyway(click)
    <3>1. CASE click.kind \in {"link_folder", "rename_folder", "delete_folder"}
      BY <1>4, <2>2, <3>1, OfferedFolder DEF May, OfferedAnyway
    <3>2. CASE click.kind \in {"preview", "download", "link"}
      BY <1>4, <2>2, <3>2, OfferedFile DEF May, OfferedAnyway
    <3>3. CASE click.kind \in {"rename", "delete"}
      BY <1>4, <3>3 DEF May, Inductive, Fits
    <3>4. CASE click.kind \in Bulk
      BY <1>4, <2>2, <3>4, OfferedFile DEF May, OfferedAnyway, Inductive, Fits
    <3> QED
      BY <1>1, <3>1, <3>2, <3>3, <3>4
  <2> QED
    BY <1>1, <1>2, <1>4, <2>1, <2>3, RequestStep
<1> QED
  BY <1>3, <1>4 DEF ReadItem, Goto

LEMMA CheckFileStep ==
    ASSUME Inductive, Excuse, CheckFile
    PROVE  Inductive'
<1>1. /\ click.kind = "preview" /\ ~Own(click.on) /\ click # NoClick
      /\ UNCHANGED <<tables, me, place, cur, click>>
      /\ pc' = IF HasPermission(The(click.on)) THEN "served" ELSE "refused"
  BY DEF CheckFile, Still, Goto, Inductive, Underway, NoClick
<1>2. Kept
  BY <1>1, NothingDone DEF Inductive, TypeOK, TablesOK
<1>3. Underway'
  BY <1>1 DEF Underway
<1>4. PICK f \in File : click.on = {f}
  BY <1>1 DEF Inductive, Fits
<1>5. The(click.on) = f
  BY <1>4, OfOne
<1>6. StillOffered(click) => HasPermission(f)
  BY <1>1, <1>4, OfferedFile DEF Own
<1>7. pc' = "refused" => excuse
  BY <1>1, <1>5, <1>6 DEF Inductive, Offered
<1> QED
  BY <1>1, <1>2, <1>3, <1>7, RequestStep

LEMMA ActStep ==
    ASSUME Inductive, Excuse, Act
    PROVE  Inductive'
<1>1. click # NoClick /\ pc = "act" /\ UNCHANGED <<me, place, cur, click>>
  BY DEF Act, Inductive, Underway, NoClick
<1>2. CASE Statement(click) /\ pc' = "served"
  <2>1. Kept
    BY <1>1, <1>2, StatementKeeps
  <2>2. Underway'
    BY <1>2 DEF Underway
  <2> QED
    BY <1>1, <1>2, <2>1, <2>2, RequestStep
<1>3. CASE Fails(click) /\ pc' = "refused" /\ UNCHANGED tables
  <2>1. Kept
    BY <1>3, NothingDone DEF Inductive, TypeOK, TablesOK
  <2>2. Underway'
    BY <1>1, <1>3 DEF Underway
  <2>3. StillOffered(click) \/ excuse
    BY <1>1 DEF Inductive, Offered
  <2>4. excuse \/ OfferedAnyway(click)
    <3>1. CASE click.to \notin folders \cup {None}
      BY <2>3, <3>1 DEF StillOffered
    <3>2. CASE click.kind \in {"rename_folder", "link_folder"} /\ The(click.on) \notin folders
      BY <2>3, <3>2, OfferedFolder
    <3>3. CASE click.kind \in {"rename", "move"} /\ ~(click.on \subseteq active)
      BY <2>3, <3>3, OfferedFile
    <3>4. CASE click.kind = "move" /\ click.to = None
      BY <3>4 DEF OfferedAnyway
    <3> QED
      BY <1>3, <3>1, <3>2, <3>3, <3>4 DEF Fails
  <2> QED
    BY <1>1, <1>3, <2>1, <2>2, <2>4, RequestStep
<1> QED
  BY <1>2, <1>3 DEF Act, Goto

LEMMA AmissStep ==
    ASSUME Inductive, Excuse, Amiss
    PROVE  Inductive'
<1>1. UNCHANGED <<tables, me, place, cur, click>> /\ pc' = "amiss"
  BY DEF Amiss, Still, Goto
<1>2. Kept
  BY <1>1, NothingDone DEF Inductive, TypeOK, TablesOK
<1>3. Underway'
  BY <1>1 DEF Underway
<1> QED
  BY <1>1, <1>2, <1>3, RequestStep

LEMMA OthersStep ==
    ASSUME Inductive, Excuse, Others
    PROVE  Inductive'
<1>1. UNCHANGED <<me, pc, place, cur, click>>
  BY DEF Others, tab
<1>2. Kept
  BY OthersKeep DEF Inductive, TypeOK, TablesOK
<1>3. Own(click.on)' <=> Own(click.on)
  BY <1>1 DEF Own, IsAdmin
<1>4. click.kind = "open" => (CanAccess(owner[The(click.on)])' <=> CanAccess(owner[The(click.on)]))
  <2> SUFFICES ASSUME click.kind = "open"
               PROVE  CanAccess(owner[The(click.on)])' <=> CanAccess(owner[The(click.on)])
    OBVIOUS
  <2>1. The(click.on) \in used
    BY ClickedFolder DEF Inductive
  <2>2. The(click.on)' = The(click.on)
    BY <1>1 DEF The
  <2>3. owner'[The(click.on)] = owner[The(click.on)]
    BY <1>2, <2>1 DEF Kept
  <2> QED
    BY <1>1, <2>2, <2>3 DEF CanAccess, IsAdmin
<1>5. Underway'
  BY <1>1, <1>3, <1>4 DEF Inductive, Underway
<1>6. pc' = "refused" => excuse \/ OfferedAnyway(click)
  BY <1>1 DEF Inductive, RefusalHasReason
<1> QED
  BY <1>1, <1>2, <1>5, <1>6, RequestStep DEF Inductive, TypeOK

-----------------------------------------------------------------------------
(* All steps together.                                                      *)

LEMMA StutterStep ==
    ASSUME Inductive, UNCHANGED vars
    PROVE  Inductive'
<1>1. UNCHANGED <<tables, me, pc, place, cur, click, excuse>>
  BY DEF vars, tab
<1>2. TypeOK' /\ OneGrantEach'
  BY <1>1 DEF Inductive, TypeOK, OneGrantEach, tables, tree, files, perms
<1>3. Fits(click)'
  BY <1>1 DEF Inductive, Fits, CanEdit, Own, IsAdmin, tables, tree
<1>4. Own(click.on)' = Own(click.on) /\ CanAccess(owner[The(click.on)])' = CanAccess(owner[The(click.on)])
  BY <1>1 DEF Own, IsAdmin, CanAccess, tables, tree
<1>5. Underway'
  BY <1>1, <1>4 DEF Inductive, Underway
<1>6. Offered'
  BY <1>1 DEF Inductive, Offered, StillOffered, ListedFiles, ListedFolders, HasPermission, Holding, IsAdmin,
              tables, tree, files, perms
<1>7. RefusalHasReason'
  BY <1>1, <1>4 DEF Inductive, RefusalHasReason, OfferedAnyway, IsAdmin, CanEdit
<1> QED
  BY <1>2, <1>3, <1>5, <1>6, <1>7 DEF Inductive

(* No step of the session, and none of the others, breaks it.               *)
THEOREM NextInductive == Inductive /\ [Next]_vars => Inductive'
<1> SUFFICES ASSUME Inductive, [Next]_vars PROVE Inductive'
  OBVIOUS
<1>1. CASE Session /\ Excuse
  BY <1>1, LookStep, ReadFoldersStep, ReadFilesStep, ReadCrumbStep, SearchFilesStep, SearchFoldersStep,
     LookAtPermissionsStep, IdleStep, RunStep, ReadFolderStep, CheckFolderStep, ReadItemStep, CheckFileStep, ActStep,
     AmissStep
  DEF Session
<1>2. CASE Others /\ Excuse
  BY <1>2, OthersStep
<1>3. CASE UNCHANGED vars
  BY <1>3, StutterStep
<1> QED
  BY <1>1, <1>2, <1>3 DEF Next

(* So it always holds.                                                      *)
THEOREM InductiveHolds == Spec => []Inductive
BY InitInductive, NextInductive, PTL DEF Spec

-----------------------------------------------------------------------------
(* The type invariant, whatever the session and the others do.              *)
THEOREM TypeCorrect == Spec => []TypeOK
<1>1. Inductive => TypeOK
  BY DEF Inductive
<1> QED
  BY <1>1, InductiveHolds, PTL

(* The listings, the cards and the handlers agree on who may do what: apart *)
(* from OfferedAnyway, what is offered and turned down was gone for a time. *)
THEOREM RefusalsHaveReasons == Spec => []RefusalHasReason
<1>1. Inductive => RefusalHasReason
  BY DEF Inductive
<1> QED
  BY <1>1, InductiveHolds, PTL

(* Nobody has two permissions for an item, so a page that is not out of     *)
(* date takes the whole permission away with the row it names.              *)
LEMMA RevocationStep ==
    ASSUME Inductive, [Next]_vars, click.kind = "revoke", pc = "act", pc' = "served", ~excuse
    PROVE  Holding(click.user, The(click.on))' = {}
<1> DEFINE pair == <<click.user, The(click.on)>>
<1>1. Act
  BY DEF Next, Session, Others, vars, tab, LookAtTop, ReadFolders, ReadFiles, ReadCrumb, LookFor, SearchFiles,
         SearchFolders, LookAtPermissions, Run, ReadFolder, CheckFolder, ReadItem, CheckFile, Leave, Error, Amiss, Idle, Goto
<1>2. DropGrant(click.row) /\ click' = click
  BY <1>1 DEF Act, Statement, Goto
<1>3. click.row \in Holding(click.user, The(click.on))
  BY DEF Inductive, Offered, StillOffered, NoClick
<1>4. click.row \in Grant /\ granted[click.row] = {pair}
  BY <1>3 DEF Holding
<1>5. \A g \in Grant : granted'[g] = IF g = click.row THEN {} ELSE granted[g]
  BY <1>2 DEF DropGrant, Inductive, TypeOK
<1> HIDE DEF pair
<1>6. ASSUME NEW g \in Grant, granted'[g] = {pair} PROVE FALSE
  <2>1. {pair} # {}
    OBVIOUS
  <2>2. g # click.row /\ granted[g] = granted[click.row]
    BY <1>4, <1>5, <1>6, <2>1
  <2>3. granted[g] # {}
    BY <1>4, <2>1, <2>2
  <2> QED
    BY <1>4, <2>2, <2>3 DEF Inductive, OneGrantEach
<1>7. click'.user = click.user /\ The(click.on)' = The(click.on)
  BY <1>2 DEF The
<1>8. Holding(click.user, The(click.on))' = {g \in Grant : granted'[g] = {<<click'.user, The(click.on)'>>}}
  BY DEF Holding
<1>9. <<click'.user, The(click.on)'>> = pair
  BY <1>7 DEF pair
<1> QED
  BY <1>6, <1>8, <1>9

(* After "Access revoked" the user has no permission for the item left.     *)
THEOREM RevocationsEnd == Spec => RevokeEnds
<1>1. Inductive /\ [Next]_vars
        => [click.kind = "revoke" /\ pc = "act" /\ pc' = "served" /\ ~excuse
             => Holding(click.user, The(click.on))' = {}]_vars
  BY RevocationStep
<1> QED
  BY <1>1, InductiveHolds, PTL DEF Spec, RevokeEnds

-----------------------------------------------------------------------------
(* Induction over the naturals, and what Below computes.                    *)

(* A set of numbers has a least one: the library's fact about <, without its *)
(* operator parameters.  Induction over the naturals follows.               *)
LEMMA LeastNatural ==
    ASSUME NEW S \in SUBSET Nat, S # {}
    PROVE  \E n \in S : \A m \in S : n <= m
<1> DEFINE R == {ss \in Nat \X Nat : ss[1] < ss[2]}
<1>1. IsWellFoundedOn(R, Nat)
  BY NatLessThanWellFounded DEF OpToRel
<1>2. \A m, n \in Nat : <<m, n>> \in R <=> m < n
  OBVIOUS
<1> HIDE DEF R
<1>3. PICK n \in S : \A m \in S : ~(<<m, n>> \in R)
  BY <1>1, WFMin
<1>4. ASSUME NEW m \in S PROVE n <= m
  <2>1. m \in Nat /\ n \in Nat /\ ~(m < n)
    BY <1>2, <1>3
  <2> QED
    BY <2>1
<1> QED
  BY <1>4

(* A set of numbers that has 0, and with a number the next one, has all.    *)
LEMMA AllNaturals ==
    ASSUME NEW S, 0 \in S, \A n \in Nat : n \in S => n + 1 \in S
    PROVE  Nat \subseteq S
<1> SUFFICES ASSUME Nat \ S # {} PROVE FALSE
  OBVIOUS
<1>1. PICK n \in Nat \ S : \A m \in Nat \ S : n <= m
  BY LeastNatural
<1>2. n # 0 /\ n - 1 \in Nat /\ n - 1 \in S
  BY <1>1
<1> QED
  BY <1>2

(* A function can be iterated.                                              *)
Iterates(g, F, x, S) == g \in [Nat -> S] /\ g[0] = x /\ \A n \in Nat : g[n + 1] = F[g[n]]

LEMMA Iteration ==
    ASSUME NEW S, NEW F \in [S -> S], NEW x \in S
    PROVE  \E g : Iterates(g, F, x, S)
<1> DEFINE Upto(n) == {h \in [0..n -> S] : h[0] = x /\ \A i \in 0..(n - 1) : h[i + 1] = F[h[i]]}
<1>1. \A n \in Nat : Upto(n) # {}
  <2> DEFINE Good == {n \in Nat : Upto(n) # {}}
  <2>1. 0 \in Good
    <3>1. [i \in 0..0 |-> x] \in Upto(0)
      OBVIOUS
    <3> QED
      BY <3>1
  <2>2. ASSUME NEW n \in Nat, n \in Good PROVE n + 1 \in Good
    <3>1. PICK h \in [0..n -> S] : h[0] = x /\ \A i \in 0..(n - 1) : h[i + 1] = F[h[i]]
      BY <2>2
    <3> DEFINE k == [i \in 0..(n + 1) |-> IF i = n + 1 THEN F[h[n]] ELSE h[i]]
    <3>2. k \in [0..(n + 1) -> S] /\ k[0] = x
      BY <3>1
    <3>3. \A i \in 0..((n + 1) - 1) : k[i + 1] = F[k[i]]
      BY <3>1
    <3>4. k \in Upto(n + 1)
      BY <3>2, <3>3
    <3> HIDE DEF Upto, k
    <3>5. Upto(n + 1) # {} /\ n + 1 \in Nat
      BY <3>4
    <3> QED
      BY <3>5, Zenon
  <2> HIDE DEF Good
  <2>3. Nat \subseteq Good
    BY <2>1, <2>2, AllNaturals
  <2> QED
    BY <2>3 DEF Good
<1>2. ASSUME NEW n \in Nat, NEW h \in Upto(n), NEW k \in Upto(n + 1)
      PROVE  h[n] = k[n]
  <2> DEFINE Same == {i \in Nat : i <= n => h[i] = k[i]}
  <2>1. 0 \in Same
    OBVIOUS
  <2>2. ASSUME NEW i \in Nat, i \in Same PROVE i + 1 \in Same
    BY <2>2
  <2> HIDE DEF Same
  <2>3. Nat \subseteq Same
    BY <2>1, <2>2, AllNaturals
  <2> QED
    BY <2>3 DEF Same
<1> DEFINE pick(n) == CHOOSE h \in Upto(n) : TRUE
           g == [n \in Nat |-> pick(n)[n]]
<1> HIDE DEF Upto
<1>3. \A n \in Nat : pick(n) \in Upto(n)
  BY <1>1
<1> HIDE DEF pick
<1>4. \A n \in Nat : pick(n)[n] \in S
  BY <1>3 DEF Upto
<1>5. g[0] = x
  BY <1>3 DEF Upto
<1>6. ASSUME NEW n \in Nat PROVE g[n + 1] = F[g[n]]
  <2>1. pick(n + 1) \in Upto(n + 1) /\ pick(n) \in Upto(n)
    BY <1>3
  <2>2. pick(n)[n] = pick(n + 1)[n]
    BY <1>2, <2>1
  <2>3. pick(n + 1)[n + 1] = F[pick(n + 1)[n]]
    BY <2>1 DEF Upto
  <2> QED
    BY <2>2, <2>3
<1>7. g \in [Nat -> S]
  BY <1>4
<1> QED
  BY <1>5, <1>6, <1>7 DEF Iterates

(* How Below grows: a chain of sets, which each step extends by children.   *)
IsGrowth(g, d) ==
    /\ g = [n \in Nat |-> g[n]]
    /\ g[0] = {d}
    /\ \A n \in Nat : g[n + 1] = g[n] \cup {e \in folders : parent[e] \in g[n]}

LEMMA BelowIs ==
    ASSUME folders \subseteq Folder, NEW d \in Folder
    PROVE  \E g : IsGrowth(g, d) /\ Below(d) = g[Cardinality(folders)]
<1> DEFINE F == [X \in SUBSET Folder |-> X \cup {e \in folders : parent[e] \in X}]
           Next1(f, n) == IF n = 0 THEN {d} ELSE f[n - 1] \cup {e \in folders : parent[e] \in f[n - 1]}
           c == CHOOSE f : f = [n \in Nat |-> Next1(f, n)]
<1>1. F \in [SUBSET Folder -> SUBSET Folder] /\ {d} \in SUBSET Folder
  OBVIOUS
<1>2. PICK g \in [Nat -> SUBSET Folder] : g[0] = {d} /\ \A n \in Nat : g[n + 1] = F[g[n]]
  <2>1. PICK g : Iterates(g, F, {d}, SUBSET Folder)
    <3> HIDE DEF F
    <3> QED
      BY <1>1, Iteration
  <2> QED
    BY <2>1 DEF Iterates
<1>3. ASSUME NEW n \in Nat PROVE g[n] = Next1(g, n)
  <2>1. CASE n = 0
    BY <1>2, <2>1
  <2>2. CASE n # 0
    <3>1. n - 1 \in Nat /\ (n - 1) + 1 = n
      BY <2>2
    <3>2. g[(n - 1) + 1] = F[g[n - 1]] /\ g[n - 1] \in SUBSET Folder
      BY <1>2, <3>1
    <3> QED
      BY <2>2, <3>1, <3>2
  <2> QED
    BY <2>1, <2>2
<1>4. g = [n \in Nat |-> Next1(g, n)]
  <2> HIDE DEF Next1
  <2> QED
    BY <1>2, <1>3
<1>5. c = [n \in Nat |-> Next1(c, n)]
  <2> HIDE DEF Next1
  <2> QED
    BY <1>4
<1>6. Below(d) = c[Cardinality(folders)]
  BY DEF Below
<1> HIDE DEF c
<1>7. c = [n \in Nat |-> c[n]] /\ c[0] = {d}
  BY <1>5
<1>8. ASSUME NEW n \in Nat PROVE c[n + 1] = c[n] \cup {e \in folders : parent[e] \in c[n]}
  <2>1. n + 1 \in Nat /\ n + 1 # 0 /\ (n + 1) - 1 = n
    OBVIOUS
  <2>2. c[n + 1] = Next1(c, n + 1)
    <3> HIDE DEF Next1
    <3> QED
      BY <1>5, <2>1
  <2> QED
    BY <2>1, <2>2
<1> QED
  BY <1>6, <1>7, <1>8 DEF IsGrowth

(* A folder that exists: what is below it exists, and is closed.            *)
LEMMA GrowthStaysInside ==
    ASSUME NEW d \in folders, NEW g, IsGrowth(g, d)
    PROVE  \A n \in Nat : g[n] \subseteq folders
<1> DEFINE Inside == {n \in Nat : g[n] \subseteq folders}
<1>1. 0 \in Inside
  BY DEF IsGrowth
<1>2. ASSUME NEW n \in Nat, n \in Inside PROVE n + 1 \in Inside
  BY <1>2 DEF IsGrowth
<1> HIDE DEF Inside
<1>3. Nat \subseteq Inside
  BY <1>1, <1>2, AllNaturals
<1> QED
  BY <1>3 DEF Inside

LEMMA GrowthStops ==
    ASSUME IsFiniteSet(folders), NEW d \in folders, NEW g, IsGrowth(g, d)
    PROVE  g[Cardinality(folders) + 1] = g[Cardinality(folders)]
<1> DEFINE N == Cardinality(folders)
<1>1. N \in Nat
  BY FS_CardinalityType
<1> HIDE DEF N
<1> SUFFICES ASSUME g[N + 1] # g[N] PROVE FALSE
  BY DEF N
(* Once it stops it stops for good, so it has not stopped before.           *)
<1>2. ASSUME NEW k \in Nat, k <= N PROVE g[k + 1] # g[k]
  <2> SUFFICES ASSUME g[k + 1] = g[k] PROVE FALSE
    OBVIOUS
  <2> DEFINE Stopped == {n \in Nat : g[k + n] = g[k]}
  <2>1. 0 \in Stopped
    OBVIOUS
  <2>2. ASSUME NEW n \in Nat, n \in Stopped PROVE n + 1 \in Stopped
    <3>1. k + n \in Nat /\ k + (n + 1) = (k + n) + 1 /\ g[k + n] = g[k]
      BY <2>2
    <3>2. g[(k + n) + 1] = g[k + n] \cup {e \in folders : parent[e] \in g[k + n]}
      BY <3>1 DEF IsGrowth
    <3>3. g[k + 1] = g[k] \cup {e \in folders : parent[e] \in g[k]}
      BY DEF IsGrowth
    <3>4. g[(k + n) + 1] = g[k]
      BY <3>1, <3>2, <3>3
    <3> QED
      BY <3>1, <3>4
  <2> HIDE DEF Stopped
  <2>3. Nat \subseteq Stopped
    BY <2>1, <2>2, AllNaturals
  <2>4. N - k \in Stopped /\ (N + 1) - k \in Stopped
    BY <1>1, <1>2, <2>3
  <2>5. g[k + (N - k)] = g[k] /\ g[k + ((N + 1) - k)] = g[k]
    BY <2>4 DEF Stopped
  <2>6. k + (N - k) = N /\ k + ((N + 1) - k) = N + 1
    BY <1>1
  <2> QED
    BY <2>5, <2>6
(* So it has gained a folder with every step, more than there are.          *)
<1>3. \A n \in Nat : g[n] \subseteq folders
  BY GrowthStaysInside
<1>4. \A n \in Nat : IsFiniteSet(g[n]) /\ Cardinality(g[n]) \in Nat /\ Cardinality(g[n]) <= N
  BY <1>3, FS_Subset, FS_CardinalityType DEF N
<1> DEFINE Gained == {n \in Nat : n <= N => Cardinality(g[n]) >= n + 1}
<1>5. 0 \in Gained
  <2>1. g[0] = {d}
    BY DEF IsGrowth
  <2>2. Cardinality(g[0]) = 1
    BY <2>1, FS_Singleton
  <2> QED
    BY <2>2
<1>6. ASSUME NEW n \in Nat, n \in Gained PROVE n + 1 \in Gained
  <2> SUFFICES ASSUME n + 1 <= N PROVE Cardinality(g[n + 1]) >= (n + 1) + 1
    OBVIOUS
  <2>1. n <= N /\ n + 1 \in Nat
    BY <1>1
  <2>2. g[n + 1] # g[n] /\ Cardinality(g[n]) >= n + 1
    BY <1>2, <1>6, <2>1
  <2>3. g[n] \in SUBSET g[n + 1]
    BY DEF IsGrowth
  <2>4. IsFiniteSet(g[n + 1]) /\ Cardinality(g[n + 1]) \in Nat /\ Cardinality(g[n]) \in Nat
    BY <1>4, <2>1
  <2>5. Cardinality(g[n]) <= Cardinality(g[n + 1]) /\ Cardinality(g[n]) # Cardinality(g[n + 1])
    BY <2>2, <2>3, <2>4, FS_Subset
  <2> QED
    BY <2>2, <2>4, <2>5
<1> HIDE DEF Gained
<1>7. Nat \subseteq Gained
  BY <1>5, <1>6, AllNaturals
<1>8. Cardinality(g[N]) >= N + 1
  BY <1>1, <1>7 DEF Gained
<1> QED
  BY <1>1, <1>4, <1>8

(* What Below is: the smallest set that has the folder and the children of  *)
(* its elements.                                                            *)
BelowIsClosure ==
    folders \subseteq Folder /\ IsFiniteSet(folders) =>
        \A d \in Folder :
            /\ d \in Below(d)
            /\ \A X : d \in X /\ (\A e \in folders : parent[e] \in X => e \in X) => Below(d) \subseteq X
            /\ d \in folders => /\ Below(d) \subseteq folders
                                /\ \A e \in folders : parent[e] \in Below(d) => e \in Below(d)

LEMMA ClosureBelow == BelowIsClosure
<1> SUFFICES ASSUME folders \subseteq Folder, IsFiniteSet(folders), NEW d \in Folder
             PROVE  /\ d \in Below(d)
                    /\ \A X : d \in X /\ (\A e \in folders : parent[e] \in X => e \in X) => Below(d) \subseteq X
                    /\ d \in folders => /\ Below(d) \subseteq folders
                                        /\ \A e \in folders : parent[e] \in Below(d) => e \in Below(d)
  BY DEF BelowIsClosure
<1> DEFINE N == Cardinality(folders)
<1>1. N \in Nat
  BY FS_CardinalityType
<1>2. PICK g : IsGrowth(g, d) /\ Below(d) = g[N]
  BY BelowIs
<1> HIDE DEF N
<1>3. d \in g[N]
  <2> DEFINE Has == {n \in Nat : d \in g[n]}
  <2>1. 0 \in Has
    BY <1>2 DEF IsGrowth
  <2>2. ASSUME NEW n \in Nat, n \in Has PROVE n + 1 \in Has
    BY <1>2, <2>2 DEF IsGrowth
  <2> HIDE DEF Has
  <2>3. Nat \subseteq Has
    BY <2>1, <2>2, AllNaturals
  <2> QED
    BY <1>1, <2>3 DEF Has
<1>4. ASSUME NEW X, d \in X, \A e \in folders : parent[e] \in X => e \in X PROVE g[N] \subseteq X
  <2> DEFINE Within == {n \in Nat : g[n] \subseteq X}
  <2>1. 0 \in Within
    BY <1>2, <1>4 DEF IsGrowth
  <2>2. ASSUME NEW n \in Nat, n \in Within PROVE n + 1 \in Within
    <3>1. g[n + 1] = g[n] \cup {e \in folders : parent[e] \in g[n]}
      BY <1>2 DEF IsGrowth
    <3>2. g[n + 1] \subseteq X
      BY <1>4, <2>2, <3>1
    <3> QED
      BY <3>2
  <2> HIDE DEF Within
  <2>3. Nat \subseteq Within
    BY <2>1, <2>2, AllNaturals
  <2> QED
    BY <1>1, <2>3 DEF Within
<1>5. ASSUME d \in folders
      PROVE  g[N] \subseteq folders /\ \A e \in folders : parent[e] \in g[N] => e \in g[N]
  <2>1. g[N] \subseteq folders
    BY <1>1, <1>2, <1>5, GrowthStaysInside
  <2>2. g[N + 1] = g[N]
    BY <1>2, <1>5, GrowthStops DEF N
  <2>3. g[N + 1] = g[N] \cup {e \in folders : parent[e] \in g[N]}
    BY <1>1, <1>2 DEF IsGrowth
  <2> QED
    BY <2>1, <2>2, <2>3
<1> QED
  BY <1>2, <1>3, <1>4, <1>5

LEMMA ClosureBelowLater == BelowIsClosure'
BY ClosureBelow, PTL

(* Where one gets to from the top: the smallest set of folders that has     *)
(* those at the top and the children of its elements.                       *)
Reachable == {e \in Folder : \E r \in folders : parent[r] = None /\ e \in Below(r)}

ReachableIsClosure ==
    folders \subseteq Folder /\ IsFiniteSet(folders) =>
        /\ Reachable \subseteq folders
        /\ \A e \in folders : parent[e] \in Reachable \cup {None} => e \in Reachable
        /\ \A X : (\A e \in folders : parent[e] \in X \cup {None} => e \in X) => Reachable \subseteq X

LEMMA ClosureReachable == ReachableIsClosure
<1> SUFFICES ASSUME folders \subseteq Folder, IsFiniteSet(folders)
             PROVE  /\ Reachable \subseteq folders
                    /\ \A e \in folders : parent[e] \in Reachable \cup {None} => e \in Reachable
                    /\ \A X : (\A e \in folders : parent[e] \in X \cup {None} => e \in X) => Reachable \subseteq X
  BY DEF ReachableIsClosure
<1>1. \A d \in Folder :
        /\ d \in Below(d)
        /\ \A X : d \in X /\ (\A e \in folders : parent[e] \in X => e \in X) => Below(d) \subseteq X
        /\ d \in folders => /\ Below(d) \subseteq folders
                            /\ \A e \in folders : parent[e] \in Below(d) => e \in Below(d)
  BY ClosureBelow DEF BelowIsClosure
<1>2. Reachable \subseteq folders
  BY <1>1 DEF Reachable
<1>3. ASSUME NEW e \in folders, parent[e] \in Reachable \cup {None} PROVE e \in Reachable
  <2>1. CASE parent[e] = None
    BY <1>1, <2>1 DEF Reachable
  <2>2. CASE parent[e] \in Reachable
    <3>1. PICK r \in folders : parent[r] = None /\ parent[e] \in Below(r)
      BY <2>2 DEF Reachable
    <3>2. e \in Below(r)
      BY <1>1, <3>1
    <3> QED
      BY <3>1, <3>2 DEF Reachable
  <2> QED
    BY <1>3, <2>1, <2>2
<1>4. ASSUME NEW X, \A e \in folders : parent[e] \in X \cup {None} => e \in X,
             NEW e \in Reachable
      PROVE  e \in X
  <2>1. PICK r \in folders : parent[r] = None /\ e \in Below(r)
    BY DEF Reachable
  <2>2. r \in X /\ r \in Folder
    BY <1>4, <2>1
  <2>3. Below(r) \subseteq X
    BY <1>1, <1>4, <2>2
  <2> QED
    BY <2>1, <2>3
<1> QED
  BY <1>2, <1>3, <1>4

LEMMA ClosureReachableLater == ReachableIsClosure'
BY ClosureReachable, PTL

-----------------------------------------------------------------------------
(* Every folder that exists is reached from the top.  With the types it is  *)
(* inductive.                                                               *)
FromTop == IsFiniteSet(folders) /\ folders \subseteq Reachable

LEMMA InitFromTop == Init => FromTop
<1> SUFFICES ASSUME Init PROVE FromTop
  OBVIOUS
<1>1. folders \subseteq Folder /\ IsFiniteSet(folders) /\ \A e \in folders : parent[e] = None
  BY DEF Init
<1> QED
  BY <1>1, ClosureReachable DEF ReachableIsClosure, FromTop

(* No folder that exists is in one that does not.                           *)
LEMMA ParentsExist ==
    ASSUME TypeOK, FromTop
    PROVE  \A e \in folders : parent[e] \in folders \cup {None}
<1> DEFINE X == {e \in folders : parent[e] \in folders \cup {None}}
<1>1. \A e \in folders : parent[e] \in X \cup {None} => e \in X
  OBVIOUS
<1> HIDE DEF X
<1>2. Reachable \subseteq X
  BY <1>1, ClosureReachable DEF ReachableIsClosure, FromTop, TypeOK
<1>3. folders \subseteq X
  BY <1>2 DEF FromTop
<1> QED
  BY <1>3 DEF X

(* So what a delete takes away is closed, even when the folder is gone      *)
(* already: then it takes nothing.                                          *)
LEMMA DroppedIsClosed ==
    ASSUME TypeOK, FromTop, NEW d \in Folder
    PROVE  \A e \in folders : parent[e] \in Below(d) => e \in Below(d)
<1>1. /\ \A X : d \in X /\ (\A e \in folders : parent[e] \in X => e \in X) => Below(d) \subseteq X
      /\ d \in folders => \A e \in folders : parent[e] \in Below(d) => e \in Below(d)
  BY ClosureBelow DEF BelowIsClosure, FromTop, TypeOK
<1>2. CASE d \in folders
  BY <1>1, <1>2
<1>3. CASE d \notin folders
  <2>1. \A e \in folders : parent[e] # d
    BY <1>3, ParentsExist
  <2>2. Below(d) \subseteq {d}
    BY <1>1, <2>1
  <2> QED
    BY <2>1, <2>2
<1> QED
  BY <1>2, <1>3

(* Folders that stay where they are stay reachable, unless those between    *)
(* them and the top go: then they go, too.                                  *)
LEMMA StaysReachable ==
    ASSUME TypeOK, FromTop, TypeOK', IsFiniteSet(folders'), NEW B,
           \A e \in folders : parent[e] \in B => e \in B,
           \A e \in folders \ B : e \in folders' /\ parent'[e] = parent[e]
    PROVE  folders \ B \subseteq Reachable'
<1> DEFINE X == B \cup Reachable'
<1>1. \A e \in folders' : parent'[e] \in Reachable' \cup {None} => e \in Reachable'
  BY ClosureReachableLater DEF ReachableIsClosure, TypeOK
<1>2. \A e \in folders : parent[e] \in X \cup {None} => e \in X
  BY <1>1
<1> HIDE DEF X
<1>3. Reachable \subseteq X
  BY <1>2, ClosureReachable DEF ReachableIsClosure, FromTop, TypeOK
<1> QED
  BY <1>3 DEF X, FromTop

LEMMA InsertFolderReachable ==
    ASSUME TypeOK, FromTop, TypeOK', NEW p, NEW u, InsertFolder(p, u)
    PROVE  FromTop'
<1>1. PICK d \in Folder \ used :
        /\ folders' = folders \cup {d}
        /\ parent' = [parent EXCEPT ![d] = p]
  BY DEF InsertFolder
<1>2. /\ p \in folders \cup {None}
      /\ \A e \in folders : e \in folders' /\ parent'[e] = parent[e]
      /\ d \in folders' /\ parent'[d] = p
  BY <1>1 DEF InsertFolder, TypeOK
<1>3. IsFiniteSet(folders')
  BY <1>1, FS_AddElement DEF FromTop
<1>4. folders \subseteq Reachable'
  BY <1>2, <1>3, StaysReachable
<1>5. d \in Reachable'
  BY <1>2, <1>3, <1>4, ClosureReachableLater DEF ReachableIsClosure, TypeOK
<1> QED
  BY <1>1, <1>3, <1>4, <1>5 DEF FromTop

LEMMA DropFolderReachable ==
    ASSUME TypeOK, FromTop, TypeOK', NEW d \in Folder, DropFolder(d)
    PROVE  FromTop'
<1>1. folders' = folders \ Below(d) /\ parent' = parent
  BY DEF DropFolder
<1>2. IsFiniteSet(folders')
  BY <1>1, FS_Subset DEF FromTop
<1>3. folders \ Below(d) \subseteq Reachable'
  BY <1>1, <1>2, DroppedIsClosed, StaysReachable
<1> QED
  BY <1>1, <1>2, <1>3 DEF FromTop

LEMMA SameFoldersReachable ==
    ASSUME TypeOK, FromTop, TypeOK', UNCHANGED <<folders, parent>>
    PROVE  FromTop'
<1>1. folders \subseteq Reachable'
  BY StaysReachable DEF FromTop
<1> QED
  BY <1>1 DEF FromTop

(* Only two statements change folders.                                      *)
LEMMA OthersReachable ==
    ASSUME TypeOK, FromTop, TypeOK', Others
    PROVE  FromTop'
<1>1. CASE \E p \in folders \cup {None}, u \in User : InsertFolder(p, u)
  BY <1>1, InsertFolderReachable
<1>2. CASE \E d \in folders : DropFolder(d)
  BY <1>2, DropFolderReachable DEF TypeOK
<1>3. CASE UNCHANGED <<folders, parent>>
  BY <1>3, SameFoldersReachable
<1> QED
  BY <1>1, <1>2, <1>3 DEF Others, SetFolder, Trash, Upsert, DropGrant, tree

LEMMA ActReachable ==
    ASSUME Inductive, FromTop, TypeOK', Act
    PROVE  FromTop'
<1>1. TypeOK
  BY DEF Inductive
<1>2. CASE click.kind = "new_folder" /\ InsertFolder(click.to, me)
  BY <1>1, <1>2, InsertFolderReachable
<1>3. CASE click.kind = "delete_folder" /\ DropFolder(The(click.on))
  <2>1. The(click.on) \in Folder
    BY <1>3, ClickedFolder DEF Inductive, TypeOK
  <2> QED
    BY <1>1, <1>3, <2>1, DropFolderReachable
<1>4. CASE UNCHANGED <<folders, parent>>
  BY <1>1, <1>4, SameFoldersReachable
<1>5. click.kind \in {"new_folder", "link_folder", "rename_folder", "delete_folder", "link", "rename", "move", "delete",
                      "grant", "revoke"} \cup Bulk
  BY DEF Act, Inductive, Underway
<1> QED
  BY <1>2, <1>3, <1>4, <1>5 DEF Act, Statement, SetFolder, Trash, Upsert, DropGrant, tables, tree

LEMMA NextReachable == Inductive /\ FromTop /\ [Next]_vars => FromTop'
<1> SUFFICES ASSUME Inductive, FromTop, [Next]_vars PROVE FromTop'
  OBVIOUS
<1>1. TypeOK /\ TypeOK'
  BY NextInductive DEF Inductive
<1>2. CASE Others
  BY <1>1, <1>2, OthersReachable
<1>3. CASE Act
  BY <1>1, <1>3, ActReachable
<1>4. CASE UNCHANGED <<folders, parent>>
  BY <1>1, <1>4, SameFoldersReachable
<1> QED
  BY <1>2, <1>3, <1>4
  DEF Next, Session, LookAtTop, ReadFolders, ReadFiles, ReadCrumb, LookFor, SearchFiles, SearchFolders,
      LookAtPermissions, Run, ReadFolder, CheckFolder, ReadItem, CheckFile, Leave, Error, Amiss, Still, vars, tables, tree

(* Whatever is created, moved and deleted, and in whatever order: an admin  *)
(* gets to every folder by opening folders from the top.                    *)
THEOREM EverythingIsReachable == Spec => []AllReachable
<1>1. TypeOK /\ FromTop => AllReachable
  <2> SUFFICES ASSUME TypeOK, FromTop PROVE AllReachable
    OBVIOUS
  <2>1. Reachable \subseteq folders
    BY ClosureReachable DEF ReachableIsClosure, FromTop, TypeOK
  <2>2. Reachable = UNION {Below(d) : d \in {e \in folders : parent[e] = None}}
    <3>1. \A d \in folders : Below(d) \subseteq Folder
      BY ClosureBelow DEF BelowIsClosure, FromTop, TypeOK
    <3> QED
      BY <3>1 DEF Reachable
  <2> QED
    BY <2>1, <2>2 DEF FromTop, AllReachable
<1>2. Inductive => TypeOK
  BY DEF Inductive
<1> QED
  BY <1>1, <1>2, InitFromTop, NextReachable, InductiveHolds, PTL DEF Spec
=============================================================================
