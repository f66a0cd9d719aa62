----------------------------- MODULE SharesProofs -----------------------------
(***************************************************************************)
(* Proofs about Shares, for any folders, files, users, links and requests, *)
(* and whatever they ask for: only what is in a shared folder is served,   *)
(* nothing is refused without a reason, and an item has one link.          *)
(***************************************************************************)
EXTENDS Shares, FiniteSetTheorems, TLAPS

-----------------------------------------------------------------------------
(* Trees.                                                                   *)

LEMMA ChainFacts ==
    ASSUME NEW d \in Folder
    PROVE  /\ Chain[d] \in Seq(Folder)
           /\ Len(Chain[d]) \in Nat \ {0}
           /\ DOMAIN Chain[d] = 1..Len(Chain[d])
           /\ Chain[d][1] = d
           /\ \A i \in 1..Len(Chain[d]) :
                /\ Chain[d][i] \in Folder
                /\ Chain[Chain[d][i]] = SubSeq(Chain[d], i, Len(Chain[d]))
<1>1. Chain[d] \in Seq(Folder) /\ Len(Chain[d]) > 0 /\ Chain[d][1] = d
  BY SharesAssumption
<1>2. \A i \in 1..Len(Chain[d]) : Chain[Chain[d][i]] = SubSeq(Chain[d], i, Len(Chain[d]))
  BY SharesAssumption
<1> QED
  BY <1>1, <1>2

(* The folders above a folder of a chain are the rest of the chain.         *)
LEMMA RestOfChain ==
    ASSUME NEW d \in Folder, NEW i \in 1..Len(Chain[d])
    PROVE  /\ Chain[d][i] \in Folder
           /\ Len(Chain[Chain[d][i]]) = Len(Chain[d]) - i + 1
           /\ \A j \in 1..(Len(Chain[d]) - i + 1) : Chain[Chain[d][i]][j] = Chain[d][i + j - 1]
<1> DEFINE s == Chain[d]
<1>1. s \in Seq(Folder) /\ i \in 1..Len(s) /\ s[i] \in Folder /\ Len(s) \in Nat
  BY ChainFacts
<1>2. Chain[s[i]] = SubSeq(s, i, Len(s))
  BY ChainFacts
<1> HIDE DEF s
<1>3. Len(SubSeq(s, i, Len(s))) = Len(s) - i + 1
  BY <1>1
<1>4. \A j \in 1..(Len(s) - i + 1) : SubSeq(s, i, Len(s))[j] = s[i + j - 1]
  BY <1>1
<1>5. s[i] \in Folder /\ Len(Chain[s[i]]) = Len(s) - i + 1
      /\ \A j \in 1..(Len(s) - i + 1) : Chain[s[i]][j] = s[i + j - 1]
  BY <1>1, <1>2, <1>3, <1>4
<1> QED
  BY <1>5 DEF s

(* One step up stays on the chain.                                          *)
LEMMA UpTheChain ==
    ASSUME NEW d \in Folder, NEW i \in 1..Len(Chain[d]), Parent(Chain[d][i]) # None
    PROVE  /\ i + 1 \in 1..Len(Chain[d])
           /\ Parent(Chain[d][i]) = Chain[d][i + 1]
<1>1. /\ Len(Chain[Chain[d][i]]) = Len(Chain[d]) - i + 1
      /\ \A j \in 1..(Len(Chain[d]) - i + 1) : Chain[Chain[d][i]][j] = Chain[d][i + j - 1]
  BY RestOfChain
<1>2. Len(Chain[d]) \in Nat
  BY ChainFacts
<1>3. Len(Chain[d]) - i + 1 # 1
  BY <1>1 DEF Parent
<1>4. Chain[Chain[d][i]][2] = Chain[d][i + 1]
  BY <1>1, <1>2, <1>3
<1> QED
  BY <1>1, <1>2, <1>3, <1>4 DEF Parent

LEMMA InTreeIsReflexive ==
    ASSUME NEW d \in Folder
    PROVE  InTree(d, d)
<1>1. 1 \in 1..Len(Chain[d]) /\ Chain[d][1] = d
  BY ChainFacts
<1>2. 1 \in DOMAIN Chain[d]
  BY <1>1, ChainFacts
<1> QED
  BY <1>1, <1>2 DEF InTree

LEMMA InTreeIsTransitive ==
    ASSUME NEW d \in Folder, NEW e \in Folder, NEW f \in Folder, InTree(d, e), InTree(e, f)
    PROVE  InTree(d, f)
<1>1. PICK i \in 1..Len(Chain[d]) : Chain[d][i] = e
  BY ChainFacts DEF InTree
<1>2. PICK j \in 1..Len(Chain[e]) : Chain[e][j] = f
  BY ChainFacts DEF InTree
<1>3. Len(Chain[e]) = Len(Chain[d]) - i + 1 /\ Len(Chain[d]) \in Nat
  BY <1>1, RestOfChain, ChainFacts
<1>4. \A k \in 1..(Len(Chain[d]) - i + 1) : Chain[e][k] = Chain[d][i + k - 1]
  BY <1>1, RestOfChain
<1>5. i + j - 1 \in 1..Len(Chain[d]) /\ Chain[d][i + j - 1] = f
  BY <1>1, <1>2, <1>3, <1>4
<1>6. i + j - 1 \in DOMAIN Chain[d]
  BY <1>5, ChainFacts
<1> QED
  BY <1>5, <1>6 DEF InTree

LEMMA ParentIsFolder ==
    ASSUME NEW d \in Folder
    PROVE  Parent(d) \in Folder \cup {None}
<1> DEFINE n == Len(Chain[d])
<1>1. n \in Nat \ {0} /\ \A i \in 1..n : Chain[d][i] \in Folder
  BY ChainFacts
<1>2. Parent(d) = IF n = 1 THEN None ELSE Chain[d][2]
  BY DEF Parent
<1> HIDE DEF n
<1>3. n # 1 => 2 \in 1..n
  BY <1>1
<1> QED
  BY <1>1, <1>2, <1>3

-----------------------------------------------------------------------------
(* What requests ask for.                                                   *)

LEMMA AskFacts ==
    ASSUME NEW r \in Req, NEW a \in Asks[r]
    PROVE  /\ a.kind \in Kind /\ a.by \in User /\ a.item \in Item \cup {None}
           /\ a.share \in Share /\ a.folder \in Folder \cup {None} /\ a.file \in File \cup {None}
           /\ a.kind = "create" => a.item \in Item
           /\ a.kind = "open" => a.file \in File
<1>1. a \in Ask
  BY SharesAssumption
<1>2. (a.kind = "create" => a.item # None) /\ (a.kind = "open" => a.file # None)
  BY SharesAssumption
<1> QED
  BY <1>1, <1>2 DEF Ask

LEMMA SomeAsk == \A r \in Req : (CHOOSE a \in Asks[r] : TRUE) \in Asks[r]
<1>1. \A r \in Req : Asks[r] # {}
  BY SharesAssumption
<1> QED
  BY <1>1

-----------------------------------------------------------------------------
(* The type invariant, in the three parts that steps disturb separately.    *)

ItemsOK ==
    /\ folders \subseteq Folder
    /\ status \in [File -> {"active", "deleted", "gone"}]
    /\ at \in [File -> Folder \cup {None}]
    /\ \A f \in File : at[f] # None => at[f] \in folders

TableOK ==
    /\ made \in 0..MaxShares
    /\ rows \subseteq 1..made
    /\ expired \subseteq rows
    /\ target \in [Share -> Item \cup {None}]
    /\ \A s \in rows : target[s] \in folders \cup {f \in File : status[f] # "gone"}
    /\ owner \in [Share -> User \cup {None}]
    /\ views \in [Share -> Nat]

Places == {"idle", "item", "lookup", "insert", "share", "file", "walk", "folder",
           "contents", "count", "owner", "delete", "served", "refused"}

RequestsOK ==
    /\ pc \in [Req -> Places]
    /\ \A r \in Req : ask[r] \in Asks[r]
    /\ DOMAIN ask = Req
    /\ root \in [Req -> Item \cup {None}]
    /\ start \in [Req -> Folder \cup {None}]
    /\ cur \in [Req -> Folder \cup {None}]
    /\ steps \in [Req -> 0..MaxWalk]

HistoryOK == excuse \in [Req -> BOOLEAN] /\ doubled \subseteq Item

LEMMA Parts == TypeOK <=> ItemsOK /\ TableOK /\ RequestsOK /\ HistoryOK
BY DEF TypeOK, ItemsOK, TableOK, RequestsOK, HistoryOK, Places


-----------------------------------------------------------------------------
(* One step of one request.                                                 *)

(* A request is where requests of its kind come, with what they need.       *)
Fits(r) ==
    /\ pc[r] \in {"item", "lookup", "insert"} => ask[r].kind = "create"
    /\ pc[r] \in {"owner", "delete"} => ask[r].kind = "revoke"
    /\ pc[r] \in {"share", "file", "walk", "folder", "contents", "count"} =>
            ask[r].kind \in {"page", "direct", "open", "zip"}
    /\ pc[r] \in {"idle", "share", "file"} => steps[r] = 0
    /\ pc[r] = "file" =>
            \/ root[r] \in File /\ ask[r].kind \in {"page", "direct"}
            \/ root[r] \in Folder /\ ask[r].kind = "open"
    /\ pc[r] = "walk" => root[r] \in Folder /\ ask[r].kind \in {"page", "open", "zip"}
    /\ pc[r] = "folder" => ask[r].kind \in {"page", "zip"}
    /\ pc[r] \in {"contents", "count"} => ask[r].kind = "page"

StepOf(r) == Work(r) \/ Error(r) \/ Answer(r) \/ \E a \in Asks[r] : Arrive(r, a)

Untouched(q) ==
    /\ pc'[q] = pc[q] /\ ask'[q] = ask[q] /\ root'[q] = root[q]
    /\ start'[q] = start[q] /\ cur'[q] = cur[q] /\ steps'[q] = steps[q]

LEMMA EndKeepsRequests ==
    ASSUME RequestsOK, NEW r \in Req, End(r)
    PROVE  /\ RequestsOK' /\ \A q \in Req \ {r} : Untouched(q)
           /\ pc'[r] = "idle" /\ root'[r] = None /\ start'[r] = None /\ steps'[r] = 0
           /\ UNCHANGED <<items, table, doubled>>
<1> DEFINE c == CHOOSE a \in Asks[r] : TRUE
<1>1. c \in Asks[r]
  BY SomeAsk
<1> HIDE DEF c
<1>2. /\ pc' = [pc EXCEPT ![r] = "idle"]
      /\ root' = [root EXCEPT ![r] = None]
      /\ start' = [start EXCEPT ![r] = None]
      /\ cur' = [cur EXCEPT ![r] = None]
      /\ steps' = [steps EXCEPT ![r] = 0]
      /\ ask' = [ask EXCEPT ![r] = c]
      /\ UNCHANGED <<items, table, doubled>>
  BY DEF End, Goto, c
<1>3. MaxWalk \in Nat
  BY SharesAssumption
<1> QED
  BY <1>1, <1>2, <1>3 DEF RequestsOK, Places, Untouched

LEMMA ArrivalKeepsRequests ==
    ASSUME RequestsOK, NEW r \in Req, NEW a \in Asks[r], Arrive(r, a)
    PROVE  /\ RequestsOK' /\ \A q \in Req \ {r} : Untouched(q)
           /\ ask'[r] = a
           /\ pc'[r] = CASE a.kind = "create" -> "item"
                         [] a.kind = "revoke" -> "owner"
                         [] OTHER -> "share"
           /\ UNCHANGED <<items, table, root, walk>>
<1> DEFINE p == CASE a.kind = "create" -> "item"
                  [] a.kind = "revoke" -> "owner"
                  [] OTHER -> "share"
<1>1. p \in Places
  BY DEF Places
<1>2. pc' = [pc EXCEPT ![r] = p]
  BY DEF Arrive, Goto
<1>3. ask' = [ask EXCEPT ![r] = a] /\ UNCHANGED <<items, table, root, walk>>
  BY DEF Arrive
<1>4. pc'[r] = p /\ ask'[r] = a /\ \A q \in Req \ {r} : Untouched(q)
  BY <1>2, <1>3 DEF RequestsOK, Untouched, walk
<1> HIDE DEF p
<1>5. RequestsOK'
  BY <1>1, <1>2, <1>3 DEF RequestsOK, walk
<1> QED
  BY <1>3, <1>4, <1>5 DEF p

LEMMA WorkKeepsRequests ==
    ASSUME RequestsOK, ItemsOK, TableOK, NEW r \in Req, Fits(r), Work(r)
    PROVE  /\ RequestsOK' /\ \A q \in Req \ {r} : Untouched(q)
           /\ UNCHANGED <<items, ask>>
<1>1. MaxWalk \in Nat /\ ask[r] \in Asks[r]
  BY SharesAssumption DEF RequestsOK
<1>2. ask[r].share \in Share /\ ask[r].folder \in Folder \cup {None}
      /\ (ask[r].kind = "open" => ask[r].file \in File)
  BY <1>1, AskFacts
<1>3. CASE FindItem(r)
  BY <1>1, <1>3 DEF FindItem, RequestsOK, Places, Untouched, Goto, Quiet, walk
<1>4. CASE Lookup(r)
  BY <1>1, <1>4 DEF Lookup, RequestsOK, Places, Untouched, Goto, Quiet, walk
<1>5. CASE Insert(r)
  BY <1>1, <1>5 DEF Insert, RequestsOK, Places, Untouched, Goto, Quiet, walk
<1>6. CASE ReadShare(r)
  BY <1>1, <1>2, <1>6 DEF ReadShare, RequestsOK, TableOK, Places, Untouched, Goto, Serve, Climb, walk
<1>7. CASE ReadFile(r)
  <2> DEFINE f == IF root[r] \in File THEN root[r] ELSE ask[r].file
  <2>1. UNCHANGED <<items, ask, root>>
    BY <1>7 DEF ReadFile
  <2>2. \/ \E p \in Places : Goto(r, p) /\ UNCHANGED walk
        \/ root[r] \in Folder /\ at[f] # None /\ Climb(r, at[f])
    BY <1>7 DEF ReadFile, Places
  <2>3. CASE \E p \in Places : Goto(r, p) /\ UNCHANGED walk
    BY <2>1, <2>3 DEF RequestsOK, Untouched, Goto, walk
  <2>4. CASE root[r] \in Folder /\ at[f] # None /\ Climb(r, at[f])
    <3>1. pc[r] = "file"
      BY <1>7 DEF ReadFile
    <3>2. root[r] \notin File /\ ask[r].kind = "open"
      BY <2>4, <3>1, SharesAssumption DEF Fits
    <3>3. f \in File
      BY <1>2, <3>2
    <3>4. at[f] \in Folder
      BY <2>4, <3>3 DEF ItemsOK
    <3> QED
      BY <1>1, <2>1, <2>4, <3>4 DEF RequestsOK, Places, Untouched, Goto, Climb
  <2> QED
    BY <2>2, <2>3, <2>4
<1>8. CASE Walk(r)
  <2>1. UNCHANGED <<items, ask, root, start>>
    BY <1>8 DEF Walk
  <2>2. \/ \E p \in Places : Goto(r, p) /\ UNCHANGED <<cur, steps>>
        \/ /\ steps[r] < MaxWalk /\ cur[r] \in folders
           /\ cur' = [cur EXCEPT ![r] = Parent(@)]
           /\ steps' = [steps EXCEPT ![r] = @ + 1]
           /\ UNCHANGED pc
    BY <1>8 DEF Walk, Places
  <2>3. CASE \E p \in Places : Goto(r, p) /\ UNCHANGED <<cur, steps>>
    BY <2>1, <2>3 DEF RequestsOK, Untouched, Goto
  <2>4. CASE /\ steps[r] < MaxWalk /\ cur[r] \in folders
             /\ cur' = [cur EXCEPT ![r] = Parent(@)]
             /\ steps' = [steps EXCEPT ![r] = @ + 1]
             /\ UNCHANGED pc
    <3>1. Parent(cur[r]) \in Folder \cup {None}
      BY <2>4, ParentIsFolder DEF ItemsOK
    <3>2. steps[r] + 1 \in 0..MaxWalk
      BY <1>1, <2>4 DEF RequestsOK
    <3> QED
      BY <2>1, <2>4, <3>1, <3>2 DEF RequestsOK, Untouched
  <2> QED
    BY <2>2, <2>3, <2>4
<1>9. CASE FindFolder(r)
  BY <1>1, <1>9 DEF FindFolder, RequestsOK, Places, Untouched, Goto, Quiet, walk
<1>10. CASE ListContents(r)
  BY <1>1, <1>10 DEF ListContents, RequestsOK, Places, Untouched, Goto, Quiet, walk
<1>11. CASE Count(r)
  BY <1>1, <1>11 DEF Count, RequestsOK, Places, Untouched, Goto, Quiet, walk
<1>12. CASE ReadOwner(r)
  BY <1>1, <1>12 DEF ReadOwner, RequestsOK, Places, Untouched, Goto, Quiet, walk
<1>13. CASE Revoke(r)
  BY <1>1, <1>13 DEF Revoke, RequestsOK, Places, Untouched, Goto, Quiet, walk
<1> QED
  BY <1>3, <1>4, <1>5, <1>6, <1>7, <1>8, <1>9, <1>10, <1>11, <1>12, <1>13 DEF Work


-----------------------------------------------------------------------------
(* Rows, files and folders.                                                 *)

LEMMA DropKeepsTable ==
    ASSUME TableOK, NEW S, Drop(S)
    PROVE  /\ made' \in 0..MaxShares /\ rows' \subseteq 1..made' /\ expired' \subseteq rows'
           /\ target' \in [Share -> Item \cup {None}]
           /\ owner' \in [Share -> User \cup {None}]
           /\ views' \in [Share -> Nat]
           /\ rows' = rows \ S
           /\ rows \subseteq Share
           /\ \A s \in rows' : target'[s] = target[s] /\ owner'[s] = owner[s]
<1>1. rows \subseteq Share
  BY SharesAssumption DEF TableOK, Share
<1> QED
  BY <1>1 DEF TableOK, Drop

(* What no step does to a row that stays: target and creator.               *)
Steady ==
    /\ \A s \in rows \cap rows' : target'[s] = target[s] /\ owner'[s] = owner[s]
    /\ \A i \in Item : Sharing(i)' \subseteq Sharing(i)

LEMMA ChangeKeepsTable ==
    ASSUME ItemsOK, TableOK, Change
    PROVE  ItemsOK' /\ TableOK' /\ Steady /\ UNCHANGED <<request, doubled, made>>
<1>0. rows \subseteq Share /\ None \notin Item /\ Folder \cap File = {} /\ MaxShares \in Nat
  BY SharesAssumption DEF TableOK, Share
<1>1. CASE \E f \in File : Trash(f)
  BY <1>0, <1>1 DEF Trash, ItemsOK, TableOK, Steady, Sharing, table
<1>2. CASE \E f \in File : Restore(f)
  BY <1>0, <1>2 DEF Restore, ItemsOK, TableOK, Steady, Sharing, table
<1>3. CASE \E f \in File : Erase(f)
  <2>1. PICK f \in File : Erase(f)
    BY <1>3
  <2>2. Drop(Targeting({f})) /\ made' = made
    BY <2>1 DEF Erase, Drop
  <2>3. ItemsOK' /\ UNCHANGED <<folders, request, doubled>> /\ status' = [status EXCEPT ![f] = "gone"]
    BY <2>1 DEF Erase, ItemsOK
  <2>4. \A s \in rows' : target'[s] \in folders' \cup {g \in File : status'[g] # "gone"}
    BY <1>0, <2>2, <2>3, DropKeepsTable DEF Targeting, TableOK, ItemsOK
  <2>5. TableOK'
    BY <2>2, <2>4, DropKeepsTable DEF TableOK
  <2>6. Steady
    BY <2>2, DropKeepsTable DEF Steady, Sharing, Drop
  <2> QED
    BY <2>2, <2>3, <2>5, <2>6
<1>4. CASE \E f \in File, d \in Folder \cup {None} : Move(f, d)
  BY <1>0, <1>4 DEF Move, ItemsOK, TableOK, Steady, Sharing, table
<1>5. CASE \E d \in Folder : DeleteFolder(d)
  <2>1. PICK d \in Folder : DeleteFolder(d)
    BY <1>5
  <2> DEFINE tree == {e \in folders : InTree(e, d)}
  <2>2. /\ Drop(Targeting(tree)) /\ made' = made /\ folders' = folders \ tree
        /\ at' = [f \in File |-> IF at[f] \in tree THEN None ELSE at[f]]
        /\ UNCHANGED <<status, request, doubled>>
    BY <2>1 DEF DeleteFolder, Drop
  <2> HIDE DEF tree
  <2>3. ItemsOK'
    BY <2>2 DEF ItemsOK
  <2>4. \A s \in rows' : target'[s] \in folders' \cup {g \in File : status'[g] # "gone"}
    BY <1>0, <2>2, DropKeepsTable DEF Targeting, TableOK
  <2>5. TableOK'
    BY <2>2, <2>4, DropKeepsTable DEF TableOK
  <2>6. Steady
    BY <2>2, DropKeepsTable DEF Steady, Sharing, Drop
  <2> QED
    BY <2>2, <2>3, <2>5, <2>6
<1>6. CASE \E s \in Share : Expire(s)
  BY <1>0, <1>6 DEF Expire, Alive, ItemsOK, TableOK, Steady, Sharing, items
<1> QED
  BY <1>1, <1>2, <1>3, <1>4, <1>5, <1>6 DEF Change


-----------------------------------------------------------------------------
(* Requests that may still insert a row; there is room for all of them.     *)
Coming == {q \in Req : pc[q] \in {"item", "lookup", "insert"}}
Room == made + Cardinality(Coming) <= MaxShares

LEMMA Counting ==
    /\ IsFiniteSet(Coming) /\ Cardinality(Coming) \in Nat
    /\ IsFiniteSet(Coming') /\ Cardinality(Coming') \in Nat
    /\ Coming' \subseteq Coming => Cardinality(Coming') <= Cardinality(Coming)
    /\ \A r \in Req :
        /\ Coming' = Coming \cup {r} /\ r \notin Coming =>
                Cardinality(Coming') = Cardinality(Coming) + 1
        /\ Coming' = Coming \ {r} /\ r \in Coming =>
                Cardinality(Coming') = Cardinality(Coming) - 1
<1>1. IsFiniteSet(Req)
  BY SharesAssumption
<1>2. Coming \subseteq Req /\ Coming' \subseteq Req
  BY DEF Coming
<1>3. IsFiniteSet(Coming) /\ IsFiniteSet(Coming')
  BY <1>1, <1>2, FS_Subset
<1>4. Cardinality(Coming) \in Nat /\ Cardinality(Coming') \in Nat
  BY <1>3, FS_CardinalityType
<1>5. Coming' \subseteq Coming => Cardinality(Coming') <= Cardinality(Coming)
  BY <1>3, FS_Subset
<1>6. ASSUME NEW r \in Req, Coming' = Coming \cup {r}, r \notin Coming
      PROVE  Cardinality(Coming') = Cardinality(Coming) + 1
  BY <1>3, <1>6, FS_AddElement
<1>7. ASSUME NEW r \in Req, Coming' = Coming \ {r}, r \in Coming
      PROVE  Cardinality(Coming') = Cardinality(Coming) - 1
  BY <1>3, <1>7, FS_RemoveElement
<1> QED
  BY <1>3, <1>4, <1>5, <1>6, <1>7

(* An arriving request reserves its row.                                    *)
LEMMA ArrivalKeepsRoom ==
    ASSUME RequestsOK, TableOK, \A q \in Req : Fits(q), Room,
           NEW r \in Req, NEW a \in Asks[r], Arrive(r, a)
    PROVE  Room'
<1> DEFINE Creators == {q \in Req : pc[q] # "idle" /\ ask[q].kind = "create"}
<1>1. pc[r] = "idle" /\ made' = made /\ r \notin Coming /\ made \in Nat /\ MaxShares \in Nat
  BY SharesAssumption DEF Arrive, table, Coming, TableOK
<1>2. /\ \A q \in Req \ {r} : pc'[q] = pc[q]
      /\ pc'[r] \in {"item", "lookup", "insert"} <=> a.kind = "create"
  BY ArrivalKeepsRequests DEF Untouched
<1>3. CASE a.kind = "create"
  <2>1. made + Cardinality(Creators) < MaxShares
    BY <1>3 DEF Arrive
  <2>2. Coming \subseteq Creators
    BY DEF Coming, Fits
  <2>3. IsFiniteSet(Creators) /\ Cardinality(Creators) \in Nat
    BY SharesAssumption, FS_Subset, FS_CardinalityType
  <2>4. Cardinality(Coming) <= Cardinality(Creators)
    BY <2>2, <2>3, FS_Subset
  <2>5. Coming' = Coming \cup {r}
    BY <1>1, <1>2, <1>3 DEF Coming
  <2>6. Cardinality(Coming') = Cardinality(Coming) + 1 /\ Cardinality(Coming) \in Nat
    BY <1>1, <2>5, Counting
  <2> QED
    BY <1>1, <2>1, <2>3, <2>4, <2>6 DEF Room
<1>4. CASE a.kind # "create"
  <2>1. Coming' \subseteq Coming
    BY <1>1, <1>2, <1>4 DEF Coming
  <2> QED
    BY <1>1, <2>1, Counting DEF Room
<1> QED
  BY <1>3, <1>4

LEMMA EndKeepsRoom ==
    ASSUME RequestsOK, TableOK, Room, NEW r \in Req, End(r)
    PROVE  Room'
<1>1. made' = made /\ made \in Nat /\ MaxShares \in Nat
  BY SharesAssumption, EndKeepsRequests DEF table, TableOK
<1>2. Coming' \subseteq Coming
  BY EndKeepsRequests DEF Coming, Untouched
<1> QED
  BY <1>1, <1>2, Counting DEF Room

(* Work on requests: a row is inserted by one that has reserved it.         *)
LEMMA WorkKeepsTable ==
    ASSUME ItemsOK, TableOK, RequestsOK, Room, NEW r \in Req, Fits(r), Work(r)
    PROVE  /\ TableOK' /\ Room'
           /\ \A s \in rows \cap rows' : target'[s] = target[s] /\ owner'[s] = owner[s]
           /\ pc[r] # "insert" => \A i \in Item : Sharing(i)' \subseteq Sharing(i)
           /\ pc[r] = "insert" => \A i \in Item : Sharing(i)' \subseteq Sharing(i) \cup {made + 1}
                               /\ (i # ask[r].item => Sharing(i)' \subseteq Sharing(i))
<1>0. /\ rows \subseteq Share /\ MaxShares \in Nat /\ made \in 0..MaxShares
      /\ made + 1 \notin rows
      /\ ask[r] \in Asks[r]
  BY SharesAssumption DEF TableOK, Share, RequestsOK
<1>1. UNCHANGED items /\ \A q \in Req \ {r} : pc'[q] = pc[q]
  BY WorkKeepsRequests DEF Untouched
<1>2. CASE Insert(r) /\ rows' # rows
  <2>1. /\ pc[r] = "insert" /\ pc'[r] = "served"
        /\ ask[r].item \in folders \cup {f \in File : status[f] # "gone"}
        /\ made' = made + 1 /\ rows' = rows \cup {made + 1}
        /\ target' = [target EXCEPT ![made + 1] = ask[r].item]
        /\ owner' = [owner EXCEPT ![made + 1] = ask[r].by]
        /\ UNCHANGED <<expired, views>>
    BY <1>2 DEF Insert, Goto, table, RequestsOK
  <2>2. Coming' = Coming \ {r} /\ r \in Coming
    BY <1>1, <2>1 DEF Coming
  <2>3. Cardinality(Coming') = Cardinality(Coming) - 1
        /\ Cardinality(Coming) \in Nat /\ Cardinality(Coming') \in Nat
    BY <2>2, Counting
  <2>4. made + 1 <= MaxShares /\ Room'
    BY <1>0, <2>1, <2>3 DEF Room
  <2>5. made + 1 \in Share /\ ask[r].item \in Item /\ ask[r].by \in User
    BY <1>0, <2>1, <2>4, AskFacts DEF Share, Fits
  <2>6. /\ made' \in 0..MaxShares /\ rows' \subseteq 1..made' /\ expired' \subseteq rows'
        /\ target' \in [Share -> Item \cup {None}]
        /\ owner' \in [Share -> User \cup {None}]
        /\ views' \in [Share -> Nat]
    BY <1>0, <2>1, <2>4, <2>5 DEF TableOK
  <2>7. \A s \in rows' : target'[s] = IF s = made + 1 THEN ask[r].item ELSE target[s]
    BY <1>0, <2>1, <2>5 DEF TableOK
  <2>8. \A s \in rows' : target'[s] \in folders' \cup {f \in File : status'[f] # "gone"}
    BY <1>1, <2>1, <2>7 DEF TableOK, items
  <2>9. \A s \in rows \cap rows' : target'[s] = target[s] /\ owner'[s] = owner[s]
    BY <1>0, <2>1, <2>5 DEF TableOK
  <2>10. \A i \in Item : Sharing(i)' \subseteq Sharing(i) \cup {made + 1}
                      /\ (i # ask[r].item => Sharing(i)' \subseteq Sharing(i))
    BY <2>1, <2>7 DEF Sharing
  <2> QED
    BY <2>1, <2>4, <2>6, <2>8, <2>9, <2>10 DEF TableOK
<1>3. CASE ~(Insert(r) /\ rows' # rows)
  <2>1. /\ UNCHANGED made
        /\ \/ UNCHANGED <<rows, expired, target, owner>> /\ views' \in [Share -> Nat]
           \/ pc[r] = "delete" /\ Drop({ask[r].share})
    <3>1. ask[r].share \in Share
      BY <1>0, AskFacts
    <3>2. CASE Count(r)
      BY <3>1, <3>2 DEF Count, TableOK
    <3>3. CASE Revoke(r)
      BY <3>3 DEF Revoke, Drop
    <3>4. CASE Insert(r)
      <4>1. UNCHANGED table
        BY <1>0, <1>3, <3>4 DEF Insert
      <4> QED
        BY <4>1 DEF table, TableOK
    <3>5. CASE UNCHANGED table
      BY <3>5 DEF table, TableOK
    <3> QED
      BY <3>2, <3>3, <3>4, <3>5
         DEF Work, FindItem, Lookup, ReadShare, ReadFile, Walk, FindFolder, ListContents, ReadOwner
  <2>2. Coming' \subseteq Coming
    <3>1. pc'[r] \in {"item", "lookup", "insert"} => pc[r] \in {"item", "lookup", "insert"}
      BY WorkKeepsRequests DEF Work, FindItem, Lookup, Insert, ReadShare, ReadFile, Walk,
         FindFolder, ListContents, Count, ReadOwner, Revoke, Goto, Climb, RequestsOK
    <3> QED
      BY <1>1, <3>1 DEF Coming
  <2>3. Room'
    BY <1>0, <2>1, <2>2, Counting DEF Room
  <2>4. CASE UNCHANGED <<rows, expired, target, owner>> /\ views' \in [Share -> Nat]
    BY <1>1, <2>1, <2>3, <2>4 DEF TableOK, items, Sharing
  <2>5. CASE pc[r] = "delete" /\ Drop({ask[r].share})
    <3>1. TableOK'
      BY <1>1, <2>5, DropKeepsTable DEF TableOK, items
    <3>2. \A s \in rows' : target'[s] = target[s] /\ owner'[s] = owner[s]
      BY <2>5, DropKeepsTable
    <3>3. \A i \in Item : Sharing(i)' \subseteq Sharing(i)
      BY <2>5, <3>2 DEF Sharing, Drop
    <3> QED
      BY <2>3, <2>5, <3>1, <3>2, <3>3
  <2> QED
    BY <2>1, <2>4, <2>5
<1> QED
  BY <1>2, <1>3


-----------------------------------------------------------------------------
(* The folders above an existing folder exist.                              *)
Closed == \A d \in folders : \A i \in 1..Len(Chain[d]) : Chain[d][i] \in folders

LEMMA ChangeKeepsClosed ==
    ASSUME ItemsOK, Closed, Change
    PROVE  Closed'
<1>1. CASE UNCHANGED folders
  BY <1>1 DEF Closed
<1>2. CASE \E d \in Folder : DeleteFolder(d)
  <2>1. PICK d \in Folder : folders' = folders \ {e \in folders : InTree(e, d)}
    BY <1>2 DEF DeleteFolder
  <2>2. SUFFICES ASSUME NEW e \in folders', NEW i \in 1..Len(Chain[e]) PROVE Chain[e][i] \in folders'
    BY DEF Closed
  <2>3. e \in folders /\ ~InTree(e, d) /\ e \in Folder
    BY <2>1 DEF ItemsOK
  <2>4. Chain[e][i] \in folders /\ Chain[e][i] \in Folder
    BY <2>3 DEF Closed, ItemsOK
  <2>5. InTree(e, Chain[e][i])
    <3>1. i \in DOMAIN Chain[e]
      BY <2>3, ChainFacts
    <3> QED
      BY <3>1 DEF InTree
  <2>6. ~InTree(Chain[e][i], d)
    BY <2>3, <2>4, <2>5, InTreeIsTransitive
  <2> QED
    BY <2>1, <2>4, <2>6
<1> QED
  BY <1>1, <1>2 DEF Change, Trash, Restore, Erase, Move, Expire, items

-----------------------------------------------------------------------------
(* Where folderInTree is: on the way up from the folder it began at.  What  *)
(* has passed it is in the shared folder.                                   *)
Climbed(r) ==
    /\ pc[r] = "walk" =>
        /\ start[r] \in Folder /\ steps[r] + 1 \in 1..Len(Chain[start[r]])
        /\ cur[r] = Chain[start[r]][steps[r] + 1]
    /\ pc[r] \in {"folder", "contents"} => start[r] \in Folder /\ root[r] \in Folder
    /\ (pc[r] \in {"folder", "contents", "count"} \/ Following(r)) /\ root[r] \in Folder =>
            start[r] \in Folder /\ InTree(start[r], root[r])

LEMMA UntouchedFits ==
    ASSUME NEW q \in Req, Untouched(q)
    PROVE  (Fits(q) => Fits(q)') /\ (Climbed(q) => Climbed(q)')
BY DEF Untouched, Fits, Climbed, Following

LEMMA EndFits ==
    ASSUME RequestsOK, NEW r \in Req, End(r)
    PROVE  Fits(r)' /\ Climbed(r)'
BY EndKeepsRequests DEF Fits, Climbed, Following

LEMMA ArrivalFits ==
    ASSUME RequestsOK, NEW r \in Req, NEW a \in Asks[r], Arrive(r, a), Fits(r)
    PROVE  Fits(r)' /\ Climbed(r)'
<1>1. ask'[r] = a /\ steps'[r] = 0 /\ a.kind \in Kind
  BY ArrivalKeepsRequests, AskFacts DEF Arrive, Fits, walk
<1>2. \/ pc'[r] = "item" /\ a.kind = "create"
      \/ pc'[r] = "owner" /\ a.kind = "revoke"
      \/ pc'[r] = "share" /\ a.kind \notin {"create", "revoke"}
  BY ArrivalKeepsRequests
<1> QED
  BY <1>1, <1>2 DEF Fits, Climbed, Following, Kind

LEMMA WorkFits ==
    ASSUME ItemsOK, TableOK, RequestsOK, NEW r \in Req, Fits(r), Climbed(r), Work(r)
    PROVE  Fits(r)' /\ Climbed(r)'
<1>1. RequestsOK' /\ ask'[r] = ask[r] /\ Folder \cap File = {} /\ None \notin Folder
  BY WorkKeepsRequests, SharesAssumption DEF Item
<1>2. /\ ask[r].share \in Share /\ ask[r].folder \in Folder \cup {None}
      /\ ask[r].kind = "open" => ask[r].file \in File
  BY AskFacts DEF RequestsOK
<1>3. CASE FindItem(r) \/ Lookup(r) \/ Insert(r)
  <2>1. pc[r] \in {"item", "lookup", "insert"} /\ pc'[r] \in {"lookup", "insert", "served", "refused"}
    BY <1>3 DEF FindItem, Lookup, Insert, Goto, RequestsOK
  <2> QED
    BY <1>1, <2>1 DEF Fits, Climbed, Following
<1>4. CASE ReadOwner(r) \/ Revoke(r)
  <2>1. pc[r] \in {"owner", "delete"} /\ pc'[r] \in {"delete", "served", "refused"}
    BY <1>4 DEF ReadOwner, Revoke, Goto, RequestsOK
  <2> QED
    BY <1>1, <2>1 DEF Fits, Climbed, Following
<1>5. CASE ReadShare(r)
  <2> DEFINE t == target[ask[r].share]
             k == ask[r].kind
  <2>1. pc[r] = "share" /\ steps[r] = 0 /\ k \in {"page", "direct", "open", "zip"}
    BY <1>5 DEF ReadShare, Fits
  <2>2. CASE pc'[r] = "refused"
    BY <2>2 DEF Fits, Climbed, Following
  <2>3. CASE /\ pc'[r] = "file" /\ root'[r] = t /\ UNCHANGED walk
             /\ \/ t \in File /\ k \in {"page", "direct"}
                \/ t \in Folder /\ k = "open"
    BY <1>1, <2>1, <2>3 DEF Fits, Climbed, Following, walk
  <2>4. CASE /\ t \in Folder /\ k \in {"page", "zip"} /\ root'[r] = t
             /\ pc'[r] = "folder" /\ start'[r] = t /\ UNCHANGED steps
    BY <1>1, <2>1, <2>4, InTreeIsReflexive DEF Fits, Climbed, Following
  <2>5. CASE /\ t \in Folder /\ k \in {"page", "zip"} /\ root'[r] = t /\ ask[r].folder # None
             /\ pc'[r] = "walk" /\ start'[r] = ask[r].folder /\ cur'[r] = ask[r].folder
             /\ UNCHANGED steps
    <3>1. ask[r].folder \in Folder
      BY <1>2, <2>5
    <3>2. 1 \in 1..Len(Chain[ask[r].folder]) /\ Chain[ask[r].folder][1] = ask[r].folder
      BY <3>1, ChainFacts
    <3> QED
      BY <1>1, <2>1, <2>5, <3>1, <3>2 DEF Fits, Climbed, Following
  <2> QED
    BY <1>5, <2>2, <2>3, <2>4, <2>5 DEF ReadShare, Goto, Serve, Climb, RequestsOK
<1>6. CASE ReadFile(r)
  <2> DEFINE f == IF root[r] \in File THEN root[r] ELSE ask[r].file
             k == ask[r].kind
  <2>1. /\ pc[r] = "file" /\ steps[r] = 0 /\ root'[r] = root[r]
        /\ \/ root[r] \in File /\ k \in {"page", "direct"}
           \/ root[r] \in Folder /\ k = "open"
    BY <1>6 DEF ReadFile, Fits
  <2>2. CASE pc'[r] = "refused"
    BY <2>2 DEF Fits, Climbed, Following
  <2>3. CASE root[r] \in File /\ pc'[r] = IF k = "page" THEN "count" ELSE "served"
    BY <1>1, <2>1, <2>3 DEF Fits, Climbed, Following
  <2>4. CASE root[r] \in Folder /\ at[f] # None /\ Climb(r, at[f])
    <3>1. f \in File
      BY <1>1, <1>2, <2>1, <2>4
    <3>2. at[f] \in Folder
      BY <2>4, <3>1 DEF ItemsOK
    <3>3. 1 \in 1..Len(Chain[at[f]]) /\ Chain[at[f]][1] = at[f]
      BY <3>2, ChainFacts
    <3> HIDE DEF f
    <3>4. pc'[r] = "walk" /\ start'[r] = at[f] /\ cur'[r] = at[f] /\ steps'[r] = 0
      BY <2>1, <2>4 DEF Climb, Goto, RequestsOK
    <3>5. k = "open"
      BY <1>1, <2>1, <2>4
    <3>6. Fits(r)'
      BY <1>1, <2>1, <2>4, <3>4, <3>5 DEF Fits
    <3>7. Climbed(r)'
      BY <3>2, <3>3, <3>4 DEF Climbed, Following
    <3> QED
      BY <3>6, <3>7
  <2> QED
    BY <1>6, <2>2, <2>3, <2>4 DEF ReadFile, Goto, RequestsOK
<1>7. CASE Walk(r)
  <2>1. /\ pc[r] = "walk" /\ root'[r] = root[r] /\ start'[r] = start[r]
        /\ root[r] \in Folder /\ ask[r].kind \in {"page", "open", "zip"} /\ start[r] \in Folder
        /\ steps[r] + 1 \in 1..Len(Chain[start[r]])
        /\ cur[r] = Chain[start[r]][steps[r] + 1]
    BY <1>7 DEF Walk, Fits, Climbed
  <2>2. CASE pc'[r] = "refused"
    BY <2>2 DEF Fits, Climbed, Following
  <2>3. CASE cur[r] = root[r] /\ pc'[r] = IF ask[r].kind = "open" THEN "served" ELSE "folder"
    <3>1. steps[r] + 1 \in DOMAIN Chain[start[r]]
      BY <2>1, ChainFacts
    <3>2. InTree(start[r], root[r])
      BY <2>1, <2>3, <3>1 DEF InTree
    <3> QED
      BY <1>1, <2>1, <2>3, <3>2 DEF Fits, Climbed, Following
  <2>4. CASE /\ Parent(cur[r]) # None /\ pc'[r] = "walk"
             /\ cur'[r] = Parent(cur[r]) /\ steps'[r] = steps[r] + 1
    <3>1. /\ (steps[r] + 1) + 1 \in 1..Len(Chain[start[r]])
          /\ Parent(cur[r]) = Chain[start[r]][(steps[r] + 1) + 1]
      BY <2>1, <2>4, UpTheChain
    <3> QED
      BY <1>1, <2>1, <2>4, <3>1 DEF Fits, Climbed, Following
  <2> QED
    BY <1>7, <2>2, <2>3, <2>4 DEF Walk, Goto, RequestsOK
<1>8. CASE FindFolder(r)
  BY <1>1, <1>8 DEF FindFolder, Goto, Quiet, walk, RequestsOK, Fits, Climbed, Following
<1>9. CASE ListContents(r)
  BY <1>1, <1>9 DEF ListContents, Goto, Quiet, walk, RequestsOK, Fits, Climbed, Following
<1>10. CASE Count(r)
  BY <1>1, <1>10 DEF Count, Goto, Quiet, walk, RequestsOK, Fits, Climbed, Following
<1> QED
  BY <1>3, <1>4, <1>5, <1>6, <1>7, <1>8, <1>9, <1>10 DEF Work


-----------------------------------------------------------------------------
(* As long as there is no excuse, what was asked for is there.              *)
Timely(r) ==
    pc[r] # "idle" /\ ~excuse[r] => Answerable(ask[r]) /\ start[r] \in folders \cup {None}

LEMMA ExcuseIsKept ==
    ASSUME Excuse, NEW r \in Req
    PROVE  /\ Timely(r)'
           /\ pc'[r] # "idle" /\ ~excuse'[r] => ~excuse[r]
           /\ excuse' \in [Req -> BOOLEAN]
<1>1. excuse' = [q \in Req |->
        pc'[q] # "idle"
        /\ (excuse[q] \/ ~Answerable(ask[q])' \/ start'[q] \notin folders' \cup {None})]
  BY DEF Excuse
<1>2. excuse'[r] <=>
        pc'[r] # "idle"
        /\ (excuse[r] \/ ~Answerable(ask[r])' \/ start'[r] \notin folders' \cup {None})
  BY <1>1, Zenon
<1>3. excuse' \in [Req -> BOOLEAN]
  BY <1>1, Zenon
<1>4. Timely(r)'
  BY <1>2, Zenon DEF Timely
<1> QED
  BY <1>2, <1>3, <1>4, Zenon

(* What an answerable request has got.                                      *)
AskedFor(r) ==
    LET a == ask[r] t == target[a.share] IN
    /\ a.kind \in {"page", "direct", "open", "zip"} => Alive(a.share)
    /\ a.kind = "create" => Exists(a.item)
    /\ a.kind = "revoke" => a.share \in rows
    /\ a.kind = "direct" => t \in File /\ status[t] = "active"
    /\ a.kind = "page" /\ t \in File => status[t] = "active"
    /\ a.kind \in {"open", "zip"} => t \in Folder
    /\ a.kind = "open" => /\ status[a.file] = "active" /\ at[a.file] # None
                          /\ Within(at[a.file], t)
    /\ a.kind \in {"page", "zip"} /\ a.folder # None /\ t \in Folder => Within(a.folder, t)

LEMMA AnswerableMeans ==
    ASSUME ItemsOK, NEW r \in Req, Answerable(ask[r])
    PROVE  AskedFor(r)
<1> DEFINE a == ask[r]
           t == target[a.share]
<1>1. folders \subseteq Folder /\ Folder \cap File = {}
  BY SharesAssumption DEF ItemsOK
<1>2. a.kind = "create" => Exists(a.item)
  BY DEF Answerable
<1>3. a.kind = "page" => /\ Alive(a.share) /\ Exists(t)
                         /\ t \in Folder /\ a.folder # None => Within(a.folder, t)
  BY DEF Answerable
<1>4. a.kind = "direct" => Alive(a.share) /\ t \in File /\ Exists(t)
  BY DEF Answerable
<1>5. a.kind = "open" => /\ Alive(a.share) /\ t \in Folder /\ status[a.file] = "active"
                         /\ at[a.file] # None /\ Within(at[a.file], t)
  BY DEF Answerable
<1>6. a.kind = "zip" => /\ Alive(a.share) /\ t \in Folder
                        /\ a.folder # None => Within(a.folder, t)
  BY DEF Answerable
<1>7. a.kind = "revoke" => a.share \in rows
  BY DEF Answerable
<1>8. t \in File /\ Exists(t) => status[t] = "active"
  BY <1>1 DEF Exists
<1> HIDE DEF t, a
<1>9. /\ a.kind \in {"page", "direct", "open", "zip"} => Alive(a.share)
      /\ a.kind = "create" => Exists(a.item)
      /\ a.kind = "revoke" => a.share \in rows
      /\ a.kind = "direct" => t \in File /\ status[t] = "active"
      /\ a.kind = "page" /\ t \in File => status[t] = "active"
      /\ a.kind \in {"open", "zip"} => t \in Folder
      /\ a.kind = "open" => /\ status[a.file] = "active" /\ at[a.file] # None
                            /\ Within(at[a.file], t)
      /\ a.kind \in {"page", "zip"} /\ a.folder # None /\ t \in Folder => Within(a.folder, t)
  BY <1>2, <1>3, <1>4, <1>5, <1>6, <1>7, <1>8
<1> QED
  BY <1>9 DEF AskedFor, a, t

LEMMA AnswerableAfterwards ==
    ASSUME NEW r \in Req, Answerable(ask[r])'
    PROVE  /\ ask'[r].kind \in {"page", "direct", "open", "zip"} => ask'[r].share \in rows'
           /\ ask'[r].kind = "revoke" => ask'[r].share \in rows'
<1> DEFINE a == ask'[r]
<1>1. a.kind = "page" => a.share \in rows'
  BY DEF Answerable, Alive
<1>2. a.kind = "direct" => a.share \in rows'
  BY DEF Answerable, Alive
<1>3. a.kind = "open" => a.share \in rows'
  BY DEF Answerable, Alive
<1>4. a.kind = "zip" => a.share \in rows'
  BY DEF Answerable, Alive
<1>5. a.kind = "revoke" => a.share \in rows'
  BY DEF Answerable
<1> QED
  BY <1>1, <1>2, <1>3, <1>4, <1>5

(* What a request has read is still so, unless it has an excuse; and only   *)
(* with an excuse is it turned down.                                        *)
Fresh(r) ==
    ~excuse[r] =>
        /\ pc[r] = "file" => root[r] = target[ask[r].share]
        /\ pc[r] = "walk" =>
            /\ InTree(start[r], root[r])
            /\ steps[r] + 1 <= Level(start[r], root[r])
            /\ Level(start[r], root[r]) <= MaxWalk
        /\ pc[r] = "owner" => ask[r].by \in Admin \/ owner[ask[r].share] = ask[r].by
        /\ pc[r] # "refused"

(* Rows keep their target and creator, so a waiting request stays right.    *)
LEMMA UntouchedStaysFresh ==
    ASSUME Excuse, NEW q \in Req, Untouched(q), Fits(q), Timely(q), Fresh(q),
           \A s \in rows \cap rows' : target'[s] = target[s] /\ owner'[s] = owner[s],
           ItemsOK
    PROVE  Fresh(q)'
<1>1. SUFFICES ASSUME ~excuse'[q], pc'[q] # "idle" PROVE Fresh(q)'
  BY DEF Fresh
<1>2. ~excuse[q] /\ Answerable(ask[q])' /\ Answerable(ask[q])
  BY <1>1, ExcuseIsKept DEF Timely, Untouched
<1>3. AskedFor(q)
  BY <1>2, AnswerableMeans
<1>4. pc[q] \in {"file", "owner"} => ask[q].share \in rows \cap rows'
  BY <1>2, <1>3, AnswerableAfterwards DEF AskedFor, Alive, Fits, Untouched
<1>5. pc[q] \in {"file", "owner"} =>
        target'[ask[q].share] = target[ask[q].share] /\ owner'[ask[q].share] = owner[ask[q].share]
  BY <1>4
<1> QED
  BY <1>2, <1>5 DEF Fresh, Untouched

LEMMA EndIsFresh ==
    ASSUME RequestsOK, NEW r \in Req, End(r)
    PROVE  Fresh(r)'
BY EndKeepsRequests DEF Fresh

LEMMA ArrivalIsFresh ==
    ASSUME RequestsOK, NEW r \in Req, NEW a \in Asks[r], Arrive(r, a)
    PROVE  Fresh(r)'
<1>1. ask'[r] = a /\ owner' = owner
  BY ArrivalKeepsRequests DEF table
<1>2. \/ pc'[r] = "item"
      \/ pc'[r] = "owner" /\ a.kind = "revoke"
      \/ pc'[r] = "share"
  BY ArrivalKeepsRequests
<1>3. a.kind = "revoke" => a.by \in Admin \/ owner[a.share] = a.by
  BY DEF Arrive, ShownTo, SharesBy
<1> QED
  BY <1>1, <1>2, <1>3 DEF Fresh


(* The heart of RefusalHasReason: without an excuse, no check of a request  *)
(* fails.  A walk gets to the shared folder because the folders above one   *)
(* that exists exist and the shared folder is among the first MaxWalk.      *)
LEMMA WorkIsFresh ==
    ASSUME ItemsOK, TableOK, RequestsOK, Closed, Excuse, NEW r \in Req,
           Fits(r), Climbed(r), Timely(r), Fresh(r), Work(r)
    PROVE  Fresh(r)'
<1> DEFINE a == ask[r]
           t == target[a.share]
<1>1. SUFFICES ASSUME ~excuse'[r] PROVE Fresh(r)'
  BY DEF Fresh
<1>2. /\ Folder \cap File = {} /\ None \notin Folder \cup File
      /\ ask'[r] = a /\ folders \subseteq Folder
      /\ a.share \in Share /\ a.folder \in Folder \cup {None}
      /\ a.kind = "open" => a.file \in File
  BY WorkKeepsRequests, SharesAssumption, AskFacts DEF Item, ItemsOK, RequestsOK
<1>3. pc[r] # "idle" /\ pc'[r] # "idle"
  BY DEF Work, FindItem, Lookup, Insert, ReadShare, ReadFile, Walk, FindFolder, ListContents,
     Count, ReadOwner, Revoke, Goto, Climb, RequestsOK
<1>4. ~excuse[r]
  BY <1>1, <1>3, ExcuseIsKept
<1>5. Answerable(ask[r]) /\ start[r] \in folders \cup {None}
  BY <1>3, <1>4 DEF Timely
<1>6. AskedFor(r)
  BY <1>5, AnswerableMeans
<1>7. CASE FindItem(r)
  <2>1. Exists(a.item)
    BY <1>6, <1>7 DEF AskedFor, FindItem, Fits
  <2> QED
    BY <1>7, <2>1 DEF FindItem, Goto, RequestsOK, Fresh
<1>8. CASE Lookup(r)
  BY <1>8 DEF Lookup, Goto, RequestsOK, Fresh
<1>9. CASE Insert(r)
  <2>1. Exists(a.item) /\ a.item \in Item
    BY <1>6, <1>9, AskFacts DEF AskedFor, Insert, Fits, RequestsOK
  <2>2. a.item \in folders \cup {f \in File : status[f] # "gone"}
    BY <2>1 DEF Exists
  <2> QED
    BY <1>9, <2>2 DEF Insert, Goto, RequestsOK, Fresh
<1>10. CASE ReadShare(r)
  <2>1. /\ pc[r] = "share" /\ steps[r] = 0 /\ Alive(a.share)
        /\ a.kind \in {"page", "direct", "open", "zip"}
        /\ a.kind = "direct" => t \in File
        /\ a.kind \in {"open", "zip"} => t \in Folder
    BY <1>6, <1>10 DEF ReadShare, Fits, AskedFor
  <2>2. UNCHANGED table
    BY <1>10 DEF ReadShare
  <2>3. CASE pc'[r] = "file" /\ root'[r] = t
    BY <1>2, <2>2, <2>3 DEF Fresh, table
  <2>4. CASE pc'[r] = "folder"
    BY <2>4 DEF Fresh
  <2>5. CASE /\ t \in Folder /\ a.kind \in {"page", "zip"} /\ a.folder # None
             /\ root'[r] = t /\ pc'[r] = "walk" /\ start'[r] = a.folder /\ steps'[r] = 0
    <3>1. Within(a.folder, t)
      BY <1>6, <2>5 DEF AskedFor
    <3>2. InTree(a.folder, t) /\ Level(a.folder, t) <= MaxWalk /\ a.folder \in Folder
      BY <1>2, <2>5, <3>1 DEF Within
    <3>3. Level(a.folder, t) \in Nat \ {0}
      BY <3>2, ChainFacts DEF InTree, Level
    <3>4. 1 <= Level(a.folder, t)
      BY <3>3
    <3> QED
      BY <2>5, <3>2, <3>4 DEF Fresh
  <2>6. t \notin File \/ t \notin Folder
    BY <1>2
  <2>7. /\ Alive(a.share) /\ root' = [root EXCEPT ![r] = t]
        /\ \/ Goto(r, "file")
           \/ Goto(r, "folder")
           \/ t \in Folder /\ a.kind \in {"page", "zip"} /\ a.folder # None /\ Climb(r, a.folder)
    BY <1>10, <2>1, <2>6 DEF ReadShare
  <2> HIDE DEF t, a
  <2> QED
    BY <2>1, <2>3, <2>4, <2>5, <2>7 DEF Goto, Climb, RequestsOK
<1>11. CASE ReadFile(r)
  <2> DEFINE f == IF root[r] \in File THEN root[r] ELSE a.file
  <2>1. /\ pc[r] = "file" /\ steps[r] = 0 /\ root[r] = t /\ root'[r] = root[r]
        /\ \/ root[r] \in File /\ a.kind \in {"page", "direct"}
           \/ root[r] \in Folder /\ a.kind = "open"
    BY <1>4, <1>11 DEF ReadFile, Fits, Fresh
  <2>2. status[f] = "active"
    BY <1>2, <1>6, <2>1 DEF AskedFor
  <2>3. CASE root[r] \in File
    <3>1. pc'[r] \in {"count", "served"}
      BY <1>2, <1>11, <2>2, <2>3 DEF ReadFile, Goto, RequestsOK
    <3> QED
      BY <3>1 DEF Fresh
  <2>4. CASE root[r] \in Folder
    <3>1. f = a.file /\ a.file \in File /\ at[a.file] # None /\ Within(at[a.file], t)
      BY <1>2, <1>6, <2>1, <2>4 DEF AskedFor
    <3> DEFINE d == at[a.file]
    <3>2. Climb(r, d)
      BY <1>2, <1>11, <2>2, <2>4, <3>1 DEF ReadFile
    <3>3. d \in Folder /\ InTree(d, t) /\ Level(d, t) <= MaxWalk
      BY <1>2, <3>1 DEF Within
    <3> HIDE DEF d
    <3>4. pc'[r] = "walk" /\ start'[r] = d /\ steps'[r] = 0
      BY <2>1, <3>2 DEF Climb, Goto, RequestsOK
    <3>5. Level(d, t) \in Nat \ {0}
      BY <3>3, ChainFacts DEF InTree, Level
    <3>6. 1 <= Level(d, t)
      BY <3>5
    <3> QED
      BY <2>1, <3>3, <3>4, <3>6 DEF Fresh
  <2> QED
    BY <2>1, <2>3, <2>4
<1>12. CASE Walk(r)
  <2> DEFINE s == start[r]
             n == Level(s, root[r])
  <2>1. /\ pc[r] = "walk" /\ s \in Folder /\ root[r] \in Folder
        /\ steps[r] + 1 \in 1..Len(Chain[s]) /\ steps[r] \in Nat /\ MaxWalk \in Nat
        /\ cur[r] = Chain[s][steps[r] + 1]
        /\ InTree(s, root[r]) /\ steps[r] + 1 <= n /\ n <= MaxWalk
        /\ root'[r] = root[r] /\ start'[r] = s
    BY <1>4, <1>12, SharesAssumption DEF Walk, Climbed, Fits, Fresh, RequestsOK
  <2>2. n \in 1..Len(Chain[s]) /\ Chain[s][n] = root[r]
    BY <2>1, ChainFacts DEF InTree, Level
  <2>3. s \in folders /\ Len(Chain[s]) \in Nat
    BY <1>2, <1>5, <2>1, ChainFacts
  <2>4. steps[r] < MaxWalk /\ steps[r] # MaxWalk
    BY <2>1, <2>2, <2>3
  <2>5. CASE cur[r] = root[r]
    <3>1. pc'[r] \in {"served", "folder"}
      BY <1>12, <2>4, <2>5 DEF Walk, Goto, RequestsOK
    <3> QED
      BY <3>1 DEF Fresh
  <2>6. CASE cur[r] # root[r]
    <3>1. steps[r] + 1 # n
      BY <2>1, <2>2, <2>6
    <3>2. (steps[r] + 1) + 1 <= n /\ (steps[r] + 1) < Len(Chain[s])
      BY <2>1, <2>2, <2>3, <3>1
    <3>3. cur[r] \in folders /\ cur[r] \in Folder
      BY <1>2, <2>1, <2>3 DEF Closed
    <3>4. Len(Chain[cur[r]]) = Len(Chain[s]) - (steps[r] + 1) + 1
      BY <2>1, RestOfChain
    <3>5. Parent(cur[r]) # None
      <4> DEFINE m == Len(Chain[cur[r]])
      <4>1. Parent(cur[r]) = IF m = 1 THEN None ELSE Chain[cur[r]][2]
        BY DEF Parent
      <4>2. \A i \in 1..m : Chain[cur[r]][i] \in Folder
        BY <3>3, ChainFacts
      <4>3. m = Len(Chain[s]) - (steps[r] + 1) + 1
        BY <3>4
      <4> HIDE DEF m
      <4>4. m # 1 /\ 2 \in 1..m
        BY <2>1, <2>3, <3>2, <4>3
      <4> QED
        BY <1>2, <4>1, <4>2, <4>4
    <3>6. pc' = pc /\ steps'[r] = steps[r] + 1
      BY <1>12, <2>4, <2>6, <3>3, <3>5 DEF Walk, RequestsOK
    <3> HIDE DEF n, s
    <3>7. /\ InTree(start'[r], root'[r]) /\ steps'[r] + 1 <= Level(start'[r], root'[r])
          /\ Level(start'[r], root'[r]) <= MaxWalk
      BY <2>1, <3>2, <3>6 DEF n
    <3> QED
      BY <2>1, <3>6, <3>7 DEF Fresh
  <2> QED
    BY <2>5, <2>6
<1>13. CASE FindFolder(r)
  <2>1. start[r] \in Folder /\ pc[r] = "folder"
    BY <1>13 DEF FindFolder, Climbed
  <2>2. start[r] \in folders
    BY <1>2, <1>5, <2>1
  <2> QED
    BY <1>13, <2>2 DEF FindFolder, Goto, RequestsOK, Fresh
<1>14. CASE ListContents(r)
  BY <1>14 DEF ListContents, Goto, RequestsOK, Fresh
<1>15. CASE Count(r)
  BY <1>15 DEF Count, Goto, RequestsOK, Fresh
<1>16. CASE ReadOwner(r)
  <2>1. a.share \in rows /\ (a.by \in Admin \/ owner[a.share] = a.by)
    BY <1>4, <1>6, <1>16 DEF AskedFor, ReadOwner, Fits, Fresh
  <2> QED
    BY <1>16, <2>1 DEF ReadOwner, Goto, RequestsOK, Fresh
<1>17. CASE Revoke(r)
  BY <1>17 DEF Revoke, Goto, RequestsOK, Fresh
<1> QED
  BY <1>7, <1>8, <1>9, <1>10, <1>11, <1>12, <1>13, <1>14, <1>15, <1>16, <1>17 DEF Work


-----------------------------------------------------------------------------
(* One link for one item: who is about to insert one has seen none, and     *)
(* nobody else is creating one, unless the item counts as doubled.          *)
Once(r) == pc[r] = "insert" /\ ask[r].item \notin doubled => Sharing(ask[r].item) = {}

Creates(r) == pc[r] # "idle" /\ ask[r].kind = "create"
Alone ==
    \A q, r \in Req : q # r /\ Creates(q) /\ Creates(r) /\ ask[q].item = ask[r].item =>
        ask[r].item \in doubled

(* Where no row comes into being, nothing gets worse.                       *)
LEMMA FewerLinks ==
    ASSUME \A i \in Item : Sharing(i)' \subseteq Sharing(i), doubled \subseteq doubled', SingleActive
    PROVE  SingleActive'
<1>1. SUFFICES ASSUME NEW i \in Item \ doubled', NEW s \in Sharing(i)', NEW t \in Sharing(i)'
               PROVE  s = t
  BY DEF SingleActive
<1>2. i \in Item \ doubled /\ s \in Sharing(i) /\ t \in Sharing(i)
  BY <1>1
<1> QED
  BY <1>2 DEF SingleActive

LEMMA UntouchedStaysOnce ==
    ASSUME NEW q \in Req, Untouched(q), RequestsOK, Fits(q), Once(q), doubled \subseteq doubled',
           \A i \in Item : ask[q].item = i /\ pc[q] = "insert" /\ i \notin doubled =>
                Sharing(i)' \subseteq Sharing(i)
    PROVE  Once(q)'
<1> DEFINE i == ask[q].item
<1>1. ask'[q] = ask[q] /\ pc'[q] = pc[q]
  BY DEF Untouched
<1>2. CASE pc[q] = "insert" /\ i \notin doubled
  <2>1. i \in Item /\ Sharing(i) = {}
    BY <1>2, AskFacts DEF Fits, RequestsOK, Once
  <2>2. \A j \in Item : j = i => Sharing(j)' = {}
    BY <1>2, <2>1
  <2>3. \A j \in Item : j = i => {s \in rows' \ expired' : target'[s] = j} = {}
    BY <2>2 DEF Sharing
  <2>4. {s \in rows' \ expired' : target'[s] = ask'[q].item} = {}
    BY <1>1, <2>1, <2>3
  <2> QED
    BY <2>4 DEF Once, Sharing
<1>3. CASE ~(pc[q] = "insert" /\ i \notin doubled)
  BY <1>1, <1>3 DEF Once
<1> QED
  BY <1>2, <1>3

LEMMA ChangeKeepsSingle ==
    ASSUME ItemsOK, TableOK, RequestsOK, Change, Alone, SingleActive,
           \A q \in Req : Fits(q) /\ Once(q)
    PROVE  SingleActive' /\ Alone' /\ \A q \in Req : Once(q)'
<1>1. Steady /\ UNCHANGED <<request, doubled>>
  BY ChangeKeepsTable
<1>2. \A q \in Req : Untouched(q)
  BY <1>1 DEF request, walk, Untouched
<1>3. SingleActive'
  BY <1>1, FewerLinks DEF Steady
<1>4. Alone'
  BY <1>1 DEF Alone, Creates, request
<1>5. ASSUME NEW q \in Req PROVE Once(q)'
  BY <1>1, <1>2, UntouchedStaysOnce DEF Steady
<1> QED
  BY <1>3, <1>4, <1>5

LEMMA EndKeepsSingle ==
    ASSUME ItemsOK, TableOK, RequestsOK, Alone, SingleActive, NEW r \in Req, End(r),
           \A q \in Req : Fits(q) /\ Once(q)
    PROVE  SingleActive' /\ Alone' /\ \A q \in Req : Once(q)'
<1>1. /\ UNCHANGED <<items, table, doubled>> /\ pc'[r] = "idle"
      /\ \A q \in Req \ {r} : Untouched(q)
  BY EndKeepsRequests
<1>2. \A i : Sharing(i)' = Sharing(i)
  BY <1>1 DEF Sharing, table
<1>3. SingleActive'
  BY <1>1, <1>2, FewerLinks
<1>4. Alone'
  BY <1>1 DEF Alone, Creates, Untouched
<1>5. ASSUME NEW q \in Req PROVE Once(q)'
  <2>1. CASE q = r
    BY <1>1, <2>1 DEF Once
  <2>2. CASE q # r
    BY <1>1, <1>2, <2>2, UntouchedStaysOnce
  <2> QED
    BY <2>1, <2>2
<1> QED
  BY <1>3, <1>4, <1>5

LEMMA ArrivalKeepsSingle ==
    ASSUME ItemsOK, TableOK, RequestsOK, Alone, SingleActive, doubled \subseteq Item,
           NEW r \in Req, NEW a \in Asks[r], Arrive(r, a),
           \A q \in Req : Fits(q) /\ Once(q)
    PROVE  SingleActive' /\ Alone' /\ (\A q \in Req : Once(q)') /\ doubled' \subseteq Item
<1>1. /\ UNCHANGED table /\ pc'[r] # "insert" /\ ask'[r] = a /\ pc[r] = "idle"
      /\ \A q \in Req \ {r} : Untouched(q)
  BY ArrivalKeepsRequests DEF Arrive
<1>2. doubled' = IF a.kind = "create" /\ Creating(a.item) # {}
                 THEN doubled \cup {a.item} ELSE doubled
  BY DEF Arrive
<1>3. doubled \subseteq doubled' /\ doubled' \subseteq Item
  BY <1>2, AskFacts
<1>4. \A i : Sharing(i)' = Sharing(i)
  BY <1>1 DEF Sharing, table
<1>5. SingleActive'
  BY <1>3, <1>4, FewerLinks
<1>6. Alone'
  <2>1. SUFFICES ASSUME NEW p \in Req, NEW q \in Req, p # q, Creates(p)', Creates(q)',
                        ask'[p].item = ask'[q].item
                 PROVE  ask'[q].item \in doubled'
    BY DEF Alone
  <2>2. CASE p # r /\ q # r
    BY <1>1, <1>3, <2>1, <2>2 DEF Alone, Creates, Untouched
  <2>3. CASE p = r
    <3>1. q \in Creating(a.item) /\ a.kind = "create"
      BY <1>1, <2>1, <2>3 DEF Creating, Creates, Untouched
    <3> QED
      BY <1>1, <1>2, <2>1, <2>3, <3>1
  <2>4. CASE q = r
    <3>1. p \in Creating(a.item) /\ a.kind = "create"
      BY <1>1, <2>1, <2>4 DEF Creating, Creates, Untouched
    <3> QED
      BY <1>1, <1>2, <2>1, <2>4, <3>1
  <2> QED
    BY <2>2, <2>3, <2>4
<1>7. ASSUME NEW q \in Req PROVE Once(q)'
  <2>1. CASE q = r
    BY <1>1, <2>1 DEF Once
  <2>2. CASE q # r
    BY <1>1, <1>3, <1>4, <2>2, UntouchedStaysOnce
  <2> QED
    BY <2>1, <2>2
<1> QED
  BY <1>3, <1>5, <1>6, <1>7

LEMMA WorkKeepsSingle ==
    ASSUME ItemsOK, TableOK, RequestsOK, Room, Alone, SingleActive, doubled \subseteq Item,
           NEW r \in Req, Work(r), \A q \in Req : Fits(q) /\ Once(q)
    PROVE  SingleActive' /\ Alone' /\ (\A q \in Req : Once(q)') /\ doubled' \subseteq Item
<1> DEFINE i == ask[r].item
<1>1. /\ UNCHANGED ask /\ \A q \in Req \ {r} : Untouched(q)
      /\ pc[r] # "insert" => \A j \in Item : Sharing(j)' \subseteq Sharing(j)
      /\ pc[r] = "insert" => \A j \in Item : Sharing(j)' \subseteq Sharing(j) \cup {made + 1}
                             /\ (j # i => Sharing(j)' \subseteq Sharing(j))
  BY WorkKeepsRequests, WorkKeepsTable
<1>2. pc[r] # "idle" /\ (pc[r] \in {"lookup", "insert"} => ask[r].kind = "create" /\ i \in Item)
  BY AskFacts DEF Work, FindItem, Lookup, Insert, ReadShare, ReadFile, Walk, FindFolder,
     ListContents, Count, ReadOwner, Revoke, Fits, RequestsOK
<1>3. \/ doubled' = doubled
      \/ pc[r] = "lookup" /\ doubled' = doubled \cup {i}
  BY DEF Work, FindItem, Lookup, Insert, ReadShare, ReadFile, Walk, FindFolder,
     ListContents, Count, ReadOwner, Revoke
<1>4. doubled \subseteq doubled' /\ doubled' \subseteq Item
  BY <1>2, <1>3
<1>5. pc'[r] = "insert" =>
        /\ pc[r] = "lookup" /\ (Sharing(i) = {} \/ i \in doubled')
        /\ UNCHANGED table
  BY DEF Work, FindItem, Lookup, Insert, ReadShare, ReadFile, Walk, FindFolder,
     ListContents, Count, ReadOwner, Revoke, Goto, Climb, RequestsOK
<1>6. SingleActive'
  <2>1. CASE pc[r] # "insert" \/ i \in doubled
    <3>1. SUFFICES ASSUME NEW j \in Item \ doubled', NEW s \in Sharing(j)', NEW t \in Sharing(j)'
                   PROVE  s = t
      BY DEF SingleActive
    <3>2. j \in Item \ doubled /\ Sharing(j)' \subseteq Sharing(j)
      BY <1>1, <1>4, <2>1
    <3> QED
      BY <3>1, <3>2 DEF SingleActive
  <2>2. CASE pc[r] = "insert" /\ i \notin doubled
    <3>1. Sharing(i) = {}
      BY <2>2 DEF Once
    <3>2. SUFFICES ASSUME NEW j \in Item \ doubled', NEW s \in Sharing(j)', NEW t \in Sharing(j)'
                   PROVE  s = t
      BY DEF SingleActive
    <3>3. CASE j = i
      BY <1>1, <2>2, <3>1, <3>2, <3>3
    <3>4. CASE j # i
      BY <1>1, <1>4, <2>2, <3>2, <3>4 DEF SingleActive
    <3> QED
      BY <3>3, <3>4
  <2> QED
    BY <2>1, <2>2
<1>7. Alone'
  <2>1. \A q \in Req : Creates(q)' => Creates(q)
    BY <1>1, <1>2 DEF Creates, Untouched
  <2> QED
    BY <1>1, <1>4, <2>1 DEF Alone
<1>8. ASSUME NEW q \in Req PROVE Once(q)'
  <2>1. CASE q = r
    <3>1. CASE pc'[r] = "insert" /\ i \notin doubled'
      <4>1. Sharing(i) = {} /\ UNCHANGED table
        BY <1>5, <3>1
      <4>2. {s \in rows' \ expired' : target'[s] = ask'[r].item} = {}
        BY <1>1, <4>1 DEF Sharing, table
      <4> QED
        BY <2>1, <4>2 DEF Once, Sharing
    <3>2. CASE ~(pc'[r] = "insert" /\ i \notin doubled')
      BY <1>1, <2>1, <3>2 DEF Once
    <3> QED
      BY <3>1, <3>2
  <2>2. CASE q # r
    <3>1. pc[q] = "insert" => ask[q].kind = "create" /\ ask[q].item \in Item
      BY AskFacts DEF Fits, RequestsOK
    <3>2. pc[q] = "insert" /\ pc[r] = "insert" /\ ask[q].item \notin doubled => ask[q].item # i
      BY <1>2, <2>2, <3>1 DEF Alone, Creates
    <3>3. \A j \in Item : ask[q].item = j /\ pc[q] = "insert" /\ j \notin doubled =>
            Sharing(j)' \subseteq Sharing(j)
      BY <1>1, <3>1, <3>2
    <3> QED
      BY <1>1, <1>4, <2>2, <3>3, UntouchedStaysOnce
  <2> QED
    BY <2>1, <2>2
<1> QED
  BY <1>4, <1>6, <1>7, <1>8


-----------------------------------------------------------------------------
(* The inductive invariant.                                                 *)
Inductive ==
    /\ ItemsOK /\ TableOK /\ RequestsOK /\ HistoryOK
    /\ Room /\ Closed /\ SingleActive /\ Alone
    /\ \A r \in Req : Fits(r) /\ Climbed(r) /\ Timely(r) /\ Fresh(r) /\ Once(r)

LEMMA InductiveInit == Init => Inductive
<1> SUFFICES ASSUME Init PROVE Inductive
  OBVIOUS
<1>1. MaxShares \in Nat /\ MaxWalk \in Nat /\ 0 \in 0..MaxShares /\ 0 \in 0..MaxWalk
  BY SharesAssumption
<1>2. ItemsOK
  BY DEF Init, ItemsOK
<1>3. TableOK
  BY <1>1 DEF Init, TableOK
<1>4. RequestsOK
  <2>1. \A r \in Req : ask[r] \in Asks[r]
    BY SomeAsk DEF Init
  <2> QED
    BY <1>1, <2>1 DEF Init, RequestsOK, Places
<1>5. HistoryOK
  BY DEF Init, HistoryOK
<1>6. Room
  <2>1. Coming = {} /\ made = 0
    BY DEF Init, Coming
  <2>2. Cardinality({}) = 0
    BY FS_EmptySet
  <2> QED
    BY <1>1, <2>1, <2>2 DEF Room
<1>7. Closed
  BY ChainFacts DEF Init, Closed
<1>8. SingleActive /\ Alone
  BY DEF Init, SingleActive, Sharing, Alone, Creates
<1>9. \A r \in Req : Fits(r) /\ Climbed(r) /\ Timely(r) /\ Fresh(r) /\ Once(r)
  BY DEF Init, Fits, Climbed, Following, Timely, Fresh, Once
<1> QED
  BY <1>2, <1>3, <1>4, <1>5, <1>6, <1>7, <1>8, <1>9 DEF Inductive

LEMMA ChangeKeeps ==
    ASSUME Inductive, Change, Excuse
    PROVE  Inductive'
<1>1. ItemsOK' /\ TableOK' /\ Steady /\ UNCHANGED <<request, doubled, made>>
  BY ChangeKeepsTable DEF Inductive
<1>2. RequestsOK' /\ UNCHANGED pc
  BY <1>1 DEF Inductive, RequestsOK, request, walk
<1>3. \A q \in Req : Untouched(q)
  BY <1>1 DEF request, walk, Untouched
<1>4. HistoryOK'
  <2>1. excuse' \in [Req -> BOOLEAN]
    BY DEF Excuse
  <2> QED
    BY <1>1, <2>1 DEF Inductive, HistoryOK
<1>5. Room'
  BY <1>1, <1>2 DEF Inductive, Room, Coming
<1>6. Closed'
  BY ChangeKeepsClosed DEF Inductive
<1>7. SingleActive' /\ Alone' /\ \A q \in Req : Once(q)'
  BY ChangeKeepsSingle DEF Inductive
<1>8. ASSUME NEW q \in Req PROVE Fits(q)' /\ Climbed(q)' /\ Timely(q)' /\ Fresh(q)'
  <2>1. Fits(q)' /\ Climbed(q)'
    BY <1>3, UntouchedFits DEF Inductive
  <2>2. Timely(q)'
    BY ExcuseIsKept
  <2>3. Fresh(q)'
    BY <1>1, <1>3, UntouchedStaysFresh DEF Inductive, Steady
  <2> QED
    BY <2>1, <2>2, <2>3
<1> QED
  BY <1>1, <1>2, <1>4, <1>5, <1>6, <1>7, <1>8 DEF Inductive

(* What a step of one request leaves to be shown of that request.           *)
LEMMA StepKeeps ==
    ASSUME Inductive, Excuse, NEW r \in Req, StepOf(r)
    PROVE  Inductive'
<1>1. /\ TableOK' /\ RequestsOK' /\ Room' /\ UNCHANGED items
      /\ \A s \in rows \cap rows' : target'[s] = target[s] /\ owner'[s] = owner[s]
      /\ \A q \in Req \ {r} : Untouched(q)
      /\ Fits(r)' /\ Climbed(r)' /\ Fresh(r)'
      /\ SingleActive' /\ Alone' /\ (\A q \in Req : Once(q)') /\ doubled' \subseteq Item
  <2>1. CASE Work(r)
    BY <2>1, WorkKeepsRequests, WorkKeepsTable, WorkFits, WorkIsFresh, WorkKeepsSingle
       DEF Inductive, HistoryOK
  <2>2. CASE \E a \in Asks[r] : Arrive(r, a)
    <3>1. PICK a \in Asks[r] : Arrive(r, a)
      BY <2>2
    <3>2. UNCHANGED <<items, table>>
      BY <3>1 DEF Arrive
    <3>3. TableOK' /\ \A s \in rows \cap rows' : target'[s] = target[s] /\ owner'[s] = owner[s]
      BY <3>2 DEF table, items, TableOK, Inductive
    <3> QED
      BY <3>1, <3>2, <3>3, ArrivalKeepsRequests, ArrivalKeepsRoom, ArrivalFits, ArrivalIsFresh,
         ArrivalKeepsSingle DEF Inductive, HistoryOK
  <2>3. CASE Error(r) \/ Answer(r)
    <3>1. End(r)
      BY <2>3 DEF Error, Answer
    <3>2. UNCHANGED <<items, table, doubled>>
      BY <3>1 DEF End
    <3>3. TableOK' /\ \A s \in rows \cap rows' : target'[s] = target[s] /\ owner'[s] = owner[s]
      BY <3>2 DEF table, items, TableOK, Inductive
    <3> QED
      BY <3>1, <3>2, <3>3, EndKeepsRequests, EndKeepsRoom, EndFits, EndIsFresh, EndKeepsSingle
         DEF Inductive, HistoryOK
  <2> QED
    BY <2>1, <2>2, <2>3 DEF StepOf
<1>2. ItemsOK' /\ Closed'
  BY <1>1 DEF Inductive, ItemsOK, Closed, items
<1>3. HistoryOK'
  <2>1. excuse' \in [Req -> BOOLEAN]
    BY DEF Excuse
  <2> QED
    BY <1>1, <2>1 DEF HistoryOK
<1>4. ASSUME NEW q \in Req PROVE Fits(q)' /\ Climbed(q)' /\ Timely(q)' /\ Fresh(q)'
  <2>1. Timely(q)'
    BY ExcuseIsKept
  <2>2. CASE q = r
    BY <1>1, <2>1, <2>2
  <2>3. CASE q # r
    <3>1. Untouched(q)
      BY <1>1, <2>3
    <3>2. Fits(q)' /\ Climbed(q)'
      BY <3>1, UntouchedFits DEF Inductive
    <3>3. Fresh(q)'
      BY <1>1, <3>1, UntouchedStaysFresh DEF Inductive
    <3> QED
      BY <2>1, <3>2, <3>3
  <2> QED
    BY <2>2, <2>3
<1> QED
  BY <1>1, <1>2, <1>3, <1>4 DEF Inductive

LEMMA InductiveNext == Inductive /\ [Next]_vars => Inductive'
<1>1. ASSUME Inductive, UNCHANGED vars PROVE Inductive'
  <2>1. /\ UNCHANGED <<folders, status, at, made, rows, expired, target, owner, views>>
        /\ UNCHANGED <<pc, ask, root, start, cur, steps, excuse, doubled>>
    BY <1>1 DEF vars, items, table, walk, request
  <2>2. ItemsOK' /\ TableOK' /\ RequestsOK' /\ HistoryOK'
    BY <1>1, <2>1 DEF Inductive, ItemsOK, TableOK, RequestsOK, HistoryOK
  <2>3. Room' /\ Closed' /\ SingleActive' /\ Alone'
    BY <1>1, <2>1 DEF Inductive, Room, Coming, Closed, SingleActive, Sharing, Alone, Creates
  <2>4. ASSUME NEW r \in Req PROVE Fits(r)' /\ Climbed(r)' /\ Timely(r)' /\ Fresh(r)' /\ Once(r)'
    <3>1. Fits(r) /\ Climbed(r) /\ Timely(r) /\ Fresh(r) /\ Once(r)
      BY <1>1 DEF Inductive
    <3>2. Fits(r)' /\ Climbed(r)' /\ Fresh(r)' /\ Once(r)'
      BY <2>1, <3>1 DEF Fits, Climbed, Following, Fresh, Once, Sharing
    <3>3. Answerable(ask[r])' <=> Answerable(ask[r])
      BY <2>1 DEF Answerable, Alive, Exists, Within
    <3>4. Timely(r)'
      BY <2>1, <3>1, <3>3 DEF Timely
    <3> QED
      BY <3>2, <3>4
  <2> QED
    BY <2>2, <2>3, <2>4 DEF Inductive
<1>2. ASSUME Inductive, Next PROVE Inductive'
  <2>1. Excuse /\ (Change \/ \E r \in Req : StepOf(r))
    BY <1>2 DEF Next, StepOf
  <2> QED
    BY <1>2, <2>1, ChangeKeeps, StepKeeps
<1> QED
  BY <1>1, <1>2

(* Everything the proofs rest on holds all the time.                        *)
THEOREM InductiveHolds == Spec => []Inductive
BY InductiveInit, InductiveNext, PTL DEF Spec

(* The columns of the tables and the locals of the handlers hold what they  *)
(* are meant to; a row's target exists.                                     *)
THEOREM TypeCorrect == Spec => []TypeOK
<1>1. Inductive => TypeOK
  BY Parts DEF Inductive
<1> QED
  BY <1>1, InductiveHolds, PTL

(* A link to a folder shows nothing but that folder and what is below it,   *)
(* however the folders are nested and whatever is moved meanwhile.          *)
THEOREM OnlySharedIsServed == Spec => []SharedOnly
<1>1. Inductive => SharedOnly
  BY DEF Inductive, SharedOnly, Climbed
<1> QED
  BY <1>1, InductiveHolds, PTL

(* A link that was given out, is in force and has its target is never       *)
(* turned down down to MaxWalk levels below the shared folder; nor is a     *)
(* creation or a revocation that is allowed.                                *)
THEOREM RefusalsHaveReasons == Spec => []RefusalHasReason
<1>1. Inductive => RefusalHasReason
  BY DEF Inductive, RefusalHasReason, Fresh
<1> QED
  BY <1>1, InductiveHolds, PTL

(* However many requests run, an item has one active link unless two of     *)
(* them created it together or a lookup met an error.                       *)
THEOREM OneLinkEach == Spec => []SingleActive
<1>1. Inductive => SingleActive
  BY DEF Inductive
<1> QED
  BY <1>1, InductiveHolds, PTL
=============================================================================
