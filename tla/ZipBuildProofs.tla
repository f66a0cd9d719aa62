--------------------------- MODULE ZipBuildProofs ---------------------------
(***************************************************************************)
(* Proofs about ZipBuild, for any files, folders, names and filters, either *)
(* reader and any faults: what ends like an archive is one, its names are   *)
(* distinct, and the receiver gets all of it or nothing, which is           *)
(* WholeArchive.                                                            *)
(***************************************************************************)
EXTENDS ZipBuild, FiniteSetTheorems, WellFoundedInduction, TLAPS

USE ZipBuildAssumption

(* A set of counters that has one has a first one.                          *)
LEMMA FirstExists ==
    ASSUME NEW S \in SUBSET Nat, IsFiniteSet(S), S # {}
    PROVE  \E n \in S : \A m \in S : n <= m
<1> DEFINE Upto(n) == S \cap (0..n)
           T == {Upto(n) : n \in S}
           R == StrictSubsetOrdering(S)
<1>1. IsWellFoundedOn(R, FiniteSubsetsOf(S))
  BY FS_StrictSubsetOrderingWellFounded
<1>2. T \subseteq FiniteSubsetsOf(S) /\ T # {}
  <2>1. FiniteSubsetsOf(S) = SUBSET S
    BY FS_FiniteSubsetsOfFinite
  <2>2. \A n \in S : Upto(n) \in SUBSET S
    OBVIOUS
  <2>3. T \subseteq SUBSET S
    <3> HIDE DEF Upto
    <3> QED
      BY <2>2
  <2>4. T # {}
    <3>1. PICK n \in S : TRUE
      OBVIOUS
    <3>2. Upto(n) \in T
      OBVIOUS
    <3> HIDE DEF T
    <3> QED
      BY <3>2
  <2> HIDE DEF T
  <2> QED
    BY <2>1, <2>3, <2>4
<1>3. PICK x \in T : \A y \in T : ~ (<<y, x>> \in R)
  <2> HIDE DEF T, R
  <2> QED
    BY <1>1, <1>2, WFMin
<1>4. PICK n \in S : x = Upto(n)
  OBVIOUS
<1>5. ASSUME NEW m \in S, m < n PROVE FALSE
  <2>1. Upto(m) \subseteq Upto(n) /\ Upto(m) # Upto(n) /\ Upto(m) \in T
    BY <1>5
  <2> QED
    BY <1>3, <1>4, <2>1 DEF StrictSubsetOrdering
<1> QED
  BY <1>5

(* A sequence with one element more.                                        *)
LEMMA Appended ==
    ASSUME NEW S, NEW s \in Seq(S), NEW e \in S
    PROVE  /\ Len(s) \in Nat /\ DOMAIN s = 1..Len(s)
           /\ Append(s, e) \in Seq(S)
           /\ Len(Append(s, e)) = Len(s) + 1
           /\ DOMAIN Append(s, e) = 1..(Len(s) + 1)
           /\ \A i \in 1..Len(s) : Append(s, e)[i] = s[i]
           /\ Append(s, e)[Len(s) + 1] = e
OBVIOUS

(* The names in use are finitely many.                                      *)
LEMMA NamesAreFinite ==
    ASSUME given \in Seq(Path), seen = {given[i] : i \in DOMAIN given}
    PROVE  IsFiniteSet(seen) /\ Cardinality(seen) \in Nat
<1>1. Len(given) \in Nat /\ DOMAIN given = 1..Len(given) /\ given \in [1..Len(given) -> seen]
  OBVIOUS
<1>2. given \in Surjection(1..Len(given), seen)
  BY <1>1 DEF Surjection
<1>3. 1 \in Int /\ Len(given) \in Int
  BY <1>1
<1>4. IsFiniteSet(1..Len(given))
  BY <1>3, FS_Interval
<1>5. IsFiniteSet(seen)
  BY <1>2, <1>4, FS_Surjection
<1> QED
  BY <1>5, FS_CardinalityType

(* One counter more than there are names cannot all be taken: Dedupe finds   *)
(* one, and the name it makes is new.                                       *)
LEMMA DedupeFindsNewName ==
    ASSUME given \in Seq(Path), seen = {given[i] : i \in DOMAIN given}, NEW p \in Path
    PROVE  Dedupe(p) \in Path /\ Dedupe(p) \notin seen /\ Dedupe(p).stem = p.stem
<1> DEFINE Tagged(n) == [p EXCEPT !.tags = Append(@, n)]
           last == Cardinality(seen) + 2
           free == {n \in 2..last : Tagged(n) \notin seen}
<1>1. CASE p \notin seen
  BY <1>1 DEF Dedupe
<1>2. CASE p \in seen
  <2>1. IsFiniteSet(seen) /\ Cardinality(seen) \in Nat
    BY NamesAreFinite
  <2>2. \A n \in Nat : Tagged(n) \in Path /\ Tagged(n).stem = p.stem
    <3>1. p.tags \in Seq(Nat)
      BY DEF Path
    <3>2. \A n \in Nat : Append(p.tags, n) \in Seq(Nat)
      BY <3>1, Appended
    <3> QED
      BY <3>2 DEF Path
  <2>3. \A n \in Nat : Tagged(n).tags = Append(p.tags, n)
    BY DEF Path
  <2>4. \A n \in Nat : Append(p.tags, n)[Len(p.tags) + 1] = n
    BY Appended DEF Path
  <2>5. \A m, n \in Nat : Tagged(m) = Tagged(n) => m = n
    <3> HIDE DEF Tagged
    <3> QED
      BY <2>3, <2>4
  <2>6. IsFiniteSet(2..last) /\ Cardinality(2..last) = Cardinality(seen) + 1
    <3>1. 2 \in Int /\ last \in Int /\ ~ (2 > last)
      BY <2>1
    <3>2. Cardinality(2..last) = last - 2 + 1
      BY <3>1, FS_Interval
    <3> QED
      BY <2>1, <3>1, <3>2, FS_Interval
  <2>7. free # {}
    <3> SUFFICES ASSUME free = {} PROVE FALSE
      OBVIOUS
    <3> DEFINE f == [n \in 2..last |-> Tagged(n)]
    <3>1. 2..last \subseteq Nat
      BY <2>1
    <3>2. \A n \in 2..last : f[n] = Tagged(n) /\ Tagged(n) \in seen
      OBVIOUS
    <3>3. f \in Injection(2..last, seen)
      <4>1. f \in [2..last -> seen]
        BY <3>2
      <4>2. \A m, n \in 2..last : f[m] = f[n] => m = n
        <5> HIDE DEF f, Tagged, last
        <5> QED
          BY <2>5, <3>1, <3>2
      <4> HIDE DEF f, last
      <4> QED
        BY <4>1, <4>2 DEF Injection, IsInjective
    <3> HIDE DEF f
    <3>4. Cardinality(2..last) <= Cardinality(seen)
      BY <2>1, <3>3, FS_Injection
    <3> QED
      BY <2>1, <2>6, <3>4
  <2>8. free \subseteq Nat /\ IsFiniteSet(free)
    <3>1. free \subseteq 2..last /\ 2..last \subseteq Nat
      BY <2>1
    <3> HIDE DEF free, last
    <3> QED
      BY <2>6, <3>1, FS_Subset
  <2>9. PICK n \in free : \A m \in free : n <= m
    <3> HIDE DEF free
    <3> QED
      BY <2>7, <2>8, FirstExists
  <2>10. (CHOOSE k \in free : \A m \in free : k <= m) \in free
    <3> HIDE DEF free
    <3> QED
      BY <2>9
  <2>11. Dedupe(p) = Tagged(CHOOSE k \in free : \A m \in free : k <= m)
    BY <1>2 DEF Dedupe
  <2> DEFINE k == CHOOSE k \in free : \A m \in free : k <= m
  <2>12. k \in Nat /\ Tagged(k) \notin seen /\ Dedupe(p) = Tagged(k)
    <3>1. k \in free
      BY <2>10
    <3>2. Dedupe(p) = Tagged(k)
      BY <2>11
    <3> HIDE DEF k
    <3> QED
      BY <2>8, <3>1, <3>2
  <2> HIDE DEF k, Tagged
  <2> QED
    BY <2>2, <2>12
<1> QED
  BY <1>1, <1>2

-----------------------------------------------------------------------------
(* Nothing is written and nobody has given up before the listings are made. *)
Started ==
    pc \in {"folders", "files"} =>
        /\ at = 1 /\ list = <<>> /\ given = <<>> /\ sent = <<>>
        /\ taken = 0 /\ rpc = "reading"

(* Between two entries everything so far has a name; at one, it has too.    *)
Counted ==
    /\ pc \in {"entry", "flush"} => Len(given) = at - 1
    /\ pc \in {"fetch", "copy"} => at <= Len(list)

(* Every name has been written, if not for this entry then for an equal     *)
(* directory.                                                               *)
HeadsWritten ==
    \A i \in DOMAIN given : \E k \in DOMAIN sent :
        sent[k].kind = "head" /\ sent[k].of \in DOMAIN given /\ given[sent[k].of] = given[i]

(* The bytes of every file that the builder is done with have been written. *)
BodiesWritten ==
    \A i \in 1..(at - 1) : list[i] \in File =>
        \E k \in DOMAIN sent : sent[k].kind = "body" /\ sent[k].of = i

(* A header belongs to an entry that has a name, a body to a file.          *)
BlocksBelong ==
    \A k \in DOMAIN sent :
        /\ sent[k].kind \in {"head", "body"} => sent[k].of \in DOMAIN given
        /\ sent[k].kind = "body" => list[sent[k].of] \in File

(* The directory of the archive comes after everything else.                *)
EndIsLast ==
    \A k \in DOMAIN sent : sent[k].kind = "end" =>
        k = Len(sent) /\ at > Len(list) /\ Len(given) = at - 1 /\ pc \in {"flush", "over"}

(* The pipe ends well only when the reader has all of an archive.           *)
EndsWell ==
    /\ pc = "flush" => Ended(sent)
    /\ pipe = "eof" => Ended(sent) /\ taken = Len(sent)

Inductive ==
    /\ TypeOK /\ DistinctNames
    /\ Started /\ Counted
    /\ HeadsWritten /\ BodiesWritten /\ BlocksBelong
    /\ EndIsLast /\ EndsWell

-----------------------------------------------------------------------------

(* A build that has not begun.                                              *)
THEOREM InitInductive == Init => Inductive
<1> SUFFICES ASSUME Init PROVE Inductive
  OBVIOUS
<1> USE DEF Init
<1>1. Len(<<>>) = 0 /\ DOMAIN <<>> = {} /\ 1 \in 1..(0 + 1) /\ 0 \in {1 - 1, 1}
  OBVIOUS
<1>2. TypeOK
  <2>1. at \in 1..(Len(list) + 1) /\ Len(given) \in {at - 1, at}
    BY <1>1
  <2>2. list \in Seq(File \cup Folder) /\ given \in Seq(Path)
    OBVIOUS
  <2>3. sent \in Seq(Block) /\ got \in Seq(Block) /\ taken \in Nat /\ taken <= Len(sent)
    BY <1>1
  <2>4. seen = {given[i] : i \in DOMAIN given}
    BY <1>1
  <2> QED
    BY <2>1, <2>2, <2>3, <2>4 DEF TypeOK
<1>3. DistinctNames /\ Started /\ Counted
  BY <1>1 DEF DistinctNames, Started, Counted
<1>4. HeadsWritten /\ BodiesWritten /\ BlocksBelong
  BY <1>1 DEF HeadsWritten, BodiesWritten, BlocksBelong
<1>5. EndIsLast /\ EndsWell
  BY <1>1 DEF EndIsLast, EndsWell
<1> QED
  BY <1>2, <1>3, <1>4, <1>5 DEF Inductive

-----------------------------------------------------------------------------
(* What the listings return is finite, and sorting it makes a sequence.     *)
LEMMA EntriesAreFinite ==
    ASSUME TypeOK
    PROVE  Entries \subseteq File \cup Folder /\ IsFiniteSet(Entries) /\ Cardinality(Entries) \in Nat
<1>1. Entries \subseteq File \cup Folder
  BY DEF TypeOK, Entries
<1>2. IsFiniteSet(File \cup Folder)
  BY FS_Union
<1> QED
  BY <1>1, <1>2, FS_Subset, FS_CardinalityType

LEMMA SortedIsSequence ==
    ASSUME TypeOK, NEW s \in Sortings(Entries)
    PROVE  s \in Seq(File \cup Folder) /\ Len(s) \in Nat /\ DOMAIN s = 1..Len(s)
<1>1. Entries \subseteq File \cup Folder /\ Cardinality(Entries) \in Nat
  BY EntriesAreFinite
<1>2. s \in [1..Cardinality(Entries) -> Entries]
  BY DEF Sortings
<1> HIDE DEF Sortings, Entries
<1>3. s \in Seq(Entries)
  BY <1>1, <1>2
<1> QED
  BY <1>1, <1>3

(* An entry is a file with a stem, or a folder with the path of a directory. *)
LEMMA PathType ==
    ASSUME TypeOK, NEW e \in File \cup Folder
    PROVE  /\ PathOf(e) \in Path
           /\ PathOf(e).stem = Dir <=> e \notin File
<1>1. CASE e \in File
  <2>1. spot[e] \in [place : Place, stem : Stem, tags : Seq(Nat)]
    BY <1>1 DEF TypeOK
  <2>2. spot[e].place \in Place /\ spot[e].stem \in Stem /\ spot[e].tags \in Seq(Nat)
    BY <2>1
  <2> QED
    BY <1>1, <2>2 DEF PathOf, Path
<1>2. CASE e \notin File
  <2>1. e \in Place /\ <<>> \in Seq(Nat)
    BY <1>2 DEF Place
  <2> QED
    BY <1>2, <2>1 DEF PathOf, Path
<1> QED
  BY <1>1, <1>2

(* The name that Header gives: of the type of a path, and new for a file.   *)
LEMMA NameType ==
    ASSUME TypeOK, NEW e \in File \cup Folder
    PROVE  LET p == PathOf(e)
               n == IF p.stem = Dir THEN p ELSE Dedupe(p)
           IN  n \in Path /\ n.stem = p.stem /\ (n.stem # Dir => n \notin seen)
<1>1. PathOf(e) \in Path
  BY PathType
<1>2. given \in Seq(Path) /\ seen = {given[i] : i \in DOMAIN given}
  BY DEF TypeOK
<1>3. /\ Dedupe(PathOf(e)) \in Path
      /\ Dedupe(PathOf(e)) \notin seen
      /\ Dedupe(PathOf(e)).stem = PathOf(e).stem
  BY <1>1, <1>2, DedupeFindsNewName
<1> QED
  BY <1>1, <1>3

(* A block more.                                                            *)
LEMMA WriteType ==
    ASSUME TypeOK, NEW kind \in {"head", "body", "part", "end"}, Write(kind)
    PROVE  /\ sent' \in Seq(Block)
           /\ Len(sent) \in Nat /\ Len(sent') = Len(sent) + 1
           /\ DOMAIN sent = 1..Len(sent) /\ DOMAIN sent' = 1..(Len(sent) + 1)
           /\ \A k \in 1..Len(sent) : sent'[k] = sent[k]
           /\ sent'[Len(sent) + 1] = [kind |-> kind, of |-> at]
<1>1. [kind |-> kind, of |-> at] \in Block
  <2>1. at \in Nat
    BY DEF TypeOK
  <2> QED
    BY <2>1 DEF Block
<1>2. sent \in Seq(Block) /\ sent' = Append(sent, [kind |-> kind, of |-> at])
  BY DEF TypeOK, Write
<1> QED
  BY <1>1, <1>2, Appended

(* A name more.                                                             *)
LEMMA HeaderGives ==
    ASSUME TypeOK, Counted, Header
    PROVE  /\ list[at] \in File \cup Folder
           /\ Len(given) = at - 1 /\ DOMAIN given = 1..(at - 1)
           /\ given' \in Seq(Path) /\ Len(given') = at /\ DOMAIN given' = 1..at
           /\ \A i \in 1..(at - 1) : given'[i] = given[i]
           /\ given'[at].stem = PathOf(list[at]).stem
           /\ given'[at].stem # Dir => given'[at] \notin seen
           /\ seen' = seen \cup {given'[at]}
<1> DEFINE p == PathOf(list[at])
           n == IF p.stem = Dir THEN p ELSE Dedupe(p)
<1>1. list[at] \in File \cup Folder
  BY DEF TypeOK, Header
<1>2. n \in Path /\ n.stem = p.stem /\ (n.stem # Dir => n \notin seen)
  BY <1>1, NameType
<1>3. given' = Append(given, n) /\ seen' = seen \cup {n}
  BY DEF Header
<1>4. given \in Seq(Path) /\ Len(given) = at - 1 /\ at \in Nat
  BY DEF TypeOK, Counted, Header
<1> HIDE DEF n
<1>5. /\ given' \in Seq(Path) /\ Len(given') = at /\ DOMAIN given' = 1..at
      /\ DOMAIN given = 1..(at - 1)
      /\ \A i \in 1..(at - 1) : given'[i] = given[i]
      /\ given'[at] = n
  BY <1>2, <1>3, <1>4, Appended
<1> QED
  BY <1>1, <1>2, <1>3, <1>4, <1>5

-----------------------------------------------------------------------------
(* Steps around the builder: the tree changes, the reader reads, ends or    *)
(* gives up.  What is written stays, and so does what it is about.          *)
LEMMA AroundTheBuilder ==
    ASSUME Inductive, UNCHANGED builder, TypeOK', Started', EndsWell'
    PROVE  Inductive'
<1> USE DEF Inductive, builder
<1>1. DistinctNames' /\ Counted' /\ HeadsWritten'
  BY DEF DistinctNames, Counted, HeadsWritten
<1>2. BodiesWritten' /\ BlocksBelong' /\ EndIsLast'
  BY DEF BodiesWritten, BlocksBelong, EndIsLast
<1> QED
  BY <1>1, <1>2

LEMMA ChangeStep ==
    ASSUME Inductive, Change
    PROVE  Inductive'
<1>1. UNCHANGED <<spot, request, builder, reader>>
  BY DEF Change, Leave, Erase, RemoveFolder
<1>2. active' \subseteq active /\ folders' \subseteq folders /\ objects' \subseteq objects
  BY DEF Change, Leave, Erase, RemoveFolder
<1>3. TypeOK'
  BY <1>1, <1>2 DEF Inductive, TypeOK, request, builder, reader
<1>4. Started' /\ EndsWell'
  BY <1>1 DEF Inductive, Started, EndsWell, Ended, builder, reader
<1> QED
  BY <1>1, <1>3, <1>4, AroundTheBuilder

LEMMA TakeStep ==
    ASSUME Inductive, Take
    PROVE  Inductive'
<1>1. UNCHANGED builder /\ taken' = taken + 1 /\ taken < Len(sent) /\ pipe = "open"
  BY DEF Take
<1>2. TypeOK'
  BY <1>1 DEF Inductive, TypeOK, Take, tree, request, builder
<1>3. Started'
  <2>1. ASSUME pc \in {"folders", "files"} PROVE FALSE
    BY <1>1, <2>1 DEF Inductive, Started
  <2> QED
    BY <1>1, <2>1 DEF Started, builder
<1>4. EndsWell'
  BY <1>1 DEF Inductive, EndsWell, Ended, builder
<1> QED
  BY <1>1, <1>2, <1>3, <1>4, AroundTheBuilder

LEMMA FinishStep ==
    ASSUME Inductive, Finish
    PROVE  Inductive'
<1>1. UNCHANGED <<tree, request, builder, taken, gone>> /\ pipe # "open" /\ rpc' \in {"done", "failed"}
  BY DEF Finish
<1>2. got' \in Seq(Block)
  <2>1. SubSeq(sent, 1, taken) \in Seq(Block)
    BY DEF Inductive, TypeOK
  <2> QED
    BY <2>1 DEF Finish, Inductive, TypeOK
<1>3. TypeOK'
  BY <1>1, <1>2 DEF Inductive, TypeOK, tree, request, builder
<1>4. pc = "over"
  BY <1>1 DEF Inductive, TypeOK
<1>5. Started' /\ EndsWell'
  BY <1>1, <1>4 DEF Inductive, Started, EndsWell, Ended, builder
<1> QED
  BY <1>1, <1>3, <1>5, AroundTheBuilder

LEMMA GiveUpStep ==
    ASSUME Inductive, GiveUp
    PROVE  Inductive'
<1>1. UNCHANGED <<tree, request, builder, taken, got>> /\ rpc' = "failed" /\ gone' = TRUE
  BY DEF GiveUp
<1>2. pc \notin {"folders", "files"}
  BY DEF GiveUp
<1>3. TypeOK'
  BY <1>1 DEF Inductive, TypeOK, tree, request, builder
<1>4. Started' /\ EndsWell'
  BY <1>1, <1>2 DEF Inductive, Started, EndsWell, Ended, builder
<1> QED
  BY <1>1, <1>3, <1>4, AroundTheBuilder

-----------------------------------------------------------------------------
(* Steps of the builder that write nothing: the listings, a fetch, the end. *)
LEMMA ListFoldersStep ==
    ASSUME Inductive, ListFolders
    PROVE  Inductive'
<1> USE DEF Inductive, tree, request, reader, Goto
<1>1. /\ UNCHANGED <<tree, request, list, at, given, seen, sent, pipe, taken, got, gone>>
      /\ pc = "folders" /\ pc' \in {"files", "over"} /\ dirs' \in {dirs, folders}
      /\ rpc' \in {"reading", "done", "failed"}
      /\ pc' = "files" => rpc' = rpc
  BY DEF ListFolders, Refuse, TypeOK
<1>2. at = 1 /\ list = <<>> /\ given = <<>> /\ sent = <<>> /\ taken = 0 /\ rpc = "reading"
  BY <1>1 DEF Started
<1>3. TypeOK'
  BY <1>1 DEF TypeOK
<1>4. Started'
  BY <1>1, <1>2 DEF Started
<1>5. DistinctNames' /\ Counted' /\ HeadsWritten'
  BY <1>1, <1>2 DEF DistinctNames, Counted, HeadsWritten
<1>6. BodiesWritten' /\ BlocksBelong'
  BY <1>1, <1>2 DEF BodiesWritten, BlocksBelong
<1>7. EndIsLast'
  BY <1>1, <1>2 DEF EndIsLast
<1>8. EndsWell'
  <2>1. pipe = "open"
    BY <1>1 DEF TypeOK
  <2> QED
    BY <1>1, <2>1 DEF EndsWell
<1> QED
  BY <1>3, <1>4, <1>5, <1>6, <1>7, <1>8

LEMMA ListFilesStep ==
    ASSUME Inductive, ListFiles
    PROVE  Inductive'
<1> USE DEF Inductive, tree, request, reader, Goto
<1>1. /\ UNCHANGED <<tree, request, dirs, at, given, seen, sent, pipe, taken, got, gone>>
      /\ pc = "files" /\ pc' \in {"entry", "over"}
      /\ list' = list \/ list' \in Sortings(Entries)
      /\ rpc' \in {"reading", "done", "failed"}
  BY DEF ListFiles, Refuse, TypeOK
<1>2. at = 1 /\ list = <<>> /\ given = <<>> /\ sent = <<>> /\ taken = 0 /\ rpc = "reading"
  BY <1>1 DEF Started
<1>3. list' \in Seq(File \cup Folder) /\ Len(list') \in Nat
  BY <1>1, SortedIsSequence DEF TypeOK
<1>4. TypeOK'
  <2>1. at' \in 1..(Len(list') + 1)
    BY <1>1, <1>2, <1>3
  <2>2. pc' # "fetch" /\ pc' # "copy"
    BY <1>1
  <2>3. pipe = "open"
    BY <1>1 DEF TypeOK
  <2> QED
    BY <1>1, <1>3, <2>1, <2>2, <2>3 DEF TypeOK
<1>5. Started'
  BY <1>1 DEF Started
<1>6. DistinctNames' /\ Counted' /\ HeadsWritten'
  BY <1>1, <1>2 DEF DistinctNames, Counted, HeadsWritten
<1>7. BodiesWritten' /\ BlocksBelong'
  BY <1>1, <1>2 DEF BodiesWritten, BlocksBelong
<1>8. EndIsLast'
  BY <1>1, <1>2 DEF EndIsLast
<1>9. EndsWell'
  <2>1. pipe = "open"
    BY <1>1 DEF TypeOK
  <2> QED
    BY <1>1, <2>1 DEF EndsWell
<1> QED
  BY <1>4, <1>5, <1>6, <1>7, <1>8, <1>9

(* Fetch, Flush and WriteFails move the builder on and may end the pipe.     *)
LEMMA NothingWritten ==
    ASSUME Inductive, UNCHANGED <<tree, request, dirs, list, at, given, seen, sent, reader>>,
           \/ pc = "fetch" /\ pc' = "copy" /\ pipe' = pipe
           \/ pc \in {"entry", "fetch", "copy", "flush"} /\ pc' = "over" /\ pipe' = "error"
           \/ pc = "flush" /\ taken = Len(sent) /\ pc' = "over" /\ pipe' = "eof"
    PROVE  Inductive'
<1> USE DEF Inductive, tree, request, reader
<1>1. TypeOK'
  BY DEF TypeOK
<1>2. Started' /\ DistinctNames' /\ Counted'
  BY DEF Started, DistinctNames, Counted
<1>3. HeadsWritten' /\ BodiesWritten' /\ BlocksBelong'
  BY DEF HeadsWritten, BodiesWritten, BlocksBelong
<1>4. EndIsLast'
  BY DEF EndIsLast
<1>5. EndsWell'
  <2>1. pipe \in {"open", "eof", "error"} /\ (pipe # "open" => pc = "over")
    BY DEF TypeOK
  <2> QED
    BY <2>1 DEF EndsWell, Ended
<1> QED
  BY <1>1, <1>2, <1>3, <1>4, <1>5

LEMMA QuietBuildStep ==
    ASSUME Inductive, Fetch \/ Flush \/ WriteFails
    PROVE  Inductive'
<1>1. UNCHANGED <<tree, request, dirs, list, at, given, seen, sent, reader>>
  BY DEF Fetch, Flush, WriteFails
<1>2. \/ pc = "fetch" /\ pc' = "copy" /\ pipe' = pipe
      \/ pc \in {"entry", "fetch", "copy", "flush"} /\ pc' = "over" /\ pipe' = "error"
      \/ pc = "flush" /\ taken = Len(sent) /\ pc' = "over" /\ pipe' = "eof"
  BY DEF Fetch, Flush, WriteFails, Fail, Goto
<1> QED
  BY <1>1, <1>2, NothingWritten

-----------------------------------------------------------------------------
(* Steps of the builder that write.                                         *)

(* Until the end of the archive is written, none of its blocks ends it.     *)
LEMMA NoEndYet ==
    ASSUME Inductive, pc \in {"entry", "fetch", "copy"}
    PROVE  /\ pipe = "open"
           /\ \A k \in DOMAIN sent : sent[k].kind # "end"
           /\ pc' # "flush" /\ pipe' # "eof" => EndsWell'
BY DEF Inductive, TypeOK, EndIsLast, EndsWell

(* How Header moves on: to the fetch of a file, or past a directory, which  *)
(* is written unless there is one of its name.                              *)
LEMMA HeaderMoves ==
    ASSUME Inductive, Header
    PROVE  /\ UNCHANGED <<tree, request, dirs, list, pipe, reader>>
           /\ pc = "entry" /\ at <= Len(list) /\ pc' \in {"entry", "fetch"}
           /\ \/ Write("head") /\ list[at] \in File /\ pc' = "fetch" /\ at' = at
              \/ Write("head") /\ list[at] \notin File /\ pc' = "entry" /\ at' = at + 1
              \/ /\ given'[at] \in seen
                 /\ list[at] \notin File /\ pc' = "entry" /\ at' = at + 1 /\ sent' = sent
<1> DEFINE p == PathOf(list[at])
           n == IF p.stem = Dir THEN p ELSE Dedupe(p)
<1>1. list[at] \in File \cup Folder
  BY HeaderGives DEF Inductive
<1>2. p.stem = Dir <=> list[at] \notin File
  BY <1>1, PathType DEF Inductive
<1>3. given' = Append(given, n) /\ n \in Path
  BY <1>1, NameType DEF Inductive, Header
<1> HIDE DEF n
<1>4. given'[at] = n
  <2>1. given \in Seq(Path) /\ Len(given) = at - 1 /\ at \in Nat
    BY DEF Inductive, TypeOK, Counted, Header
  <2> QED
    BY <1>3, <2>1, Appended
<1>5. UNCHANGED <<tree, request, dirs, list, pipe, reader>> /\ pc = "entry" /\ at <= Len(list)
  BY DEF Header
<1>6. \/ p.stem # Dir /\ Write("head") /\ Goto("fetch") /\ UNCHANGED at
      \/ p.stem = Dir /\ n \notin seen /\ Write("head") /\ at' = at + 1 /\ UNCHANGED pc
      \/ p.stem = Dir /\ n \in seen /\ at' = at + 1 /\ UNCHANGED <<pc, sent>>
  BY DEF Header, n
<1> HIDE DEF p
<1> QED
  BY <1>2, <1>4, <1>5, <1>6 DEF Goto

LEMMA HeaderType ==
    ASSUME Inductive, Header
    PROVE  TypeOK'
<1> USE DEF Inductive
<1>1. at \in Nat /\ Len(list) \in Nat /\ sent \in Seq(Block) /\ Len(sent) \in Nat
  BY DEF TypeOK
<1>2. sent' \in Seq(Block) /\ Len(sent') \in Nat /\ Len(sent) <= Len(sent')
  <2>1. CASE Write("head")
    BY <1>1, <2>1, WriteType
  <2>2. CASE sent' = sent
    BY <1>1, <2>2
  <2> QED
    BY <2>1, <2>2, HeaderMoves
<1>3. seen' = {given'[i] : i \in DOMAIN given'}
  <2>1. seen = {given[i] : i \in 1..(at - 1)}
    BY HeaderGives DEF TypeOK
  <2>2. \A i \in 1..at : i = at \/ i \in 1..(at - 1)
    BY <1>1
  <2>3. seen \subseteq {given'[i] : i \in 1..at} /\ given'[at] \in {given'[i] : i \in 1..at}
    <3>1. at \in 1..at /\ 1..(at - 1) \subseteq 1..at
      BY <1>1 DEF TypeOK
    <3> QED
      BY <2>1, <3>1, HeaderGives
  <2>4. {given'[i] : i \in 1..at} \subseteq seen \cup {given'[at]}
    BY <2>1, <2>2, HeaderGives
  <2> QED
    BY <2>3, <2>4, HeaderGives
<1>4. at' \in 1..(Len(list') + 1) /\ Len(given') \in {at' - 1, at'}
  <2>1. at \in Nat \ {0}
    BY DEF TypeOK
  <2>2. at' \in {at, at + 1} /\ list' = list /\ at <= Len(list) /\ Len(given') = at
    BY HeaderGives, HeaderMoves
  <2>3. at \in 1..(Len(list) + 1) /\ at + 1 \in 1..(Len(list) + 1)
    BY <1>1, <2>1, <2>2
  <2>4. at \in {at - 1, at} /\ at \in {at + 1 - 1, at + 1}
    BY <2>1
  <2>5. CASE at' = at
    BY <2>2, <2>3, <2>4, <2>5
  <2>6. CASE at' = at + 1
    BY <2>2, <2>3, <2>4, <2>6
  <2> QED
    BY <2>2, <2>5, <2>6
<1>5. pc' \in {"fetch", "copy"} => at' = Len(given') /\ list'[at'] \in File
  BY HeaderGives, HeaderMoves
<1>6. given' \in Seq(Path)
  BY HeaderGives
<1>7. UNCHANGED <<tree, request, dirs, list, pipe, reader>> /\ pc' \in {"entry", "fetch"} /\ pipe = "open"
  BY HeaderMoves, NoEndYet
<1>8. taken' <= Len(sent')
  BY <1>1, <1>2, <1>7 DEF TypeOK, reader
<1> QED
  BY <1>2, <1>3, <1>4, <1>5, <1>6, <1>7, <1>8 DEF TypeOK, tree, request, reader

LEMMA HeaderStep ==
    ASSUME Inductive, Header
    PROVE  Inductive'
<1> USE DEF Inductive
<1>1. at \in Nat \ {0} /\ DOMAIN given = 1..(at - 1) /\ DOMAIN given' = 1..at
  BY HeaderGives DEF TypeOK
<1>2. \A i \in 1..at : i = at \/ i \in 1..(at - 1)
  BY <1>1
<1>3. \A k \in DOMAIN sent : k \in DOMAIN sent' /\ sent'[k] = sent[k]
  <2>1. CASE Write("head")
    BY <2>1, WriteType
  <2>2. CASE sent' = sent
    BY <2>2
  <2> QED
    BY <2>1, <2>2, HeaderMoves
<1>4. \A k \in DOMAIN sent' : k \in DOMAIN sent \/ sent'[k] = [kind |-> "head", of |-> at]
  <2>1. CASE Write("head")
    BY <2>1, WriteType
  <2>2. CASE sent' = sent
    BY <2>2
  <2> QED
    BY <2>1, <2>2, HeaderMoves
<1>5. Started' /\ Counted'
  <2>1. Len(given') = at /\ at \in Nat
    BY <1>1, HeaderGives
  <2> QED
    BY <2>1, HeaderMoves DEF Started, Counted
<1>6. DistinctNames'
  <2> SUFFICES ASSUME NEW i \in DOMAIN given', NEW j \in DOMAIN given', i # j,
                      given'[i] = given'[j], given'[i].stem # Dir
               PROVE  FALSE
    BY DEF DistinctNames
  <2>1. \A h \in 1..(at - 1) : given'[h] \in seen /\ given'[h] = given[h]
    BY <1>1, HeaderGives DEF TypeOK
  <2>2. CASE i = at
    <3>1. j \in 1..(at - 1)
      BY <1>1, <1>2, <2>2
    <3> QED
      BY <2>1, <2>2, <3>1, HeaderGives
  <2>3. CASE j = at
    <3>1. i \in 1..(at - 1)
      BY <1>1, <1>2, <2>3
    <3> QED
      BY <2>1, <2>3, <3>1, HeaderGives
  <2>4. CASE i \in 1..(at - 1) /\ j \in 1..(at - 1)
    BY <1>1, <2>1, <2>4 DEF DistinctNames
  <2> QED
    BY <1>1, <1>2, <2>2, <2>3, <2>4
<1>7. HeadsWritten'
  <2> SUFFICES ASSUME NEW i \in 1..at
               PROVE  \E k \in DOMAIN sent' :
                        /\ sent'[k].kind = "head" /\ sent'[k].of \in DOMAIN given'
                        /\ given'[sent'[k].of] = given'[i]
    BY <1>1 DEF HeadsWritten
  <2>1. ASSUME NEW j \in 1..(at - 1), given[j] = given'[i]
        PROVE  \E k \in DOMAIN sent' :
                        /\ sent'[k].kind = "head" /\ sent'[k].of \in DOMAIN given'
                        /\ given'[sent'[k].of] = given'[i]
    <3>1. PICK k \in DOMAIN sent : /\ sent[k].kind = "head" /\ sent[k].of \in DOMAIN given
                                   /\ given[sent[k].of] = given[j]
      BY <1>1 DEF HeadsWritten
    <3>2. k \in DOMAIN sent' /\ sent'[k] = sent[k]
      BY <1>3
    <3>3. sent[k].of \in 1..(at - 1) /\ sent[k].of \in 1..at
      BY <1>1, <3>1
    <3>4. given'[sent[k].of] = given[sent[k].of]
      BY <3>3, HeaderGives
    <3> QED
      BY <1>1, <2>1, <3>1, <3>2, <3>3, <3>4
  <2>2. CASE i \in 1..(at - 1)
    BY <2>1, <2>2, HeaderGives
  <2>3. CASE i = at /\ Write("head")
    <3>1. Len(sent) + 1 \in DOMAIN sent' /\ sent'[Len(sent) + 1] = [kind |-> "head", of |-> at]
      BY <2>3, WriteType
    <3> QED
      BY <1>1, <2>3, <3>1
  <2>4. CASE i = at /\ given'[at] \in seen
    <3>1. PICK j \in 1..(at - 1) : given[j] = given'[at]
      BY <1>1, <2>4 DEF TypeOK
    <3> QED
      BY <2>1, <2>4, <3>1
  <2> QED
    BY <1>2, <2>2, <2>3, <2>4, HeaderMoves
<1>8. BodiesWritten'
  <2>1. at' = at \/ (at' = at + 1 /\ list[at] \notin File)
    BY HeaderMoves
  <2>2. \A i \in 1..(at' - 1) : i \in 1..(at - 1) \/ (i = at /\ list[at] \notin File)
    BY <1>1, <2>1
  <2>3. list' = list
    BY HeaderMoves
  <2> QED
    BY <1>3, <2>2, <2>3 DEF BodiesWritten
<1>9. BlocksBelong'
  <2> SUFFICES ASSUME NEW k \in DOMAIN sent'
               PROVE  /\ sent'[k].kind \in {"head", "body"} => sent'[k].of \in DOMAIN given'
                      /\ sent'[k].kind = "body" => list'[sent'[k].of] \in File
    BY DEF BlocksBelong
  <2>1. list' = list
    BY HeaderMoves
  <2>2. CASE k \in DOMAIN sent
    <3>1. sent'[k] = sent[k]
      BY <1>3, <2>2
    <3>2. \A i \in DOMAIN given : i \in DOMAIN given'
      BY <1>1
    <3> QED
      BY <2>1, <2>2, <3>1, <3>2 DEF BlocksBelong
  <2>3. CASE sent'[k] = [kind |-> "head", of |-> at]
    BY <1>1, <2>3
  <2> QED
    BY <1>4, <2>2, <2>3
<1>10. \A k \in DOMAIN sent' : sent'[k].kind # "end"
  BY <1>3, <1>4, NoEndYet, HeaderMoves
<1>11. EndIsLast'
  BY <1>10 DEF EndIsLast
<1>12. EndsWell'
  BY NoEndYet, HeaderMoves
<1> QED
  BY <1>5, <1>6, <1>7, <1>8, <1>9, <1>11, <1>12, HeaderType

(* A body, whole or in part.                                                *)
LEMMA CopyStep ==
    ASSUME Inductive, Copy
    PROVE  Inductive'
<1> USE DEF Inductive, Goto
<1>1. UNCHANGED <<tree, request, dirs, list, given, seen, reader>> /\ pc = "copy"
  BY DEF Copy
<1>2. PICK kind \in {"body", "part"} : Write(kind)
  BY DEF Copy
<1>3. \/ kind = "body" /\ at' = at + 1 /\ pc' = "entry" /\ pipe' = pipe
      \/ at' = at /\ pc' = "over" /\ pipe' = "error"
  <2>1. CASE Write("body") /\ at' = at + 1 /\ Goto("entry") /\ UNCHANGED pipe
    <3>1. sent' = Append(sent, [kind |-> "body", of |-> at]) /\ sent' = Append(sent, [kind |-> kind, of |-> at])
      BY <1>2, <2>1 DEF Write
    <3>2. [kind |-> "body", of |-> at] = [kind |-> kind, of |-> at]
      BY <3>1, WriteType, <1>2, <2>1
    <3> QED
      BY <2>1, <3>2
  <2>2. CASE Fail /\ UNCHANGED at
    BY <2>2 DEF Fail
  <2> QED
    BY <2>1, <2>2 DEF Copy
<1>4. /\ sent' \in Seq(Block)
      /\ Len(sent) \in Nat /\ Len(sent') = Len(sent) + 1
      /\ DOMAIN sent = 1..Len(sent) /\ DOMAIN sent' = 1..(Len(sent) + 1)
      /\ \A k \in 1..Len(sent) : sent'[k] = sent[k]
      /\ sent'[Len(sent) + 1] = [kind |-> kind, of |-> at]
  BY <1>2, WriteType
<1>5. /\ at \in Nat \ {0} /\ at = Len(given) /\ list[at] \in File /\ at <= Len(list)
      /\ Len(list) \in Nat /\ DOMAIN given = 1..at
  BY <1>1 DEF TypeOK, Counted
<1>6. \A k \in DOMAIN sent' : (k \in DOMAIN sent /\ sent'[k] = sent[k]) \/ sent'[k] = [kind |-> kind, of |-> at]
  BY <1>4
<1>7. \A k \in DOMAIN sent : k \in DOMAIN sent' /\ sent'[k] = sent[k]
  BY <1>4
<1>8. TypeOK'
  <2>1. at' \in 1..(Len(list') + 1) /\ Len(given') \in {at' - 1, at'}
    BY <1>1, <1>3, <1>5
  <2>2. taken' <= Len(sent')
    BY <1>1, <1>4 DEF TypeOK, reader
  <2>3. pipe = "open" /\ pc' \in {"entry", "over"} /\ pipe' \in {"open", "error"}
    BY <1>1, <1>3, NoEndYet
  <2>4. pipe' # "open" => pc' = "over"
    BY <1>3, <2>3
  <2>5. /\ given' \in Seq(Path) /\ seen' = {given'[i] : i \in DOMAIN given'}
        /\ list' \in Seq(File \cup Folder) /\ dirs' \subseteq Folder
    BY <1>1 DEF TypeOK
  <2>6. UNCHANGED <<spot, active, folders, objects, sink, filter, taken, gone, rpc, got>>
    BY <1>1 DEF tree, request, reader
  <2> HIDE DEF Inductive
  <2>7. TypeOK
    BY DEF Inductive
  <2> QED
    BY <1>4, <2>1, <2>2, <2>3, <2>4, <2>5, <2>6, <2>7 DEF TypeOK
<1>9. Started' /\ Counted' /\ DistinctNames'
  BY <1>1, <1>3, <1>5 DEF Started, Counted, DistinctNames
<1>10. HeadsWritten'
  BY <1>1, <1>7 DEF HeadsWritten
<1>11. BodiesWritten'
  <2>1. \A i \in 1..(at - 1) : list[i] \in File => \E k \in DOMAIN sent' : sent'[k].kind = "body" /\ sent'[k].of = i
    BY <1>7 DEF BodiesWritten
  <2>2. CASE kind = "body" /\ at' = at + 1
    <3>1. Len(sent) + 1 \in DOMAIN sent' /\ sent'[Len(sent) + 1] = [kind |-> "body", of |-> at]
      BY <1>4, <2>2
    <3>2. \A i \in 1..(at' - 1) : i = at \/ i \in 1..(at - 1)
      BY <1>5, <2>2
    <3> QED
      BY <1>1, <2>1, <3>1, <3>2 DEF BodiesWritten
  <2>3. CASE at' = at
    BY <1>1, <2>1, <2>3 DEF BodiesWritten
  <2> QED
    BY <1>3, <2>2, <2>3
<1>12. BlocksBelong'
  <2> SUFFICES ASSUME NEW k \in DOMAIN sent'
               PROVE  /\ sent'[k].kind \in {"head", "body"} => sent'[k].of \in DOMAIN given
                      /\ sent'[k].kind = "body" => list[sent'[k].of] \in File
    BY <1>1 DEF BlocksBelong
  <2>1. CASE k \in DOMAIN sent /\ sent'[k] = sent[k]
    BY <2>1 DEF BlocksBelong
  <2>2. CASE sent'[k] = [kind |-> kind, of |-> at]
    BY <1>5, <2>2
  <2> QED
    BY <1>6, <2>1, <2>2
<1>13. EndIsLast'
  BY <1>1, <1>6, NoEndYet DEF EndIsLast
<1>14. EndsWell'
  BY <1>1, <1>3, NoEndYet
<1> QED
  BY <1>8, <1>9, <1>10, <1>11, <1>12, <1>13, <1>14

(* The directory of the archive.                                            *)
LEMMA CloseStep ==
    ASSUME Inductive, Close
    PROVE  Inductive'
<1> USE DEF Inductive, Goto
<1>1. /\ UNCHANGED <<tree, request, dirs, list, at, given, seen, pipe, reader>>
      /\ pc = "entry" /\ pc' = "flush" /\ at > Len(list) /\ Write("end")
  BY DEF Close
<1>2. /\ sent' \in Seq(Block)
      /\ Len(sent) \in Nat /\ Len(sent') = Len(sent) + 1
      /\ DOMAIN sent = 1..Len(sent) /\ DOMAIN sent' = 1..(Len(sent) + 1)
      /\ \A k \in 1..Len(sent) : sent'[k] = sent[k]
      /\ sent'[Len(sent) + 1] = [kind |-> "end", of |-> at]
  BY <1>1, WriteType
<1>3. \A k \in DOMAIN sent' :
        \/ k \in DOMAIN sent /\ sent'[k] = sent[k]
        \/ k = Len(sent') /\ sent'[k] = [kind |-> "end", of |-> at]
  BY <1>2
<1>4. \A k \in DOMAIN sent : k \in DOMAIN sent' /\ sent'[k] = sent[k]
  BY <1>2
<1>5. pipe = "open"
  BY <1>1, NoEndYet
<1>6. TypeOK'
  <2>1. taken' <= Len(sent')
    BY <1>1, <1>2 DEF TypeOK, reader
  <2> QED
    BY <1>1, <1>2, <1>5, <2>1 DEF TypeOK, tree, request, reader
<1>7. Started' /\ Counted' /\ DistinctNames'
  BY <1>1 DEF Started, Counted, DistinctNames
<1>8. HeadsWritten' /\ BodiesWritten'
  BY <1>1, <1>4 DEF HeadsWritten, BodiesWritten
<1>9. BlocksBelong'
  BY <1>1, <1>3 DEF BlocksBelong
<1>10. EndIsLast'
  BY <1>1, <1>3, NoEndYet DEF EndIsLast, Counted
<1>11. EndsWell'
  <2>1. Len(sent) + 1 \in DOMAIN sent' /\ sent'[Len(sent) + 1].kind = "end"
    BY <1>2
  <2> QED
    BY <1>1, <1>5, <2>1 DEF EndsWell, Ended
<1> QED
  BY <1>6, <1>7, <1>8, <1>9, <1>10, <1>11

(* Every step preserves the invariant.                                      *)
LEMMA NextStep == Inductive /\ [Next]_vars => Inductive'
<1> SUFFICES ASSUME Inductive, [Next]_vars PROVE Inductive'
  OBVIOUS
<1>1. CASE Change
  BY <1>1, ChangeStep
<1>2. CASE Collect
  BY <1>2, ListFoldersStep, ListFilesStep DEF Collect
<1>3. CASE Build
  BY <1>3, HeaderStep, CopyStep, CloseStep, QuietBuildStep DEF Build
<1>4. CASE Receive
  BY <1>4, TakeStep, FinishStep DEF Receive
<1>5. CASE GiveUp
  BY <1>5, GiveUpStep
<1>6. CASE UNCHANGED vars
  <2> USE DEF vars, tree, request, builder, reader
  <2>1. TypeOK' /\ DistinctNames' /\ Started' /\ Counted'
    BY <1>6 DEF Inductive, TypeOK, DistinctNames, Started, Counted
  <2>2. HeadsWritten' /\ BodiesWritten' /\ BlocksBelong'
    BY <1>6 DEF Inductive, HeadsWritten, BodiesWritten, BlocksBelong
  <2>3. EndIsLast' /\ EndsWell'
    BY <1>6 DEF Inductive, EndIsLast, EndsWell, Ended
  <2> QED
    BY <2>1, <2>2, <2>3 DEF Inductive
<1> QED
  BY <1>1, <1>2, <1>3, <1>4, <1>5, <1>6 DEF Next

(* The invariant of a build holds always.                                   *)
THEOREM InductiveHolds == Spec => []Inductive
BY InitInductive, NextStep, PTL DEF Spec

(* Everything is of its type.                                               *)
THEOREM TypeCorrect == Spec => []TypeOK
<1>1. Inductive => TypeOK
  BY DEF Inductive
<1> QED
  BY <1>1, InductiveHolds, PTL

(* No two entries that dedupe names get one name, however the counters and   *)
(* the real names of later files fall.                                      *)
THEOREM NamesAreDistinct == Spec => []DistinctNames
<1>1. Inductive => DistinctNames
  BY DEF Inductive
<1> QED
  BY <1>1, InductiveHolds, PTL

-----------------------------------------------------------------------------
(* An archive that has its end has everything that was listed.              *)
LEMMA EndedIsWhole ==
    ASSUME Inductive, Ended(sent)
    PROVE  /\ Files(sent) = {list[i] : i \in DOMAIN list} \cap File
           /\ Headed(sent) = {given[i] : i \in DOMAIN given}
           /\ Len(given) = Len(list)
<1> USE DEF Inductive
<1>1. /\ at \in Nat /\ Len(list) \in Nat /\ at = Len(list) + 1 /\ Len(given) = at - 1
      /\ DOMAIN list = 1..Len(list) /\ DOMAIN given = 1..Len(given)
  BY DEF Ended, EndIsLast, TypeOK
<1>2. \A k \in DOMAIN sent : sent[k].kind = "body" => sent[k].of \in DOMAIN list /\ list[sent[k].of] \in File
  BY <1>1 DEF BlocksBelong
<1>3. \A i \in DOMAIN list : list[i] \in File =>
        \E k \in DOMAIN sent : sent[k].kind = "body" /\ sent[k].of = i
  BY <1>1 DEF BodiesWritten
<1>4. Files(sent) = {list[i] : i \in DOMAIN list} \cap File
  BY <1>2, <1>3 DEF Files
<1>5. Headed(sent) = {given[i] : i \in DOMAIN given}
  BY DEF Headed, HeadsWritten, BlocksBelong
<1> QED
  BY <1>1, <1>4, <1>5

(* What ends like an archive misses nothing: Build "stops at the first      *)
(* error so callers never emit an archive that silently misses entries".    *)
THEOREM NothingIsLostSilently == Spec => []NoSilentLoss
<1>1. Inductive => NoSilentLoss
  BY EndedIsWhole DEF NoSilentLoss
<1> QED
  BY <1>1, InductiveHolds, PTL

-----------------------------------------------------------------------------
(* ZipBuild implements WholeArchive.                                        *)

(* Who is not beyond the end and has seen it is there.                      *)
LEMMA LastReached ==
    ASSUME NEW m \in Nat, NEW n \in Nat, m <= n, n \in 1..m
    PROVE  m = n
OBVIOUS

(* What the receiver has taken when the end of an archive is in it is the   *)
(* whole of what was written.                                               *)
LEMMA TakenIsAll ==
    ASSUME Inductive, pipe = "eof" \/ Ended(SubSeq(sent, 1, taken))
    PROVE  Ended(sent) /\ SubSeq(sent, 1, taken) = sent
<1> USE DEF Inductive
<1>1. /\ sent \in Seq(Block) /\ Len(sent) \in Nat /\ taken \in Nat /\ taken <= Len(sent)
      /\ DOMAIN sent = 1..Len(sent)
  BY DEF TypeOK
<1>2. SubSeq(sent, 1, Len(sent)) = sent
  BY <1>1
<1>3. CASE pipe = "eof"
  BY <1>2, <1>3 DEF EndsWell
<1>4. CASE Ended(SubSeq(sent, 1, taken))
  <2>1. PICK k \in DOMAIN SubSeq(sent, 1, taken) : SubSeq(sent, 1, taken)[k].kind = "end"
    BY <1>4 DEF Ended
  <2>2. k \in 1..taken /\ sent[k].kind = "end"
    BY <1>1, <2>1
  <2>3. k \in DOMAIN sent
    BY <1>1, <2>2
  <2>4. k = Len(sent)
    BY <2>2, <2>3 DEF EndIsLast
  <2>5. taken = Len(sent)
    BY <2>2, <2>4, LastReached, <1>1
  <2> QED
    BY <1>2, <2>2, <2>3, <2>5 DEF Ended
<1> QED
  BY <1>3, <1>4

(* A step that does not touch the listing, nor what the receiver has, nor   *)
(* gets past the listings, is none of the promise's business.               *)
LEMMA Unnoticed ==
    ASSUME UNCHANGED <<rpc, sink, got, list>>,
           pc \in {"folders", "files"} <=> pc' \in {"folders", "files"}
    PROVE  UNCHANGED Whole!vars
BY DEF Whole!vars, Delivered, Files, Ended

(* A request that fails gives up, and the listing asks.                     *)
LEMMA RefusalGivesUp ==
    ASSUME rpc = "reading", rpc' = "failed", list' = list
    PROVE  Whole!GiveUp
BY DEF Whole!GiveUp, Delivered

LEMMA ListingAsks ==
    ASSUME rpc = "reading", rpc' = "reading", pc = "files", pc' = "entry"
    PROVE  Whole!Ask
BY DEF Whole!Ask, Delivered

(* The end of the pipe delivers everything or nothing.                      *)
LEMMA FinishKeepsPromise ==
    ASSUME Inductive, Finish
    PROVE  Whole!Next
<1>1. rpc = "reading" /\ UNCHANGED <<sink, list, pc>> /\ pc = "over"
  BY DEF Inductive, TypeOK, Finish, request, builder
<1>2. CASE rpc' = "failed"
  BY <1>1, <1>2, RefusalGivesUp DEF Whole!Next
<1>3. CASE /\ pipe = "eof" \/ sink = "browser"
           /\ rpc' = "done" /\ got' = SubSeq(sent, 1, taken)
           /\ sink = "bucket" \/ Ended(got')
  <2>1. pipe = "eof" \/ Ended(SubSeq(sent, 1, taken))
    BY <1>3
  <2>2. got' = sent /\ Ended(sent)
    BY <1>3, <2>1, TakenIsAll
  <2>3. Files(sent) = {list[i] : i \in DOMAIN list} \cap File
    BY <2>2, EndedIsWhole
  <2>4. Delivered'
    BY <1>1, <1>3 DEF Delivered
  <2>5. Files(got)' = Files(sent)
    BY <1>1, <2>2 DEF Files
  <2>6. ~ Delivered
    BY <1>1 DEF Delivered
  <2>7. Whole!Deliver
    BY <1>1, <2>3, <2>4, <2>5, <2>6 DEF Whole!Deliver
  <2> QED
    BY <2>7 DEF Whole!Next
<1>4. CASE rpc' = "done" /\ ~ (sink = "bucket" \/ Ended(got'))
  <2>1. ~ Delivered /\ ~ Delivered'
    BY <1>1, <1>4 DEF Delivered
  <2>2. Whole!GiveUp
    BY <1>1, <1>4, <2>1 DEF Whole!GiveUp
  <2> QED
    BY <2>2 DEF Whole!Next
<1> QED
  BY <1>2, <1>3, <1>4 DEF Finish

(* Every step is one of the promise, or none of its business.               *)
LEMMA MappedStep == Inductive /\ [Next]_vars => [Whole!Next]_(Whole!vars)
<1> SUFFICES ASSUME Inductive, [Next]_vars PROVE Whole!Next \/ UNCHANGED Whole!vars
  OBVIOUS
<1> USE DEF tree, request, builder, reader, Goto
<1>1. CASE Change
  BY <1>1, Unnoticed DEF Change, Leave, Erase, RemoveFolder
<1>2. CASE ListFolders
  <2>1. CASE pc' = "files" /\ UNCHANGED <<list, reader>>
    <3>1. UNCHANGED <<rpc, sink, got, list>> /\ pc = "folders"
      BY <1>2, <2>1 DEF ListFolders
    <3> QED
      BY <2>1, <3>1, Unnoticed
  <2>2. CASE Refuse
    BY <1>2, <2>2, RefusalGivesUp DEF ListFolders, Refuse, Inductive, Started, Whole!Next
  <2> QED
    BY <1>2, <2>1, <2>2 DEF ListFolders
<1>3. CASE ListFiles
  <2>1. CASE pc' = "entry" /\ UNCHANGED reader
    BY <1>3, <2>1, ListingAsks DEF ListFiles, Inductive, Started, Whole!Next
  <2>2. CASE Refuse
    BY <1>3, <2>2, RefusalGivesUp DEF ListFiles, Refuse, Inductive, Started, Whole!Next
  <2> QED
    BY <1>3, <2>1, <2>2 DEF ListFiles
<1>4. CASE Build
  <2>1. pc \notin {"folders", "files"} /\ pc' \notin {"folders", "files"} /\ UNCHANGED <<rpc, sink, got, list>>
    <3>1. CASE Header
      BY <3>1 DEF Header
    <3>2. CASE Fetch \/ Copy
      BY <3>2 DEF Fetch, Copy, Fail
    <3>3. CASE Close \/ Flush \/ WriteFails
      BY <3>3 DEF Close, Flush, WriteFails, Fail
    <3> QED
      BY <1>4, <3>1, <3>2, <3>3 DEF Build
  <2> QED
    BY <2>1, Unnoticed
<1>5. CASE Take
  BY <1>5, Unnoticed DEF Take
<1>6. CASE Finish
  BY <1>6, FinishKeepsPromise
<1>7. CASE GiveUp
  BY <1>7, RefusalGivesUp DEF GiveUp, Whole!Next
<1>8. CASE UNCHANGED vars
  BY <1>8, Unnoticed DEF vars
<1> QED
  BY <1>1, <1>2, <1>3, <1>4, <1>5, <1>6, <1>7, <1>8 DEF Next, Collect, Receive

(* The receiver gets an archive of everything that was asked for, or        *)
(* nothing it could take for one, whatever fails in between and whatever    *)
(* leaves the folder: ZipBuild implements WholeArchive.                     *)
THEOREM PromiseKept == Spec => AllOrNothing
<1>1. Init => Whole!Init
  BY DEF Init, Whole!Init, Delivered
<1> QED
  BY <1>1, InductiveHolds, MappedStep, PTL DEF Spec, AllOrNothing, Whole!Spec
=============================================================================
