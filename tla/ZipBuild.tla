------------------------------ MODULE ZipBuild ------------------------------
(***************************************************************************)
(* One archive of a folder, from the two listings of its tree to the       *)
(* object in the bucket or the download of a browser: collectEntries of    *)
(* internal/handler/zip.go, Build of internal/zipbuild, and who reads what *)
(* Build writes, which is either the worker's upload at the other end of   *)
(* an io.Pipe or the response of a streaming download.  Files and folders  *)
(* go away meanwhile.                                                      *)
(*                                                                         *)
(* Bytes travel in blocks: the header of an entry, the body of a file, the *)
(* directory that ends a zip.  The zip writer buffers, so the writer may   *)
(* be up to Buffer blocks ahead of the reader.                             *)
(***************************************************************************)
EXTENDS Integers, Sequences, FiniteSets

CONSTANTS
    File,       \* ids of the files; also the keys of their objects
    Folder,     \* ids of the folders below the one that is archived
    Root,       \* that one
    Rel,        \* the path of every folder, relative to Root
    Stem,       \* names of files, without counters
    Dir,        \* instead of a stem: the entry is a directory
    Placings,   \* where and under what names files may lie: functions from File
    Rank,       \* how paths sort
    Filters,    \* the sets of files that ownerFilter may let through
    Buffer,     \* blocks the writer may be ahead of the reader
    Faults      \* what may go wrong: "db", "bucket", "client"

Place == Folder \cup {Root}

(* The path of an entry: in which folder's path, what, and the " (n)" at    *)
(* the end of its name, as numbers.                                         *)
Path == [in : {Rel[p] : p \in Place}, stem : Stem \cup {Dir}, tags : Seq(Nat)]

ASSUME ZipBuildAssumption ==
    /\ IsFiniteSet(File) /\ IsFiniteSet(Folder)
    /\ File \cap Place = {}
    /\ Dir \notin Stem
    /\ Placings \subseteq [File -> [place : Place, stem : Stem, tags : Seq(Nat)]]
    /\ Filters \subseteq SUBSET File
    /\ Buffer \in Nat \ {0}
    /\ Faults \subseteq {"db", "bucket", "client"}

VARIABLES
    spot,       \* place and name of every file
    active,     \* the files that a listing of the tree returns
    folders,    \* the folders that a listing of the tree returns
    objects,    \* the files whose bytes are in the bucket
    sink,       \* who reads: "bucket" (the worker's upload) or "browser"
    filter,     \* the files that ownerFilter lets through
    pc,         \* where the builder is
    dirs,       \* what ListFolderTreeFolders returned
    list,       \* the entries, sorted by path
    at,         \* the entry the builder is at
    given,      \* the names of the entries up to there
    seen,       \* all names in use
    sent,       \* the blocks that were written
    pipe,       \* the writing end: "open", or closed with "eof" or "error"
    taken,      \* how many blocks the reader has
    gone,       \* the reading end is closed
    rpc,        \* the reader: "reading", "done", "failed"
    got         \* the blocks of the finished object or download

tree == <<spot, active, folders, objects>>
request == <<sink, filter>>
builder == <<pc, dirs, list, at, given, seen, sent, pipe>>
reader == <<taken, gone, rpc, got>>
vars == <<tree, request, builder, reader>>

Init ==
    /\ spot \in Placings
    /\ active = File
    /\ folders = Folder
    /\ objects = File
    /\ sink \in {"bucket", "browser"}
    /\ filter \in Filters
    /\ pc = "folders"
    /\ dirs = {}
    /\ list = <<>>
    /\ at = 1
    /\ given = <<>>
    /\ seen = {}
    /\ sent = <<>>
    /\ pipe = "open"
    /\ taken = 0
    /\ gone = FALSE
    /\ rpc = "reading"
    /\ got = <<>>

-----------------------------------------------------------------------------
(* The tree changes under the request.  What happens to rows after the      *)
(* files were listed, and to objects that are not going to be fetched any   *)
(* more, makes no difference to it and is left out.                         *)

(* A file leaves the tree: to the trash, or to another folder.              *)
Leave(f) ==
    /\ pc \in {"folders", "files"}
    /\ f \in active
    /\ active' = active \ {f}
    /\ UNCHANGED <<spot, folders, objects, request, builder, reader>>

(* A permanent deletion takes the object before the row.                    *)
Erase(f) ==
    /\ \/ pc \in {"folders", "files"}
       \/ pc \in {"entry", "fetch"} /\ \E i \in at..Len(list) : list[i] = f
    /\ f \in objects
    /\ objects' = objects \ {f}
    /\ UNCHANGED <<spot, active, folders, request, builder, reader>>

(* A folder is deleted and its files fall out of the tree.                  *)
RemoveFolder(d) ==
    /\ pc \in {"folders", "files"}
    /\ d \in folders
    /\ folders' = folders \ {d}
    /\ active' = {f \in active : spot[f].place # d}
    /\ UNCHANGED <<spot, objects, request, builder, reader>>

-----------------------------------------------------------------------------
(* collectEntries.                                                          *)

Goto(p) == pc' = p

(* An error before the first block: the worker marks the job as failed,     *)
(* the streaming request is answered with an error.                         *)
Refuse ==
    /\ "db" \in Faults
    /\ Goto("over")
    /\ rpc' = "failed"
    /\ UNCHANGED <<dirs, list, at, given, seen, sent, pipe, taken, gone, got>>

ListFolders ==
    /\ pc = "folders"
    /\ \/ /\ dirs' = folders
          /\ Goto("files")
          /\ UNCHANGED <<list, at, given, seen, sent, pipe, reader>>
       \/ Refuse
    /\ UNCHANGED <<tree, request>>

PathOf(e) ==
    IF e \in File
    THEN [in |-> Rel[spot[e].place], stem |-> spot[e].stem, tags |-> spot[e].tags]
    ELSE [in |-> Rel[e], stem |-> Dir, tags |-> <<>>]

(* Every file the filter lets through, and every folder whose path none of  *)
(* them is in.                                                              *)
Entries ==
    LET files == active \cap filter
    IN  files \cup {d \in dirs : \A f \in files : Rel[spot[f].place] # Rel[d]}

Sortings(S) ==
    {s \in [1..Cardinality(S) -> S] :
        \A i, j \in DOMAIN s : i < j => s[i] # s[j] /\ Rank[PathOf(s[i])] <= Rank[PathOf(s[j])]}

ListFiles ==
    /\ pc = "files"
    /\ \/ /\ list' \in Sortings(Entries)
          /\ Goto("entry")
          /\ UNCHANGED <<dirs, at, given, seen, sent, pipe, reader>>
       \/ Refuse
    /\ UNCHANGED <<tree, request>>

-----------------------------------------------------------------------------
(* Build.                                                                   *)

Block == [kind : {"head", "body", "part", "end"}, of : Nat]
Room == Len(sent) - taken < Buffer
Write(kind) == Room /\ sent' = Append(sent, [kind |-> kind, of |-> at])

Slip_FailEndsWell == Goto("over") /\ pipe' = "eof"

(* Build returns an error and CloseWithError hands it to the reader.        *)
Fail == Goto("over") /\ pipe' = "error"

Slip_DedupeTakesTwo(p) == IF p \notin seen THEN p ELSE [p EXCEPT !.tags = Append(@, 2)]

(* The path itself, or the path with the first counter from 2 on that makes *)
(* it a name that is not in use.                                            *)
Dedupe(p) ==
    LET Tagged(n) == [p EXCEPT !.tags = Append(@, n)]
        free == {n \in 2..(Cardinality(seen) + 2) : Tagged(n) \notin seen}
    IN  IF p \notin seen THEN p ELSE Tagged(CHOOSE n \in free : \A m \in free : n <= m)

(* CreateHeader of the next entry.  A directory has no more than that, and  *)
(* one that is there already is skipped.                                    *)
Header ==
    /\ pc = "entry"
    /\ at <= Len(list)
    /\ LET p == PathOf(list[at])
           n == IF p.stem = Dir THEN p ELSE Dedupe(p)
       IN  /\ given' = Append(given, n)
           /\ seen' = seen \cup {n}
           /\ \/ p.stem # Dir /\ Write("head") /\ Goto("fetch") /\ UNCHANGED at
              \/ p.stem = Dir /\ n \notin seen /\ Write("head") /\ at' = at + 1 /\ UNCHANGED pc
              \/ p.stem = Dir /\ n \in seen /\ at' = at + 1 /\ UNCHANGED <<pc, sent>>
    /\ UNCHANGED <<tree, request, dirs, list, pipe, reader>>

Slip_FetchSkips ==
    /\ pc = "fetch"
    /\ \/ list[at] \in objects /\ Goto("copy") /\ UNCHANGED at
       \/ list[at] \notin objects /\ Goto("entry") /\ at' = at + 1
    /\ UNCHANGED <<tree, request, dirs, list, given, seen, sent, pipe, reader>>

Fetch ==
    /\ pc = "fetch"
    /\ \/ list[at] \in objects /\ Goto("copy") /\ UNCHANGED pipe
       \/ /\ \/ list[at] \notin objects
             \/ "bucket" \in Faults
             \/ gone /\ sink = "browser"
          /\ Fail
    /\ UNCHANGED <<tree, request, dirs, list, at, given, seen, sent, reader>>

(* io.Copy; the bucket may stop in the middle.                              *)
Copy ==
    /\ pc = "copy"
    /\ \/ Write("body") /\ at' = at + 1 /\ Goto("entry") /\ UNCHANGED pipe
       \/ "bucket" \in Faults /\ Write("part") /\ Fail /\ UNCHANGED at
    /\ UNCHANGED <<tree, request, dirs, list, given, seen, reader>>

(* zw.Close after the last entry writes the directory of the archive and    *)
(* returns when the reader has everything.                                  *)
Close ==
    /\ pc = "entry"
    /\ at > Len(list)
    /\ Write("end")
    /\ Goto("flush")
    /\ UNCHANGED <<tree, request, dirs, list, at, given, seen, pipe, reader>>

Flush ==
    /\ pc = "flush"
    /\ taken = Len(sent)
    /\ Goto("over")
    /\ pipe' = "eof"
    /\ UNCHANGED <<tree, request, dirs, list, at, given, seen, sent, reader>>

(* The reader has gone: the context of a browser's request is cancelled,    *)
(* and writes fail as soon as they go beyond the buffer.                    *)
WriteFails ==
    /\ pc \in {"entry", "copy", "flush"}
    /\ gone
    /\ Fail
    /\ UNCHANGED <<tree, request, dirs, list, at, given, seen, sent, reader>>

-----------------------------------------------------------------------------
(* The reader.                                                              *)

Take ==
    /\ rpc = "reading"
    /\ pipe = "open"
    /\ taken < Len(sent)
    /\ taken' = taken + 1
    /\ UNCHANGED <<tree, request, builder, gone, rpc, got>>

(* The end of the pipe completes the upload; an error fails it and leaves   *)
(* no object.  A response just ends, with or without the end of the         *)
(* archive.                                                                 *)
Finish ==
    /\ rpc = "reading"
    /\ pipe # "open"
    /\ \/ /\ pipe = "eof" \/ sink = "browser"
          /\ rpc' = "done"
          /\ got' = SubSeq(sent, 1, taken)
       \/ pipe = "error" /\ sink = "bucket" /\ rpc' = "failed" /\ UNCHANGED got
    /\ UNCHANGED <<tree, request, builder, taken, gone>>

Slip_GiveUpLeavesPipe ==
    /\ rpc = "reading"
    /\ pc \notin {"folders", "files"}
    /\ IF sink = "bucket" THEN "bucket" \in Faults ELSE "client" \in Faults
    /\ rpc' = "failed"
    /\ UNCHANGED <<tree, request, builder, taken, gone, got>>

(* The upload fails, and the worker closes its end of the pipe; or the      *)
(* browser disconnects.                                                     *)
GiveUp ==
    /\ rpc = "reading"
    /\ pc \notin {"folders", "files"}
    /\ IF sink = "bucket" THEN "bucket" \in Faults ELSE "client" \in Faults
    /\ rpc' = "failed"
    /\ gone' = TRUE
    /\ UNCHANGED <<tree, request, builder, taken, got>>

-----------------------------------------------------------------------------
Change == (\E f \in File : Leave(f) \/ Erase(f)) \/ \E d \in Folder : RemoveFolder(d)
Collect == ListFolders \/ ListFiles
Build == Header \/ Fetch \/ Copy \/ Close \/ Flush \/ WriteFails
Receive == Take \/ Finish

Next == Change \/ Collect \/ Build \/ Receive \/ GiveUp

Spec == Init /\ [][Next]_vars

(* The builder's goroutine is scheduled, and whoever reads goes on reading  *)
(* or gives up.                                                             *)
Fairness == WF_vars(Collect) /\ WF_vars(Build) /\ WF_vars(Receive)

FairSpec == Spec /\ Fairness
-----------------------------------------------------------------------------
Files(blocks) == {list[blocks[k].of] : k \in {i \in DOMAIN blocks : blocks[i].kind = "body"}}
Headed(blocks) == {given[blocks[k].of] : k \in {i \in DOMAIN blocks : blocks[i].kind = "head"}}
Ended(blocks) == \E k \in DOMAIN blocks : blocks[k].kind = "end"

TypeOK ==
    /\ spot \in Placings
    /\ active \subseteq File /\ objects \subseteq File
    /\ folders \subseteq Folder /\ dirs \subseteq Folder
    /\ sink \in {"bucket", "browser"}
    /\ filter \in Filters
    /\ pc \in {"folders", "files", "entry", "fetch", "copy", "flush", "over"}
    /\ list \in Seq(File \cup Folder)
    /\ at \in 1..(Len(list) + 1)
    /\ given \in Seq(Path)
    /\ Len(given) \in {at - 1, at}
    /\ pc \in {"fetch", "copy"} => at = Len(given) /\ list[at] \in File
    /\ seen = {given[i] : i \in DOMAIN given}
    /\ sent \in Seq(Block)
    /\ taken \in Nat /\ taken <= Len(sent)
    /\ pipe \in {"open", "eof", "error"}
    /\ pipe # "open" => pc = "over"
    /\ gone \in BOOLEAN
    /\ rpc \in {"reading", "done", "failed"}
    /\ got \in Seq(Block)

(* No two entries of an archive get the same name, except directories that  *)
(* are the same: also when a counter makes a name that a later file really  *)
(* has.                                                                     *)
DistinctNames ==
    \A i, j \in DOMAIN given : i # j /\ given[i] = given[j] => given[i].stem = Dir

(* "Stops at the first error so callers never emit an archive that silently *)
(* misses entries": what ends like an archive has the bytes of every file   *)
(* that was listed, and a header for every entry.                           *)
NoSilentLoss ==
    Ended(sent) =>
        /\ Files(sent) = {list[i] : i \in DOMAIN list} \cap File
        /\ Headed(sent) = {given[i] : i \in DOMAIN given}
        /\ Len(given) = Len(list)

(* The receiver gets everything that was asked for or nothing it could take *)
(* for an archive: no torn upload becomes an object, whatever fails and     *)
(* whatever leaves the folder meanwhile.                                    *)
Delivered == rpc = "done" /\ (sink = "bucket" \/ Ended(got))

Whole == INSTANCE WholeArchive WITH
    phase <- IF Delivered THEN "delivered"
             ELSE IF rpc # "reading" THEN "over"
             ELSE IF pc \in {"folders", "files"} THEN "new" ELSE "asked",
    wanted <- {list[i] : i \in DOMAIN list} \cap File,
    got <- IF Delivered THEN Files(got) ELSE {}

AllOrNothing == Whole!Spec

(* Neither the builder's goroutine nor the request stays behind, although   *)
(* each waits for the other: the pipe holds nothing.                        *)
BothEnd == <>(pc = "over" /\ rpc # "reading")
=============================================================================
