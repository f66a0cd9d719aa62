------------------------------- MODULE Paging -------------------------------
(***************************************************************************)
(* An admin pages through the files of a folder or through the audit log   *)
(* (AuditLog in internal/handler/admin.go, List and ListFolder in          *)
(* files.go, NewPagination, PaginationBar) while entries come and go.      *)
(*                                                                         *)
(* A page is cut out of the listing as it is at that moment, by LIMIT and  *)
(* OFFSET in the order of created_at, newest first; the number of pages    *)
(* comes from a second statement.                                          *)
(***************************************************************************)
EXTENDS Naturals, FiniteSets

CONSTANTS
    Entry,      \* files, or rows of the audit log
    Born,       \* their created_at
    Limit,      \* entries on a page (48; 50 in the audit log)
    Faults      \* what may go wrong: "db"

ASSUME PagingAssumption ==
    /\ IsFiniteSet(Entry)
    /\ Born \in [Entry -> Nat]
    /\ \A e, f \in Entry : e # f => Born[e] # Born[f]
    /\ Limit \in Nat \ {0}
    /\ Faults \subseteq {"db"}

VARIABLES
    view,       \* what is paged through: "files" or "audit"
    listed,     \* the entries a listing without a limit would have
    pc,         \* where the request for a page is; "shown": answered
    page,       \* ?page=
    rows,       \* the entries of the page
    pages,      \* how many pages the bar under it tells of; 0: there is no bar
    seen,       \* entries this walk has shown (history)
    stayed,     \* entries that have been listed ever since it began (history)
    left,       \* some entry has left the listing since (history)
    blind       \* a count has failed without notice (history)

walk == <<pc, page, rows, pages, seen>>
vars == <<view, listed, walk, stayed, left, blind>>

Init ==
    /\ view \in {"files", "audit"}
    /\ listed \in SUBSET Entry
    /\ pc = "idle"
    /\ page = 1
    /\ rows = {}
    /\ pages = 0
    /\ seen = {}
    /\ stayed = {}
    /\ left = FALSE
    /\ blind = FALSE

-----------------------------------------------------------------------------
(* A file is uploaded, restored or moved here, or something is logged.      *)
Enter(e) ==
    /\ e \notin listed
    /\ listed' = listed \cup {e}
    /\ UNCHANGED <<view, walk, stayed, left, blind>>

(* A file is deleted or moved away; nothing deletes from the audit log.     *)
Leave(e) ==
    /\ view = "files"
    /\ e \in listed
    /\ listed' = listed \ {e}
    /\ stayed' = stayed \ {e}
    /\ left' = TRUE
    /\ UNCHANGED <<view, walk, blind>>

-----------------------------------------------------------------------------
Newer(e) == {f \in listed : Born[f] > Born[e]}
Rank(e) == Cardinality(Newer(e))

(* parsePage.                                                               *)
ParsePage(n) == IF n > 0 THEN n ELSE 1

(* The first page is asked for.                                             *)
Open ==
    /\ pc = "idle"
    /\ pc' = "list"
    /\ page' = 1
    /\ seen' = {}
    /\ stayed' = listed
    /\ left' = FALSE
    /\ blind' = FALSE
    /\ UNCHANGED <<view, listed, rows, pages>>

Slip_PageSkipsOne(p) == {e \in listed : p * Limit <= Rank(e) /\ Rank(e) < (p + 1) * Limit}

(* ORDER BY created_at DESC LIMIT Limit OFFSET (page - 1) * Limit.          *)
Page(p) == {e \in listed : (p - 1) * Limit <= Rank(e) /\ Rank(e) < p * Limit}

(* ListFilesPage, ListAuditLogPage.                                         *)
ReadPage ==
    /\ pc = "list"
    /\ pc' = "count"
    /\ rows' = Page(page)
    /\ seen' = seen \cup rows'
    /\ UNCHANGED <<view, listed, page, pages, stayed, left, blind>>

(* NewPagination: no bar when one page is enough.                           *)
PageCount(n) ==
    LET total == (n + Limit - 1) \div Limit IN IF total <= 1 THEN 0 ELSE total

(* CountFiles, CountAuditLog; the page is rendered.                         *)
ReadCount ==
    /\ pc = "count"
    /\ pc' = "shown"
    /\ pages' = PageCount(Cardinality(listed))
    /\ UNCHANGED <<view, listed, page, rows, seen, stayed, left, blind>>

(* The audit log drops the error of its count and takes it for 0.           *)
MissCount ==
    /\ "db" \in Faults
    /\ view = "audit"
    /\ pc = "count"
    /\ pc' = "shown"
    /\ pages' = PageCount(0)
    /\ blind' = TRUE
    /\ UNCHANGED <<view, listed, page, rows, seen, stayed, left>>

(* Any other error: status 500 in place of the page.                        *)
Error ==
    /\ "db" \in Faults
    /\ pc = "list" \/ (pc = "count" /\ view = "files")
    /\ pc' = "idle"
    /\ rows' = {}
    /\ UNCHANGED <<view, listed, page, pages, seen, stayed, left, blind>>

-----------------------------------------------------------------------------
(* The links of PaginationBar.                                              *)
HasNext == page < pages

HasPrevious == pages > 0 /\ page > 1

GoOn ==
    /\ pc = "shown"
    /\ HasNext
    /\ pc' = "list"
    /\ page' = ParsePage(page + 1)
    /\ UNCHANGED <<view, listed, rows, pages, seen, stayed, left, blind>>

GoBack ==
    /\ pc = "shown"
    /\ HasPrevious
    /\ pc' = "list"
    /\ page' = ParsePage(page - 1)
    /\ UNCHANGED <<view, listed, rows, pages, seen, stayed, left, blind>>

(* The page's address is in the browser's history and can be asked for      *)
(* again.                                                                   *)
Reload ==
    /\ pc = "shown"
    /\ pc' = "list"
    /\ UNCHANGED <<view, listed, page, rows, pages, seen, stayed, left, blind>>

(* The admin goes somewhere else.                                           *)
Close ==
    /\ pc = "shown"
    /\ pc' = "idle"
    /\ rows' = {}
    /\ UNCHANGED <<view, listed, page, pages, seen, stayed, left, blind>>

-----------------------------------------------------------------------------
Next ==
    \/ \E e \in Entry : Enter(e) \/ Leave(e)
    \/ Open \/ ReadPage \/ ReadCount \/ MissCount \/ Error
    \/ GoOn \/ GoBack \/ Reload \/ Close

Spec == Init /\ [][Next]_vars
-----------------------------------------------------------------------------
(* The variables hold what the listing and the page hold.                   *)
TypeOK ==
    /\ view \in {"files", "audit"}
    /\ listed \subseteq Entry
    /\ pc \in {"idle", "list", "count", "shown"}
    /\ page \in Nat \ {0}
    /\ rows \subseteq Entry
    /\ pages \in Nat \ {1}
    /\ seen \subseteq Entry
    /\ stayed \subseteq listed
    /\ left \in BOOLEAN
    /\ blind \in BOOLEAN

AtEnd == pc = "shown" /\ ~HasNext

(* Whoever has come to a page without a "Next" has been shown everything    *)
(* that was there all the time, although every page is cut out of another   *)
(* listing, entries arrive at any place of the order, and the links back    *)
(* are followed as well; unless an entry has left, which moves those behind *)
(* it to a page already read (nothing leaves the audit log), or the audit   *)
(* log's count has failed.                                                  *)
NothingMissed == AtEnd /\ ~left /\ ~blind => stayed \subseteq seen

(* What NothingMissed rests on: an entry that this walk has not come to yet *)
(* has as many newer ones before it as fill the pages that were read, and   *)
(* the bar then has a "Next".                                               *)
Ahead ==
    ~left => \A e \in stayed \ seen :
        /\ pc = "list" => (page - 1) * Limit <= Rank(e)
        /\ pc \in {"count", "shown"} => page * Limit <= Rank(e)
        /\ pc = "shown" /\ ~blind => page < pages

Inductive == TypeOK /\ Ahead
=============================================================================
