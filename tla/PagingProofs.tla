---------------------------- MODULE PagingProofs ----------------------------
(***************************************************************************)
(* Proofs about Paging, for any entries and any size of a page: whoever    *)
(* reaches the last page has seen everything that was there all the time.  *)
(***************************************************************************)
EXTENDS Paging, FiniteSetTheorems, TLAPS

USE PagingAssumption DEF walk

(* A listing is finite, and what is newer than an entry is part of it.      *)
LEMMA RankIsNat ==
    ASSUME NEW L \in SUBSET Entry, NEW e \in Entry
    PROVE  /\ IsFiniteSet(L)
           /\ IsFiniteSet({f \in L : Born[f] > Born[e]})
           /\ Cardinality({f \in L : Born[f] > Born[e]}) \in Nat
<1>1. IsFiniteSet(L)
  BY FS_Subset
<1>2. IsFiniteSet({f \in L : Born[f] > Born[e]})
  BY <1>1, FS_Subset
<1> QED
  BY <1>1, <1>2, FS_CardinalityType

(* Arrivals only add to what is newer than an entry.                        *)
LEMMA RankGrows ==
    ASSUME NEW L \in SUBSET Entry, NEW M \in SUBSET Entry, L \subseteq M, NEW e \in Entry
    PROVE  Cardinality({f \in L : Born[f] > Born[e]}) <= Cardinality({f \in M : Born[f] > Born[e]})
<1> DEFINE A == {f \in L : Born[f] > Born[e]}
           B == {f \in M : Born[f] > Born[e]}
<1>1. IsFiniteSet(B) /\ A \subseteq B
  BY RankIsNat
<1> QED
  BY <1>1, FS_Subset

(* An entry comes on top of those that are newer.                           *)
LEMMA RankBelowCount ==
    ASSUME NEW L \in SUBSET Entry, NEW e \in L
    PROVE  Cardinality({f \in L : Born[f] > Born[e]}) < Cardinality(L)
<1> DEFINE A == {f \in L : Born[f] > Born[e]}
<1>1. IsFiniteSet(L) /\ IsFiniteSet(A) /\ Cardinality(A) \in Nat
  BY RankIsNat
<1>2. e \notin A /\ A \cup {e} \subseteq L
  OBVIOUS
<1>3. Cardinality(A \cup {e}) = Cardinality(A) + 1
  BY <1>1, <1>2, FS_AddElement
<1>4. Cardinality(A \cup {e}) <= Cardinality(L)
  BY <1>1, <1>2, FS_Subset
<1>5. Cardinality(L) \in Nat
  BY <1>1, FS_CardinalityType
<1> QED
  BY <1>1, <1>3, <1>4, <1>5

(* More than p pages full of entries make more than p pages.                *)
LEMMA PagesCover ==
    ASSUME NEW n \in Nat, NEW p \in Nat \ {0}, p * Limit < n
    PROVE  p < PageCount(n)
<1> DEFINE total == (n + Limit - 1) \div Limit
<1>1. total \in Int /\ n + Limit - 1 < (total + 1) * Limit
  OBVIOUS
<1>2. (p + 1) * Limit < (total + 1) * Limit
  OBVIOUS
<1>3. p < total
  BY <1>1, <1>2
<1> QED
  BY <1>1, <1>3 DEF PageCount

THEOREM InitInductive == Init => Inductive
<1>1. 1 \in Nat \ {0} /\ 0 \in Nat \ {1}
  OBVIOUS
<1> QED
  BY <1>1 DEF Init, Inductive, TypeOK, Ahead

(* What an entry's rank is made of stays finite.                            *)
LEMMA RankType ==
    ASSUME TypeOK, NEW e \in Entry
    PROVE  Rank(e) \in Nat
BY RankIsNat DEF TypeOK, Rank, Newer

LEMMA TypeStep == TypeOK /\ [Next]_vars => TypeOK'
<1> SUFFICES ASSUME TypeOK, [Next]_vars PROVE TypeOK'
  OBVIOUS
<1> USE DEF TypeOK
<1>1. ASSUME NEW e \in Entry, Enter(e) PROVE TypeOK'
  BY <1>1 DEF Enter
<1>2. ASSUME NEW e \in Entry, Leave(e) PROVE TypeOK'
  BY <1>2 DEF Leave
<1>3. CASE Open
  <2>1. page' = 1 /\ 1 \in Nat \ {0}
    BY <1>3 DEF Open
  <2> QED
    BY <1>3, <2>1 DEF Open
<1>4. CASE ReadPage
  BY <1>4 DEF ReadPage, Page
<1>5. CASE ReadCount
  <2>1. Cardinality(listed) \in Nat
    BY FS_Subset, FS_CardinalityType
  <2> QED
    BY <1>5, <2>1 DEF ReadCount, PageCount
<1>6. CASE MissCount
  BY <1>6 DEF MissCount, PageCount
<1>7. CASE Error
  BY <1>7 DEF Error
<1>8. CASE GoOn
  BY <1>8 DEF GoOn, ParsePage
<1>9. CASE GoBack
  BY <1>9 DEF GoBack, ParsePage
<1>10. CASE Reload
  BY <1>10 DEF Reload
<1>11. CASE Close
  BY <1>11 DEF Close
<1>12. CASE UNCHANGED vars
  BY <1>12 DEF vars
<1> QED
  BY <1>1, <1>2, <1>3, <1>4, <1>5, <1>6, <1>7, <1>8, <1>9, <1>10, <1>11, <1>12 DEF Next

(* Ahead survives every step: arrivals raise ranks, a page read without the *)
(* entry ends before it, and the bar counts the entry.                      *)
LEMMA AheadStep == Inductive /\ [Next]_vars => Ahead'
<1> SUFFICES ASSUME TypeOK, Ahead, [Next]_vars,
                    ~left', NEW e \in Entry, e \in stayed', e \notin seen'
             PROVE  /\ pc' = "list" => (page' - 1) * Limit <= Rank(e)'
                    /\ pc' \in {"count", "shown"} => page' * Limit <= Rank(e)'
                    /\ pc' = "shown" /\ ~blind' => page' < pages'
  BY TypeStep DEF Inductive, Ahead, TypeOK
<1>t. TypeOK' /\ Rank(e) \in Nat /\ Rank(e)' \in Nat
  BY TypeStep, RankType, RankIsNat DEF TypeOK, Rank, Newer
<1>s. listed' = listed => Rank(e)' = Rank(e)
  BY DEF Rank, Newer
<1>1. ASSUME NEW g \in Entry, Enter(g) PROVE
         /\ pc' = "list" => (page' - 1) * Limit <= Rank(e)'
         /\ pc' \in {"count", "shown"} => page' * Limit <= Rank(e)'
         /\ pc' = "shown" /\ ~blind' => page' < pages'
  <2>1. listed \subseteq Entry /\ listed' \subseteq Entry /\ listed \subseteq listed'
    BY <1>1, <1>t DEF Enter, TypeOK
  <2>0. Rank(e) <= Rank(e)'
    BY <2>1, RankGrows DEF Rank, Newer
  <2>2. /\ pc = "list" => (page - 1) * Limit <= Rank(e)
        /\ pc \in {"count", "shown"} => page * Limit <= Rank(e)
        /\ pc = "shown" /\ ~blind => page < pages
    BY <1>1 DEF Enter, Ahead
  <2>3. (page - 1) * Limit \in Int /\ page * Limit \in Int
    BY DEF TypeOK
  <2> QED
    BY <1>1, <1>t, <2>0, <2>2, <2>3 DEF Enter
<1>2. ASSUME NEW g \in Entry, Leave(g) PROVE FALSE
  BY <1>2 DEF Leave
<1>3. CASE Open
  <2>1. pc' = "list" /\ page' = 1
    BY <1>3 DEF Open
  <2> QED
    BY <1>t, <2>1
<1>4. CASE ReadPage
  <2>1. (page - 1) * Limit <= Rank(e)
    BY <1>4 DEF ReadPage, Ahead
  <2>2. e \in listed /\ e \notin Page(page)
    BY <1>4 DEF ReadPage, TypeOK
  <2>3. page * Limit <= Rank(e)
    BY <1>t, <2>1, <2>2 DEF Page, TypeOK
  <2> QED
    BY <1>4, <1>s, <2>3 DEF ReadPage
<1>5. CASE ReadCount
  <2>1. page * Limit <= Rank(e)
    BY <1>5 DEF ReadCount, Ahead
  <2>2. e \in listed
    BY <1>5 DEF ReadCount, TypeOK
  <2>3. Rank(e) < Cardinality(listed)
    BY <2>2, RankBelowCount DEF Rank, Newer, TypeOK
  <2>4. Cardinality(listed) \in Nat
    BY FS_Subset, FS_CardinalityType DEF TypeOK
  <2>5. page * Limit < Cardinality(listed)
    BY <1>t, <2>1, <2>3, <2>4 DEF TypeOK
  <2>6. page < PageCount(Cardinality(listed))
    BY <2>4, <2>5, PagesCover DEF TypeOK
  <2> QED
    BY <1>5, <1>s, <2>1, <2>6 DEF ReadCount
<1>6. CASE MissCount
  BY <1>6, <1>s DEF MissCount, Ahead
<1>7. CASE Error
  BY <1>7 DEF Error
<1>8. CASE GoOn
  <2>1. page * Limit <= Rank(e)
    BY <1>8 DEF GoOn, Ahead
  <2>2. page' = page + 1 /\ pc' = "list"
    BY <1>8 DEF GoOn, ParsePage, TypeOK
  <2> QED
    BY <1>8, <1>s, <2>1, <2>2 DEF GoOn, TypeOK
<1>9. CASE GoBack
  <2>1. page * Limit <= Rank(e)
    BY <1>9 DEF GoBack, Ahead
  <2>2. page' = page - 1 /\ pc' = "list"
    BY <1>9 DEF GoBack, ParsePage, HasPrevious, TypeOK
  <2>3. (page' - 1) * Limit <= page * Limit
    BY <2>2 DEF TypeOK
  <2> QED
    BY <1>9, <1>t, <1>s, <2>1, <2>2, <2>3 DEF GoBack, TypeOK
<1>10. CASE Reload
  <2>1. page * Limit <= Rank(e)
    BY <1>10 DEF Reload, Ahead
  <2>2. (page - 1) * Limit <= page * Limit
    BY DEF TypeOK
  <2> QED
    BY <1>10, <1>t, <1>s, <2>1, <2>2 DEF Reload, TypeOK
<1>11. CASE Close
  BY <1>11 DEF Close
<1>12. CASE UNCHANGED vars
  BY <1>12, <1>s DEF vars, Ahead
<1> QED
  BY <1>1, <1>2, <1>3, <1>4, <1>5, <1>6, <1>7, <1>8, <1>9, <1>10, <1>11, <1>12 DEF Next

THEOREM StepInductive == Inductive /\ [Next]_vars => Inductive'
BY TypeStep, AheadStep DEF Inductive

(* The variables keep their types.                                          *)
THEOREM TypeCorrect == Spec => []TypeOK
<1>1. Inductive => TypeOK
  BY DEF Inductive
<1> QED
  BY <1>1, InitInductive, StepInductive, PTL DEF Spec

(* Paging to the end shows everything that stayed, whatever arrives in      *)
(* between and however the links are followed: for any number of entries    *)
(* and any size of a page (ListFilesPage, CountFiles, NewPagination).       *)
THEOREM PagingIsComplete == Spec => []NothingMissed
<1>1. Inductive => NothingMissed
  BY DEF Inductive, Ahead, NothingMissed, AtEnd, HasNext, TypeOK
<1> QED
  BY <1>1, InitInductive, StepInductive, PTL DEF Spec
=============================================================================
