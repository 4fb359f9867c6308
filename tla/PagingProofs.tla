------------------------------ MODULE PagingProofs ------------------------------
(***************************************************************************)
(* Proofs about Paging, for any table, readers and page sizes.             *)
(*                                                                         *)
(* A row that a reader is owed can only be missed when its place in the    *)
(* list is before the pages read so far.  Insertions move places back, a   *)
(* page takes every owed row of its places with it, and a row that leaves  *)
(* the list moves at most one owed row past the boundary.  The inductive   *)
(* invariant counts those rows (Hidden) against the rows that left.        *)
(***************************************************************************)
EXTENDS Paging, FiniteSetTheorems, TLAPS

(***************************************************************************)
(* Lists, offsets and pages.                                               *)
(***************************************************************************)
\* A list is finite.
LEMMA ListIsFinite ==
  ASSUME NEW r \in Readers
  PROVE  /\ IsFiniteSet(Listed(r))
         /\ Cardinality(Listed(r)) \in Nat
         /\ Listed(r) \subseteq Matching
<1>1. Listed(r) \subseteq Tasks /\ Listed(r) \subseteq Matching
  BY PagingAssumption DEF Listed
<1> QED  BY <1>1, PagingAssumption, FS_Subset, FS_CardinalityType

\* Page 1 skips nothing, and every page as many rows more as a page has.
LEMMA SkipByPage ==
  ASSUME NEW p \in Nat \ {0}, NEW s \in Nat \ {0}
  PROVE  /\ Skip(p, s) \in Nat
         /\ Skip(1, s) = 0
         /\ Skip(p + 1, s) = Skip(p, s) + s
<1>1. Skip(1, s) = 0
  BY DEF Skip
<1>2. (p - 1) * s \in Nat
  OBVIOUS
<1>3. ((p + 1) - 1) * s = (p - 1) * s + s
  OBVIOUS
<1> QED  BY <1>1, <1>2, <1>3 DEF Skip

\* How many rows a page has.
LEMMA PageLength ==
  ASSUME NEW L, IsFiniteSet(L), NEW R \in SUBSET L, NEW skip \in Nat, NEW limit \in Nat,
         IsPage(R, L, skip, limit)
  PROVE  Cardinality(R) = IF Cardinality(L) <= skip THEN 0
                          ELSE AtMost(limit, Cardinality(L) - skip)
<1> PICK B \in SUBSET L :
      /\ Cardinality(B) = AtMost(skip, Cardinality(L))
      /\ Cardinality(R) = AtMost(limit, Cardinality(L \ B))
  BY DEF IsPage
<1> DEFINE l == Cardinality(L)
<1>1. l \in Nat /\ L \cap B = B
  BY FS_CardinalityType
<1>2. Cardinality(L \ B) = l - Cardinality(B)
  <2>1. Cardinality(L \ B) = Cardinality(L) - Cardinality(L \cap B)
    BY FS_Difference
  <2> QED  BY <1>1, <2>1
<1>3. Cardinality(R) = AtMost(limit, l - AtMost(skip, l))
  BY <1>2
<1> HIDE DEF l
<1>4. Cardinality(R) = IF l <= skip THEN 0 ELSE AtMost(limit, l - skip)
  BY <1>1, <1>3 DEF AtMost
<1> QED  BY <1>4 DEF l

\* The rows of a list that are before one of them.
Ahead(L, t) == {u \in L \ {t} : createdAt[u] >= createdAt[t]}

\* A row that a page does not bring has its place before the page or behind it;
\* a page that is not full has nothing behind it.
LEMMA NotOnPage ==
  ASSUME NEW L, IsFiniteSet(L), NEW R \in SUBSET L, NEW skip \in Nat, NEW limit \in Nat,
         IsPage(R, L, skip, limit), NEW t \in L \ R,
         \A u \in L : createdAt[u] \in Nat,
         \A u \in L \ {t} : createdAt[u] # createdAt[t]
  PROVE  \/ Cardinality(Ahead(L, t)) < skip
         \/ Cardinality(Ahead(L, t)) >= skip + limit /\ Cardinality(R) = limit
<1> DEFINE N == Ahead(L, t)
<1> PICK B \in SUBSET L :
      /\ R \subseteq L \ B
      /\ Cardinality(B) = AtMost(skip, Cardinality(L))
      /\ Cardinality(R) = AtMost(limit, Cardinality(L \ B))
      /\ NewestFirst(B, L \ B)
      /\ NewestFirst(R, L \ (B \cup R))
  BY DEF IsPage
<1>1. /\ IsFiniteSet(B) /\ IsFiniteSet(R) /\ IsFiniteSet(N) /\ IsFiniteSet(L \ B)
      /\ Cardinality(B) \in Nat /\ Cardinality(R) \in Nat /\ Cardinality(N) \in Nat
      /\ Cardinality(L) \in Nat /\ Cardinality(L \ B) \in Nat
  BY FS_Subset, FS_CardinalityType DEF Ahead
<1>2. CASE t \in B
  <2>1. N \subseteq B \ {t}
    BY <1>2 DEF NewestFirst, Ahead
  <2>2. IsFiniteSet(B \ {t}) /\ Cardinality(B \ {t}) = Cardinality(B) - 1
    BY <1>1, <1>2, FS_RemoveElement
  <2>3. Cardinality(N) <= Cardinality(B) - 1
    BY <2>1, <2>2, FS_Subset
  <2> QED  BY <1>1, <2>3 DEF AtMost
<1>3. CASE t \notin B
  <2>1. Cardinality(R) = limit
    <3>1. R # L \ B
      BY <1>3
    <3>2. Cardinality(R) <= Cardinality(L \ B) /\ Cardinality(R) # Cardinality(L \ B)
      BY <1>1, <3>1, FS_Subset
    <3> QED  BY <1>1, <3>2 DEF AtMost
  <2>2. Cardinality(B) = skip
    <3>1. Cardinality(B) # Cardinality(L)
      BY <1>3, FS_Subset
    <3> QED  BY <1>1, <3>1 DEF AtMost
  <2>3. B \cup R \subseteq N
    BY <1>3 DEF NewestFirst, Ahead
  <2>4. Cardinality(B \cup R) = skip + limit
    <3>1. B \cap R = {}
      OBVIOUS
    <3>2. Cardinality(B \cup R) = Cardinality(B) + Cardinality(R) - Cardinality(B \cap R)
      BY <1>1, FS_Union
    <3>3. Cardinality(B \cap R) = 0
      BY <3>1, FS_EmptySet
    <3> QED  BY ONLY <2>1, <2>2, <3>2, <3>3, skip \in Nat, limit \in Nat
  <2>5. Cardinality(B \cup R) <= Cardinality(N)
    <3>1. (B \cup R) \in SUBSET N
      BY <2>3
    <3> QED  BY ONLY <1>1, <3>1, FS_Subset
  <2> QED  BY <2>1, <2>4, <2>5
<1> QED  BY <1>2, <1>3

\* A longer list has no shorter pages.
LEMMA ShareGrows ==
  ASSUME PagingTypeOK, NEW r \in Readers, NEW m \in Int, NEW n \in Int, m <= n
  PROVE  Share(r, m) <= Share(r, n)
<1>1. query[r].pageSize \in Nat \ {0} /\ page[r] \in Nat \ {0}
  BY PagingAssumption DEF PagingTypeOK, Queries
<1>2. Offset(r) \in Nat
  BY <1>1, SkipByPage DEF Offset
<1> QED  BY <1>1, <1>2 DEF Share, AtMost

(***************************************************************************)
(* The inductive invariant.                                                *)
(***************************************************************************)
\* The rows of r's list before a row.
Newer(r, t) == Ahead(Listed(r), t)

\* The places that r has read.
Passed(r) == Offset(r) + IF found[r] THEN query[r].pageSize ELSE 0

\* Rows that count for r, and those of them that no later page brings.
Missed(r) == {t \in owed[r] : Unique(t)}
Hidden(r) == {t \in Missed(r) : Cardinality(Newer(r, t)) < Passed(r)}

\* What a reader holds between two steps.
RequestOK(r) ==
  /\ found[r] \/ total[r] # Pending => state[r] = "asked"
  /\ state[r] = "between" /\ page[r] = 1 => owed[r] = {}
  /\ owed[r] \subseteq Listed(r)

\* Each row that left the list has hidden at most one other.
HiddenAtMostLost(r) == state[r] # "over" => Cardinality(Hidden(r)) <= lost[r]

\* When a page is short nothing else is missed.
ShortPageIsLast(r) ==
  state[r] = "over" \/ (found[r] /\ Cardinality(rows[r]) < query[r].pageSize) =>
    Cardinality(Missed(r)) <= lost[r]

\* The rows found fit a list of n rows, and the total counted does.
RowsFit(r, n) ==
  /\ Cardinality(rows[r]) >= Share(r, n - moved[r])
  /\ Cardinality(rows[r]) <= Share(r, n + moved[r])
TotalFits(r, n) == total[r] - moved[r] <= n /\ n <= total[r] + moved[r]

\* What the queries have found fits the list as it is now, and each other.
AnswerFits(r) ==
  /\ found[r] /\ total[r] = Pending => RowsFit(r, Cardinality(Listed(r)))
  /\ ~found[r] /\ total[r] # Pending => TotalFits(r, Cardinality(Listed(r)))
  /\ found[r] /\ total[r] # Pending => RowsFit(r, total[r])

ReaderInv(r) ==
  /\ RequestOK(r)
  /\ HiddenAtMostLost(r)
  /\ ShortPageIsLast(r)
  /\ AnswerFits(r)

PInv == PagingTypeOK /\ \A r \in Readers : ReaderInv(r)

\* The sets of the invariant are finite.
LEMMA SetsAreFinite ==
  ASSUME PagingTypeOK, NEW r \in Readers
  PROVE  /\ IsFiniteSet(Missed(r)) /\ Cardinality(Missed(r)) \in Nat
         /\ IsFiniteSet(Hidden(r)) /\ Cardinality(Hidden(r)) \in Nat
         /\ Hidden(r) \subseteq Missed(r)
         /\ \A t : IsFiniteSet(Newer(r, t)) /\ Cardinality(Newer(r, t)) \in Nat
<1>1. Hidden(r) \subseteq Missed(r) /\ Missed(r) \subseteq Tasks
  BY PagingAssumption DEF Hidden, Missed, PagingTypeOK
<1>2. Hidden(r) \subseteq Tasks
  BY <1>1
<1>3. \A t : Newer(r, t) \subseteq Listed(r)
  BY DEF Newer, Ahead
<1>4. \A t : IsFiniteSet(Newer(r, t)) /\ Cardinality(Newer(r, t)) \in Nat
  BY <1>3, ListIsFinite, FS_Subset, FS_CardinalityType
<1> QED  BY <1>1, <1>2, <1>4, PagingAssumption, FS_Subset, FS_CardinalityType

\* The numbers of a request.
LEMMA RequestNumbers ==
  ASSUME PagingTypeOK, NEW r \in Readers
  PROVE  /\ query[r].pageSize \in Nat \ {0}
         /\ Offset(r) \in Nat
         /\ Passed(r) \in Nat
         /\ lost[r] \in Nat
         /\ moved[r] \in Nat
         /\ total[r] \in Int
         /\ page[r] = 1 => Offset(r) = 0
<1>1. query[r].pageSize \in Nat \ {0} /\ page[r] \in Nat \ {0}
  BY PagingAssumption DEF PagingTypeOK, Queries
<1>2. Offset(r) \in Nat /\ (page[r] = 1 => Offset(r) = 0)
  BY <1>1, SkipByPage DEF Offset
<1>3. Passed(r) \in Nat
  BY <1>1, <1>2 DEF Passed
<1>4. lost[r] \in Nat /\ moved[r] \in Nat /\ total[r] \in Int
  BY DEF PagingTypeOK, Pending
<1> QED  BY <1>1, <1>2, <1>3, <1>4

LEMMA InitPInv == Init => PInv
<1> SUFFICES ASSUME Init PROVE PInv
  OBVIOUS
<1>1. PagingTypeOK
  BY DEF Init, PagingTypeOK
<1>2. ASSUME NEW r \in Readers
      PROVE  ReaderInv(r)
  <2>1. Missed(r) = {} /\ Hidden(r) = {}
    BY DEF Init, Missed, Hidden
  <2>2. HiddenAtMostLost(r) /\ ShortPageIsLast(r)
    BY <2>1, FS_EmptySet DEF Init, HiddenAtMostLost, ShortPageIsLast
  <2>3. RequestOK(r) /\ AnswerFits(r)
    BY DEF Init, RequestOK, AnswerFits
  <2> QED  BY <2>2, <2>3 DEF ReaderInv
<1> QED  BY <1>1, <1>2 DEF PInv

\* Every step keeps the types.
LEMMA StepType == PagingTypeOK /\ [Next]_vars => PagingTypeOK'
<1> SUFFICES ASSUME PagingTypeOK, [Next]_vars
             PROVE  PagingTypeOK'
  OBVIOUS
<1> USE DEF PagingTypeOK, table, reading, history
<1>1. ASSUME NEW r \in Readers, Ask(r)
      PROVE  PagingTypeOK'
  BY <1>1, ListIsFinite DEF Ask
<1>2. ASSUME NEW r \in Readers, FindRows(r)
      PROVE  PagingTypeOK'
  BY <1>2, ListIsFinite DEF FindRows
<1>3. ASSUME NEW r \in Readers, Count(r)
      PROVE  PagingTypeOK'
  BY <1>3, ListIsFinite DEF Count
<1>4. ASSUME NEW r \in Readers, Answer(r)
      PROVE  PagingTypeOK'
  BY <1>4 DEF Answer
<1>5. ASSUME Tally
      PROVE  moved' \in [Readers -> Nat] /\ lost' \in [Readers -> Nat]
             /\ owed' \in [Readers -> SUBSET Matching]
  <2>1. \A r \in Readers : Cardinality(Left(r)) \in Nat
    <3> TAKE r \in Readers
    <3>1. Left(r) \in SUBSET Tasks
      BY PagingAssumption DEF Left, Listed
    <3> QED  BY <3>1, PagingAssumption, FS_Subset, FS_CardinalityType
  <2>2. \A r \in Readers : Cardinality(Entered(r)) \in Nat
    <3> TAKE r \in Readers
    <3>1. Entered(r) \in SUBSET Tasks
      BY PagingAssumption DEF Entered, Listed
    <3> QED  BY <3>1, PagingAssumption, FS_Subset, FS_CardinalityType
  <2>3. moved' \in [Readers -> Nat]
    BY <1>5, <2>1, <2>2 DEF Tally
  <2>4. lost' \in [Readers -> Nat]
    BY <1>5, <2>1 DEF Tally
  <2>5. owed' \in [Readers -> SUBSET Matching]
    BY <1>5 DEF Tally
  <2> QED  BY <2>3, <2>4, <2>5
<1>6. ASSUME NEW t \in Tasks, NEW s \in Stamps, InsertRow(t, s)
      PROVE  PagingTypeOK'
  BY <1>5, <1>6 DEF InsertRow
<1>7. ASSUME NEW t \in Tasks, NEW u \in Readers \cup {NoUser}, SetAssignee(t, u)
      PROVE  PagingTypeOK'
  BY <1>5, <1>7 DEF SetAssignee
<1>8. CASE UNCHANGED vars
  BY <1>8 DEF vars
<1> QED  BY <1>1, <1>2, <1>3, <1>4, <1>6, <1>7, <1>8 DEF Next

\* A reader that a step does not concern keeps its invariant.
LEMMA OtherReader ==
  ASSUME NEW r \in Readers, ReaderInv(r), UNCHANGED table,
         state'[r] = state[r], page'[r] = page[r], found'[r] = found[r],
         rows'[r] = rows[r], total'[r] = total[r], moved'[r] = moved[r],
         lost'[r] = lost[r], owed'[r] = owed[r]
  PROVE  ReaderInv(r)'
<1> USE DEF table
<1>1. Listed(r)' = Listed(r) /\ Offset(r)' = Offset(r) /\ Passed(r)' = Passed(r)
  BY DEF Listed, Offset, Passed
<1>2. \A t : Newer(r, t)' = Newer(r, t) /\ Unique(t)' = Unique(t)
  BY <1>1 DEF Newer, Ahead, Unique
<1>3. Missed(r)' = Missed(r) /\ Hidden(r)' = Hidden(r)
  BY <1>1, <1>2 DEF Missed, Hidden
<1>4. \A n : Share(r, n)' = Share(r, n)
  BY <1>1 DEF Share
<1>5. RequestOK(r)'
  BY <1>1 DEF ReaderInv, RequestOK
<1>6. HiddenAtMostLost(r)'
  BY <1>3 DEF ReaderInv, HiddenAtMostLost
<1>7. ShortPageIsLast(r)'
  BY <1>3 DEF ReaderInv, ShortPageIsLast
<1>8. AnswerFits(r)'
  BY <1>1, <1>4 DEF ReaderInv, AnswerFits, RowsFit, TotalFits, Share
<1> QED  BY <1>5, <1>6, <1>7, <1>8 DEF ReaderInv

\* A reader asks: on page 1 it is owed its list, and nothing is hidden.
LEMMA AskStep ==
  ASSUME PagingTypeOK, NEW r \in Readers, ReaderInv(r), Ask(r)
  PROVE  ReaderInv(r)'
<1> USE DEF Ask, table
<1>1. /\ state[r] = "between" /\ state'[r] = "asked"
      /\ owed'[r] = IF page[r] = 1 THEN Listed(r) ELSE owed[r]
      /\ ~found[r] /\ total[r] = Pending
  BY DEF PagingTypeOK, ReaderInv, RequestOK
<1>2. Listed(r)' = Listed(r) /\ Passed(r)' = Passed(r) /\ Passed(r) = Offset(r)
  BY <1>1, RequestNumbers DEF Listed, Passed, Offset
<1>3. \A t : Newer(r, t)' = Newer(r, t) /\ Unique(t)' = Unique(t)
  BY <1>2 DEF Newer, Ahead, Unique
<1>4. HiddenAtMostLost(r)'
  <2>1. CASE page[r] = 1
    <3>1. Passed(r)' = 0
      BY <1>2, <2>1, RequestNumbers
    <3>2. \A t : ~(Cardinality(Newer(r, t)) < 0)
      BY SetsAreFinite
    <3>3. Hidden(r)' = {}
      BY <1>3, <3>1, <3>2 DEF Hidden
    <3> QED  BY <3>3, FS_EmptySet, RequestNumbers DEF HiddenAtMostLost
  <2>2. CASE page[r] # 1
    <3>1. Hidden(r)' = Hidden(r)
      BY <1>1, <1>2, <1>3, <2>2 DEF Hidden, Missed
    <3> QED  BY <1>1, <3>1 DEF ReaderInv, HiddenAtMostLost
  <2> QED  BY <2>1, <2>2
<1>5. RequestOK(r)'
  BY <1>1, <1>2 DEF ReaderInv, RequestOK
<1>6. ShortPageIsLast(r)'
  BY <1>1 DEF ShortPageIsLast
<1>7. AnswerFits(r)'
  BY <1>1 DEF AnswerFits
<1> QED  BY <1>4, <1>5, <1>6, <1>7 DEF ReaderInv

\* A page takes every owed row of its places with it; what a short page leaves
\* was hidden before.
LEMMA FindStep ==
  ASSUME PagingTypeOK, NEW r \in Readers, ReaderInv(r), FindRows(r)
  PROVE  ReaderInv(r)'
<1> DEFINE size == query[r].pageSize
           L == Listed(r)
<1> USE DEF table
<1>1. PICK R \in SUBSET L :
        /\ IsPage(R, L, Offset(r), size)
        /\ rows' = [rows EXCEPT ![r] = R]
        /\ owed' = [owed EXCEPT ![r] = @ \ R]
  BY DEF FindRows
<1>2. /\ state[r] = "asked" /\ ~found[r] /\ found'[r]
      /\ rows'[r] = R /\ owed'[r] = owed[r] \ R
      /\ UNCHANGED <<table, state, page, total, moved, lost>>
  BY <1>1 DEF FindRows, PagingTypeOK
<1>3. Listed(r)' = L /\ Offset(r)' = Offset(r)
  BY <1>2 DEF Listed, Offset
<1>4. Passed(r) = Offset(r) /\ Passed(r)' = Offset(r) + size
  BY <1>2, <1>3, RequestNumbers DEF Passed
<1>5. \A t : Newer(r, t)' = Newer(r, t) /\ Unique(t)' = Unique(t)
  BY <1>2, <1>3 DEF Newer, Ahead, Unique
<1>6. ASSUME NEW t \in Missed(r)'
      PROVE  \/ Cardinality(Newer(r, t)) < Offset(r)
             \/ Cardinality(Newer(r, t)) >= Offset(r) + size /\ Cardinality(R) = size
  <2>1. t \in L \ R /\ Unique(t) /\ IsPage(R, L, Offset(r), size)
    BY <1>1, <1>2, <1>5, <1>6 DEF Missed, ReaderInv, RequestOK
  <2>2. \A u \in L : createdAt[u] \in Nat
    BY PagingAssumption DEF PagingTypeOK, Listed, Unborn
  <2>3. \A u \in L \ {t} : createdAt[u] # createdAt[t]
    BY <2>1, PagingAssumption DEF Unique, Listed
  <2>4. IsFiniteSet(L)
    BY ListIsFinite
  <2>5. Newer(r, t) = Ahead(L, t)
    BY DEF Newer
  <2>6. Offset(r) \in Nat /\ size \in Nat
    BY RequestNumbers
  <2> HIDE DEF L, size
  <2>7. R \in SUBSET L
    OBVIOUS
  <2> QED  BY ONLY <2>1, <2>2, <2>3, <2>4, <2>5, <2>6, <2>7, NotOnPage
<1>7. Missed(r)' \subseteq Missed(r)
  BY <1>2, <1>5 DEF Missed
<1>8. Hidden(r)' \subseteq Hidden(r)
  <2> SUFFICES ASSUME NEW t \in Hidden(r)'
               PROVE  t \in Hidden(r)
    OBVIOUS
  <2>1. t \in Missed(r)' /\ Cardinality(Newer(r, t)) < Offset(r) + size
    BY <1>4, <1>5 DEF Hidden
  <2>2. Cardinality(Newer(r, t)) \in Nat /\ Offset(r) + size \in Nat
    BY SetsAreFinite, RequestNumbers
  <2>3. Cardinality(Newer(r, t)) < Offset(r)
    BY <1>6, <2>1, <2>2
  <2> QED  BY <1>4, <1>7, <2>1, <2>3 DEF Hidden
<1>9. Cardinality(Hidden(r)) <= lost[r]
  BY <1>2 DEF ReaderInv, HiddenAtMostLost
<1>10. HiddenAtMostLost(r)'
  <2>1. Cardinality(Hidden(r)') <= Cardinality(Hidden(r)) /\ Cardinality(Hidden(r)') \in Nat
    BY <1>8, SetsAreFinite, FS_Subset, FS_CardinalityType
  <2> QED  BY <1>2, <1>9, <2>1, SetsAreFinite, RequestNumbers DEF HiddenAtMostLost
<1>11. ShortPageIsLast(r)'
  <2> SUFFICES ASSUME Cardinality(R) < size
               PROVE  Cardinality(Missed(r)') <= lost[r]
    BY <1>2 DEF ShortPageIsLast
  <2>1. Missed(r)' \subseteq Hidden(r)
    BY <1>4, <1>6, <1>7, RequestNumbers DEF Hidden
  <2>2. Cardinality(Missed(r)') <= Cardinality(Hidden(r)) /\ Cardinality(Missed(r)') \in Nat
    BY <2>1, SetsAreFinite, FS_Subset, FS_CardinalityType
  <2> QED  BY <1>9, <2>2, SetsAreFinite, RequestNumbers
<1>12. RequestOK(r)'
  BY <1>2, <1>3 DEF ReaderInv, RequestOK
<1>13. AnswerFits(r)'
  <2> DEFINE n == Cardinality(L)
  <2>1. n \in Nat /\ IsFiniteSet(L)
    BY ListIsFinite
  <2>2. Cardinality(R) = Share(r, n)
    BY <1>1, <2>1, PageLength, RequestNumbers DEF Share
  <2>3. ASSUME NEW m \in Int, m - moved[r] <= n, n <= m + moved[r]
        PROVE  /\ Cardinality(R) >= Share(r, m - moved[r])
               /\ Cardinality(R) <= Share(r, m + moved[r])
    <3>1. /\ Share(r, m - moved[r]) <= Share(r, n)
          /\ Share(r, n) <= Share(r, m + moved[r])
      BY <2>1, <2>3, RequestNumbers, ShareGrows
    <3>2. Share(r, m - moved[r]) \in Int /\ Share(r, m + moved[r]) \in Int
      BY <2>3, RequestNumbers DEF Share, AtMost
    <3> QED  BY <2>2, <3>1, <3>2
  <2>4. total[r] = Pending =>
          /\ Cardinality(R) >= Share(r, n - moved[r])
          /\ Cardinality(R) <= Share(r, n + moved[r])
    BY <2>1, <2>3, RequestNumbers
  <2>5. total[r] # Pending =>
          /\ Cardinality(R) >= Share(r, total[r] - moved[r])
          /\ Cardinality(R) <= Share(r, total[r] + moved[r])
    BY <1>2, <2>1, <2>3, RequestNumbers DEF ReaderInv, AnswerFits, TotalFits
  <2> QED  BY <1>2, <1>3, <2>4, <2>5 DEF AnswerFits, RowsFit, Share
<1> QED  BY <1>10, <1>11, <1>12, <1>13 DEF ReaderInv

\* The count fits the list, and the rows that were found before it.
LEMMA CountStep ==
  ASSUME PagingTypeOK, NEW r \in Readers, ReaderInv(r), Count(r)
  PROVE  ReaderInv(r)'
<1> USE DEF table, history
<1>1. /\ state[r] = "asked" /\ total[r] = Pending
      /\ total'[r] = Cardinality(Listed(r))
      /\ UNCHANGED <<table, state, page, found, rows, history>>
  BY DEF Count, PagingTypeOK
<1>2. Listed(r)' = Listed(r) /\ Passed(r)' = Passed(r) /\ Offset(r)' = Offset(r)
  BY <1>1 DEF Listed, Passed, Offset
<1>3. Missed(r)' = Missed(r) /\ Hidden(r)' = Hidden(r)
  BY <1>1, <1>2 DEF Missed, Hidden, Newer, Ahead, Unique
<1>4. RequestOK(r)'
  BY <1>1, <1>2 DEF ReaderInv, RequestOK
<1>5. HiddenAtMostLost(r)'
  BY <1>1, <1>3 DEF ReaderInv, HiddenAtMostLost
<1>6. ShortPageIsLast(r)'
  BY <1>1, <1>3 DEF ReaderInv, ShortPageIsLast
<1>7. AnswerFits(r)'
  <2>1. total'[r] # Pending /\ total'[r] \in Nat
    BY <1>1, ListIsFinite DEF Pending
  <2>2. found[r] => RowsFit(r, total[r])'
    BY <1>1, <1>2 DEF ReaderInv, AnswerFits, RowsFit, Share
  <2>3. ~found[r] => TotalFits(r, Cardinality(Listed(r)))'
    BY <1>1, <1>2, <2>1, RequestNumbers DEF TotalFits
  <2> QED  BY <1>1, <2>1, <2>2, <2>3 DEF AnswerFits
<1> QED  BY <1>4, <1>5, <1>6, <1>7 DEF ReaderInv

\* The next page begins where this one ended, and a short one is the last.
LEMMA AnswerStep ==
  ASSUME PagingTypeOK, NEW r \in Readers, ReaderInv(r), Answer(r)
  PROVE  ReaderInv(r)'
<1> USE DEF table
<1>1. /\ found[r] /\ state[r] = "asked" /\ page'[r] = page[r] + 1
      /\ ~found'[r] /\ total'[r] = Pending
      /\ state'[r] = IF Cardinality(rows[r]) < query[r].pageSize THEN "over" ELSE "between"
      /\ UNCHANGED <<table, lost, owed>>
  BY DEF Answer, PagingTypeOK, ReaderInv, RequestOK
<1>2. page[r] \in Nat \ {0} /\ query[r].pageSize \in Nat \ {0}
  BY RequestNumbers DEF PagingTypeOK
<1>3. Passed(r)' = Passed(r)
  BY <1>1, <1>2, SkipByPage DEF Passed, Offset
<1>4. Listed(r)' = Listed(r)
  BY <1>1 DEF Listed
<1>5. Missed(r)' = Missed(r) /\ Hidden(r)' = Hidden(r)
  BY <1>1, <1>3, <1>4 DEF Missed, Hidden, Newer, Ahead, Unique
<1>6. RequestOK(r)'
  BY <1>1, <1>2, <1>4 DEF ReaderInv, RequestOK
<1>7. HiddenAtMostLost(r)'
  BY <1>1, <1>5 DEF ReaderInv, HiddenAtMostLost
<1>8. ShortPageIsLast(r)'
  BY <1>1, <1>5 DEF ReaderInv, ShortPageIsLast
<1>9. AnswerFits(r)'
  BY <1>1 DEF AnswerFits
<1> QED  BY <1>6, <1>7, <1>8, <1>9 DEF ReaderInv

(***************************************************************************)
(* Steps of the table.                                                     *)
(***************************************************************************)
\* Two rows that share their createdAt with no other have different places.
LEMMA PlacesDiffer ==
  ASSUME PagingTypeOK, NEW r \in Readers, NEW t \in Listed(r), NEW u \in Listed(r),
         Unique(t), Unique(u), t # u
  PROVE  Cardinality(Newer(r, t)) # Cardinality(Newer(r, u))
<1>1. ASSUME NEW a \in Listed(r), NEW b \in Listed(r), createdAt[a] > createdAt[b]
      PROVE  Cardinality(Newer(r, a)) # Cardinality(Newer(r, b))
  <2>1. \A c \in Listed(r) : createdAt[c] \in Nat
    BY PagingAssumption DEF PagingTypeOK, Listed, Unborn
  <2>2. Newer(r, a) \subseteq Newer(r, b) /\ a \in Newer(r, b) /\ a \notin Newer(r, a)
    BY <1>1, <2>1 DEF Newer, Ahead
  <2>3. Newer(r, a) # Newer(r, b) /\ Newer(r, a) \in SUBSET Newer(r, b)
    BY <2>2
  <2> QED  BY <2>3, SetsAreFinite, FS_Subset
<1>2. createdAt[t] # createdAt[u] /\ createdAt[t] \in Nat /\ createdAt[u] \in Nat
  BY PagingAssumption DEF PagingTypeOK, Listed, Unique, Unborn
<1> QED  BY <1>1, <1>2

\* A step that puts one row into lists or takes it out of them keeps the
\* invariant of every reader.
LEMMA TableStep ==
  ASSUME PagingTypeOK, PagingTypeOK', NEW r \in Readers, ReaderInv(r),
         UNCHANGED <<query, reading>>, Tally, NEW x \in Tasks,
         \A t \in Tasks : createdAt[t] # Unborn => createdAt'[t] = createdAt[t],
         \A t \in Tasks \ {x} : t \in Listed(r) <=> t \in Listed(r)'
  PROVE  ReaderInv(r)'
<1> USE DEF reading
<1> DEFINE L == Listed(r)
           M == Listed(r)'
           counting == state[r] = "asked" \/ (state[r] = "between" /\ page[r] > 1)
<1>1. L \subseteq Tasks /\ M \subseteq Tasks
  BY PagingAssumption DEF Listed
<1>2. Offset(r)' = Offset(r) /\ Passed(r)' = Passed(r)
  BY DEF Offset, Passed
<1>3. /\ moved'[r] = IF state[r] = "asked"
                     THEN moved[r] + Cardinality(L \ M) + Cardinality(M \ L) ELSE moved[r]
      /\ lost'[r] = IF counting THEN lost[r] + Cardinality(L \ M) ELSE lost[r]
      /\ owed'[r] = owed[r] \ (L \ M)
  BY DEF Tally, Left, Entered
<1>4. /\ IsFiniteSet(L) /\ IsFiniteSet(M) /\ IsFiniteSet(L \ M) /\ IsFiniteSet(M \ L)
      /\ Cardinality(L) \in Nat /\ Cardinality(M) \in Nat
      /\ Cardinality(L \ M) \in Nat /\ Cardinality(M \ L) \in Nat
  BY <1>1, PagingAssumption, FS_Subset, FS_Difference, FS_CardinalityType
<1>5. owed[r] \subseteq L /\ owed'[r] \subseteq M /\ owed'[r] \subseteq owed[r]
  BY <1>3 DEF ReaderInv, RequestOK
<1>6. RequestOK(r)'
  BY <1>3, <1>5 DEF ReaderInv, RequestOK
\* A row that is unique after the step was so before.
<1>7. Missed(r)' \subseteq Missed(r)
  <2> SUFFICES ASSUME NEW t \in Missed(r)', NEW u \in Tasks \ {t}
               PROVE  createdAt[u] # createdAt[t]
    BY <1>5 DEF Missed, Unique
  <2>1. t \in Tasks /\ createdAt[t] # Unborn
    BY <1>1, <1>5 DEF Missed, Listed
  <2>2. createdAt'[t] = createdAt[t] /\ createdAt'[u] # createdAt'[t]
    BY <2>1 DEF Missed, Unique
  <2> QED  BY <2>1, <2>2
<1>8. Cardinality(Missed(r)') <= Cardinality(Missed(r)) /\ Cardinality(Missed(r)') \in Nat
  BY <1>7, SetsAreFinite, FS_Subset, FS_CardinalityType
<1>9. lost'[r] >= lost[r] /\ lost'[r] \in Nat /\ lost[r] \in Nat
  BY <1>3, <1>4, RequestNumbers DEF PagingTypeOK
<1>10. ShortPageIsLast(r)'
  BY <1>8, <1>9, SetsAreFinite DEF ReaderInv, ShortPageIsLast
\* While no row leaves, places only move back.
<1>11. ASSUME NEW t \in Missed(r)'
       PROVE  Newer(r, t) \ (L \ M) \subseteq Newer(r, t)'
  <2> SUFFICES ASSUME NEW u \in Newer(r, t) \ (L \ M)
               PROVE  u \in Newer(r, t)'
    OBVIOUS
  <2>1. u \in L /\ u \in M /\ u # t /\ createdAt[u] >= createdAt[t]
    BY DEF Newer, Ahead
  <2>2. t \in L /\ t \in M
    BY <1>5, <1>11 DEF Missed
  <2>3. createdAt'[u] = createdAt[u] /\ createdAt'[t] = createdAt[t]
    BY <1>1, <2>1, <2>2 DEF Listed
  <2> QED  BY <2>1, <2>3 DEF Newer, Ahead
<1>12. ASSUME NEW t \in Missed(r)'
       PROVE  /\ Cardinality(Newer(r, t)') \in Nat
              /\ L \ M = {} => Cardinality(Newer(r, t)) <= Cardinality(Newer(r, t)')
              /\ L \ M = {x} => Cardinality(Newer(r, t)) <= Cardinality(Newer(r, t)') + 1
  <2>1. IsFiniteSet(Newer(r, t)') /\ Cardinality(Newer(r, t)') \in Nat
    <3>1. Newer(r, t)' \in SUBSET M
      BY DEF Newer, Ahead
    <3> QED  BY <1>4, <3>1, FS_Subset, FS_CardinalityType
  <2>2. IsFiniteSet(Newer(r, t)) /\ Cardinality(Newer(r, t)) \in Nat
    BY SetsAreFinite
  <2>3. ASSUME L \ M = {}
        PROVE  Cardinality(Newer(r, t)) <= Cardinality(Newer(r, t)')
    <3>1. Newer(r, t) \in SUBSET Newer(r, t)'
      BY <1>11, <1>12, <2>3
    <3> QED  BY <2>1, <3>1, FS_Subset
  <2>4. ASSUME L \ M = {x}
        PROVE  Cardinality(Newer(r, t)) <= Cardinality(Newer(r, t)') + 1
    <3>1. (Newer(r, t) \ {x}) \in SUBSET Newer(r, t)'
      BY <1>11, <1>12, <2>4
    <3>2. Cardinality(Newer(r, t) \ {x}) <= Cardinality(Newer(r, t)')
      BY <2>1, <3>1, FS_Subset
    <3>3. Cardinality(Newer(r, t) \ {x}) >= Cardinality(Newer(r, t)) - 1
      <4>1. Cardinality(Newer(r, t) \ {x}) =
              IF x \in Newer(r, t) THEN Cardinality(Newer(r, t)) - 1
              ELSE Cardinality(Newer(r, t))
        BY <2>2, FS_RemoveElement
      <4> QED  BY <2>2, <4>1
    <3>4. Cardinality(Newer(r, t) \ {x}) \in Nat
      BY <2>2, FS_RemoveElement, FS_CardinalityType
    <3> QED  BY <2>1, <2>2, <3>2, <3>3, <3>4
  <2> QED  BY <2>1, <2>3, <2>4
<1>13. ASSUME NEW t \in Hidden(r)'
       PROVE  t \in Missed(r)' /\ t \in Missed(r) /\ Cardinality(Newer(r, t)') < Passed(r)
  BY <1>2, <1>7, <1>13 DEF Hidden
<1>14. Passed(r) \in Nat
  BY RequestNumbers
<1>15. ASSUME state[r] # "over"
       PROVE  Cardinality(Hidden(r)') <= lost'[r]
  <2>1. Cardinality(Hidden(r)) <= lost[r] /\ Cardinality(Hidden(r)) \in Nat
        /\ IsFiniteSet(Hidden(r))
    BY <1>15, SetsAreFinite DEF ReaderInv, HiddenAtMostLost
  <2>2. ASSUME Hidden(r)' \subseteq Hidden(r)
        PROVE  Cardinality(Hidden(r)') <= lost'[r]
    <3>1. Cardinality(Hidden(r)') <= Cardinality(Hidden(r)) /\ Cardinality(Hidden(r)') \in Nat
      BY <2>1, <2>2, FS_Subset, FS_CardinalityType
    <3> QED  BY <1>9, <2>1, <3>1
  <2>3. CASE L \ M = {}
    <3>1. ASSUME NEW t \in Hidden(r)'
          PROVE  t \in Hidden(r)
      <4>1. Cardinality(Newer(r, t)) < Passed(r)
        BY <1>12, <1>13, <1>14, <2>3, <3>1, SetsAreFinite
      <4> QED  BY <1>13, <3>1, <4>1 DEF Hidden
    <3> QED  BY <2>2, <3>1
  \* Of the rows just behind the boundary, which have the same place, there is one.
  <2>4. CASE L \ M # {} /\ counting
    <3>1. L \ M = {x}
      BY <1>1, <2>4
    <3>2. lost'[r] = lost[r] + 1
      BY <1>3, <2>4, <3>1, FS_Singleton
    <3>3. ASSUME NEW t \in Hidden(r)', t \notin Hidden(r)
          PROVE  Cardinality(Newer(r, t)) = Passed(r)
      <4>1. Cardinality(Newer(r, t)) <= Passed(r)
        BY <1>12, <1>13, <1>14, <3>1, <3>3, SetsAreFinite
      <4>2. ~(Cardinality(Newer(r, t)) < Passed(r))
        BY <1>13, <3>3 DEF Hidden
      <4> QED  BY <1>14, <4>1, <4>2, SetsAreFinite
    <3>4. ASSUME NEW e \in Hidden(r)', e \notin Hidden(r)
          PROVE  Cardinality(Hidden(r)') <= lost'[r]
      <4>1. ASSUME NEW t \in Hidden(r)', t # e
            PROVE  t \in Hidden(r)
        <5>1. t \in L /\ e \in L /\ Unique(t) /\ Unique(e)
          BY <1>5, <1>13, <3>4, <4>1 DEF Missed
        <5>2. Cardinality(Newer(r, t)) # Passed(r)
          BY <3>3, <3>4, <4>1, <5>1, PlacesDiffer
        <5> QED  BY <3>3, <4>1, <5>2
      <4>2. Hidden(r)' \in SUBSET (Hidden(r) \cup {e})
        BY <4>1
      <4>3. /\ IsFiniteSet(Hidden(r) \cup {e})
            /\ Cardinality(Hidden(r) \cup {e}) = Cardinality(Hidden(r)) + 1
        BY <2>1, <3>4, FS_AddElement
      <4>4. /\ Cardinality(Hidden(r)') <= Cardinality(Hidden(r) \cup {e})
            /\ Cardinality(Hidden(r)') \in Nat
        BY <4>2, <4>3, FS_Subset, FS_CardinalityType
      <4> QED  BY <1>9, <2>1, <3>2, <4>3, <4>4
    <3> QED  BY <2>2, <3>4
  <2>5. CASE ~counting
    <3>1. owed[r] = {}
      <4>1. state[r] \in {"between", "asked", "over"} /\ page[r] \in Nat \ {0}
        BY DEF PagingTypeOK
      <4>2. state[r] = "between" /\ page[r] = 1
        BY <1>15, <2>5, <4>1
      <4> QED  BY <4>2 DEF ReaderInv, RequestOK
    <3>2. Hidden(r)' \subseteq Hidden(r)
      BY <1>5, <3>1 DEF Hidden, Missed
    <3> QED  BY <2>2, <3>2
  <2> QED  BY <2>3, <2>4, <2>5
<1>16. HiddenAtMostLost(r)'
  BY <1>15 DEF HiddenAtMostLost
\* The list's length changes by no more than moved.
<1>17. AnswerFits(r)'
  <2> SUFFICES ASSUME state[r] = "asked"
               PROVE  AnswerFits(r)'
    BY DEF AnswerFits, ReaderInv, RequestOK
  <2> DEFINE d == Cardinality(L \ M) + Cardinality(M \ L)
  <2>1. moved'[r] = moved[r] + d /\ d \in Nat /\ moved[r] \in Nat
    BY <1>3, <1>4, RequestNumbers
  <2>2. Cardinality(L) - d <= Cardinality(M) /\ Cardinality(M) <= Cardinality(L) + d
    <3>1. Cardinality(L \ M) = Cardinality(L) - Cardinality(L \cap M)
      BY <1>4, FS_Difference
    <3>2. Cardinality(M \ L) = Cardinality(M) - Cardinality(M \cap L)
      BY <1>4, FS_Difference
    <3>3. L \cap M = M \cap L /\ Cardinality(L \cap M) \in Nat
      BY <1>4, FS_Intersection, FS_CardinalityType
    <3>4. Cardinality(M \ L) = Cardinality(M) - Cardinality(L \cap M)
      BY <3>2, <3>3
    <3> QED  BY ONLY <1>4, <3>1, <3>3, <3>4
  <2> HIDE DEF d
  <2>3. ASSUME NEW n \in Int, NEW m \in Int, RowsFit(r, n), n - d <= m, m <= n + d
        PROVE  /\ Cardinality(rows[r]) >= Share(r, m - (moved[r] + d))
               /\ Cardinality(rows[r]) <= Share(r, m + (moved[r] + d))
    <3>1. Share(r, m - (moved[r] + d)) <= Share(r, n - moved[r])
      BY <2>1, <2>3, ShareGrows
    <3>2. Share(r, n + moved[r]) <= Share(r, m + (moved[r] + d))
      BY <2>1, <2>3, ShareGrows
    <3>3. \A k \in Int : Share(r, k) \in Int
      BY RequestNumbers DEF Share, AtMost
    <3>4. Cardinality(rows[r]) \in Nat
      <4>1. rows[r] \in SUBSET Tasks
        BY PagingAssumption DEF PagingTypeOK
      <4> QED  BY <4>1, PagingAssumption, FS_Subset, FS_CardinalityType
    <3> QED  BY <2>1, <2>3, <3>1, <3>2, <3>3, <3>4 DEF RowsFit
  <2>4. found[r] /\ total[r] = Pending => RowsFit(r, Cardinality(Listed(r)))'
    <3>1. found[r] /\ total[r] = Pending => RowsFit(r, Cardinality(L))
      BY DEF ReaderInv, AnswerFits
    <3> QED  BY <1>2, <1>4, <2>1, <2>2, <2>3, <3>1 DEF RowsFit, Share
  <2>5. ~found[r] /\ total[r] # Pending => TotalFits(r, Cardinality(Listed(r)))'
    BY <1>4, <2>1, <2>2, RequestNumbers DEF ReaderInv, AnswerFits, TotalFits
  <2>6. found[r] /\ total[r] # Pending => RowsFit(r, total[r])'
    <3>1. found[r] /\ total[r] # Pending => RowsFit(r, total[r])
      BY DEF ReaderInv, AnswerFits
    <3>2. total[r] - d <= total[r] /\ total[r] <= total[r] + d /\ total[r] \in Int
      BY <2>1, RequestNumbers
    <3> QED  BY <1>2, <2>1, <2>3, <3>1, <3>2 DEF RowsFit, Share
  <2> QED  BY <2>4, <2>5, <2>6 DEF AnswerFits
<1> QED  BY <1>6, <1>10, <1>16, <1>17 DEF ReaderInv

\* Every step keeps the invariant.
LEMMA StepPInv == PInv /\ [Next]_vars => PInv'
<1> SUFFICES ASSUME PInv, [Next]_vars
             PROVE  \A r \in Readers : ReaderInv(r)'
  BY StepType DEF PInv
<1> TAKE r \in Readers
<1>1. PagingTypeOK /\ PagingTypeOK' /\ ReaderInv(r)
  BY StepType DEF PInv
<1>2. ASSUME NEW q \in Readers, Ask(q) \/ FindRows(q) \/ Count(q) \/ Answer(q)
      PROVE  ReaderInv(r)'
  <2>1. CASE q = r
    BY <1>1, <1>2, <2>1, AskStep, FindStep, CountStep, AnswerStep
  <2>2. CASE q # r
    <3> USE <1>1, <2>2, OtherReader DEF PagingTypeOK, table, history
    <3>1. CASE Ask(q)
      BY <3>1 DEF Ask
    <3>2. CASE FindRows(q)
      BY <3>2 DEF FindRows
    <3>3. CASE Count(q)
      BY <3>3 DEF Count
    <3>4. CASE Answer(q)
      BY <3>4 DEF Answer
    <3> QED  BY <1>2, <3>1, <3>2, <3>3, <3>4
  <2> QED  BY <2>1, <2>2
<1>3. ASSUME NEW t \in Tasks, NEW s \in Stamps, InsertRow(t, s)
      PROVE  ReaderInv(r)'
  <2>1. \A u \in Tasks \ {t} : createdAt'[u] = createdAt[u]
    BY <1>1, <1>3 DEF InsertRow, PagingTypeOK
  <2>2. \A u \in Tasks : createdAt[u] # Unborn => createdAt'[u] = createdAt[u]
    BY <1>3, <2>1 DEF InsertRow
  <2>3. \A u \in Tasks \ {t} : u \in Listed(r) <=> u \in Listed(r)'
    BY <1>3, <2>1 DEF InsertRow, Listed
  <2> QED  BY <1>1, <1>3, <2>2, <2>3, TableStep DEF InsertRow
<1>4. ASSUME NEW t \in Tasks, NEW u \in Readers \cup {NoUser}, SetAssignee(t, u)
      PROVE  ReaderInv(r)'
  <2>1. \A v \in Tasks \ {t} : v \in Listed(r) <=> v \in Listed(r)'
    BY <1>1, <1>4 DEF SetAssignee, Listed, PagingTypeOK
  <2> QED  BY <1>1, <1>4, <2>1, TableStep DEF SetAssignee
<1>5. CASE UNCHANGED vars
  BY <1>1, <1>5, OtherReader DEF vars, table, reading, history
<1> QED  BY <1>2, <1>3, <1>4, <1>5 DEF Next

\* The requests, the lists and what was missed stay in step.
THEOREM PagingInvariance == Spec => []PInv
BY InitPInv, StepPInv, PTL DEF Spec

\* The table and the readers have the declared values.
THEOREM PagingTypeCorrect == Spec => []PagingTypeOK
<1>1. PInv => PagingTypeOK
  BY DEF PInv
<1> QED  BY PagingInvariance, <1>1, PTL

\* A reader that reads to the end misses no more rows than left its list.
THEOREM ReadingMissesLittle == Spec => []MissesAtMostLost
<1>1. PInv => MissesAtMostLost
  BY DEF PInv, ReaderInv, ShortPageIsLast, Missed, MissesAtMostLost
<1> QED  BY PagingInvariance, <1>1, PTL

\* Rows and total of an answer fit, up to what moved between the two queries.
THEOREM TotalsFit == Spec => []RowsFitTotal
<1>1. PInv => RowsFitTotal
  BY DEF PInv, ReaderInv, AnswerFits, RowsFit, RowsFitTotal
<1> QED  BY PagingInvariance, <1>1, PTL
=============================================================================
