-------------------------- MODULE PaginationProofs --------------------------
(***************************************************************************)
(* A list that is read to its end is exact: by cursor whatever others      *)
(* write, by page number if they write nothing and no two rows are of the  *)
(* same time; for any number of rows and any size of page.                 *)
(***************************************************************************)
EXTENDS Pagination, FunctionTheorems, FiniteSetTheorems, SequenceTheorems, TLAPS

-----------------------------------------------------------------------------
(* Lists and pages *)

\* A list without repetitions that is as long as a set has all of its members.
LEMMA ListsAreComplete ==
  ASSUME NEW rs, IsFiniteSet(rs), NEW s \in [1..Cardinality(rs) -> rs],
         \A i, j \in 1..Cardinality(rs) : i < j => s[i] # s[j]
  PROVE  /\ s \in Seq(rs) /\ Len(s) = Cardinality(rs) /\ Cardinality(rs) \in Nat
         /\ \A x \in rs : \E i \in 1..Len(s) : s[i] = x
<1> DEFINE n == Cardinality(rs)
<1>1. n \in Nat
  BY FS_CardinalityType
<1>2. s \in Seq(rs) /\ Len(s) = n
  BY <1>1
<1>3. s \in Injection(1..n, rs)
  <2>1. \A i, j \in 1..n : s[i] = s[j] => i = j
    BY <1>1
  <2> QED
    BY <2>1, Fun_IsInj
<1>4. Cardinality(1..n) = n
  BY <1>1, FS_Interval
<1>5. s \in Surjection(1..n, rs)
  BY <1>3, <1>4, FS_Injection
<1> QED
  BY <1>1, <1>2, <1>5 DEF Surjection

\* What a page shows of a list, and of the rest of a list.
LEMMA PageCut ==
  ASSUME NEW S, NEW s \in Seq(S)
  PROVE  /\ AtMostPage(s) \in Seq(S)
         /\ Len(AtMostPage(s)) = IF Len(s) < PageSize THEN Len(s) ELSE PageSize
         /\ \A j \in 1..Len(AtMostPage(s)) : AtMostPage(s)[j] = s[j]
<1> DEFINE m == IF Len(s) < PageSize THEN Len(s) ELSE PageSize
<1>1. Len(s) \in Nat /\ m \in Nat /\ m <= Len(s)
  BY PageAssumption
<1>2. \A i \in 1..m : s[i] \in S
  BY <1>1, ElementOfSeq
<1>3. /\ SubSeq(s, 1, m) \in Seq(S) /\ Len(SubSeq(s, 1, m)) = m
      /\ \A i \in 1..m : SubSeq(s, 1, m)[i] = s[i]
  BY <1>1, <1>2, SubSeqProperties
<1>4. AtMostPage(s) = SubSeq(s, 1, m)
  BY DEF AtMostPage
<1> QED
  BY <1>3, <1>4

LEMMA RestCut ==
  ASSUME NEW S, NEW s \in Seq(S), NEW k \in Nat, k <= Len(s)
  PROVE  /\ SubSeq(s, k + 1, Len(s)) \in Seq(S) /\ Len(SubSeq(s, k + 1, Len(s))) = Len(s) - k
         /\ \A i \in 1..(Len(s) - k) : SubSeq(s, k + 1, Len(s))[i] = s[k + i]
<1>1. Len(s) \in Nat
  OBVIOUS
<1>2. \A i \in (k + 1)..Len(s) : s[i] \in S
  BY <1>1, ElementOfSeq
<1> QED
  BY <1>1, <1>2, SubSeqProperties

\* Whether the client has been given r.
IsGiven(r) == \E i \in 1..Len(pages) : \E j \in 1..Len(pages[i]) : pages[i][j] = r

\* Nothing is given twice.
NoRepetition ==
  \A i, k \in 1..Len(pages) : \A j \in 1..Len(pages[i]) : \A l \in 1..Len(pages[k]) :
    pages[i][j] = pages[k][l] => i = k /\ j = l

PagesTyped ==
  /\ pages \in Seq(Seq(Rows))
  /\ \A i \in 1..Len(pages) : Len(pages[i]) <= PageSize

\* Counting is looking for two places.
LEMMA GivenCounts ==
  ASSUME PagesTyped, NoRepetition, NEW r
  PROVE  Given(r) <= 1 /\ (Given(r) = 1 <=> IsGiven(r))
<1>0. Len(pages) \in Nat /\ PageSize \in Nat
  BY PageAssumption DEF PagesTyped
<1>1. IsFiniteSet((1..Len(pages)) \X (1..PageSize))
  <2>1. IsFiniteSet(1..Len(pages)) /\ IsFiniteSet(1..PageSize)
    BY <1>0, FS_Interval
  <2> QED
    BY <2>1, FS_Product
<1>2. IsFiniteSet(Spots(r))
  BY <1>1, FS_Subset DEF Spots
<1>3. ASSUME NEW p \in Spots(r)
      PROVE  /\ p = <<p[1], p[2]>> /\ p[1] \in 1..Len(pages) /\ p[2] \in 1..Len(pages[p[1]])
             /\ pages[p[1]][p[2]] = r
  <2>1. \A i \in 1..Len(pages) : Len(pages[i]) \in Nat
    BY <1>0, ElementOfSeq DEF PagesTyped
  <2> QED
    BY <1>0, <1>3, <2>1 DEF Spots
<1>4. ASSUME NEW i \in 1..Len(pages), NEW j \in 1..Len(pages[i]), pages[i][j] = r
      PROVE  <<i, j>> \in Spots(r)
  <2>1. Len(pages[i]) \in Nat /\ Len(pages[i]) <= PageSize
    BY ElementOfSeq DEF PagesTyped
  <2> QED
    BY <1>0, <1>4, <2>1 DEF Spots
<1>5. CASE Spots(r) = {}
  BY <1>4, <1>5, FS_EmptySet DEF Given, IsGiven
<1>6. ASSUME NEW p \in Spots(r) PROVE Spots(r) = {p}
  BY <1>3, <1>6 DEF NoRepetition
<1>7. CASE Spots(r) # {}
  <2>1. PICK p : p \in Spots(r)
    BY <1>7
  <2>2. Given(r) = 1
    BY <1>6, <2>1, FS_Singleton DEF Given
  <2> QED
    BY <1>3, <2>1, <2>2 DEF IsGiven
<1> QED
  BY <1>5, <1>7

-----------------------------------------------------------------------------
(* Reading by cursor *)

RowsTyped ==
  /\ createdAt \in [Rows -> Nat] /\ inScope \subseteq Rows
  /\ how \in {"offset", "cursor"} /\ writes \in Nat

\* The client has been given the rows up to his cursor, and all the rows that were
\* there all the time are among them or come after it.
CursorPlace ==
  \/ position = <<>> /\ \A r \in steady : IsGiven(r)
  \/ position = <<0>> /\ pages = <<>>
  \/ \E c \in Rows :
       /\ position = <<c>> /\ createdAt[c] > 0
       /\ \A r \in Rows : IsGiven(r) => r = c \/ Before(r, c)
       /\ \A r \in steady : IsGiven(r) \/ Before(c, r)

CursorInv ==
  /\ PagesTyped /\ NoRepetition /\ CursorPlace /\ ~counting
  /\ \A r \in Rows : IsGiven(r) => r \in inScope /\ createdAt[r] > 0
  /\ steady \subseteq Listed

\* What one more page adds.
LEMMA PageAdded ==
  ASSUME PagesTyped, NEW page \in Seq(Rows), Len(page) <= PageSize,
         pages' = Append(pages, page)
  PROVE  /\ PagesTyped' /\ Len(pages') = Len(pages) + 1 /\ Len(pages) \in Nat
         /\ \A i \in 1..Len(pages) : pages'[i] = pages[i]
         /\ pages'[Len(pages) + 1] = page
         /\ \A r : IsGiven(r)' <=> IsGiven(r) \/ \E j \in 1..Len(page) : page[j] = r
<1>1. /\ pages' \in Seq(Seq(Rows)) /\ Len(pages') = Len(pages) + 1 /\ Len(pages) \in Nat
      /\ \A i \in 1..Len(pages) : pages'[i] = pages[i]
      /\ pages'[Len(pages) + 1] = page
  BY AppendProperties, LenProperties DEF PagesTyped
<1>2. PagesTyped'
  BY <1>1 DEF PagesTyped
<1>3. ASSUME NEW r
      PROVE  IsGiven(r)' <=> IsGiven(r) \/ \E j \in 1..Len(page) : page[j] = r
  <2>1. 1..Len(pages') = 1..Len(pages) \cup {Len(pages) + 1}
    BY <1>1
  <2> QED
    BY <1>1, <2>1 DEF IsGiven
<1> QED
  BY <1>1, <1>2, <1>3

LEMMA NothingTwice ==
  ASSUME PagesTyped, NoRepetition, NEW page \in Seq(Rows), Len(page) <= PageSize,
         pages' = Append(pages, page),
         \A j, l \in 1..Len(page) : page[j] = page[l] => j = l,
         \A j \in 1..Len(page) : ~IsGiven(page[j])
  PROVE  NoRepetition'
<1> DEFINE n == Len(pages)
<1>1. /\ Len(pages') = n + 1 /\ n \in Nat
      /\ \A i \in 1..n : pages'[i] = pages[i]
      /\ pages'[n + 1] = page
  BY PageAdded
<1>2. \A i \in 1..n : \A j \in 1..Len(pages[i]) : \A l \in 1..Len(page) :
        pages[i][j] # page[l]
  BY DEF IsGiven
<1> SUFFICES ASSUME NEW i \in 1..(n + 1), NEW k \in 1..(n + 1),
                    NEW j \in 1..Len(pages'[i]), NEW l \in 1..Len(pages'[k]),
                    pages'[i][j] = pages'[k][l]
             PROVE  i = k /\ j = l
  BY <1>1 DEF NoRepetition
<1>3. CASE i \in 1..n /\ k \in 1..n
  BY <1>1, <1>3 DEF NoRepetition
<1>4. CASE i = n + 1 /\ k = n + 1
  BY <1>1, <1>4
<1>5. ~(i \in 1..n /\ k = n + 1) /\ ~(i = n + 1 /\ k \in 1..n)
  BY <1>1, <1>2
<1> QED
  BY <1>1, <1>3, <1>4, <1>5

\* (createdAt, id) orders rows strictly.
LEMMA BeforeOrders ==
  ASSUME createdAt \in [Rows -> Nat]
  PROVE  /\ \A r \in Rows : ~Before(r, r)
         /\ \A r, q, x \in Rows : Before(r, q) /\ Before(q, x) => Before(r, x)
         /\ \A r, q \in Rows : Before(r, q) => ~Before(q, r)
  BY RowsAssumption DEF Before

\* The page of a cursor is new, and complete up to the next cursor.
LEMMA CursorPage ==
  ASSUME RowsTyped, CursorInv, FindPageByCursor
  PROVE  CursorInv'
<1> DEFINE after == {r \in Listed : position[1] = 0 \/ Before(position[1], r)}
<1>1. PICK s \in InOrder(after) :
        /\ pages' = Append(pages, AtMostPage(s))
        /\ position' = IF Len(s) > PageSize THEN <<s[PageSize]>> ELSE <<>>
  BY DEF FindPageByCursor
<1>0. /\ position # <<>>
      /\ UNCHANGED <<createdAt, deleted, inScope, how, counting, steady, writes>>
  BY DEF FindPageByCursor
<1> DEFINE page == AtMostPage(s)
<1>2. after \subseteq Rows /\ IsFiniteSet(after) /\ \A r \in after : createdAt[r] > 0 /\ r \in inScope
  <2>1. after \subseteq Rows /\ \A r \in after : createdAt[r] > 0 /\ r \in inScope
    BY DEF Listed, There
  <2> QED
    BY <2>1, RowsAssumption, FS_Subset
<1> HIDE DEF after
<1>3. /\ s \in [1..Cardinality(after) -> after]
      /\ \A i, j \in 1..Cardinality(after) : i < j => Before(s[i], s[j])
  BY <1>1 DEF InOrder
<1>4. /\ s \in Seq(after) /\ Len(s) = Cardinality(after) /\ Len(s) \in Nat
      /\ \A x \in after : \E i \in 1..Len(s) : s[i] = x
  <2>1. \A i, j \in 1..Cardinality(after) : i < j => s[i] # s[j]
    BY <1>2, <1>3, BeforeOrders DEF RowsTyped
  <2>2. IsFiniteSet(after) /\ s \in [1..Cardinality(after) -> after]
    BY <1>2, <1>3
  <2> QED
    BY <2>1, <2>2, ListsAreComplete, ZenonT(20)
<1>5. PageSize \in Nat /\ PageSize > 0
  BY PageAssumption
<1>6. /\ page \in Seq(after) /\ Len(page) \in Nat
      /\ Len(page) = IF Len(s) < PageSize THEN Len(s) ELSE PageSize
      /\ \A j \in 1..Len(page) : page[j] = s[j] /\ page[j] \in after
  <2>1. /\ page \in Seq(after)
        /\ Len(page) = IF Len(s) < PageSize THEN Len(s) ELSE PageSize
        /\ \A j \in 1..Len(page) : page[j] = s[j]
    BY <1>4, PageCut
  <2> QED
    BY <1>4, <1>5, <2>1, ElementOfSeq
<1> HIDE DEF page
<1>7. page \in Seq(Rows) /\ Len(page) <= PageSize
  BY <1>2, <1>4, <1>5, <1>6, SeqMonotonic
<1>8. \A r \in after : ~IsGiven(r)
  <2> SUFFICES ASSUME NEW r \in after, IsGiven(r) PROVE FALSE
    OBVIOUS
  <2>1. CASE position = <<0>> /\ pages = <<>>
    BY <2>1 DEF IsGiven
  <2>2. ASSUME NEW c \in Rows, position = <<c>>, \A q \in Rows : IsGiven(q) => q = c \/ Before(q, c)
        PROVE  FALSE
    <3>1. Before(c, r)
      BY <2>2, RowsAssumption DEF after
    <3>2. r = c \/ Before(r, c)
      BY <1>2, <2>2
    <3> QED
      BY <1>2, <2>2, <3>1, <3>2, BeforeOrders DEF RowsTyped
  <2> QED
    BY <1>0, <2>1, <2>2 DEF CursorInv, CursorPlace
<1>9. \A i, j \in 1..Len(s) : i < j => Before(s[i], s[j]) /\ s[i] # s[j]
  BY <1>2, <1>3, <1>4, BeforeOrders DEF RowsTyped
<1>10. PagesTyped' /\ \A r : IsGiven(r)' <=> IsGiven(r) \/ \E j \in 1..Len(page) : page[j] = r
  BY <1>1, <1>7, PageAdded DEF CursorInv, page
<1>11. NoRepetition'
  <2>1. \A j, l \in 1..Len(page) : page[j] = page[l] => j = l
    BY <1>4, <1>5, <1>6, <1>9
  <2>2. \A j \in 1..Len(page) : ~IsGiven(page[j])
    BY <1>6, <1>8
  <2> QED
    BY <1>1, <1>7, <2>1, <2>2, NothingTwice DEF CursorInv, page
<1>12. \A r \in steady : IsGiven(r) \/ r \in after
  <2> SUFFICES ASSUME NEW r \in steady, ~IsGiven(r) PROVE r \in after
    OBVIOUS
  <2>1. r \in Listed
    BY DEF CursorInv
  <2>2. position[1] = 0 \/ Before(position[1], r)
    BY <1>0 DEF CursorInv, CursorPlace
  <2> QED
    BY <2>1, <2>2 DEF after
<1>13. CursorPlace'
  <2>1. CASE Len(s) <= PageSize
    <3>1. position' = <<>> /\ Len(page) = Len(s)
      BY <1>1, <1>4, <1>5, <1>6, <2>1
    <3>2. \A r \in steady : IsGiven(r)'
      BY <1>4, <1>6, <1>10, <1>12, <3>1
    <3> QED
      BY <1>0, <3>1, <3>2 DEF CursorPlace
  <2>2. CASE Len(s) > PageSize
    <3> DEFINE c == s[PageSize]
    <3>1. position' = <<c>> /\ Len(page) = PageSize /\ PageSize \in 1..Len(s) /\ c \in after
      BY <1>1, <1>4, <1>5, <1>6, <2>2
    <3>2. c \in Rows /\ createdAt'[c] > 0
      BY <1>0, <1>2, <3>1
    <3>3. ASSUME NEW r \in Rows, IsGiven(r)' PROVE r = c \/ Before(r, c)
      <4>1. CASE IsGiven(r)
        <5>1. PICK d \in Rows : position = <<d>> /\ (r = d \/ Before(r, d))
          BY <1>0, <4>1 DEF CursorInv, CursorPlace, IsGiven
        <5>2. Before(d, c)
          BY <3>1, <5>1, RowsAssumption DEF after
        <5> QED
          BY <3>2, <5>1, <5>2, BeforeOrders DEF RowsTyped
      <4>2. ASSUME NEW j \in 1..Len(page), page[j] = r PROVE r = c \/ Before(r, c)
        BY <1>4, <1>6, <1>9, <3>1, <4>2
      <4> QED
        BY <1>10, <3>3, <4>1, <4>2
    <3>4. ASSUME NEW r \in steady PROVE IsGiven(r)' \/ Before(c, r)
      <4>1. CASE IsGiven(r)
        BY <1>10, <4>1
      <4>2. CASE r \in after
        <5>1. PICK i \in 1..Len(s) : s[i] = r
          BY <1>4, <4>2
        <5>2. CASE i <= PageSize
          BY <1>6, <1>10, <3>1, <5>1, <5>2
        <5>3. CASE i > PageSize
          BY <1>9, <3>1, <5>1, <5>3
        <5> QED
          BY <1>5, <5>2, <5>3
      <4> QED
        BY <1>12, <4>1, <4>2
    <3>5. \A r, q : Before(r, q)' <=> Before(r, q)
      BY <1>0 DEF Before
    <3> HIDE DEF c
    <3> QED
      BY <1>0, <3>1, <3>2, <3>3, <3>4, <3>5 DEF CursorPlace
  <2> QED
    BY <1>4, <1>5, <2>1, <2>2
<1>14. \A r \in Rows : IsGiven(r)' => r \in inScope' /\ createdAt'[r] > 0
  BY <1>0, <1>2, <1>6, <1>10 DEF CursorInv
<1>15. (steady \subseteq Listed)'
  BY <1>0 DEF CursorInv, Listed, There
<1> QED
  BY <1>0, <1>10, <1>11, <1>13, <1>14, <1>15 DEF CursorInv

\* Others insert before the cursor, and delete what is not there all the time.
LEMMA CursorWrites ==
  ASSUME RowsTyped, CursorInv,
         \/ \E r \in Rows : InsertRow(r)
         \/ \E rs \in SUBSET Rows : SoftDelete(rs)
  PROVE  CursorInv'
<1>1. UNCHANGED <<pages, position, inScope, counting>>
  BY DEF InsertRow, SoftDelete
<1>2. PagesTyped' /\ NoRepetition' /\ \A r : IsGiven(r)' <=> IsGiven(r)
  BY <1>1 DEF CursorInv, PagesTyped, NoRepetition, IsGiven
<1>3. ASSUME NEW rs \in SUBSET Rows, SoftDelete(rs) PROVE CursorInv'
  <2>1. createdAt' = createdAt /\ deleted' = deleted \cup rs /\ steady' = steady \ rs
    BY <1>3 DEF SoftDelete
  <2>2. (steady \subseteq Listed)'
    BY <1>1, <2>1 DEF CursorInv, Listed, There
  <2>3. \A r, q : Before(r, q)' <=> Before(r, q)
    BY <2>1 DEF Before
  <2>4. CursorPlace'
    BY <1>1, <1>2, <2>1, <2>3 DEF CursorInv, CursorPlace
  <2>5. \A r \in Rows : IsGiven(r)' => r \in inScope' /\ createdAt'[r] > 0
    BY <1>1, <1>2, <2>1 DEF CursorInv
  <2> QED
    BY <1>1, <1>2, <2>2, <2>4, <2>5 DEF CursorInv
<1>4. ASSUME NEW x \in Rows, InsertRow(x) PROVE CursorInv'
  <2>1. /\ createdAt[x] = 0 /\ UNCHANGED <<deleted, steady>>
        /\ \A r \in Rows \ {x} : createdAt'[r] = createdAt[r]
        /\ createdAt'[x] > 0
    <3>1. PICK t \in Times : createdAt' = [createdAt EXCEPT ![x] = t]
      BY <1>4 DEF InsertRow
    <3>2. t > 0
      BY RowsAssumption
    <3> QED
      BY <1>4, <3>1, <3>2 DEF InsertRow, RowsTyped
  <2>2. (steady \subseteq Listed)'
    BY <1>1, <2>1 DEF CursorInv, Listed, There, RowsTyped
  <2>3. x \notin steady
    BY <2>1 DEF CursorInv, Listed, There
  <2>4. ~IsGiven(x)
    BY <2>1 DEF CursorInv
  <2>5. \A r, q \in Rows \ {x} : Before(r, q)' <=> Before(r, q)
    BY <2>1 DEF Before
  <2>6. steady \subseteq Rows
    BY DEF CursorInv, Listed, There
  <2>7. CursorPlace'
    <3>0. CASE position = <<>> /\ \A r \in steady : IsGiven(r)
      BY <1>1, <1>2, <2>1, <3>0 DEF CursorPlace
    <3>1. CASE position = <<0>> /\ pages = <<>>
      BY <1>1, <3>1 DEF CursorPlace
    <3>2. ASSUME NEW c \in Rows, position = <<c>>, createdAt[c] > 0,
                 \A r \in Rows : IsGiven(r) => r = c \/ Before(r, c),
                 \A r \in steady : IsGiven(r) \/ Before(c, r)
          PROVE  CursorPlace'
      <4>1. c # x
        BY <2>1, <3>2
      <4>2. \A r \in Rows : IsGiven(r)' => r = c \/ Before(r, c)'
        BY <1>2, <2>4, <2>5, <3>2, <4>1
      <4>3. \A r \in steady : IsGiven(r)' \/ Before(c, r)'
        BY <1>2, <2>3, <2>5, <2>6, <3>2, <4>1
      <4> QED
        BY <1>1, <2>1, <3>2, <4>1, <4>2, <4>3 DEF CursorPlace
    <3> QED
      BY <3>0, <3>1, <3>2 DEF CursorInv, CursorPlace
  <2>8. \A r \in Rows : IsGiven(r)' => r \in inScope' /\ createdAt'[r] > 0
    BY <1>1, <1>2, <2>1, <2>4 DEF CursorInv
  <2> QED
    BY <1>1, <1>2, <2>2, <2>7, <2>8 DEF CursorInv
<1> QED
  BY <1>3, <1>4

-----------------------------------------------------------------------------
(* Reading by page number *)

\* Nothing is written and no two rows are of the same time.
Quiet == writes = 0 /\ ~Ties

PageOf(s, i) == AtMostPage(SubSeq(s, Offset(i) + 1, Len(s)))

\* All the pages come from one order of the rows; while the client reads on there
\* may be more of them, and at the end there are not.
OffsetInv ==
  /\ steady = Listed
  /\ pages \in Seq(Seq(Rows))
  /\ pages # <<>> =>
       \E s \in Orders(Listed) : \A i \in 1..Len(pages) :
         pages[i] = PageOf(s, i) /\ Offset(i) <= Cardinality(Listed)
  /\ \/ /\ position = <<>> /\ pages # <<>> /\ ~counting
        /\ Len(pages) * PageSize >= Cardinality(Listed)
     \/ \E k \in Nat \ {0} :
          /\ position = <<k>> /\ Offset(k) <= Cardinality(Listed)
          /\ Len(pages) = (IF counting THEN k ELSE k - 1)

\* Rows of different times have one order.
LEMMA OneOrder ==
  ASSUME RowsTyped, ~Ties, NEW s \in Orders(Listed), NEW t \in Orders(Listed)
  PROVE  s = t
<1> DEFINE n == Cardinality(Listed)
           newer(r) == {q \in Listed : createdAt[q] > createdAt[r]}
<1>1. /\ Listed \subseteq Rows /\ IsFiniteSet(Listed)
      /\ \A r, q \in Listed : createdAt[r] \in Nat /\ (createdAt[r] = createdAt[q] => r = q)
  <2>1. Listed \subseteq Rows /\ \A r \in Listed : createdAt[r] \in Nat /\ createdAt[r] > 0
    BY DEF Listed, There, RowsTyped
  <2> QED
    BY <2>1, RowsAssumption, FS_Subset DEF Ties
<1>2. ASSUME NEW z \in Orders(Listed)
      PROVE  /\ z \in [1..n -> Listed] /\ z \in Seq(Listed) /\ Len(z) = n /\ n \in Nat
             /\ \A x \in Listed : \E i \in 1..n : z[i] = x
             /\ \A i \in 1..n : Cardinality(newer(z[i])) = i - 1
  <2>1. z \in [1..n -> Listed] /\ \A i, j \in 1..n : i < j =>
          z[i] # z[j] /\ createdAt[z[i]] >= createdAt[z[j]]
    BY DEF Orders
  <2>2. /\ z \in Seq(Listed) /\ Len(z) = n /\ n \in Nat
        /\ \A x \in Listed : \E i \in 1..Len(z) : z[i] = x
    <3>1. IsFiniteSet(Listed) /\ z \in [1..Cardinality(Listed) -> Listed]
      BY <1>1, <2>1
    <3>2. \A i, j \in 1..Cardinality(Listed) : i < j => z[i] # z[j]
      BY <2>1
    <3> QED
      BY <3>1, <3>2, ListsAreComplete, ZenonT(20)
  <2>3. \A i, j \in 1..n : i < j => createdAt[z[i]] > createdAt[z[j]]
    <3> SUFFICES ASSUME NEW i \in 1..n, NEW j \in 1..n, i < j
                 PROVE  createdAt[z[i]] > createdAt[z[j]]
      OBVIOUS
    <3>1. z[i] \in Listed /\ z[j] \in Listed
      BY <2>1
    <3>2. z[i] # z[j] /\ createdAt[z[i]] >= createdAt[z[j]]
      BY <2>1
    <3> QED
      BY <1>1, <3>1, <3>2
  <2>4. ASSUME NEW i \in 1..n PROVE Cardinality(newer(z[i])) = i - 1
    <3> DEFINE f == [j \in 1..(i - 1) |-> z[j]]
    <3>1. z[i] \in Listed /\ 1..(i - 1) \subseteq 1..n
      BY <2>1, <2>2
    <3>2. f \in [1..(i - 1) -> newer(z[i])]
      BY <2>1, <2>3, <3>1
    <3>3. \A j, k \in 1..(i - 1) : f[j] = f[k] => j = k
      BY <2>1, <2>2, <3>1
    <3>4. \A x \in newer(z[i]) : \E j \in 1..(i - 1) : f[j] = x
      <4> SUFFICES ASSUME NEW x \in newer(z[i]) PROVE \E j \in 1..(i - 1) : z[j] = x
        OBVIOUS
      <4>1. PICK j \in 1..n : z[j] = x
        BY <2>2
      <4>2. createdAt[z[j]] > createdAt[z[i]] /\ z[j] \in Listed
        BY <4>1
      <4>3. ~(i < j) /\ i # j
        BY <1>1, <2>3, <3>1, <4>2
      <4>4. j \in 1..(i - 1)
        BY <2>2, <4>3
      <4> QED
        BY <4>1, <4>4
    <3> HIDE DEF f
    <3>5. f \in Injection(1..(i - 1), newer(z[i]))
      BY <3>2, <3>3, Fun_IsInj
    <3>6. f \in Surjection(1..(i - 1), newer(z[i]))
      BY <3>2, <3>4, Fun_IsSurj
    <3>7. ExistsBijection(1..(i - 1), newer(z[i]))
      BY <3>5, <3>6 DEF ExistsBijection, Bijection
    <3>8. IsFiniteSet(1..(i - 1)) /\ Cardinality(1..(i - 1)) = i - 1
      <4>1. i - 1 \in Nat
        BY <2>2
      <4> HIDE DEF newer, n
      <4> QED
        BY <4>1, FS_Interval
    <3> QED
      BY <3>7, <3>8, FS_Bijection
  <2> QED
    BY <2>1, <2>2, <2>4
<1>3. ASSUME NEW i \in 1..n PROVE s[i] = t[i]
  <2>1. s[i] \in Listed
    BY <1>2
  <2>2. PICK j \in 1..n : t[j] = s[i]
    BY <1>2, <2>1
  <2>3. Cardinality(newer(s[i])) = i - 1 /\ Cardinality(newer(s[i])) = j - 1
    BY <1>2, <2>2
  <2>4. i = j
    BY <1>2, <2>3
  <2> QED
    BY <2>2, <2>4
<1>4. s \in [1..n -> Listed] /\ t \in [1..n -> Listed]
  BY <1>2
<1>5. \A i \in 1..n : s[i] = t[i]
  BY <1>3
<1>6. s = [i \in 1..n |-> s[i]] /\ t = [i \in 1..n |-> t[i]]
  BY <1>4
<1>7. [i \in 1..n |-> s[i]] = [i \in 1..n |-> t[i]]
  BY <1>5
<1> QED
  BY <1>6, <1>7

\* What a page number shows of a list that goes on up to it.
LEMMA NumberedPage ==
  ASSUME NEW s \in Seq(Rows), NEW i \in Nat \ {0}, Offset(i) <= Len(s)
  PROVE  /\ PageOf(s, i) \in Seq(Rows)
         /\ Len(PageOf(s, i)) = IF Len(s) - Offset(i) < PageSize THEN Len(s) - Offset(i) ELSE PageSize
         /\ \A j \in 1..Len(PageOf(s, i)) : PageOf(s, i)[j] = s[Offset(i) + j]
<1> DEFINE k == Offset(i)
           rest == SubSeq(s, k + 1, Len(s))
<1>1. k \in Nat /\ Len(s) \in Nat /\ PageSize \in Nat
  <2>1. i - 1 \in Nat /\ PageSize \in Nat
    BY PageAssumption
  <2> QED
    BY <2>1 DEF Offset
<1> HIDE DEF k
<1>2. k <= Len(s)
  BY DEF k
<1>3. /\ rest \in Seq(Rows) /\ Len(rest) = Len(s) - k
      /\ \A j \in 1..(Len(s) - k) : rest[j] = s[k + j]
  BY <1>1, <1>2, RestCut
<1> HIDE DEF rest
<1>4. /\ AtMostPage(rest) \in Seq(Rows)
      /\ Len(AtMostPage(rest)) = IF Len(rest) < PageSize THEN Len(rest) ELSE PageSize
      /\ \A j \in 1..Len(AtMostPage(rest)) : AtMostPage(rest)[j] = rest[j]
  BY <1>3, PageCut
<1>5. PageOf(s, i) = AtMostPage(rest)
  BY DEF PageOf, rest, k
<1>6. Len(AtMostPage(rest)) <= Len(s) - k /\ Len(AtMostPage(rest)) \in Nat
  BY <1>1, <1>2, <1>3, <1>4
<1>7. \A j \in 1..Len(AtMostPage(rest)) : AtMostPage(rest)[j] = s[k + j]
  BY <1>1, <1>3, <1>4, <1>6
<1> QED
  BY <1>3, <1>4, <1>5, <1>7 DEF k

\* Pages do not overlap, and leave nothing out.
LEMMA Offsets ==
  /\ \A i \in Nat \ {0} : Offset(i) \in Nat /\ Offset(i + 1) = Offset(i) + PageSize
                          /\ Offset(i + 1) = i * PageSize
  /\ \A i, k \in Nat \ {0} : i < k => Offset(i) + PageSize <= Offset(k)
  /\ \A m \in Nat \ {0} : \E i \in Nat \ {0} : Offset(i) < m /\ m <= Offset(i) + PageSize
<1>1. PageSize \in Nat \ {0}
  BY PageAssumption
<1>2. \A i \in Nat \ {0} : Offset(i) \in Nat /\ Offset(i + 1) = Offset(i) + PageSize
                          /\ Offset(i + 1) = i * PageSize
  BY <1>1 DEF Offset
<1>3. ASSUME NEW i \in Nat \ {0}, NEW k \in Nat \ {0}, i < k
      PROVE  Offset(i) + PageSize <= Offset(k)
  <2> DEFINE d == k - 1 - i
  <2>1. d \in Nat /\ k - 1 = i + d
    BY <1>3
  <2>2. d * PageSize >= 0
    BY <1>1, <2>1
  <2>3. (i + d) * PageSize = i * PageSize + d * PageSize
    BY <1>1, <2>1
  <2>4. Offset(k) = (i + d) * PageSize
    BY <2>1 DEF Offset
  <2> HIDE DEF d
  <2>5. Offset(i) + PageSize = i * PageSize
    BY <1>2
  <2> QED
    BY <1>1, <2>1, <2>2, <2>3, <2>4, <2>5
<1>4. ASSUME NEW m \in Nat \ {0}
      PROVE  \E i \in Nat \ {0} : Offset(i) < m /\ m <= Offset(i) + PageSize
  <2> DEFINE q == (m - 1) \div PageSize
  <2>1. q \in Nat /\ q * PageSize <= m - 1 /\ m - 1 < q * PageSize + PageSize
    BY <1>1
  <2> HIDE DEF q
  <2>2. q + 1 \in Nat \ {0} /\ Offset(q + 1) = q * PageSize
    BY <2>1 DEF Offset
  <2>3. q * PageSize \in Nat
    BY <1>1, <2>1
  <2> QED
    BY <1>1, <2>1, <2>2, <2>3
<1> QED
  BY <1>2, <1>3, <1>4

\* An order of the listed rows is a list of them.
LEMMA OrdersAreLists ==
  ASSUME NEW s \in Orders(Listed)
  PROVE  /\ s \in Seq(Rows) /\ Len(s) = Cardinality(Listed) /\ Len(s) \in Nat
         /\ \A i, j \in 1..Len(s) : s[i] = s[j] => i = j
         /\ \A i \in 1..Len(s) : s[i] \in Listed
         /\ \A r \in Listed : \E i \in 1..Len(s) : s[i] = r
<1>1. Listed \subseteq Rows /\ IsFiniteSet(Listed)
  <2>1. Listed \subseteq Rows
    BY DEF Listed, There
  <2> QED
    BY <2>1, RowsAssumption, FS_Subset
<1>2. s \in [1..Cardinality(Listed) -> Listed]
  BY DEF Orders
<1>3. \A i, j \in 1..Cardinality(Listed) : i < j => s[i] # s[j]
  BY <1>2 DEF Orders
<1>4. /\ s \in Seq(Listed) /\ Len(s) = Cardinality(Listed) /\ Cardinality(Listed) \in Nat
      /\ \A x \in Listed : \E i \in 1..Len(s) : s[i] = x
  BY <1>1, <1>2, <1>3, ListsAreComplete, ZenonT(20)
<1>5. s \in Seq(Rows)
  BY <1>1, <1>4, SeqMonotonic
<1>6. \A i, j \in 1..Len(s) : s[i] = s[j] => i = j
  BY <1>3, <1>4
<1> QED
  BY <1>2, <1>4, <1>5, <1>6

\* The next page comes from the order of the pages before it.
LEMMA OffsetPage ==
  ASSUME RowsTyped, ~Ties, OffsetInv, FindPage
  PROVE  OffsetInv'
<1>0. /\ UNCHANGED <<createdAt, deleted, inScope, how, position, steady, writes>>
      /\ position # <<>> /\ ~counting /\ counting'
  BY DEF FindPage
<1>1. PICK k \in Nat \ {0} :
        position = <<k>> /\ Offset(k) <= Cardinality(Listed) /\ Len(pages) = k - 1
  BY <1>0 DEF OffsetInv
<1>2. PICK s \in Orders(Listed) : pages' = Append(pages, PageOf(s, k))
  BY <1>1 DEF FindPage, PageOf
<1>3. s \in Seq(Rows) /\ Len(s) = Cardinality(Listed)
  BY OrdersAreLists
<1>4. PageOf(s, k) \in Seq(Rows)
  BY <1>1, <1>3, NumberedPage
<1>5. /\ pages' \in Seq(Seq(Rows)) /\ pages' # <<>> /\ Len(pages') = k
      /\ \A i \in 1..(k - 1) : pages'[i] = pages[i]
      /\ pages'[k] = PageOf(s, k)
  BY <1>1, <1>2, <1>4, AppendProperties DEF OffsetInv
<1>6. \A i \in 1..(k - 1) : pages[i] = PageOf(s, i) /\ Offset(i) <= Cardinality(Listed)
  <2>1. CASE pages = <<>>
    BY <1>1, <2>1
  <2>2. CASE pages # <<>>
    <3>1. PICK t \in Orders(Listed) : \A i \in 1..Len(pages) :
            pages[i] = PageOf(t, i) /\ Offset(i) <= Cardinality(Listed)
      BY <2>2 DEF OffsetInv
    <3>2. s = t
      BY OneOrder
    <3> QED
      BY <1>1, <3>1, <3>2
  <2> QED
    BY <2>1, <2>2
<1>7. \A i \in 1..k : pages'[i] = PageOf(s, i) /\ Offset(i) <= Cardinality(Listed)
  <2>1. 1..k = 1..(k - 1) \cup {k}
    OBVIOUS
  <2> QED
    BY <1>1, <1>5, <1>6, <2>1
<1>8. Listed' = Listed /\ Orders(Listed)' = Orders(Listed)
  BY <1>0 DEF Listed, There, Orders
<1>9. Len(pages') = k /\ position' = <<k>> /\ counting' /\ steady' = Listed'
  BY <1>0, <1>1, <1>5, <1>8 DEF OffsetInv
<1> QED
  BY <1>1, <1>5, <1>7, <1>8, <1>9 DEF OffsetInv, PageOf

\* The client goes on just when the count promises more.
LEMMA OffsetCount ==
  ASSUME RowsTyped, OffsetInv, CountPage
  PROVE  OffsetInv'
<1>0. /\ UNCHANGED <<createdAt, deleted, inScope, how, pages, steady, writes>>
      /\ counting /\ ~counting'
  BY DEF CountPage
<1>1. PICK k \in Nat \ {0} : position = <<k>> /\ Len(pages) = k
  BY <1>0 DEF OffsetInv
<1>2. position' = IF k * PageSize < Cardinality(Listed) THEN <<k + 1>> ELSE <<>>
  BY <1>1 DEF CountPage
<1>3. Listed' = Listed /\ Orders(Listed)' = Orders(Listed)
  BY <1>0 DEF Listed, There, Orders
<1>4. Offset(k + 1) = k * PageSize /\ k * PageSize \in Nat
  <2>1. Offset(k + 1) = k * PageSize
    BY Offsets
  <2>2. k + 1 \in Nat \ {0} /\ Offset(k + 1) \in Nat
    BY Offsets
  <2> QED
    BY <2>1, <2>2
<1>5. Cardinality(Listed) \in Nat /\ pages # <<>>
  <2>1. pages # <<>>
    BY <1>1
  <2>2. PICK s \in Orders(Listed) : TRUE
    BY <2>1 DEF OffsetInv
  <2> QED
    BY <2>1, <2>2, OrdersAreLists
<1>6. \/ position' = <<>> /\ k * PageSize >= Cardinality(Listed)
      \/ position' = <<k + 1>> /\ Offset(k + 1) <= Cardinality(Listed)
  BY <1>2, <1>4, <1>5
<1>7. /\ steady' = Listed' /\ pages' \in Seq(Seq(Rows))
      /\ \E s \in Orders(Listed)' : \A i \in 1..Len(pages') :
           pages'[i] = PageOf(s, i)' /\ Offset(i) <= Cardinality(Listed')
  <2>1. PICK s \in Orders(Listed) : \A i \in 1..Len(pages) :
           pages[i] = PageOf(s, i) /\ Offset(i) <= Cardinality(Listed)
    BY <1>5 DEF OffsetInv
  <2> QED
    BY <1>0, <1>3, <2>1 DEF OffsetInv, PageOf
<1>8. k + 1 \in Nat \ {0} /\ (k + 1) - 1 = k
  OBVIOUS
<1> QED
  BY <1>0, <1>1, <1>3, <1>5, <1>6, <1>7, <1>8 DEF OffsetInv

-----------------------------------------------------------------------------
(* Both *)

PageInv ==
  /\ RowsTyped
  /\ how = "cursor" => CursorInv
  /\ how = "offset" /\ Quiet => OffsetInv

LEMMA PageStep == PageInv /\ [PageNext]_pageVars => PageInv'
<1> SUFFICES ASSUME PageInv, [PageNext]_pageVars PROVE PageInv'
  OBVIOUS
<1>1. CASE (\E r \in Rows : InsertRow(r)) \/ (\E rs \in SUBSET Rows : SoftDelete(rs))
  <2>1. writes' = writes + 1 /\ UNCHANGED <<how, inScope>>
    BY <1>1 DEF InsertRow, SoftDelete
  <2>2. createdAt' \in [Rows -> Nat]
    <3>1. ASSUME NEW r \in Rows, InsertRow(r) PROVE createdAt' \in [Rows -> Nat]
      BY <3>1, RowsAssumption DEF InsertRow, PageInv, RowsTyped
    <3>2. ASSUME NEW rs \in SUBSET Rows, SoftDelete(rs) PROVE createdAt' \in [Rows -> Nat]
      BY <3>2 DEF SoftDelete, PageInv, RowsTyped
    <3> QED
      BY <1>1, <3>1, <3>2
  <2>3. RowsTyped' /\ writes' # 0
    BY <2>1, <2>2 DEF PageInv, RowsTyped
  <2>4. how' = "cursor" => CursorInv'
    BY <1>1, <2>1, CursorWrites DEF PageInv
  <2> QED
    BY <2>3, <2>4 DEF PageInv, Quiet
<1>2. CASE FindPage
  <2>1. how = "offset" /\ UNCHANGED <<createdAt, inScope, how, writes>>
    BY <1>2 DEF FindPage
  <2>2. RowsTyped' /\ (Quiet' => Quiet)
    BY <2>1 DEF PageInv, RowsTyped, Quiet, Ties
  <2>3. Quiet => OffsetInv'
    BY <1>2, <2>1, OffsetPage DEF PageInv, Quiet
  <2> QED
    BY <2>1, <2>2, <2>3 DEF PageInv
<1>3. CASE CountPage
  <2>1. counting /\ UNCHANGED <<createdAt, inScope, how, writes>>
    BY <1>3 DEF CountPage
  <2>2. RowsTyped' /\ (Quiet' => Quiet) /\ how' # "cursor"
    BY <2>1 DEF PageInv, RowsTyped, Quiet, Ties, CursorInv
  <2>3. how = "offset" /\ Quiet => OffsetInv'
    BY <1>3, OffsetCount DEF PageInv
  <2> QED
    BY <2>1, <2>2, <2>3 DEF PageInv
<1>4. CASE FindPageByCursor
  <2>1. how = "cursor" /\ UNCHANGED <<createdAt, inScope, how, writes>>
    BY <1>4 DEF FindPageByCursor
  <2>2. RowsTyped'
    BY <2>1 DEF PageInv, RowsTyped
  <2> QED
    BY <1>4, <2>1, <2>2, CursorPage DEF PageInv
<1>5. CASE UNCHANGED pageVars
  <2>1. UNCHANGED <<createdAt, deleted, inScope, how, position, pages, counting, steady, writes>>
    BY <1>5 DEF pageVars
  <2>2. Listed' = Listed /\ Orders(Listed)' = Orders(Listed)
    BY <2>1 DEF Listed, There, Orders
  <2>3. RowsTyped' /\ (Quiet' <=> Quiet)
    BY <2>1 DEF PageInv, RowsTyped, Quiet, Ties
  <2>4. CursorInv => CursorInv'
    BY <2>1, <2>2 DEF CursorInv, CursorPlace, PagesTyped, NoRepetition, IsGiven, Before
  <2>5. OffsetInv => OffsetInv'
    BY <2>1, <2>2 DEF OffsetInv, PageOf
  <2> QED
    BY <2>1, <2>3, <2>4, <2>5 DEF PageInv
<1> QED
  BY <1>1, <1>2, <1>3, <1>4, <1>5 DEF PageNext

\* At the end the pages of one order have shown each of its rows once.
LEMMA NumbersAreExact ==
  ASSUME OffsetInv, position = <<>>
  PROVE  /\ PagesTyped /\ NoRepetition
         /\ \A r : IsGiven(r) <=> r \in Listed
<1> DEFINE n == Cardinality(Listed)
<1>1. pages # <<>> /\ Len(pages) * PageSize >= n /\ pages \in Seq(Seq(Rows))
  BY DEF OffsetInv
<1>2. PICK s \in Orders(Listed) : \A i \in 1..Len(pages) : pages[i] = PageOf(s, i) /\ Offset(i) <= n
  BY <1>1 DEF OffsetInv
<1>3. /\ s \in Seq(Rows) /\ Len(s) = n /\ n \in Nat
      /\ \A i, j \in 1..n : s[i] = s[j] => i = j
      /\ \A i \in 1..n : s[i] \in Listed
      /\ \A r \in Listed : \E i \in 1..n : s[i] = r
  BY OrdersAreLists
<1> HIDE DEF n
<1>4. Len(pages) \in Nat \ {0} /\ PageSize \in Nat \ {0}
  BY <1>1, PageAssumption, EmptySeq
<1>5. ASSUME NEW i \in 1..Len(pages)
      PROVE  /\ Offset(i) \in Nat /\ Offset(i) <= n
             /\ Len(pages[i]) = IF n - Offset(i) < PageSize THEN n - Offset(i) ELSE PageSize
             /\ \A j \in 1..Len(pages[i]) : pages[i][j] = s[Offset(i) + j]
  <2>1. i \in Nat \ {0} /\ Offset(i) <= Len(s) /\ pages[i] = PageOf(s, i)
    BY <1>2, <1>3, <1>4
  <2>2. Offset(i) \in Nat
    BY <2>1, Offsets
  <2>3. /\ Len(PageOf(s, i)) = IF Len(s) - Offset(i) < PageSize THEN Len(s) - Offset(i)
                                                             ELSE PageSize
        /\ \A j \in 1..Len(PageOf(s, i)) : PageOf(s, i)[j] = s[Offset(i) + j]
    BY <1>3, <2>1, NumberedPage
  <2> QED
    BY <1>3, <2>1, <2>2, <2>3
<1>6. PagesTyped
  BY <1>1, <1>3, <1>4, <1>5 DEF PagesTyped
<1>7. ASSUME NEW i \in 1..Len(pages), NEW j \in 1..Len(pages[i])
      PROVE  j \in 1..PageSize /\ Offset(i) + j \in 1..n /\ pages[i][j] = s[Offset(i) + j]
  BY <1>3, <1>4, <1>5, <1>7
<1>8. NoRepetition
  <2> SUFFICES ASSUME NEW i \in 1..Len(pages), NEW k \in 1..Len(pages),
                      NEW j \in 1..Len(pages[i]), NEW l \in 1..Len(pages[k]),
                      pages[i][j] = pages[k][l]
               PROVE  i = k /\ j = l
    BY DEF NoRepetition
  <2>1. /\ j \in 1..PageSize /\ l \in 1..PageSize
        /\ Offset(i) + j = Offset(k) + l
    BY <1>3, <1>7
  <2>2. i \in Nat \ {0} /\ k \in Nat \ {0} /\ Offset(i) \in Nat /\ Offset(k) \in Nat
    BY <1>4, <1>5
  <2>3. (i < k => Offset(i) + PageSize <= Offset(k)) /\ (k < i => Offset(k) + PageSize <= Offset(i))
    BY <2>2, Offsets
  <2>4. i = k
    BY <1>4, <2>1, <2>2, <2>3
  <2> QED
    BY <2>1, <2>2, <2>4
<1>9. ASSUME NEW r \in Listed PROVE IsGiven(r)
  <2>1. PICK m \in 1..n : s[m] = r
    BY <1>3
  <2>2. PICK i \in Nat \ {0} : Offset(i) < m /\ m <= Offset(i) + PageSize
    BY <1>3, <2>1, Offsets
  <2>3. i \in 1..Len(pages)
    <3>1. Offset(Len(pages) + 1) = Len(pages) * PageSize
      BY <1>4, Offsets
    <3>2. Offset(i) \in Nat /\ Offset(Len(pages) + 1) \in Nat
      BY <1>4, <2>2, Offsets
    <3>3. Len(pages) + 1 < i => Offset(Len(pages) + 1) + PageSize <= Offset(i)
      BY <1>4, <2>2, Offsets
    <3>4. Offset(i) < Offset(Len(pages) + 1)
      BY <1>1, <1>3, <2>2, <3>1, <3>2
    <3> QED
      BY <1>4, <2>2, <3>2, <3>3, <3>4
  <2>4. m - Offset(i) \in 1..Len(pages[i])
    BY <1>3, <1>4, <1>5, <2>2, <2>3
  <2>5. pages[i][m - Offset(i)] = s[m]
    BY <1>3, <1>5, <2>3, <2>4
  <2> QED
    BY <2>1, <2>3, <2>4, <2>5 DEF IsGiven
<1>10. ASSUME NEW r, IsGiven(r) PROVE r \in Listed
  BY <1>3, <1>7, <1>10 DEF IsGiven
<1> QED
  BY <1>6, <1>8, <1>9, <1>10

\* The invariant of a list that is read to its end (base.repository.ts:129-151).
THEOREM PageInvariant == PageSpec => []PageInv
<1>1. PageInit => PageInv
  <2> SUFFICES ASSUME PageInit PROVE PageInv
    OBVIOUS
  <2>0. /\ pages = <<>> /\ steady = Listed /\ writes = 0
        /\ position = IF how = "offset" THEN <<1>> ELSE <<0>>
    BY DEF PageInit
  <2>1. ~counting
    BY DEF PageInit
  <2>2. RowsTyped
    <3>1. createdAt \in [Rows -> Times \cup {0}] /\ Times \cup {0} \subseteq Nat
      BY RowsAssumption DEF PageInit
    <3>2. inScope \subseteq Rows /\ how \in {"offset", "cursor"}
      BY DEF PageInit
    <3> QED
      BY <2>0, <3>1, <3>2 DEF RowsTyped
  <2>3. pages \in Seq(Seq(Rows)) /\ Len(pages) = 0 /\ \A r : ~IsGiven(r)
    BY <2>0 DEF IsGiven
  <2>4. how = "cursor" => CursorInv
    BY <2>0, <2>1, <2>3 DEF CursorInv, CursorPlace, PagesTyped, NoRepetition
  <2>5. how = "offset" => OffsetInv
    <3>1. Offset(1) = 0 /\ Cardinality(Listed) \in Nat
      <4>1. Offset(1) = 0
        BY PageAssumption DEF Offset
      <4>2. IsFiniteSet(Listed)
        BY RowsAssumption, FS_Subset DEF Listed, There
      <4> QED
        BY <4>1, <4>2, FS_CardinalityType
    <3> QED
      BY <2>0, <2>1, <2>3, <3>1 DEF OffsetInv
  <2> QED
    BY <2>2, <2>4, <2>5 DEF PageInv
<1> QED
  BY <1>1, PageStep, PTL DEF PageSpec

\* A list that is read to its end has shown every row that was there all the time
\* once and nothing twice, for any number of rows, any size of page and any
\* writes in between; by page number, if there are no writes and no equal times
\* (base.repository.ts:129-151, offset-page.query.ts:34-36).
THEOREM ListsAreExact == PageSpec => []PagesAreExact
<1>1. PageInv => PagesAreExact
  <2> SUFFICES ASSUME PageInv, position = <<>>, how = "offset" => Quiet
               PROVE  /\ \A r \in steady : Given(r) = 1
                      /\ \A r \in Rows : Given(r) <= 1 /\ (Given(r) = 1 => r \in inScope)
    BY DEF PagesAreExact, Quiet
  <2>1. CASE how = "cursor"
    <3>1. CursorInv /\ \A r \in steady : IsGiven(r)
      BY <2>1 DEF PageInv, CursorInv, CursorPlace
    <3>2. \A r : Given(r) <= 1 /\ (Given(r) = 1 <=> IsGiven(r))
      BY <3>1, GivenCounts DEF CursorInv
    <3> QED
      BY <3>1, <3>2 DEF CursorInv
  <2>2. CASE how = "offset"
    <3>1. OffsetInv
      BY <2>2 DEF PageInv
    <3>2. PagesTyped /\ NoRepetition /\ \A r : IsGiven(r) <=> r \in Listed
      BY <3>1, NumbersAreExact
    <3>3. \A r : Given(r) <= 1 /\ (Given(r) = 1 <=> IsGiven(r))
      BY <3>2, GivenCounts
    <3> QED
      BY <3>1, <3>2, <3>3 DEF OffsetInv, Listed
  <2> QED
    BY <2>1, <2>2 DEF PageInv, RowsTyped
<1> QED
  BY <1>1, PageInvariant, PTL

=============================================================================
