----------------------------- MODULE Pagination -----------------------------
(***************************************************************************)
(* A client reads a list page by page while others insert rows and delete  *)
(* them softly. The lists of users, teams and roles are read by page       *)
(* number: findPage, sorted by createdAt alone. findPageByCursor is what   *)
(* the base repository offers for a stable order, createdAt and then id.   *)
(* The rows that the client may see are those of his scope.                *)
(***************************************************************************)
EXTENDS Integers, Sequences, FiniteSets

CONSTANTS
  Rows,      \* ids, in the order of insertion
  Times,     \* values of createdAt (0 stands for none)
  PageSize,
  MaxWrites  \* bound on the writes of a behaviour

ASSUME PageAssumption == PageSize \in 1..100
ASSUME RowsAssumption ==
  /\ IsFiniteSet(Rows) /\ Rows \subseteq Nat \ {0}
  /\ Times \subseteq Nat \ {0}

VARIABLES
  createdAt,  \* createdAt[r], 0 before r is inserted
  deleted,    \* rows with a deletedAt
  inScope,    \* rows that the scope of the client selects
  how,        \* "offset" or "cursor"
  position,   \* number of the next page, or the row of its cursor (0: none);
              \* the empty sequence at the end
  pages,      \* what the client has been given so far
  counting,   \* the list of a page has been read, its count has not
  steady,     \* rows there from the first page on (history)
  writes

pageVars == <<createdAt, deleted, inScope, how, position, pages, counting, steady, writes>>

There(created, gone) == {r \in Rows : created[r] > 0 /\ r \notin gone}

\* The rows of a list query: the soft-delete filter and the scope.
Listed == There(createdAt, deleted) \cap inScope

PageInit ==
  /\ \E initial \in SUBSET Rows :
       /\ createdAt \in [Rows -> Times \cup {0}]
       /\ \A r \in Rows : createdAt[r] > 0 <=> r \in initial
       /\ \A r, q \in initial : r < q => createdAt[r] <= createdAt[q]
       /\ \A r \in initial, q \in Rows \ initial : r < q
  /\ deleted = {}
  /\ inScope \in {Rows, {r \in Rows : r % 2 = 1}, {}}
  /\ how \in {"offset", "cursor"}
  /\ position = IF how = "offset" THEN <<1>> ELSE <<0>>
  /\ pages = <<>>
  /\ counting = FALSE
  /\ steady = Listed
  /\ writes = 0

-----------------------------------------------------------------------------
(* The others *)

InsertRow(r) ==
  /\ writes < MaxWrites /\ writes' = writes + 1
  /\ createdAt[r] = 0 /\ \A q \in Rows : q < r => createdAt[q] > 0
  /\ \E t \in Times :
       /\ \A q \in Rows : createdAt[q] <= t
       /\ createdAt' = [createdAt EXCEPT ![r] = t]
  /\ UNCHANGED <<deleted, inScope, how, position, pages, counting, steady>>

\* bulkSoftDelete, or cascadeSoftDelete and a flush, of the rows of a condition.
SoftDelete(rs) ==
  /\ writes < MaxWrites /\ writes' = writes + 1
  /\ rs # {} /\ rs \subseteq There(createdAt, deleted)
  /\ deleted' = deleted \cup rs
  /\ steady' = steady \ rs
  /\ UNCHANGED <<createdAt, inScope, how, position, pages, counting>>

-----------------------------------------------------------------------------
(* The pages *)

\* Mutant of Offset: pages are counted from 0.
OffsetFromZero(pageNum) == pageNum * PageSize

Offset(pageNum) == (pageNum - 1) * PageSize

\* The orders in which ORDER BY createdAt DESC may give the rows.
Orders(rs) ==
  {s \in [1..Cardinality(rs) -> rs] :
     \A i, j \in DOMAIN s : i < j => s[i] # s[j] /\ createdAt[s[i]] >= createdAt[s[j]]}

\* The order of (createdAt DESC, id DESC), and a list in it.
Before(r, q) == createdAt[r] > createdAt[q] \/ (createdAt[r] = createdAt[q] /\ r > q)

InOrder(rs) ==
  {s \in [1..Cardinality(rs) -> rs] : \A i, j \in DOMAIN s : i < j => Before(s[i], s[j])}

AtMostPage(s) == SubSeq(s, 1, IF Len(s) < PageSize THEN Len(s) ELSE PageSize)

\* findPage and the service's answer: the list and the count are two queries, which
\* findAndCount sends at once; here the count comes second, for the worst. A
\* scope without teams is not asked for.
FindPage ==
  /\ how = "offset" /\ position # <<>> /\ ~counting
  /\ \E s \in Orders(Listed) :
       pages' = Append(pages, AtMostPage(SubSeq(s, Offset(position[1]) + 1, Len(s))))
  /\ counting' = TRUE
  /\ UNCHANGED <<createdAt, deleted, inScope, how, position, steady, writes>>

\* The client goes on as long as the count promises more.
CountPage ==
  /\ counting /\ counting' = FALSE
  /\ position' = IF position[1] * PageSize < Cardinality(Listed)
                   THEN <<position[1] + 1>> ELSE <<>>
  /\ UNCHANGED <<createdAt, deleted, inScope, how, pages, steady, writes>>

\* findPageByCursor: the rows after the cursor, and whether there is another one;
\* the next cursor is the position of the last row, which may be deleted later.
FindPageByCursor ==
  /\ how = "cursor" /\ position # <<>>
  /\ \E s \in InOrder({r \in Listed : position[1] = 0 \/ Before(position[1], r)}) :
       /\ pages' = Append(pages, AtMostPage(s))
       /\ position' = IF Len(s) > PageSize THEN <<s[PageSize]>> ELSE <<>>
  /\ UNCHANGED <<createdAt, deleted, inScope, how, counting, steady, writes>>

PageNext ==
  \/ \E r \in Rows : InsertRow(r)
  \/ \E rs \in SUBSET Rows : SoftDelete(rs)
  \/ FindPage \/ CountPage \/ FindPageByCursor

PageSpec == PageInit /\ [][PageNext]_pageVars

-----------------------------------------------------------------------------
(* Properties *)

\* Where and how often the client has been given r.
Spots(r) ==
  {p \in (1..Len(pages)) \X (1..PageSize) :
     p[2] <= Len(pages[p[1]]) /\ pages[p[1]][p[2]] = r}

Given(r) == Cardinality(Spots(r))

Ties == \E r, q \in Rows : r # q /\ createdAt[r] > 0 /\ createdAt[r] = createdAt[q]

\* Who reads a list to its end has been given every row that was there all the
\* time exactly once, and no row twice, and none outside of his scope: by cursor
\* whatever is inserted and deleted meanwhile, by page number if nothing is
\* written and no two rows are of the same time
\* (base.repository.ts:129-151, offset-page.query.ts:34-36).
PagesAreExact ==
  position = <<>> /\ (how = "offset" => writes = 0 /\ ~Ties) =>
    /\ \A r \in steady : Given(r) = 1
    /\ \A r \in Rows : Given(r) <= 1 /\ (Given(r) = 1 => r \in inScope)

=============================================================================
