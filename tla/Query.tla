------------------------------- MODULE Query -------------------------------
(***************************************************************************)
(* The query package, and a client that reads a list page by page.  The    *)
(* fields of OffsetPaging are unsigned words; in the code a word has 32     *)
(* bits, the default page has 10 rows and the largest 100.                  *)
(***************************************************************************)
EXTENDS Integers, Sequences, FiniteSets

CONSTANTS
  Word,             \* 2^32: arithmetic on uint32 is modulo Word
  DefaultPageSize,
  MaxPageSize,
  Tables,           \* the lists to read: the values of the column ordered by,
                    \* no two alike, so that the order is determined
  Null,             \* no value, NULL in SQL
  MaxFetches        \* bound: pages a client reads

ASSUME QueryAssumption ==
  /\ Word \in Nat /\ DefaultPageSize \in 1..MaxPageSize
  /\ MaxPageSize \in Nat /\ MaxPageSize < Word
  /\ Tables \subseteq Seq(Nat \cup {Null}) /\ Null \notin Nat
  /\ \A t \in Tables : \A i, j \in DOMAIN t : t[i] = t[j] => i = j
  /\ MaxFetches \in Nat

VARIABLES
  table,     \* the rows, in the order of the database
  asked,     \* the page size and the direction the client asks for
  page,      \* the page it asks for next
  got,       \* the rows it has received
  fetches,   \* how many pages it has read
  ended      \* it has seen a page that was not full

queryVars == <<table, asked, page, got, fetches, ended>>
-----------------------------------------------------------------------------
(* paging.go *)

Uint32 == 0..(Word - 1)
DefaultPage == 1

\* Mutant: a page size of 0 is passed on, and no size is too large.
NewOffsetPagingAsIs(pg, size) ==
  [Page |-> IF pg < DefaultPage THEN DefaultPage ELSE pg, PageSize |-> size]

NewOffsetPaging(pg, size) ==
  [Page |-> IF pg < DefaultPage THEN DefaultPage ELSE pg,
   PageSize |-> IF size = 0 THEN DefaultPageSize
                ELSE IF size > MaxPageSize THEN MaxPageSize ELSE size]

\* Mutant: pages counted from 0.
OffsetFromZero(p) == (p.Page * p.PageSize) % Word

\* The product is a uint32; it becomes an int afterwards.
Offset(p) == ((p.Page - 1) * p.PageSize) % Word

Limit(p) == p.PageSize
-----------------------------------------------------------------------------
(* order.go *)

\* strings.EqualFold(s, "desc")
ParseDirection(s) == IF s \in {"desc", "DESC", "Desc"} THEN "DESC" ELSE "ASC"

NewOrder(column, dir) ==
  [Column |-> IF column = "" THEN "created_at" ELSE column,
   Direction |-> IF dir \in {"ASC", "DESC"} THEN dir ELSE "ASC"]

\* Order.String, the ORDER BY clause.
OrderString(o) ==
  IF o.Direction = "DESC" THEN [desc |-> TRUE, nulls |-> "LAST"]
  ELSE [desc |-> FALSE, nulls |-> "FIRST"]
-----------------------------------------------------------------------------
(* The database *)

\* Whether the clause puts a before b.
Before(clause, a, b) ==
  \/ a = Null /\ b # Null /\ clause.nulls = "FIRST"
  \/ a # Null /\ b = Null /\ clause.nulls = "LAST"
  \/ a # Null /\ b # Null /\ (IF clause.desc THEN a > b ELSE a < b)

\* The place of row i of t: one more than the rows before it.
Rank(t, clause, i) == Cardinality({j \in 1..Len(t) : Before(clause, t[j], t[i])}) + 1

OrderBy(t, clause) ==
  [n \in 1..Len(t) |-> t[CHOOSE i \in 1..Len(t) : Rank(t, clause, i) = n]]

\* SELECT ... ORDER BY clause LIMIT limit OFFSET offset
Select(t, clause, offset, limit) ==
  LET rows == OrderBy(t, clause)
      last == IF offset + limit > Len(rows) THEN Len(rows) ELSE offset + limit
  IN SubSeq(rows, offset + 1, last)

\* A list request of this page and size.
List(pg) ==
  LET p == NewOffsetPaging(pg, asked.size)
      o == NewOrder("", ParseDirection(asked.dir))
  IN Select(table, OrderString(o), Offset(p), Limit(p))
-----------------------------------------------------------------------------
QueryInit ==
  /\ table \in Tables
  /\ asked \in [size : Uint32, dir : {"", "asc", "desc", "DESC"}]
  /\ page = 1 /\ got = <<>> /\ fetches = 0 /\ ended = FALSE

\* The client reads on until a page is not full.
Fetch ==
  /\ ~ended /\ fetches < MaxFetches
  /\ got' = got \o List(page)
  /\ page' = (page + 1) % Word
  /\ fetches' = fetches + 1
  /\ ended' = (Len(List(page)) < Limit(NewOffsetPaging(page, asked.size)))
  /\ UNCHANGED <<table, asked>>

QueryNext == Fetch
QuerySpec == QueryInit /\ [][QueryNext]_queryVars
-----------------------------------------------------------------------------
(* Properties *)

Rows == {table[i] : i \in 1..Len(table)}

\* The order asked for: descending is ascending read backwards, rows without a
\* value first in the one and last in the other.
Precedes(a, b) == (a = Null /\ b # Null) \/ (a # Null /\ b # Null /\ a < b)
InOrder(a, b) == IF asked.dir \in {"desc", "DESC"} THEN Precedes(b, a) ELSE Precedes(a, b)

Sorted(s) == \A i, j \in 1..Len(s) : i < j => InOrder(s[i], s[j])

\* A client that reads a list page by page, with any page size, receives every
\* row once and in order: what it has received before the end comes before all
\* the rows it has not, and at the end it has them all.  The numbers of all
\* pages, the empty one behind the last row included, must fit a word: with one
\* row more the page wraps to 0, which NewOffsetPaging takes for the first.
EveryRowOnce ==
  Len(table) < Word - 1 =>
    LET received == {got[i] : i \in 1..Len(got)} IN
    /\ Sorted(got) /\ received \subseteq Rows
    /\ \A a \in received, b \in Rows \ received : InOrder(a, b)
    /\ ended => received = Rows

\* Any page, read by itself, has the rows its number stands for, in order, and
\* at most MaxPageSize of them, as long as no row before it needs a larger word:
\* past that the offset has wrapped around and the page repeats an early one.
PageAsAsked ==
  LET size == IF asked.size = 0 THEN DefaultPageSize
              ELSE IF asked.size <= MaxPageSize THEN asked.size ELSE MaxPageSize
      Earlier(v) == {i \in 1..Len(table) : InOrder(table[i], v)}
  IN \A pg \in Uint32 \ {0} :
       (pg - 1) * size < Word =>
         /\ Len(List(pg)) <= MaxPageSize
         /\ Sorted(List(pg))
         /\ {List(pg)[i] : i \in 1..Len(List(pg))}
              = {v \in Rows : Cardinality(Earlier(v)) \div size = pg - 1}
=============================================================================
