-------------------------------- MODULE Paging --------------------------------
(***************************************************************************)
(* A reader who turns the pages of a search.  Every page is a query of its *)
(* own: the rows after a cursor, which holds what the order compares of    *)
(* the last row of the page before.  The index does not change meanwhile.  *)
(***************************************************************************)
EXTENDS Integers, Sequences, FiniteSets

CONSTANTS
    Matching,            \* the products that match: numbers, as their ids have an order
    Offering,            \* what the index may know of one
    Unpriced,            \* stands for the price of none in the order by price upwards
    PageLimit,           \* rows of a page
    MaxShown,            \* bound on the rows after which the reader turns no page
    NoCursor

VARIABLES ranked, page

pagingVars == <<ranked, page>>

Sorts == {"relevance", "price_asc", "price_desc", "new", "popular"}

(* The figures of a product: its smallest price, 0 if it has no offers in  *)
(* stock; how many those are; when it was published, its rank for the      *)
(* words of the search.                                                    *)
IsOffering(f) ==
    /\ DOMAIN f = {"price", "offers", "published", "rank"}
    /\ \A field \in DOMAIN f : f[field] \in Nat

ASSUME PagingAssumption ==
    /\ Matching \subseteq Int /\ \A f \in Offering : IsOffering(f)
    /\ Unpriced \in Nat /\ PageLimit \in Nat \ {0} /\ MaxShown \in Nat
    /\ NoCursor \notin Int \X Int \X Int

Closed == [sort |-> "none", cursor |-> NoCursor, shown |-> <<>>, more |-> FALSE]

-----------------------------------------------------------------------------
(* What the order compares, as three numbers: 0 where it has only two.     *)

Priced(p) == ranked[p].price > 0

SortKey(sort, p) ==
    LET f == ranked[p]
    IN  CASE sort = "price_asc" -> <<IF Priced(p) THEN f.price ELSE Unpriced, 0, p>>
          [] sort = "price_desc" -> <<IF Priced(p) THEN -f.price ELSE 1, 0, -p>>
          [] sort = "new" -> <<-f.published, 0, -p>>
          [] sort = "popular" -> <<-f.offers, -f.rank, -p>>
          [] sort = "relevance" -> <<-f.rank, -f.published, -p>>

(* What is compared with the cursor: not the rank in the order by offers.  *)
KeysetKey(sort, p) ==
    IF sort = "popular" THEN <<-ranked[p].offers, 0, -p>> ELSE SortKey(sort, p)

(* The row of a page has 0 for no price.                                   *)
EncodeCursor(sort, p) ==
    CASE sort = "price_asc" -> <<ranked[p].price, 0, p>>
      [] sort = "price_desc" -> <<-ranked[p].price, 0, -p>>
      [] OTHER -> KeysetKey(sort, p)

Precedes(k, l) ==
    \/ k[1] < l[1]
    \/ k[1] = l[1] /\ k[2] < l[2]
    \/ k[1] = l[1] /\ k[2] = l[2] /\ k[3] < l[3]

(* Faulty: the row of the cursor is found again.                           *)
HitsFrom(sort, cursor) ==
    {p \in Matching : cursor = NoCursor \/ ~Precedes(KeysetKey(sort, p), cursor)}

Hits(sort, cursor) ==
    {p \in Matching : cursor = NoCursor \/ Precedes(cursor, KeysetKey(sort, p))}

RowsOf(rows) == {rows[i] : i \in DOMAIN rows}

(* A page of the hits: the first in the order, all of them if they are     *)
(* fewer than a page has.                                                  *)
IsPage(rows, hits, sort) ==
    /\ \A i, j \in DOMAIN rows : i < j => Precedes(SortKey(sort, rows[i]), SortKey(sort, rows[j]))
    /\ \A p \in hits \ RowsOf(rows) : \A i \in DOMAIN rows :
          Precedes(SortKey(sort, rows[i]), SortKey(sort, p))
    /\ Len(rows) < PageLimit => hits \subseteq RowsOf(rows)

-----------------------------------------------------------------------------
PagingInit ==
    /\ ranked \in [Matching -> Offering]
    /\ page = Closed

OpenSearch(sort) ==
    /\ page.sort = "none"
    /\ page' = [Closed EXCEPT !.sort = sort, !.more = TRUE]
    /\ UNCHANGED ranked

(* The query asks for one row more than the page has, to know whether      *)
(* there is another page; only then the answer has a cursor.               *)
Turn(hits, rows) ==
    page' = [page EXCEPT
        !.shown = @ \o rows,
        !.more = hits \ RowsOf(rows) # {},
        !.cursor = IF hits \ RowsOf(rows) = {} THEN NoCursor
                   ELSE EncodeCursor(page.sort, rows[Len(rows)])]

NextPage ==
    /\ page.more /\ Len(page.shown) < MaxShown
    /\ LET hits == Hits(page.sort, page.cursor)
       IN  \E n \in 0..PageLimit : \E rows \in [1..n -> hits] :
              IsPage(rows, hits, page.sort) /\ Turn(hits, rows)
    /\ UNCHANGED ranked

PagingNext == (\E sort \in Sorts : OpenSearch(sort)) \/ NextPage

PagingSpec == PagingInit /\ [][PagingNext]_pagingVars

-----------------------------------------------------------------------------
PagingTypeOK ==
    /\ ranked \in [Matching -> Offering]
    /\ page.sort \in Sorts \cup {"none"} /\ page.more \in BOOLEAN
    /\ page.shown \in Seq(Matching)

(* Orders whose cursor says all that the order compares: those by price if *)
(* every product has one, that by offers if the rank tells none apart.     *)
Comparable(sort) ==
    /\ sort \in {"price_asc", "price_desc"} => \A p \in Matching : Priced(p)
    /\ sort = "popular" => \A p, q \in Matching : ranked[p].rank = ranked[q].rank

(* Turning the pages shows no product twice, in the order asked for, and   *)
(* in the end every one.                                                   *)
PagesOnce ==
    page.sort # "none" /\ Comparable(page.sort) =>
        /\ \A i, j \in DOMAIN page.shown :
              i < j => Precedes(SortKey(page.sort, page.shown[i]),
                                SortKey(page.sort, page.shown[j]))
        /\ ~page.more => RowsOf(page.shown) = Matching
=============================================================================
