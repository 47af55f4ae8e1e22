------------------------------ MODULE MCCrawler ------------------------------
(***************************************************************************)
(* A portal of four pages, one more than are followed, that may end, link  *)
(* back, link to itself or have a broken link, with rows that lack one     *)
(* thing each.  The first page is entered by a URL (p0) that its links     *)
(* write otherwise (p1).                                                   *)
(***************************************************************************)
EXTENDS Crawler, TLC

CONSTANTS p0, p1, p2, p3, p4, d1, d2, b1   \* model values: URLs, identifiers, a batch

MCUrl == {p0, p1, p2, p3, p4}
MCNormal == [url \in MCUrl |-> IF url = p0 THEN p1 ELSE url]
MCText == {d1, d2, b1}
MCQuantity == {12}
MCStatus == {200, 404, 503}

Whole == [recordId |-> d1, deliveryNumber |-> d2, batchId |-> b1, quantity |-> 12,
          deliveredAt |-> 1]
Unidentified == [Whole EXCEPT !.recordId = Null, !.deliveryNumber = Null]
Numbered == [Whole EXCEPT !.recordId = Null]
Untimed == [Whole EXCEPT !.deliveredAt = Null]
Unmeasured == [Whole EXCEPT !.quantity = Null]
Unbatched == [Whole EXCEPT !.batchId = Null]

Shown(rows, next) == [rows |-> rows, next |-> next]

MCPortal ==
    (p1 :> {Shown(<<Whole, Unidentified>>, p2), Shown(<<>>, p2), Shown(<<>>, Null)})
    @@ (p2 :> {Shown(<<Untimed>>, p3), Shown(<<Numbered, Unmeasured>>, p1),
               Shown(<<Whole>>, Malformed)})
    @@ (p3 :> {Shown(<<Unbatched>>, p1), Shown(<<Whole>>, p3), Shown(<<Whole>>, Null),
               Shown(<<>>, p4)})
    @@ (p4 :> {}) @@ (p0 :> {})
=============================================================================
