------------------------------ MODULE MCAppApi ------------------------------
(***************************************************************************)
(* Two datasets of an application that adds rows while they are read, one  *)
(* row to a page, with one page less than the rows there may come to be.   *)
(* One of the rows is no object.                                           *)
(***************************************************************************)
EXTENDS AppApi

MCSelected == <<"batches", "dispatch">>
MCStatus == {200, 404, 503}

Link == [id |-> 1, has |-> {"batchId", "workOrderId", "lineId"}]
Unlinked == [id |-> 2, has |-> {"batchId", "workOrderId"}]
Dispatched == [id |-> 3, has |-> {"batchId", "at"}]
Undated == [id |-> 4, has |-> {"batchId"}]
Late == [id |-> 5, has |-> {"batchId", "at"}]
Torn == [id |-> 6, has |-> {}]

MCRowsOf == [d \in Dataset |-> CASE d = "batches"  -> {Link, Unlinked, Torn}
                                 [] d = "dispatch" -> {Dispatched, Undated, Late}
                                 [] OTHER          -> {}]
MCTorn == {Torn}

MCInitially == [d \in Dataset |-> CASE d = "batches"  -> <<Link>>
                                    [] d = "dispatch" -> <<Dispatched>>
                                    [] OTHER          -> <<>>]
=============================================================================
