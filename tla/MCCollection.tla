---------------------------- MODULE MCCollection ----------------------------
(***************************************************************************)
(* Two sources that overlap at one station of one batch: the production    *)
(* database and the application API, which also publishes batch links.     *)
(***************************************************************************)
EXTENDS Collection, TLC

MCSourceId == {"db", "app"}
MCTypeOf == [db |-> "DATABASE", app |-> "APPLICATION_API"]
MCBatch == {"b1", "b2"}
MCQuantity == {10, 12}
MCMasterKey == {"b1"}
MCMasterValue == {"line1", "line2"}

EventRow(id, batch, station, qty, occurred, recorded) ==
    [sourceRecordId |-> id, batchId |-> batch, station |-> station,
     quantity |-> qty, occurredAt |-> occurred, recordedAt |-> recorded,
     parseError |-> FALSE, master |-> Null]

RejectedRow(id) ==
    [sourceRecordId |-> id, batchId |-> Null, station |-> Null,
     quantity |-> Null, occurredAt |-> Null, recordedAt |-> Null,
     parseError |-> TRUE, master |-> Null]

LinkRow(id, batch, line) ==
    [sourceRecordId |-> id, batchId |-> batch, station |-> Null,
     quantity |-> Null, occurredAt |-> Null, recordedAt |-> Null,
     parseError |-> FALSE, master |-> [key |-> batch, value |-> line]]

Returned(rows, errors) == [records |-> rows, errors |-> errors]

\* The database: a first collection, then one in which a row was corrected to
\* an earlier time and read twice and another could not be parsed, or nothing
\* could.
DbFirst == Returned(<<EventRow(1, "b1", "SORTING", 10, 3, Null),
                      EventRow(2, "b1", "DISPATCH", 10, 2, 6)>>, 0)
DbCorrected == Returned(<<EventRow(1, "b1", "SORTING", 12, 1, Null), RejectedRow(9),
                          EventRow(1, "b1", "SORTING", 12, 1, Null)>>, 1)
DbRejected == Returned(<<RejectedRow(9), RejectedRow(9)>>, 2)

\* The application API: all datasets, some of them, or none reachable.
AppFirst == Returned(<<LinkRow(5, "b1", "line1"),
                       EventRow(3, "b1", "DISPATCH", 12, 2, Null),
                       EventRow(4, "b2", "RECEIVING", 10, 1, Null)>>, 0)
AppRelinked == Returned(<<LinkRow(5, "b1", "line2"),
                          EventRow(3, "b1", "DISPATCH", 12, 2, Null)>>, 1)
AppUnreachable == Returned(<<>>, 1)

MCOutcomes == [db |-> {DbFirst, DbCorrected, DbRejected}, app |-> {AppFirst, AppRelinked, AppUnreachable}]

\* For three runs whatever fails: events of both sources, a correction, or nothing.
AppEvents == Returned(Tail(AppFirst.records), 0)
MCFewer == [db |-> {DbFirst, DbCorrected}, app |-> {AppEvents, AppUnreachable}]

MCSymmetry == Permutations(Handler)
=============================================================================
