------------------------------ MODULE MCBoard -------------------------------
(***************************************************************************)
(* Two batches: one that goes through the line and that the application    *)
(* API links to it, one of which a single event is known.                  *)
(***************************************************************************)
EXTENDS Board, TLC

MCSourceId == {}
MCQuantity == {10, 12}
MCBatch == {"b1", "b2"}
MCLink == {[lineId |-> "line1", plannedQuantity |-> 10]}
MCActionTypes == {"BLOCK", "RESUME"}

Accept(quantity, occurredAt, isLate) ==
    [quantity |-> quantity, occurredAt |-> occurredAt, isLate |-> isLate,
     hasConflict |-> FALSE]

Nothing == [s \in Station |-> {}]

\* SORTING is corrected to an earlier time; DISPATCH comes with the rest or late.
Journey == [Nothing EXCEPT !["RECEIVING"] = {Accept(10, 0, FALSE)},
                           !["SORTING"]   = {Accept(12, 1, FALSE), Accept(10, 0, TRUE)},
                           !["DISPATCH"]  = {Accept(10, 1, FALSE)}]
Sighting == [Nothing EXCEPT !["WASHING"] = {Accept(Null, 1, FALSE)}]

MCChoice == [b1 |-> Journey, b2 |-> Sighting]
MCOne == {"b1"}

MCOneChoice == [b1 |-> Journey]

\* For the managers: a batch is known from its link, an event, or both.
MCKnown == [b1 |-> [Nothing EXCEPT !["RECEIVING"] = {Accept(10, 0, FALSE)}],
            b2 |-> Nothing]

\* A browser that shows one batch.
MCDrawer == [drawer |-> {"b1"}]
MCNoScope == <<>>
MCSymmetry == Permutations(Manager)
=============================================================================
