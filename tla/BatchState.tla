----------------------------- MODULE BatchState -----------------------------
(***************************************************************************)
(* What the board says of a batch and of a line, derived from accepted     *)
(* events and from what managers did (apps/api/src/domain/batch-state.ts). *)
(* Instants are minutes; events is a function from stations to the         *)
(* accepted event or Null, as the unique key of CanonicalEvent makes it.   *)
(***************************************************************************)
EXTENDS Dedup
LOCAL INSTANCE FiniteSetsExt
LOCAL INSTANCE SequencesExt

CONSTANTS StaleThreshold,  \* minutes without an event
          Tolerance        \* hundredths of the reference quantity

ASSUME QuantitiesAreNumbers == Quantity \subseteq Int
ASSUME OptionsAreSound == StaleThreshold \in Nat /\ Tolerance \in 0..100

ManagementEventType == {"ACKNOWLEDGE_EXCEPTION", "BLOCK", "RESUME", "NOTE"}

\* Mutant: actions of the same instant are left in the order they were read.
ReplayedByTime(a, b) == a.createdAt < b.createdAt

\* The order in which actions are replayed.
ReplayedBefore(a, b) ==
    \/ a.createdAt < b.createdAt
    \/ a.createdAt = b.createdAt /\ a.id < b.id

Unblocked == [isBlocked |-> FALSE, blockedSince |-> Null, acknowledgedAt |-> Null]

Replay(block, action) ==
    CASE action.type = "BLOCK" ->
            [block EXCEPT !.isBlocked = TRUE, !.blockedSince = action.createdAt]
      [] action.type = "RESUME" ->
            [block EXCEPT !.isBlocked = FALSE, !.blockedSince = Null]
      [] action.type = "ACKNOWLEDGE_EXCEPTION" ->
            [block EXCEPT !.acknowledgedAt = action.createdAt]
      [] action.type = "NOTE" -> block

ResolveBlock(actions) ==
    FoldLeft(Replay, Unblocked, SetToSortSeq(actions, ReplayedBefore))
-----------------------------------------------------------------------------
Reached(events) == {s \in Station : events[s] # Null}

\* Mutant: the station of the event that happened last.
StationOfLastEvent(events) ==
    IF Reached(events) = {} THEN Null
    ELSE CHOOSE s \in Reached(events) :
            \A t \in Reached(events) : events[t].occurredAt <= events[s].occurredAt

\* The furthest station reached.
CurrentStation(events) ==
    IF Reached(events) = {} THEN Null
    ELSE CHOOSE s \in Reached(events) :
            \A t \in Reached(events) : StationIndex(t) <= StationIndex(s)

StateOf(events, isBlocked) ==
    IF "DISPATCH" \in Reached(events) THEN "COMPLETED"
    ELSE IF isBlocked THEN "BLOCKED"
    ELSE IF Reached(events) # {} THEN "IN_PROGRESS" ELSE "PLANNED"

MissingStations(events) ==
    IF Reached(events) = {} THEN {}
    ELSE StationsBefore(CurrentStation(events)) \ Reached(events)

Latest(instants) ==
    IF instants = {} THEN Null ELSE CHOOSE t \in instants : \A u \in instants : u <= t

LastEventAt(events) == Latest({events[s].occurredAt : s \in Reached(events)})

\* Mutant: a blocked batch is not waiting for anything.
StaleInProgress(state, last, now) ==
    /\ last # Null /\ state = "IN_PROGRESS"
    /\ now - last > StaleThreshold

\* A completed batch is finished, not stale.
IsStale(state, last, now) ==
    /\ last # Null /\ state # "COMPLETED"
    /\ now - last > StaleThreshold

Deviates(quantity, reference) ==
    LET deviation == IF quantity < reference THEN reference - quantity
                                             ELSE quantity - reference
    IN  deviation * 100 > Tolerance * reference

\* Stations whose quantity is too far from what was received, or planned.
Mismatched(events, planned) ==
    LET received  == IF events["RECEIVING"] = Null THEN Null
                     ELSE events["RECEIVING"].quantity
        reference == IF received # Null THEN received ELSE planned
    IN  {s \in Reached(events) \ {"RECEIVING"} :
            /\ reference # Null /\ events[s].quantity # Null
            /\ reference > 0
            /\ Deviates(events[s].quantity, reference)}

\* computeBatchView.  link is Null or names the line and the planned quantity.
BatchView(link, events, actions, now) ==
    LET block   == ResolveBlock(actions)
        state   == StateOf(events, block.isBlocked)
        current == CurrentStation(events)
        last    == LastEventAt(events)
        planned == IF link = Null THEN Null ELSE link.plannedQuantity
        isStale == IsStale(state, last, now)
        missing == MissingStations(events)
        mismatched == Mismatched(events, planned)
    IN  [lineId            |-> IF link = Null THEN Null ELSE link.lineId,
         state             |-> state,
         currentStation    |-> current,
         completedQuantity |-> IF current = Null THEN Null ELSE events[current].quantity,
         stations          |-> events,
         missingStations   |-> missing,
         lastEventAt       |-> last,
         isStale           |-> isStale,
         isBlocked         |-> block.isBlocked,
         blockedSince      |-> block.blockedSince,
         acknowledgedAt    |-> block.acknowledgedAt,
         mismatched        |-> mismatched,
         indicators        |->
            {code \in {"BLOCKED", "MISSING_DATA", "STALE", "NO_DATA", "QUANTITY_MISMATCH",
                       "CONFLICTING_SOURCES", "LATE_EVENT"} :
                \/ code = "BLOCKED" /\ block.isBlocked
                \/ code = "MISSING_DATA" /\ missing # {}
                \/ code = "STALE" /\ isStale
                \/ code = "NO_DATA" /\ last = Null /\ state = "PLANNED"
                \/ code = "QUANTITY_MISMATCH" /\ mismatched # {}
                \/ code = "CONFLICTING_SOURCES" /\ \E s \in Reached(events) : events[s].hasConflict
                \/ code = "LATE_EVENT" /\ \E s \in Reached(events) : events[s].isLate}]
-----------------------------------------------------------------------------
(***************************************************************************)
(* A line: views is a function from the batches of the line to their view. *)
(***************************************************************************)
CountOf(views, Is(_)) == Cardinality({b \in DOMAIN views : Is(views[b])})

\* Mutant: completed batches are counted where they ended.
AtStationOrDone(view, s) == view.currentStation = s

\* Work in progress sits at its current station.
AtStation(view, s) == view.currentStation = s /\ view.state # "COMPLETED"

LineView(views) ==
    [stations |->
        [s \in Station |->
            [wip |-> CountOf(views, LAMBDA v : AtStation(v, s)),
             completedQuantity |->
                MapThenSumSet(LAMBDA b : views[b].stations[s].quantity,
                              {b \in DOMAIN views : /\ views[b].stations[s] # Null
                                                    /\ views[b].stations[s].quantity # Null}),
             lastEventAt |->
                Latest({views[b].stations[s].occurredAt :
                            b \in {c \in DOMAIN views : views[c].stations[s] # Null}}),
             staleCount |-> CountOf(views, LAMBDA v : AtStation(v, s) /\ v.isStale),
             blockedCount |-> CountOf(views, LAMBDA v : AtStation(v, s) /\ v.isBlocked),
             missingDataCount |->
                CountOf(views, LAMBDA v : AtStation(v, s) /\ v.missingStations # {})]],
     batchCount     |-> Cardinality(DOMAIN views),
     lastEventAt    |-> Latest({views[b].lastEventAt : b \in DOMAIN views} \ {Null}),
     staleCount     |-> CountOf(views, LAMBDA v : v.isStale),
     blockedCount   |-> CountOf(views, LAMBDA v : v.isBlocked),
     completedCount |-> CountOf(views, LAMBDA v : v.state = "COMPLETED")]
=============================================================================
