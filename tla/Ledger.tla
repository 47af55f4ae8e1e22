------------------------------- MODULE Ledger -------------------------------
(***************************************************************************)
(* The tables that collection fills and normalization reads and writes     *)
(* (apps/api/prisma/schema.prisma), how a canonical event is derived from  *)
(* records (apps/api/src/normalization/normalization.service.ts), and the  *)
(* steps these tables may take.  This is what the platform promises        *)
(* whatever requests are in flight: Collection.tla, where requests         *)
(* interleave and fail, implements it.                                     *)
(***************************************************************************)
EXTENDS Dedup

CONSTANTS Batch,
          MasterKey,    \* keys of the WorkOrder and BatchLink tables
          MasterValue,  \* the other columns of those tables
          TypeOf,       \* the kind of each source
          Outcomes      \* what the collector of each source may return

\* What a collector makes of one row of its source (CollectedRecord).
Row == [sourceRecordId : Nat,
        batchId        : Batch \cup {Null},
        station        : Station \cup {Null},
        quantity       : Quantity \cup {Null},
        occurredAt     : Nat \cup {Null},
        recordedAt     : Nat \cup {Null},
        parseError     : BOOLEAN,
        master         : [key : MasterKey, value : MasterValue] \cup {Null}]

Outcome == [records : Seq(Row), errors : Nat]

ASSUME SourcesAreSound ==
    /\ TypeOf \in [SourceId -> SourceType]
    /\ Outcomes \in [SourceId -> SUBSET Outcome]

ASSUME NullIsNoData ==
    Null \notin Batch \cup Station \cup SourceId \cup Nat \cup MasterValue

VARIABLES
    sources,        \* Source: each is unregistered, registered or removed
    records,        \* every SourceRecord created, in creation order
    master,         \* WorkOrder and BatchLink
    canonical,      \* CanonicalEvent, unique per batch and station
    contributions   \* CanonicalEventContribution

ledger == <<sources, records, master, canonical, contributions>>

SourceState == {"unregistered", "registered", "removed"}

Record == [source : SourceId, run : Nat, row : Row]

Event == [quantity    : Quantity \cup {Null},
          occurredAt  : Nat,
          observedAt  : Nat,
          isLate      : BOOLEAN,
          hasConflict : BOOLEAN,
          rule        : ResolutionRule]

Contribution == [batchId : Batch, station : Station,
                 recordId : Nat, role : ContributionRole]

ASSUME NullIsNoRow ==
    Null \notin [key : MasterKey, value : MasterValue] \cup Outcome \cup Event

LedgerTypeOK ==
    /\ sources \in [SourceId -> SourceState]
    /\ records \in Seq(Record)
    /\ master \in [MasterKey -> MasterValue \cup {Null}]
    /\ canonical \in [Batch -> [Station -> Event \cup {Null}]]
    /\ contributions \subseteq Contribution

LedgerInit ==
    /\ sources = [s \in SourceId |-> "unregistered"]
    /\ records = <<>>
    /\ master = [k \in MasterKey |-> Null]
    /\ canonical = [b \in Batch |-> [s \in Station |-> Null]]
    /\ contributions = {}
-----------------------------------------------------------------------------
(***************************************************************************)
(* Reading the tables.  Records are deleted only by the cascade from their *)
(* source, so a record is in its table while its source is.                *)
(***************************************************************************)
IsRegistered(s) == sources[s] = "registered"

Stored == {i \in DOMAIN records : IsRegistered(records[i].source)}

\* The query of rebuild and the check at the top of its loop.
IsUsable(row) ==
    /\ row.batchId # Null
    /\ row.station # Null
    /\ ~ row.parseError
    /\ row.occurredAt # Null

Usable == {i \in Stored : IsUsable(records[i].row)}

\* Usable, or usable until its source was removed: what a snapshot may hold.
UsableRows == {i \in DOMAIN records : IsUsable(records[i].row)}

ObservationOf(i) ==
    LET row == records[i].row
    IN  [recordId       |-> i,
         sourceId       |-> records[i].source,
         sourceType     |-> TypeOf[records[i].source],
         sourceRecordId |-> row.sourceRecordId,
         quantity       |-> row.quantity,
         occurredAt     |-> row.occurredAt,
         observedAt     |-> IF row.recordedAt # Null THEN row.recordedAt
                                                     ELSE row.occurredAt]

IdsOfBatch(ids, b) == {i \in ids : records[i].row.batchId = b}

ObservationsAt(ids, b, s) ==
    {ObservationOf(i) : i \in {j \in IdsOfBatch(ids, b) : records[j].row.station = s}}

Reported(ids, b) == {s \in Station : ObservationsAt(ids, b, s) # {}}

WinnerAt(ids, b, s) == Winner(s, ObservationsAt(ids, b, s))

\* detectLateArrivals: it became known after a later station had reported.
IsLate(ids, b, s) ==
    \E later \in Reported(ids, b) :
        /\ StationIndex(later) > StationIndex(s)
        /\ WinnerAt(ids, b, later).observedAt < WinnerAt(ids, b, s).observedAt

\* Mutant: repeat deliveries count as disagreement.
EventOfCountingRepeats(ids, b, s) ==
    LET obs == ObservationsAt(ids, b, s)
        winner == WinnerAt(ids, b, s)
    IN  [quantity    |-> winner.quantity,
         occurredAt  |-> winner.occurredAt,
         observedAt  |-> winner.observedAt,
         isLate      |-> IsLate(ids, b, s),
         hasConflict |-> Cardinality({o.quantity : o \in obs} \ {Null}) > 1,
         rule        |-> Rule(s, obs)]

EventOf(ids, b, s) ==
    LET obs == ObservationsAt(ids, b, s)
        winner == WinnerAt(ids, b, s)
    IN  [quantity    |-> winner.quantity,
         occurredAt  |-> winner.occurredAt,
         observedAt  |-> winner.observedAt,
         isLate      |-> IsLate(ids, b, s),
         hasConflict |-> HasConflict(obs),
         rule        |-> Rule(s, obs)]

ContributionsOf(ids, b, s) ==
    LET obs == ObservationsAt(ids, b, s)
    IN  {[batchId |-> b, station |-> s, recordId |-> o.recordId,
          role |-> Role(s, obs, o)] : o \in obs}

\* Mutant: the events of the batch are replaced as a whole.
ReplaceEvents(ids, b) ==
    [s \in Station |-> IF s \in Reported(ids, b) THEN EventOf(ids, b, s) ELSE Null]

\* The upserts: stations absent from the snapshot keep their events.
UpsertEvents(ids, b) ==
    [s \in Station |-> IF s \in Reported(ids, b)
                       THEN EventOf(ids, b, s) ELSE canonical[b][s]]

\* Mutant: contributions are only added, never rewritten.
AddContributions(ids, b) ==
    contributions \cup UNION {ContributionsOf(ids, b, s) : s \in Reported(ids, b)}

RewriteContributions(ids, b) ==
    {c \in contributions : c.batchId # b \/ c.station \notin Reported(ids, b)}
      \cup UNION {ContributionsOf(ids, b, s) : s \in Reported(ids, b)}
-----------------------------------------------------------------------------
(***************************************************************************)
(* The steps of the tables.                                                *)
(***************************************************************************)
RegisterSource(s) ==
    /\ sources[s] = "unregistered"
    /\ sources' = [sources EXCEPT ![s] = "registered"]
    /\ UNCHANGED <<records, master, canonical, contributions>>

\* With the source go its records and what they contributed, at once.
RemoveSource(s) ==
    /\ IsRegistered(s)
    /\ sources' = [sources EXCEPT ![s] = "removed"]
    /\ contributions' = {c \in contributions : records[c.recordId].source # s}
    /\ UNCHANGED <<records, master, canonical>>

\* All rows of one collection are appended, or none.
StoreRows(s) ==
    /\ IsRegistered(s)
    /\ records' \in Seq(Record)
    /\ \A i \in DOMAIN records : records'[i] = records[i]
    /\ \E outcome \in Outcomes[s] :
           /\ Len(records') = Len(records) + Len(outcome.records)
           /\ \A i \in DOMAIN outcome.records :
                  /\ records'[Len(records) + i].source = s
                  /\ records'[Len(records) + i].row = outcome.records[i]
    /\ UNCHANGED <<sources, master, canonical, contributions>>

\* A work order or batch link is published from a row that was stored.
Publish(i) ==
    LET data == records[i].row.master
    IN  /\ data # Null
        /\ master' = [master EXCEPT ![data.key] = data.value]
        /\ UNCHANGED <<sources, records, canonical, contributions>>

\* The events of a batch and their explanation are derived together, from some
\* usable records of the batch that are stored now.
Rebuild(b, ids) ==
    /\ IdsOfBatch(ids, b) \subseteq Stored
    /\ canonical' = [canonical EXCEPT ![b] = UpsertEvents(ids, b)]
    /\ contributions' = RewriteContributions(ids, b)
    /\ UNCHANGED <<sources, records, master>>

LedgerNext ==
    \/ \E s \in SourceId : RegisterSource(s) \/ RemoveSource(s) \/ StoreRows(s)
    \/ \E i \in DOMAIN records : Publish(i)
    \/ \E b \in Batch : \E ids \in SUBSET UsableRows : Rebuild(b, ids)

LedgerSpec == LedgerInit /\ [][LedgerNext]_ledger
-----------------------------------------------------------------------------
\* Every contribution links an accepted event to a stored, usable record of
\* the same batch and station, whatever was removed in the meantime.
ContributionsAreSound ==
    \A c \in contributions :
        /\ c.recordId \in Usable
        /\ records[c.recordId].row.batchId = c.batchId
        /\ records[c.recordId].row.station = c.station
        /\ canonical[c.batchId][c.station] # Null

\* No event is explained by two accepted observations, although two requests
\* may rewrite its contributions in turn.
AtMostOneWinner ==
    \A c, d \in contributions :
        /\ c.batchId = d.batchId /\ c.station = d.station
        /\ c.role = "WINNER" /\ d.role = "WINNER"
        => c = d

\* What the board shows for an event is what its accepted record says.
WinnerIsTheEvent ==
    \A c \in contributions : c.role = "WINNER" =>
        LET event == canonical[c.batchId][c.station]
            winner == ObservationOf(c.recordId)
        IN  /\ event.quantity = winner.quantity
            /\ event.occurredAt = winner.occurredAt
            /\ event.observedAt = winner.observedAt

\* However rebuilds of a batch interleave, each of its events has at most one
\* accepted observation and says what that says.
EventHasOneWinner == AtMostOneWinner /\ WinnerIsTheEvent

NothingRemoved == \A s \in SourceId : sources[s] # "removed"

ContributingIds(b, s) ==
    {c.recordId : c \in {d \in contributions : d.batchId = b /\ d.station = s}}

\* An event and its explanation are of one rebuild: roles, rule and conflict
\* flag are what the policy makes of exactly the records that contribute.
EventIsItsResolution ==
    NothingRemoved =>
        \A b \in Batch : \A s \in Station : canonical[b][s] # Null =>
            LET ids == ContributingIds(b, s)
                obs == ObservationsAt(ids, b, s)
            IN  /\ ids # {}
                /\ ContributionsOf(ids, b, s)
                     = {c \in contributions : c.batchId = b /\ c.station = s}
                /\ canonical[b][s].rule = Rule(s, obs)
                /\ canonical[b][s].hasConflict = HasConflict(obs)

\* Reference data is published only after the row that carries it is in the
\* audit trail.
MasterDataIsAudited ==
    \A k \in MasterKey : master[k] # Null =>
        \E i \in DOMAIN records :
            records[i].row.master = [key |-> k, value |-> master[k]]

\* The furthest station a batch has reached, -1 before the first event.
Progress(b) ==
    LET reached == {StationIndex(s) : s \in {t \in Station : canonical[b][t] # Null}}
    IN  IF reached = {} THEN -1
        ELSE CHOOSE i \in reached : \A j \in reached : j <= i

\* Late rows, stale rebuilds and removals never move a batch backwards.
NeverBackwards == [][\A b \in Batch : Progress(b)' >= Progress(b)]_ledger

\* The line a batch is linked to; work orders are master data as well.
LinkedTo == [b \in Batch |-> IF b \in MasterKey THEN master[b] ELSE Null]

View == INSTANCE Accepted WITH Line <- MasterValue, link <- LinkedTo

\* To the board, an accepted event or a link is never withdrawn, and the events
\* of one batch change at a time, whatever is collected, removed or reconciled:
\* rebuildBatch upserts, and nothing deletes an event
\* (normalization.service.ts:103-105).  So the events of a removed source stay
\* as well, which is not what the code says of itself: EventsHaveRecords of
\* Collection.tla.
ProvidesAccepted == View!AcceptedSpec
=============================================================================
