------------------------------- MODULE Dedup --------------------------------
(***************************************************************************)
(* What deduplication promises (apps/api/src/domain/dedup.ts), stated over *)
(* the set of observations of one batch at one station: which repeat of an *)
(* observation is kept, which candidate is accepted, why, and whether the  *)
(* sources disagree.  DedupArrays.tla is the array algorithm of the source *)
(* and is checked against these definitions; Collection.tla uses them.     *)
(*                                                                         *)
(* Identifiers that the code only compares (record ids, source record ids) *)
(* are natural numbers in comparison order, instants are natural numbers,  *)
(* and quantities are only ever tested for equality.                       *)
(***************************************************************************)
EXTENDS Stations, FiniteSets

CONSTANTS SourceId,  \* primary keys of the Source table
          Quantity,  \* the quantities sources report
          Null       \* an absent quantity

ASSUME NullIsNoQuantity == Null \notin Quantity

Observation ==
    [recordId       : Nat,
     sourceId       : SourceId,
     sourceType     : SourceType,
     sourceRecordId : Nat,
     quantity       : Quantity \cup {Null},
     occurredAt     : Nat,
     observedAt     : Nat]

\* Record ids are primary keys: two observations with one id are the same.
HasDistinctIds(obs) == \A o, p \in obs : o.recordId = p.recordId => o = p

\* A source is of one kind: sourceType is read from the source of the row.
IsOfOneKind(obs) == \A o, p \in obs : o.sourceId = p.sourceId => o.sourceType = p.sourceType

SameIdentity(a, b) ==
    /\ a.sourceId = b.sourceId
    /\ a.sourceRecordId = b.sourceRecordId

\* The order among repeat deliveries of one observation.
EarlierSighting(a, b) ==
    \/ a.observedAt < b.observedAt
    \/ a.observedAt = b.observedAt /\ a.recordId < b.recordId

\* Step 1: of each identity only the earliest sighting stays a candidate.
Candidates(obs) ==
    {o \in obs : \A p \in obs : SameIdentity(o, p) /\ p # o => EarlierSighting(o, p)}

\* The order among candidates: authority, occurrence, source record id, id.
CompareCandidates(station, a, b) ==
    LET rankA == AuthorityRank(station, a.sourceType)
        rankB == AuthorityRank(station, b.sourceType)
    IN  \/ rankA < rankB
        \/ /\ rankA = rankB
           /\ \/ a.occurredAt < b.occurredAt
              \/ /\ a.occurredAt = b.occurredAt
                 /\ \/ a.sourceRecordId < b.sourceRecordId
                    \/ a.sourceRecordId = b.sourceRecordId /\ a.recordId < b.recordId

\* Step 2: the candidate before all others.
IsFirst(station, cands, w) ==
    w \in cands /\ \A c \in cands \ {w} : CompareCandidates(station, w, c)

Winner(station, obs) ==
    CHOOSE w \in Candidates(obs) : IsFirst(station, Candidates(obs), w)

RunnerUp(station, obs) ==
    LET losers == Candidates(obs) \ {Winner(station, obs)}
    IN  CHOOSE r \in losers : IsFirst(station, losers, r)

ContributionRole == {"WINNER", "DUPLICATE", "SUPERSEDED"}

Role(station, obs, o) ==
    IF o \notin Candidates(obs) THEN "DUPLICATE"
    ELSE IF o = Winner(station, obs) THEN "WINNER" ELSE "SUPERSEDED"

ResolutionRule == {"SINGLE_OBSERVATION", "AUTHORITATIVE_SOURCE",
                   "EARLIEST_OCCURRED_AT", "LOWEST_SOURCE_RECORD_ID"}

\* Which criterion separated the winner from the runner-up.
DecidingRule(station, winner, runnerUp) ==
    IF AuthorityRank(station, winner.sourceType)
         # AuthorityRank(station, runnerUp.sourceType) THEN "AUTHORITATIVE_SOURCE"
    ELSE IF winner.occurredAt # runnerUp.occurredAt THEN "EARLIEST_OCCURRED_AT"
    ELSE "LOWEST_SOURCE_RECORD_ID"

Rule(station, obs) ==
    IF Candidates(obs) = {Winner(station, obs)} THEN "SINGLE_OBSERVATION"
    ELSE DecidingRule(station, Winner(station, obs), RunnerUp(station, obs))

\* Two candidates report different quantities; absent quantities do not count.
HasConflict(obs) ==
    \E a, b \in Candidates(obs) :
        a.quantity # Null /\ b.quantity # Null /\ a.quantity # b.quantity
=============================================================================
