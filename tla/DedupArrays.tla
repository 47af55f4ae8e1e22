----------------------------- MODULE DedupArrays ----------------------------
(***************************************************************************)
(* resolveObservations as the source computes it: on the array of rows in  *)
(* whatever order the database returned them (the query has no ORDER BY),  *)
(* with a Map of buckets in insertion order and stable sorts.  A step is   *)
(* one more row of the array, an iteration of the first loop, together     *)
(* with what the function returns if the array ends there: the reachable   *)
(* states are all the arrays a query can return.                           *)
(***************************************************************************)
EXTENDS Dedup, Functions
Seqs == INSTANCE SequencesExt

CONSTANT Reportable   \* the observations that may be stored of the batch

ASSUME ReportableIsSound ==
    /\ Reportable \subseteq Observation
    /\ HasDistinctIds(Reportable) /\ IsOfOneKind(Reportable)

VARIABLES at,          \* the station being resolved
          array,       \* the rows handed to resolveObservations
          byIdentity,  \* its buckets, in the order their keys were set
          resolution   \* what it returns, Null for an empty array

arrays == <<at, array, byIdentity, resolution>>

\* Mutant: every delivery is an observation of its own.
IdentityByRecord(o) == <<o.recordId>>

IdentityOf(o) == <<o.sourceId, o.sourceRecordId>>

\* A row goes to the end of its bucket, or starts one.
Push(buckets, o) ==
    LET same == {k \in DOMAIN buckets : IdentityOf(buckets[k][1]) = IdentityOf(o)}
    IN  IF same = {} THEN Append(buckets, <<o>>)
        ELSE [buckets EXCEPT ![CHOOSE k \in same : TRUE] = Append(@, o)]

\* A stable sort: each element comes after those that are before it, and where the
\* comparison does not separate two they stay as they were.
StableSort(seq, Before(_, _)) ==
    LET Ahead(i, j) == Before(seq[i], seq[j]) \/ (~ Before(seq[j], seq[i]) /\ i < j)
    IN  [k \in DOMAIN seq |->
            seq[CHOOSE i \in DOMAIN seq :
                   Cardinality({j \in DOMAIN seq : Ahead(j, i)}) = k - 1]]

\* Mutant: the bucket is not sorted, so the last delivery read is kept.
LastFirst(bucket) == Seqs!Reverse(bucket)

\* The earliest sighting first, and the candidate to accept first.
Ordered(bucket) == StableSort(bucket, EarlierSighting)

Ranked(station, candidates) ==
    StableSort(candidates, LAMBDA a, b : CompareCandidates(station, a, b))

Contribute(seq, role) ==
    [i \in DOMAIN seq |-> [recordId |-> seq[i].recordId, role |-> role]]

\* Mutant: the winner is superseded by itself.
AllRanked(ranked) == ranked

Losers(ranked) == Tail(ranked)

ResolveObservations(station, buckets) ==
    LET candidates == Seqs!FlattenSeq([k \in DOMAIN buckets |-> <<Head(Ordered(buckets[k]))>>])
        repeats    == Seqs!FlattenSeq([k \in DOMAIN buckets |-> Tail(Ordered(buckets[k]))])
        ranked     == Ranked(station, candidates)
        quantities == {c.quantity : c \in Range(candidates)} \ {Null}
    IN  [winner        |-> ranked[1],
         contributions |-> Contribute(repeats, "DUPLICATE")
                             \o Contribute(<<ranked[1]>>, "WINNER")
                             \o Contribute(Losers(ranked), "SUPERSEDED"),
         rule          |-> IF Len(ranked) = 1 THEN "SINGLE_OBSERVATION"
                           ELSE DecidingRule(station, ranked[1], ranked[2]),
         hasConflict   |-> Len(candidates) > 1 /\ Cardinality(quantities) > 1]
-----------------------------------------------------------------------------
ArraysInit ==
    /\ at \in Station
    /\ array = <<>> /\ byIdentity = <<>>
    /\ resolution = Null

Deliver(o) ==
    /\ o \notin Range(array)
    /\ array' = Append(array, o)
    /\ byIdentity' = Push(byIdentity, o)
    /\ resolution' = ResolveObservations(at, byIdentity')
    /\ UNCHANGED at

ArraysNext == \E o \in Reportable : Deliver(o)

ArraysSpec == ArraysInit /\ [][ArraysNext]_arrays
-----------------------------------------------------------------------------
\* The result does not depend on the order of the rows: the array algorithm
\* accepts, explains and flags exactly what the set of rows determines
\* (dedup.ts, the comments above compareCandidates and on the bucket sort).
OrderIndependent ==
    array # <<>> =>
        LET obs == Range(array)
        IN  /\ resolution.winner = Winner(at, obs)
            /\ resolution.rule = Rule(at, obs)
            /\ resolution.hasConflict = HasConflict(obs)
            /\ \A o \in obs : [recordId |-> o.recordId, role |-> Role(at, obs, o)]
                                \in Range(resolution.contributions)

\* Every row is accounted for exactly once, so createMany never meets the
\* unique key on (canonicalEventId, sourceRecordId) and no row is forgotten.
EachRowContributesOnce ==
    array # <<>> =>
        /\ Len(resolution.contributions) = Len(array)
        /\ {resolution.contributions[i].recordId : i \in DOMAIN array}
             = {o.recordId : o \in Range(array)}
        /\ Cardinality({i \in DOMAIN array : resolution.contributions[i].role = "WINNER"}) = 1

\* An unexpected source never outranks a required one: when any kind of source
\* the station lists has reported, the first listed kind that has is believed
\* (stations.ts, STATION_AUTHORITY and the comment above it).
RequiredSourceIsBelieved ==
    array # <<>> =>
        LET ranking  == STATION_AUTHORITY[at]
            reported == {i \in DOMAIN ranking :
                            \E o \in Range(array) : o.sourceType = ranking[i]}
        IN  reported # {} =>
                \E i \in reported : /\ resolution.winner.sourceType = ranking[i]
                                    /\ \A j \in reported : i <= j

\* One more row dislodges the accepted observation only by being accepted
\* itself, or by being an earlier sighting of the one that was accepted.
OnlyBetterRowsDislodge ==
    [][array # <<>> /\ resolution'.winner # resolution.winner =>
          LET new == array'[Len(array')]
          IN  \/ resolution'.winner = new
              \/ /\ SameIdentity(new, resolution.winner)
                 /\ EarlierSighting(new, resolution.winner)]_arrays

\* A repeat that is no earlier than the sighting kept changes nothing that is
\* accepted: collecting the same rows again is harmless.
RepeatsAreHarmless ==
    [][LET new == array'[Len(array')]
       IN  (\E o \in Range(array) : SameIdentity(o, new) /\ ~ EarlierSighting(new, o))
             => /\ resolution'.winner = resolution.winner
                /\ resolution'.rule = resolution.rule
                /\ resolution'.hasConflict = resolution.hasConflict]_arrays
=============================================================================
