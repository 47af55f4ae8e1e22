---------------------------- MODULE Ledger_proofs ----------------------------
(***************************************************************************)
(* That the deduplication policy is well defined: among the observations   *)
(* of a batch and station, however many, there is exactly one winner, and  *)
(* the order that selects it is a strict total order.  That the array      *)
(* algorithm computes it, of any array of rows in any order.  And what     *)
(* holds of the tables, where the policy's outcome is kept, for any        *)
(* sources, batches and collectors, after any sequence of the ledger's     *)
(* steps.                                                                  *)
(***************************************************************************)
EXTENDS Ledger, DedupArrays, Counting, SequenceTheorems

\* The stations are those of the line.
LEMMA StationsAre ==
    Station = {"RECEIVING", "SORTING", "WASHING", "DRYING", "FOLDING", "DISPATCH"}
<1>1. 1..6 = {1, 2, 3, 4, 5, 6}
  OBVIOUS
<1>. QED
  BY <1>1 DEF Station, STATION_ORDER

\* Positions are 0 to 5.
LEMMA IndexIsBounded ==
    ASSUME NEW s \in Station
    PROVE  StationIndex(s) \in 0..5
<1>1. \E i \in 1..6 : STATION_ORDER[i] = s
  BY DEF Station
<1>. QED
  BY <1>1 DEF StationIndex

\* Every station names the source types it believes, in order.
LEMMA RankingsAreSequences ==
    ASSUME NEW station \in Station
    PROVE  /\ Len(STATION_AUTHORITY[station]) \in Nat
           /\ DOMAIN STATION_AUTHORITY[station] \subseteq Nat \ {0}
<1>1. /\ STATION_AUTHORITY["RECEIVING"] = <<"CRAWLER", "APPLICATION_API", "DATABASE">>
      /\ STATION_AUTHORITY["SORTING"] = <<"DATABASE", "APPLICATION_API">>
      /\ STATION_AUTHORITY["WASHING"] = <<"DATABASE", "MQTT", "APPLICATION_API">>
      /\ STATION_AUTHORITY["DRYING"] = <<"DATABASE", "MQTT", "APPLICATION_API">>
      /\ STATION_AUTHORITY["FOLDING"] = <<"DATABASE", "APPLICATION_API">>
      /\ STATION_AUTHORITY["DISPATCH"] = <<"APPLICATION_API", "DATABASE">>
  BY DEF STATION_AUTHORITY
<1>2. \A a, b : Len(<<a, b>>) = 2 /\ DOMAIN <<a, b>> = 1..2
  OBVIOUS
<1>3. \A a, b, c : Len(<<a, b, c>>) = 3 /\ DOMAIN <<a, b, c>> = 1..3
  OBVIOUS
<1>. QED
  BY <1>1, <1>2, <1>3, StationsAre

\* A rank is a number, also for a source type the station does not name.
LEMMA RankIsNatural ==
    ASSUME NEW station \in Station, NEW type \in SourceType
    PROVE  AuthorityRank(station, type) \in Nat
<1>. DEFINE ranking == STATION_AUTHORITY[station]
<1>1. CASE IsListed(station, type)
  <2>1. (CHOOSE i \in DOMAIN ranking : ranking[i] = type) \in DOMAIN ranking
    BY <1>1 DEF IsListed
  <2>. QED
    BY <1>1, <2>1, RankingsAreSequences DEF AuthorityRank
<1>2. CASE ~ IsListed(station, type)
  BY <1>2, RankingsAreSequences DEF AuthorityRank
<1>. QED
  BY <1>1, <1>2

(***************************************************************************)
(* compareCandidates is a strict total order (dedup.ts:71-75).             *)
(***************************************************************************)
LEMMA CompareIsIrreflexive ==
    ASSUME NEW station \in Station, NEW a \in Observation
    PROVE  ~ CompareCandidates(station, a, a)
<1>1. AuthorityRank(station, a.sourceType) \in Nat
  BY RankIsNatural DEF Observation
<1>. QED
  BY <1>1 DEF CompareCandidates, Observation

\* The order of observations is transitive.
LEMMA CompareIsTransitive ==
    ASSUME NEW station \in Station,
           NEW a \in Observation, NEW b \in Observation, NEW c \in Observation,
           CompareCandidates(station, a, b), CompareCandidates(station, b, c)
    PROVE  CompareCandidates(station, a, c)
<1>1. /\ AuthorityRank(station, a.sourceType) \in Nat
      /\ AuthorityRank(station, b.sourceType) \in Nat
      /\ AuthorityRank(station, c.sourceType) \in Nat
  BY RankIsNatural DEF Observation
<1>. QED
  BY <1>1 DEF CompareCandidates, Observation

\* Of two observations one comes first, or both are the same record.
LEMMA CompareIsTotal ==
    ASSUME NEW station \in Station,
           NEW a \in Observation, NEW b \in Observation,
           a.recordId # b.recordId
    PROVE  CompareCandidates(station, a, b) \/ CompareCandidates(station, b, a)
<1>1. /\ AuthorityRank(station, a.sourceType) \in Nat
      /\ AuthorityRank(station, b.sourceType) \in Nat
  BY RankIsNatural DEF Observation
<1>. QED
  BY <1>1 DEF CompareCandidates, Observation

(***************************************************************************)
(* The minimum exists: minimise the four criteria one after the other.     *)
(***************************************************************************)
LEMMA FirstExists ==
    ASSUME NEW station \in Station,
           NEW cands \in SUBSET Observation, cands # {}, HasDistinctIds(cands)
    PROVE  \E w \in cands : IsFirst(station, cands, w)
<1>. DEFINE rank(o) == AuthorityRank(station, o.sourceType)
            best == {o \in cands : \A p \in cands : rank(o) <= rank(p)}
            soonest == {o \in best : \A p \in best : o.occurredAt <= p.occurredAt}
            lowest == {o \in soonest :
                          \A p \in soonest : o.sourceRecordId <= p.sourceRecordId}
<1>1. \A o \in cands : rank(o) \in Nat
  BY RankIsNatural DEF Observation
<1>2. best # {}
  <2>1. /\ {rank(o) : o \in cands} \subseteq Nat
        /\ {rank(o) : o \in cands} # {}
    BY <1>1
  <2>2. PICK m \in {rank(o) : o \in cands} : \A n \in {rank(o) : o \in cands} : m <= n
    BY <2>1, LeastNatural
  <2>. QED
    BY <2>2
<1>3. soonest # {}
  <2>1. /\ {o.occurredAt : o \in best} \subseteq Nat
        /\ {o.occurredAt : o \in best} # {}
    BY <1>2 DEF Observation
  <2>2. PICK m \in {o.occurredAt : o \in best} :
            \A n \in {o.occurredAt : o \in best} : m <= n
    BY <2>1, LeastNatural
  <2>. QED
    BY <2>2
<1>4. lowest # {}
  <2>1. /\ {o.sourceRecordId : o \in soonest} \subseteq Nat
        /\ {o.sourceRecordId : o \in soonest} # {}
    BY <1>3 DEF Observation
  <2>2. PICK m \in {o.sourceRecordId : o \in soonest} :
            \A n \in {o.sourceRecordId : o \in soonest} : m <= n
    BY <2>1, LeastNatural
  <2>. QED
    BY <2>2
<1>5. PICK w \in lowest : \A p \in lowest : w.recordId <= p.recordId
  <2>1. /\ {o.recordId : o \in lowest} \subseteq Nat
        /\ {o.recordId : o \in lowest} # {}
    BY <1>4 DEF Observation
  <2>2. PICK m \in {o.recordId : o \in lowest} :
            \A n \in {o.recordId : o \in lowest} : m <= n
    BY <2>1, LeastNatural
  <2>. QED
    BY <2>2
<1>6. ASSUME NEW c \in cands \ {w}
      PROVE  CompareCandidates(station, w, c)
  <2>1. /\ rank(w) \in Nat /\ rank(c) \in Nat
        /\ w.occurredAt \in Nat /\ c.occurredAt \in Nat
        /\ w.sourceRecordId \in Nat /\ c.sourceRecordId \in Nat
        /\ w.recordId \in Nat /\ c.recordId \in Nat
    BY <1>1 DEF Observation
  <2>2. w.recordId # c.recordId
    BY DEF HasDistinctIds
  <2>3. rank(w) <= rank(c)
    OBVIOUS
  <2>4. rank(w) = rank(c) => w.occurredAt <= c.occurredAt
    BY <2>1
  <2>5. rank(w) = rank(c) /\ w.occurredAt = c.occurredAt
          => w.sourceRecordId <= c.sourceRecordId
    BY <2>1
  <2>6. rank(w) = rank(c) /\ w.occurredAt = c.occurredAt
          /\ w.sourceRecordId = c.sourceRecordId => w.recordId <= c.recordId
    BY <1>5, <2>1
  <2>. QED
    BY <2>1, <2>2, <2>3, <2>4, <2>5, <2>6 DEF CompareCandidates
<1>. QED
  BY <1>6 DEF IsFirst

\* No two observations of a group both come first.
LEMMA FirstIsUnique ==
    ASSUME NEW station \in Station,
           NEW cands \in SUBSET Observation,
           NEW v, IsFirst(station, cands, v),
           NEW w, IsFirst(station, cands, w)
    PROVE  v = w
<1>1. SUFFICES ASSUME v # w PROVE FALSE
  OBVIOUS
<1>2. CompareCandidates(station, v, w) /\ CompareCandidates(station, w, v)
  BY <1>1 DEF IsFirst
<1>3. v \in Observation /\ w \in Observation
  BY DEF IsFirst
<1>. QED
  BY <1>2, <1>3, CompareIsTransitive, CompareIsIrreflexive

(***************************************************************************)
(* Of every identity one sighting is kept.                                 *)
(***************************************************************************)
LEMMA SightingIsKept ==
    ASSUME NEW obs \in SUBSET Observation, HasDistinctIds(obs), NEW o \in obs
    PROVE  \E k \in Candidates(obs) : SameIdentity(o, k)
<1>. DEFINE bucket == {p \in obs : SameIdentity(o, p)}
            earliest == {p \in bucket : \A q \in bucket : p.observedAt <= q.observedAt}
<1>1. o \in bucket
  BY DEF SameIdentity
<1>2. earliest # {}
  <2>1. /\ {p.observedAt : p \in bucket} \subseteq Nat
        /\ {p.observedAt : p \in bucket} # {}
    BY <1>1 DEF Observation
  <2>2. PICK m \in {p.observedAt : p \in bucket} :
            \A n \in {p.observedAt : p \in bucket} : m <= n
    BY <2>1, LeastNatural
  <2>. QED
    BY <2>2
<1>3. PICK k \in earliest : \A p \in earliest : k.recordId <= p.recordId
  <2>1. /\ {p.recordId : p \in earliest} \subseteq Nat
        /\ {p.recordId : p \in earliest} # {}
    BY <1>2 DEF Observation
  <2>2. PICK m \in {p.recordId : p \in earliest} :
            \A n \in {p.recordId : p \in earliest} : m <= n
    BY <2>1, LeastNatural
  <2>. QED
    BY <2>2
<1>4. ASSUME NEW p \in obs, SameIdentity(k, p), p # k
      PROVE  EarlierSighting(k, p)
  <2>1. p \in bucket
    BY <1>4 DEF SameIdentity
  <2>2. /\ k.observedAt \in Nat /\ p.observedAt \in Nat
        /\ k.recordId \in Nat /\ p.recordId \in Nat
    BY DEF Observation
  <2>3. k.recordId # p.recordId
    BY <1>4 DEF HasDistinctIds
  <2>4. k.observedAt <= p.observedAt
    BY <2>1
  <2>5. k.observedAt = p.observedAt => k.recordId <= p.recordId
    BY <1>3, <2>1, <2>2
  <2>. QED
    BY <2>2, <2>3, <2>4, <2>5 DEF EarlierSighting
<1>. QED
  BY <1>4 DEF Candidates

(***************************************************************************)
(* Whatever was observed, exactly one candidate is accepted: resolution is *)
(* a function of the set of observations (dedup.ts:123-201).               *)
(***************************************************************************)
THEOREM ResolutionIsDeterministic ==
    ASSUME NEW station \in Station,
           NEW obs \in SUBSET Observation, HasDistinctIds(obs), obs # {}
    PROVE  /\ Winner(station, obs) \in Candidates(obs)
           /\ IsFirst(station, Candidates(obs), Winner(station, obs))
           /\ \A w : IsFirst(station, Candidates(obs), w) => w = Winner(station, obs)
<1>1. Candidates(obs) # {}
  BY SightingIsKept
<1>2. /\ Candidates(obs) \in SUBSET Observation
      /\ HasDistinctIds(Candidates(obs))
  BY DEF Candidates, HasDistinctIds
<1>3. \E w \in Candidates(obs) : IsFirst(station, Candidates(obs), w)
  BY <1>1, <1>2, FirstExists
<1>4. /\ Winner(station, obs) \in Candidates(obs)
      /\ IsFirst(station, Candidates(obs), Winner(station, obs))
  BY <1>3 DEF Winner
<1>. QED
  BY <1>2, <1>4, FirstIsUnique

(***************************************************************************)
(* Nothing a source said is passed over silently: every observation is     *)
(* the winner, or stands behind the winner, or repeats a candidate that    *)
(* was sighted no later (dedup.ts:133-183).                                *)
(***************************************************************************)
THEOREM EveryObservationIsExplained ==
    ASSUME NEW station \in Station,
           NEW obs \in SUBSET Observation, HasDistinctIds(obs), NEW o \in obs
    PROVE  \/ Role(station, obs, o) = "WINNER" /\ o = Winner(station, obs)
           \/ /\ Role(station, obs, o) = "SUPERSEDED"
              /\ CompareCandidates(station, Winner(station, obs), o)
           \/ /\ Role(station, obs, o) = "DUPLICATE"
              /\ \E k \in Candidates(obs) : SameIdentity(o, k) /\ EarlierSighting(k, o)
<1>1. CASE o \in Candidates(obs)
  BY <1>1, ResolutionIsDeterministic DEF Role, IsFirst
<1>2. CASE o \notin Candidates(obs)
  <2>1. PICK k \in Candidates(obs) : SameIdentity(o, k)
    BY SightingIsKept
  <2>2. EarlierSighting(k, o)
    BY <1>2, <2>1 DEF Candidates, SameIdentity
  <2>. QED
    BY <1>2, <2>1, <2>2 DEF Role
<1>. QED
  BY <1>1, <1>2

(***************************************************************************)
(* The authority of a station's list (stations.ts, STATION_AUTHORITY).     *)
(***************************************************************************)
\* No station lists a kind of source twice.
LEMMA RankingsAreInjective ==
    ASSUME NEW station \in Station
    PROVE  LET ranking == STATION_AUTHORITY[station]
           IN  /\ DOMAIN ranking = 1..Len(ranking)
               /\ \A i, j \in DOMAIN ranking : ranking[i] = ranking[j] => i = j
<1>1. /\ STATION_AUTHORITY["RECEIVING"] = <<"CRAWLER", "APPLICATION_API", "DATABASE">>
      /\ STATION_AUTHORITY["SORTING"] = <<"DATABASE", "APPLICATION_API">>
      /\ STATION_AUTHORITY["WASHING"] = <<"DATABASE", "MQTT", "APPLICATION_API">>
      /\ STATION_AUTHORITY["DRYING"] = <<"DATABASE", "MQTT", "APPLICATION_API">>
      /\ STATION_AUTHORITY["FOLDING"] = <<"DATABASE", "APPLICATION_API">>
      /\ STATION_AUTHORITY["DISPATCH"] = <<"APPLICATION_API", "DATABASE">>
  BY DEF STATION_AUTHORITY
<1>2. \A a, b : a # b =>
         /\ DOMAIN <<a, b>> = 1..Len(<<a, b>>)
         /\ \A i, j \in DOMAIN <<a, b>> : <<a, b>>[i] = <<a, b>>[j] => i = j
  OBVIOUS
<1>3. \A a, b, c : a # b /\ b # c /\ a # c =>
         /\ DOMAIN <<a, b, c>> = 1..Len(<<a, b, c>>)
         /\ \A i, j \in DOMAIN <<a, b, c>> : <<a, b, c>>[i] = <<a, b, c>>[j] => i = j
  OBVIOUS
<1>. QED
  BY <1>1, <1>2, <1>3, StationsAre

\* The rank of a kind that is listed is its place in the list, and every other kind
\* comes behind.
LEMMA RankIsThePlace ==
    ASSUME NEW station \in Station, NEW type \in SourceType
    PROVE  LET ranking == STATION_AUTHORITY[station]
           IN  /\ \A i \in DOMAIN ranking :
                     ranking[i] = type => AuthorityRank(station, type) = i - 1
               /\ AuthorityRank(station, type) < Len(ranking) =>
                     \E i \in DOMAIN ranking : ranking[i] = type
<1>. DEFINE ranking == STATION_AUTHORITY[station]
<1>1. /\ Len(ranking) \in Nat /\ DOMAIN ranking = 1..Len(ranking)
      /\ \A i, j \in DOMAIN ranking : ranking[i] = ranking[j] => i = j
  BY RankingsAreSequences, RankingsAreInjective
<1>2. ASSUME NEW i \in DOMAIN ranking, ranking[i] = type
      PROVE  AuthorityRank(station, type) = i - 1
  <2>1. IsListed(station, type)
    BY <1>2 DEF IsListed
  <2>2. (CHOOSE j \in DOMAIN ranking : ranking[j] = type) = i
    BY <1>1, <1>2
  <2>. QED
    BY <2>1, <2>2 DEF AuthorityRank
<1>3. ASSUME AuthorityRank(station, type) < Len(ranking)
      PROVE  \E i \in DOMAIN ranking : ranking[i] = type
  BY <1>1, <1>3 DEF AuthorityRank, IsListed
<1>. QED
  BY <1>2, <1>3

\* Nobody who reported has more authority than the one who is believed, although a
\* repeat is dropped before authorities are compared.
LEMMA WinnerHasAuthority ==
    ASSUME NEW station \in Station,
           NEW obs \in SUBSET Observation, HasDistinctIds(obs), IsOfOneKind(obs),
           NEW o \in obs
    PROVE  AuthorityRank(station, Winner(station, obs).sourceType)
             <= AuthorityRank(station, o.sourceType)
<1>1. PICK k \in Candidates(obs) : SameIdentity(o, k)
  BY SightingIsKept
<1>2. k \in obs /\ k.sourceType = o.sourceType
  BY <1>1 DEF Candidates, SameIdentity, IsOfOneKind
<1>3. PICK w : w = Winner(station, obs)
  OBVIOUS
<1>4. w \in Candidates(obs) /\ (w = k \/ CompareCandidates(station, w, k))
  BY <1>1, <1>3, ResolutionIsDeterministic DEF IsFirst
<1>5. /\ AuthorityRank(station, w.sourceType) \in Nat
      /\ AuthorityRank(station, k.sourceType) \in Nat
  <2>1. w \in Observation /\ k \in Observation
    BY <1>2, <1>4 DEF Candidates
  <2>. QED
    BY <2>1, RankIsNatural DEF Observation
<1>. QED
  BY <1>2, <1>3, <1>4, <1>5 DEF CompareCandidates

\* However many sources reported, and whoever was first: when a kind the station lists
\* is among them, the first such kind in the list is believed (stations.ts:40-52,
\* dedup.ts:60-75).
THEOREM RequiredSourceBelieved ==
    ASSUME NEW station \in Station,
           NEW obs \in SUBSET Observation, HasDistinctIds(obs), IsOfOneKind(obs)
    PROVE  LET ranking  == STATION_AUTHORITY[station]
               reported == {i \in DOMAIN ranking : \E o \in obs : o.sourceType = ranking[i]}
           IN  reported # {} =>
                   \E i \in reported : /\ Winner(station, obs).sourceType = ranking[i]
                                       /\ \A j \in reported : i <= j
<1>. DEFINE ranking  == STATION_AUTHORITY[station]
            reported == {i \in DOMAIN ranking : \E o \in obs : o.sourceType = ranking[i]}
<1>. SUFFICES ASSUME reported # {}
              PROVE  \E i \in reported : /\ Winner(station, obs).sourceType = ranking[i]
                                         /\ \A j \in reported : i <= j
  OBVIOUS
<1>1. PICK w : w = Winner(station, obs)
  OBVIOUS
<1>2. w \in obs /\ w.sourceType \in SourceType
  <2>1. obs # {}
    OBVIOUS
  <2>2. w \in Candidates(obs)
    BY <1>1, <2>1, ResolutionIsDeterministic
  <2>. QED
    BY <2>2 DEF Candidates, Observation
<1>3. Len(ranking) \in Nat /\ DOMAIN ranking = 1..Len(ranking)
  BY RankingsAreSequences, RankingsAreInjective
<1>4. ASSUME NEW j \in reported
      PROVE  AuthorityRank(station, w.sourceType) <= j - 1
  <2>1. PICK o \in obs : o.sourceType = ranking[j]
    OBVIOUS
  <2>2. AuthorityRank(station, o.sourceType) = j - 1
    BY <2>1, RankIsThePlace DEF Observation
  <2>. QED
    BY <1>1, <2>2, WinnerHasAuthority
<1>5. AuthorityRank(station, w.sourceType) \in Nat
  BY <1>2, RankIsNatural
<1>6. AuthorityRank(station, w.sourceType) < Len(ranking)
  <2>1. PICK j \in reported : TRUE
    OBVIOUS
  <2>2. j \in 1..Len(ranking)
    BY <1>3
  <2>. QED
    BY <1>3, <1>4, <1>5, <2>2
<1>7. PICK i \in DOMAIN ranking : ranking[i] = w.sourceType
  BY <1>2, <1>6, RankIsThePlace
<1>8. AuthorityRank(station, w.sourceType) = i - 1
  BY <1>2, <1>7, RankIsThePlace
<1>9. i \in reported
  BY <1>2, <1>7
<1>10. \A j \in reported : j \in Nat /\ i \in Nat /\ i - 1 <= j - 1
  BY <1>3, <1>4, <1>7, <1>8
<1>. QED
  BY <1>1, <1>7, <1>9, <1>10

(***************************************************************************)
(* What is accepted when one more observation is stored.                   *)
(***************************************************************************)
\* Of two records of one observation one was sighted earlier.
LEMMA SightingsAreOrdered ==
    ASSUME NEW a \in Observation, NEW b \in Observation, NEW c \in Observation
    PROVE  /\ a.recordId # b.recordId => EarlierSighting(a, b) \/ EarlierSighting(b, a)
           /\ EarlierSighting(a, b) /\ EarlierSighting(b, c) => EarlierSighting(a, c)
BY DEF EarlierSighting, Observation

\* One observation more dislodges the accepted one only if it is accepted itself, or is
\* an earlier sighting of the one that was accepted (dedup.ts:133-165).
THEOREM OnlyBetterObservationsDislodge ==
    ASSUME NEW station \in Station, NEW obs \in SUBSET Observation, obs # {},
           NEW new \in Observation, HasDistinctIds(obs \cup {new}),
           Winner(station, obs \cup {new}) # Winner(station, obs)
    PROVE  \/ Winner(station, obs \cup {new}) = new
           \/ /\ SameIdentity(new, Winner(station, obs))
              /\ EarlierSighting(new, Winner(station, obs))
<1>. DEFINE more == obs \cup {new}
<1>1. PICK w, v : w = Winner(station, obs) /\ v = Winner(station, more)
  OBVIOUS
<1>2. more \in SUBSET Observation /\ HasDistinctIds(obs) /\ HasDistinctIds(more)
  BY DEF HasDistinctIds
<1>. HIDE DEF more
<1>3. /\ w \in Candidates(obs) /\ IsFirst(station, Candidates(obs), w)
      /\ v \in Candidates(more) /\ IsFirst(station, Candidates(more), v)
  BY <1>1, <1>2, ResolutionIsDeterministic DEF more
<1>4. SUFFICES ASSUME v # new PROVE SameIdentity(new, w) /\ EarlierSighting(new, w)
  BY <1>1 DEF more
<1>5. v \in Candidates(obs) /\ v # w
  BY <1>1, <1>3, <1>4 DEF Candidates, more
<1>6. w \in obs /\ v \in obs /\ w \in Observation /\ v \in Observation
  BY <1>3, <1>5 DEF Candidates
<1>7. CompareCandidates(station, w, v)
  BY <1>3, <1>5 DEF IsFirst
<1>8. w \notin Candidates(more)
  <2>1. w \in Candidates(more) => CompareCandidates(station, v, w)
    BY <1>3, <1>5 DEF IsFirst
  <2>. QED
    BY <1>6, <1>7, <2>1, CompareIsTransitive, CompareIsIrreflexive
<1>9. PICK p \in more : SameIdentity(w, p) /\ p # w /\ ~ EarlierSighting(w, p)
  BY <1>6, <1>8 DEF Candidates, more
<1>10. p = new
  BY <1>3, <1>9 DEF Candidates, more
<1>11. w.recordId # new.recordId
  BY <1>2, <1>6, <1>9, <1>10 DEF HasDistinctIds, more
<1>. QED
  BY <1>6, <1>9, <1>10, <1>11, SightingsAreOrdered DEF SameIdentity

\* To collect a row again changes nothing that is accepted, nor why, nor whether the
\* sources disagree (dedup.ts:133-165).
THEOREM RepeatsChangeNothing ==
    ASSUME NEW station \in Station, NEW obs \in SUBSET Observation,
           NEW new \in Observation, HasDistinctIds(obs \cup {new}),
           NEW o \in obs, SameIdentity(o, new), ~ EarlierSighting(new, o)
    PROVE  /\ Candidates(obs \cup {new}) = Candidates(obs)
           /\ Winner(station, obs \cup {new}) = Winner(station, obs)
           /\ Rule(station, obs \cup {new}) = Rule(station, obs)
           /\ HasConflict(obs \cup {new}) <=> HasConflict(obs)
<1>. DEFINE more == obs \cup {new}
<1>1. Candidates(more) = Candidates(obs)
  <2>1. CASE new \in obs
    BY <2>1
  <2>2. CASE new \notin obs
    <3>1. new \notin Candidates(more) /\ o # new /\ o.recordId # new.recordId
      BY <2>2 DEF Candidates, SameIdentity, HasDistinctIds
    <3>2. EarlierSighting(o, new)
      BY <3>1, SightingsAreOrdered
    <3>3. ASSUME NEW c \in Candidates(obs), SameIdentity(c, new)
          PROVE  EarlierSighting(c, new)
      <4>1. c \in obs /\ SameIdentity(c, o)
        BY <3>3 DEF Candidates, SameIdentity
      <4>2. c = o \/ EarlierSighting(c, o)
        BY <4>1 DEF Candidates
      <4>3. c \in Observation /\ o \in Observation
        BY <4>1
      <4>. QED
        BY <3>2, <4>2, <4>3, SightingsAreOrdered
    <3>4. Candidates(obs) \subseteq Candidates(more)
      BY <3>3 DEF Candidates
    <3>5. Candidates(more) \subseteq Candidates(obs)
      BY <3>1 DEF Candidates
    <3>. QED
      BY <3>4, <3>5
  <2>. QED
    BY <2>1, <2>2
<1>. HIDE DEF more
<1>2. Winner(station, more) = Winner(station, obs)
  BY <1>1 DEF Winner
<1>3. RunnerUp(station, more) = RunnerUp(station, obs)
  BY <1>1, <1>2 DEF RunnerUp
<1>4. Rule(station, more) = Rule(station, obs)
  BY <1>1, <1>2, <1>3 DEF Rule
<1>5. HasConflict(more) <=> HasConflict(obs)
  BY <1>1 DEF HasConflict
<1>. QED
  BY <1>1, <1>2, <1>4, <1>5 DEF more
-----------------------------------------------------------------------------
(***************************************************************************)
(* The array algorithm: the invariant is that the buckets partition the    *)
(* rows read so far by their identity, and what is flattened, sorted and   *)
(* concatenated of them lists each row once (dedup.ts:119-201).            *)
(***************************************************************************)
\* The buckets of the first loop: each is the list of the observations of one identity,
\* and every observation is in one.
IsBucketed(buckets, obs) ==
    /\ buckets \in Seq(Seq(obs) \ {<<>>})
    /\ \A k \in DOMAIN buckets :
           Lists(buckets[k], {o \in obs : SameIdentity(o, buckets[k][1])})
    /\ \A k, l \in DOMAIN buckets : SameIdentity(buckets[k][1], buckets[l][1]) => k = l
    /\ \A o \in obs : \E k \in DOMAIN buckets : SameIdentity(o, buckets[k][1])

\* A bucket is sorted by who was sighted first.
LEMMA BucketIsOrdered ==
    ASSUME NEW s, NEW S \in SUBSET Observation, HasDistinctIds(S), Lists(s, S)
    PROVE  /\ Lists(Ordered(s), S) /\ Len(Ordered(s)) = Len(s)
           /\ \A k, l \in 1..Len(s) :
                  k < l => EarlierSighting(Ordered(s)[k], Ordered(s)[l])
<1>. DEFINE B == {p \in S \X S : EarlierSighting(p[1], p[2])}
            n == Len(s)
<1>1. \A x, y \in S : <<x, y>> \in B <=> EarlierSighting(x, y)
  OBVIOUS
<1>. HIDE DEF B
<1>2. /\ \A x \in S : ~ EarlierSighting(x, x)
      /\ \A x, y \in S : x # y => EarlierSighting(x, y) \/ EarlierSighting(y, x)
      /\ \A x, y, z \in S :
             EarlierSighting(x, y) /\ EarlierSighting(y, z) => EarlierSighting(x, z)
  <2>1. \A x \in S : ~ EarlierSighting(x, x)
    BY DEF EarlierSighting, Observation
  <2>. QED
    BY <2>1, SightingsAreOrdered DEF HasDistinctIds
<1>3. /\ DOMAIN s = 1..n /\ \A i \in 1..n : s[i] \in S
      /\ \A i, j \in 1..n : s[i] = s[j] => i = j
  BY ListIsAsLong, ElementOfSeq DEF Lists
<1>4. PICK f : SortsBy(f, s, S, B)
  <2>1. IsStrictOrder(B, S)
    BY <1>1, <1>2 DEF IsStrictOrder
  <2>. QED
    BY <2>1, RanksSort
<1>. DEFINE t == [k \in 1..n |-> s[f[k]]]
<1>9. /\ f \in [1..n -> 1..n]
      /\ \A k, i \in 1..n :
             Cardinality({j \in 1..n : <<s[j], s[i]>> \in B}) = k - 1 <=> i = f[k]
      /\ Lists(t, S) /\ Len(t) = n
      /\ \A k, l \in 1..n : k < l => <<t[k], t[l]>> \in B
  BY <1>4 DEF SortsBy
<1>. DEFINE Ahead(i, j) == \/ EarlierSighting(s[i], s[j])
                           \/ ~ EarlierSighting(s[j], s[i]) /\ i < j
            place(k) == CHOOSE i \in 1..n : Cardinality({j \in 1..n : Ahead(j, i)}) = k - 1
<1>5. ASSUME NEW i \in 1..n
      PROVE  {j \in 1..n : Ahead(j, i)} = {j \in 1..n : <<s[j], s[i]>> \in B}
  <2>1. ASSUME NEW j \in 1..n PROVE Ahead(j, i) <=> <<s[j], s[i]>> \in B
    <3>1. i = j \/ EarlierSighting(s[i], s[j]) \/ EarlierSighting(s[j], s[i])
      BY <1>2, <1>3
    <3>2. ~ (j < j) /\ ~ EarlierSighting(s[j], s[j])
      BY <1>2, <1>3
    <3>3. <<s[j], s[i]>> \in B <=> EarlierSighting(s[j], s[i])
      BY <1>1, <1>3
    <3>. QED
      BY <3>1, <3>2, <3>3
  <2>. QED
    BY <2>1
<1>. HIDE DEF Ahead, n
<1>6. ASSUME NEW k \in 1..n
      PROVE  place(k) = f[k]
  <2>1. \A i \in 1..n : Cardinality({j \in 1..n : Ahead(j, i)}) = k - 1 <=> i = f[k]
    BY <1>5, <1>9
  <2>. QED
    BY <1>9, <2>1
<1>7. Ordered(s) = [k \in 1..n |-> s[place(k)]]
  BY <1>3 DEF Ordered, StableSort, Ahead
<1>8. Ordered(s) = [k \in 1..n |-> s[f[k]]]
  BY <1>6, <1>7
<1>10. \A k, l \in 1..n : k < l => EarlierSighting(t[k], t[l])
  <2>1. \A k \in 1..n : t[k] \in S
    BY <1>3, <1>9
  <2>. QED
    BY <1>1, <1>9, <2>1
<1>. QED
  BY <1>8, <1>9, <1>10 DEF n

\* The candidates are sorted by who is to be believed.
LEMMA CandidatesAreRanked ==
    ASSUME NEW station \in Station,
           NEW s, NEW S \in SUBSET Observation, HasDistinctIds(S), Lists(s, S)
    PROVE  /\ Lists(Ranked(station, s), S) /\ Len(Ranked(station, s)) = Len(s)
           /\ \A k, l \in 1..Len(s) :
                  k < l => CompareCandidates(station, Ranked(station, s)[k],
                                             Ranked(station, s)[l])
<1>. DEFINE B == {p \in S \X S : CompareCandidates(station, p[1], p[2])}
            n == Len(s)
<1>1. \A x, y \in S : <<x, y>> \in B <=> CompareCandidates(station, x, y)
  OBVIOUS
<1>. HIDE DEF B
<1>2. /\ \A x \in S : ~ CompareCandidates(station, x, x)
      /\ \A x, y \in S :
             x # y => CompareCandidates(station, x, y) \/ CompareCandidates(station, y, x)
      /\ \A x, y, z \in S :
             CompareCandidates(station, x, y) /\ CompareCandidates(station, y, z)
               => CompareCandidates(station, x, z)
  BY CompareIsIrreflexive, CompareIsTransitive, CompareIsTotal DEF HasDistinctIds
<1>3. /\ DOMAIN s = 1..n /\ \A i \in 1..n : s[i] \in S
      /\ \A i, j \in 1..n : s[i] = s[j] => i = j
  BY ListIsAsLong, ElementOfSeq DEF Lists
<1>4. PICK f : SortsBy(f, s, S, B)
  <2>1. IsStrictOrder(B, S)
    BY <1>1, <1>2 DEF IsStrictOrder
  <2>. QED
    BY <2>1, RanksSort
<1>. DEFINE t == [k \in 1..n |-> s[f[k]]]
<1>9. /\ f \in [1..n -> 1..n]
      /\ \A k, i \in 1..n :
             Cardinality({j \in 1..n : <<s[j], s[i]>> \in B}) = k - 1 <=> i = f[k]
      /\ Lists(t, S) /\ Len(t) = n
      /\ \A k, l \in 1..n : k < l => <<t[k], t[l]>> \in B
  BY <1>4 DEF SortsBy
<1>. DEFINE Ahead(i, j) == \/ CompareCandidates(station, s[i], s[j])
                           \/ ~ CompareCandidates(station, s[j], s[i]) /\ i < j
            place(k) == CHOOSE i \in 1..n : Cardinality({j \in 1..n : Ahead(j, i)}) = k - 1
<1>5. ASSUME NEW i \in 1..n
      PROVE  {j \in 1..n : Ahead(j, i)} = {j \in 1..n : <<s[j], s[i]>> \in B}
  <2>1. ASSUME NEW j \in 1..n PROVE Ahead(j, i) <=> <<s[j], s[i]>> \in B
    <3>1. \/ i = j
          \/ CompareCandidates(station, s[i], s[j])
          \/ CompareCandidates(station, s[j], s[i])
      BY <1>2, <1>3
    <3>2. ~ (j < j) /\ ~ CompareCandidates(station, s[j], s[j])
      BY <1>2, <1>3
    <3>3. <<s[j], s[i]>> \in B <=> CompareCandidates(station, s[j], s[i])
      BY <1>1, <1>3
    <3>. QED
      BY <3>1, <3>2, <3>3
  <2>. QED
    BY <2>1
<1>. HIDE DEF Ahead, n
<1>6. ASSUME NEW k \in 1..n
      PROVE  place(k) = f[k]
  <2>1. \A i \in 1..n : Cardinality({j \in 1..n : Ahead(j, i)}) = k - 1 <=> i = f[k]
    BY <1>5, <1>9
  <2>. QED
    BY <1>9, <2>1
<1>7. Ranked(station, s) = [k \in 1..n |-> s[place(k)]]
  BY <1>3 DEF Ranked, StableSort, Ahead
<1>8. Ranked(station, s) = [k \in 1..n |-> s[f[k]]]
  BY <1>6, <1>7
<1>10. \A k, l \in 1..n : k < l => CompareCandidates(station, t[k], t[l])
  <2>1. \A k \in 1..n : t[k] \in S
    BY <1>3, <1>9
  <2>. QED
    BY <1>1, <1>9, <2>1
<1>. QED
  BY <1>8, <1>9, <1>10 DEF n

\* A row of the array goes to the bucket of its identity.
LEMMA PushKeepsBuckets ==
    ASSUME NEW obs, NEW buckets, IsBucketed(buckets, obs), NEW o, o \notin obs
    PROVE  IsBucketed(Push(buckets, o), obs \cup {o})
<1>. DEFINE n == Len(buckets)
            more == obs \cup {o}
            Of(S, p) == {q \in S : SameIdentity(q, p)}
<1>1. /\ n \in Nat /\ DOMAIN buckets = 1..n
      /\ \A k \in 1..n : /\ buckets[k] \in Seq(obs) \ {<<>>}
                         /\ Len(buckets[k]) \in Nat \ {0} /\ buckets[k][1] \in obs
  <2>1. buckets \in Seq(Seq(obs) \ {<<>>})
    BY DEF IsBucketed
  <2>2. /\ n \in Nat /\ DOMAIN buckets = 1..n
        /\ \A k \in 1..n : buckets[k] \in Seq(obs) \ {<<>>}
    BY <2>1, LenProperties, ElementOfSeq
  <2>3. ASSUME NEW k \in 1..n
        PROVE  Len(buckets[k]) \in Nat \ {0} /\ buckets[k][1] \in obs
    <3>1. buckets[k] \in Seq(obs) /\ buckets[k] # <<>>
      BY <2>2
    <3>2. Len(buckets[k]) \in Nat \ {0}
      BY <3>1, LenProperties, EmptySeq
    <3>. QED
      BY <3>1, <3>2, ElementOfSeq
  <2>. QED
    BY <2>2, <2>3
<1>2. /\ \A k \in 1..n : Lists(buckets[k], Of(obs, buckets[k][1]))
      /\ \A k, l \in 1..n : SameIdentity(buckets[k][1], buckets[l][1]) => k = l
      /\ \A p \in obs : \E k \in 1..n : SameIdentity(p, buckets[k][1])
  BY <1>1 DEF IsBucketed
<1>3. \A p, q : IdentityOf(p) = IdentityOf(q) <=> SameIdentity(p, q)
  BY DEF IdentityOf, SameIdentity
<1>4. /\ \A p, q, r : SameIdentity(p, q) /\ SameIdentity(q, r) => SameIdentity(p, r)
      /\ \A p, q : SameIdentity(p, q) => SameIdentity(q, p)
      /\ \A p : SameIdentity(p, p)
  BY DEF SameIdentity
<1>. HIDE DEF n
<1>5. CASE \A k \in 1..n : ~ SameIdentity(buckets[k][1], o)
  <2>. DEFINE next == Append(buckets, <<o>>)
  <2>1. Push(buckets, o) = next
    BY <1>1, <1>3, <1>5 DEF Push
  <2>2. /\ Len(next) = n + 1 /\ DOMAIN next = 1..(n + 1)
        /\ \A k \in 1..n : next[k] = buckets[k]
        /\ next[n + 1] = <<o>>
        /\ next \in Seq(Seq(more) \ {<<>>})
    <3>1. \A k \in 1..n : buckets[k] \in Seq(more) \ {<<>>}
      BY <1>1, SeqMonotonic
    <3>2. buckets \in Seq(Seq(more) \ {<<>>})
      BY <1>1, <3>1 DEF n, IsBucketed
    <3>3. <<o>> \in Seq(more) \ {<<>>}
      OBVIOUS
    <3>. QED
      BY <3>2, <3>3, AppendProperties, LenProperties DEF n
  <2>3. \A k \in 1..(n + 1) : k \in 1..n \/ k = n + 1
    BY <1>1
  <2>4. Lists(<<o>>, Of(more, o))
    <3>1. \A p \in obs : ~ SameIdentity(p, o)
      BY <1>2, <1>4, <1>5
    <3>2. Of(more, o) = {o}
      BY <1>4, <3>1
    <3>. QED
      BY <3>2 DEF Lists
  <2>5. \A k \in 1..n : Of(more, buckets[k][1]) = Of(obs, buckets[k][1])
    BY <1>4, <1>5
  <2>6. /\ \A k \in 1..n : next[k][1] = buckets[k][1]
        /\ next[n + 1][1] = o
    <3>1. <<o>>[1] = o
      OBVIOUS
    <3>. HIDE DEF next
    <3>. QED
      BY <2>2, <3>1
  <2>. HIDE DEF Of, next
  <2>7. \A k \in 1..(n + 1) : Lists(next[k], Of(more, next[k][1]))
    <3>. TAKE k \in 1..(n + 1)
    <3>1. CASE k \in 1..n
      BY <1>2, <2>2, <2>5, <2>6, <3>1
    <3>2. CASE k = n + 1
      BY <2>2, <2>4, <2>6, <3>2
    <3>. QED
      BY <2>3, <3>1, <3>2
  <2>8. \A k, l \in 1..(n + 1) : SameIdentity(next[k][1], next[l][1]) => k = l
    <3>. TAKE k, l \in 1..(n + 1)
    <3>. HAVE SameIdentity(next[k][1], next[l][1])
    <3>1. k \in 1..n /\ l \in 1..n => k = l
      BY <1>2, <2>6
    <3>2. k \in 1..n => l # n + 1
      BY <1>5, <2>6
    <3>3. l \in 1..n => k # n + 1
      BY <1>4, <1>5, <2>6
    <3>. QED
      BY <2>3, <3>1, <3>2, <3>3
  <2>9. \A p \in more : \E k \in 1..(n + 1) : SameIdentity(p, next[k][1])
    <3>. TAKE p \in more
    <3>1. 1..n \subseteq 1..(n + 1) /\ n + 1 \in 1..(n + 1)
      BY <1>1
    <3>2. CASE p = o
      BY <1>4, <2>6, <3>1, <3>2
    <3>3. CASE p \in obs
      <4>1. PICK k \in 1..n : SameIdentity(p, buckets[k][1])
        BY <1>2, <3>3
      <4>. QED
        BY <2>6, <3>1, <4>1
    <3>. QED
      BY <3>2, <3>3
  <2>. QED
    BY <2>1, <2>2, <2>7, <2>8, <2>9 DEF IsBucketed, Of
<1>6. CASE \E k \in 1..n : SameIdentity(buckets[k][1], o)
  <2>. DEFINE same == {k \in DOMAIN buckets : IdentityOf(buckets[k][1]) = IdentityOf(o)}
              j == CHOOSE k \in same : TRUE
              longer == Append(buckets[j], o)
              next == [buckets EXCEPT ![j] = longer]
  <2>1. same # {} /\ j \in same
    BY <1>1, <1>3, <1>6
  <2>2. Push(buckets, o) = next
    BY <2>1 DEF Push
  <2>3. j \in 1..n /\ SameIdentity(buckets[j][1], o)
    BY <1>1, <1>3, <2>1
  <2>. HIDE DEF j, same
  <2>4. /\ longer \in Seq(more) \ {<<>>} /\ longer[1] = buckets[j][1]
    <3>1. buckets[j] \in Seq(more) /\ o \in more /\ Len(buckets[j]) \in Nat \ {0}
      BY <1>1, <2>3, SeqMonotonic
    <3>2. longer \in Seq(more) /\ Len(longer) = Len(buckets[j]) + 1
      BY <3>1, AppendProperties
    <3>3. longer[1] = buckets[j][1]
      BY <3>1, AppendProperties
    <3>. QED
      BY <3>1, <3>2, <3>3, EmptySeq
  <2>5. Lists(longer, Of(more, buckets[j][1]))
    <3>1. /\ Of(more, buckets[j][1]) = Of(obs, buckets[j][1]) \cup {o}
          /\ o \notin Of(obs, buckets[j][1])
      BY <1>4, <2>3
    <3>. HIDE DEF Of
    <3>2. Lists(buckets[j], Of(obs, buckets[j][1]))
      BY <1>2, <2>3
    <3>3. Lists(longer, Of(obs, buckets[j][1]) \cup {o})
      BY <3>1, <3>2, ListOfOneMore
    <3>. QED
      BY <3>1, <3>3
  <2>6. /\ DOMAIN next = 1..n
        /\ next[j] = longer
        /\ \A k \in 1..n : k # j => next[k] = buckets[k]
    BY <1>1, <2>3
  <2>7. next \in Seq(Seq(more) \ {<<>>})
    <3>1. \A k \in 1..n : buckets[k] \in Seq(more) \ {<<>>}
      BY <1>1, SeqMonotonic
    <3>2. next \in [1..n -> Seq(more) \ {<<>>}]
      BY <1>1, <2>4, <2>6, <3>1
    <3>. QED
      BY <1>1, <3>2, SeqDef
  <2>8. \A k \in 1..n : k # j => Of(more, buckets[k][1]) = Of(obs, buckets[k][1])
    BY <1>2, <1>4, <2>3
  <2>9. \A k \in 1..n : next[k][1] = buckets[k][1]
    BY <2>4, <2>6
  <2>. HIDE DEF Of, longer, next
  <2>10. \A k \in 1..n : Lists(next[k], Of(more, next[k][1]))
    <3>. TAKE k \in 1..n
    <3>1. CASE k = j
      BY <2>5, <2>6, <2>9, <3>1
    <3>2. CASE k # j
      BY <1>2, <2>6, <2>8, <2>9, <3>2
    <3>. QED
      BY <3>1, <3>2
  <2>11. \A p \in more : \E k \in 1..n : SameIdentity(p, next[k][1])
    BY <1>2, <1>4, <2>3, <2>9
  <2>12. \A k, l \in 1..n : SameIdentity(next[k][1], next[l][1]) => k = l
    BY <1>2, <2>9
  <2>. QED
    BY <2>2, <2>6, <2>7, <2>10, <2>11, <2>12 DEF IsBucketed, Of
<1>. QED
  BY <1>5, <1>6

\* Flattened lists of sets that share nothing list all of them.
LEMMA FlattenedLists ==
    ASSUME NEW ss, NEW n \in Nat \ {0}, Len(ss) = n, NEW S, ListEach(ss, S, n)
    PROVE  Lists(Seqs!FlattenSeq(ss), UnionOfFirst(S, n))
<1>1. PICK joined : IsJoining(joined, ss, n)
  BY SequencesCanBeJoined
<1>. DEFINE flatten ==
              CHOOSE f : f = [i \in 1..n |-> IF i = 1 THEN ss[i] ELSE f[i-1] \o ss[i]]
<1>2. IsJoining(flatten, ss, n)
  BY <1>1 DEF IsJoining
<1>3. Seqs!FlattenSeq(ss) = flatten[n]
  BY DEF Seqs!FlattenSeq
<1>. HIDE DEF flatten
<1>4. n \in 1..n /\ n \in Nat
  OBVIOUS
<1>5. \A m \in 1..n : Lists(flatten[m], UnionOfFirst(S, m))
  BY <1>2, <1>4, ListOfAll
<1>. QED
  BY <1>3, <1>4, <1>5

\* The buckets' first rows list the candidates, and what is behind them the repeats.
LEMMA BucketsSplit ==
    ASSUME NEW obs \in SUBSET Observation, HasDistinctIds(obs), obs # {},
           NEW buckets, IsBucketed(buckets, obs)
    PROVE  /\ Lists(Seqs!FlattenSeq(
                        [k \in DOMAIN buckets |-> <<Head(Ordered(buckets[k]))>>]),
                    Candidates(obs))
           /\ Lists(Seqs!FlattenSeq([k \in DOMAIN buckets |-> Tail(Ordered(buckets[k]))]),
                    obs \ Candidates(obs))
<1>. DEFINE n == Len(buckets)
            Of(k) == {o \in obs : SameIdentity(o, buckets[k][1])}
            first(k) == Ordered(buckets[k])[1]
            heads == [k \in 1..n |-> <<Head(Ordered(buckets[k]))>>]
            tails == [k \in 1..n |-> Tail(Ordered(buckets[k]))]
            H == [k \in 1..n |-> {first(k)}]
            T == [k \in 1..n |-> Of(k) \ {first(k)}]
<1>1. /\ n \in Nat /\ DOMAIN buckets = 1..n
      /\ \A k \in 1..n : /\ buckets[k] \in Seq(obs) \ {<<>>}
                         /\ Lists(buckets[k], Of(k))
      /\ \A k, l \in 1..n : SameIdentity(buckets[k][1], buckets[l][1]) => k = l
      /\ \A o \in obs : \E k \in 1..n : SameIdentity(o, buckets[k][1])
  <2>1. buckets \in Seq(Seq(obs) \ {<<>>})
    BY DEF IsBucketed
  <2>2. /\ n \in Nat /\ DOMAIN buckets = 1..n
        /\ \A k \in 1..n : buckets[k] \in Seq(obs) \ {<<>>}
    BY <2>1, LenProperties, ElementOfSeq
  <2>. QED
    BY <2>2 DEF IsBucketed
<1>. HIDE DEF n
<1>2. /\ n \in Nat \ {0}
      /\ \A o \in obs : \E k \in 1..n : o \in Of(k)
  <2>1. \A o \in obs : \E k \in 1..n : o \in Of(k)
    BY <1>1
  <2>. QED
    BY <1>1, <2>1
<1>3. \A k, l \in 1..n : k # l => Of(k) \cap Of(l) = {}
  BY <1>1 DEF SameIdentity
<1>4. ASSUME NEW k \in 1..n
      PROVE  /\ first(k) \in Of(k) /\ Head(Ordered(buckets[k])) = first(k)
             /\ Lists(Tail(Ordered(buckets[k])), Of(k) \ {first(k)})
             /\ \A o \in Of(k) \ {first(k)} : EarlierSighting(first(k), o)
  <2>. DEFINE s == buckets[k]
              t == Ordered(s)
  <2>1. Lists(s, Of(k)) /\ Of(k) \in SUBSET Observation /\ HasDistinctIds(Of(k))
    BY <1>1 DEF HasDistinctIds
  <2>2. Len(s) \in Nat \ {0}
    BY <1>1, LenProperties, EmptySeq
  <2>. HIDE DEF s, Of
  <2>3. /\ Lists(t, Of(k)) /\ Len(t) = Len(s)
        /\ \A i, j \in 1..Len(s) : i < j => EarlierSighting(t[i], t[j])
    BY <2>1, BucketIsOrdered
  <2>. HIDE DEF t
  <2>4. t # <<>>
    BY <2>2, <2>3
  <2>5. Head(t) = t[1] /\ t[1] \in Of(k) /\ Lists(Tail(t), Of(k) \ {t[1]})
    BY <2>3, <2>4, ListOfOthers
  <2>6. ASSUME NEW o \in Of(k) \ {t[1]} PROVE EarlierSighting(t[1], o)
    <3>1. PICK i \in 1..Len(t) : t[i] = o
      BY <2>3 DEF Lists
    <3>2. 1 \in 1..Len(s) /\ i \in 1..Len(s) /\ 1 < i
      BY <2>2, <2>3, <3>1
    <3>. QED
      BY <2>3, <3>1, <3>2
  <2>. QED
    BY <2>5, <2>6 DEF t, s
<1>5. \A k \in 1..n : \A o \in Of(k) : o \in Candidates(obs) <=> o = first(k)
  <2>. TAKE k \in 1..n
  <2>. TAKE o \in Of(k)
  <2>1. \A p \in obs : SameIdentity(o, p) <=> p \in Of(k)
    BY DEF SameIdentity
  <2>2. ASSUME o = first(k) PROVE o \in Candidates(obs)
    <3>1. \A p \in obs : SameIdentity(o, p) /\ p # o => EarlierSighting(o, p)
      BY <1>4, <2>1, <2>2
    <3>. QED
      BY <3>1 DEF Candidates
  <2>3. ASSUME o # first(k) PROVE o \notin Candidates(obs)
    <3>1. first(k) \in obs /\ first(k) \in Of(k) /\ EarlierSighting(first(k), o)
      BY <1>4, <2>3
    <3>2. SameIdentity(o, first(k))
      BY <2>1, <3>1
    <3>3. ~ EarlierSighting(o, first(k))
      <4>1. o \in Observation /\ first(k) \in Observation
        BY <3>1
      <4>. HIDE DEF first
      <4>. QED
        BY <3>1, <4>1 DEF EarlierSighting, Observation
    <3>. QED
      BY <2>3, <3>1, <3>2, <3>3 DEF Candidates
  <2>. QED
    BY <2>2, <2>3
<1>6. UnionOfFirst(H, n) = Candidates(obs)
  <2>1. \A o \in Candidates(obs) : o \in obs
    BY DEF Candidates
  <2>2. \A k \in 1..n : first(k) \in Candidates(obs)
    BY <1>4, <1>5
  <2>3. \A o \in Candidates(obs) : \E k \in 1..n : o = first(k)
    BY <1>2, <1>5, <2>1
  <2>. HIDE DEF Of, first
  <2>. QED
    BY <2>2, <2>3 DEF UnionOfFirst
<1>7. UnionOfFirst(T, n) = obs \ Candidates(obs)
  <2>1. \A k \in 1..n : Of(k) \subseteq obs
    OBVIOUS
  <2>. HIDE DEF Of, first
  <2>. QED
    BY <1>2, <1>4, <1>5, <2>1 DEF UnionOfFirst
<1>. HIDE DEF Of, first
<1>8. Lists(Seqs!FlattenSeq(heads), Candidates(obs))
  <2>1. \A x : Lists(<<x>>, {x})
    BY DEF Lists
  <2>2. \A k \in 1..n : Lists(heads[k], H[k])
    BY <1>4, <2>1
  <2>3. \A k, l \in 1..n : k # l => H[k] \cap H[l] = {}
    BY <1>3, <1>4
  <2>4. Len(heads) = n
    BY <1>2
  <2>. HIDE DEF heads, H
  <2>5. Lists(Seqs!FlattenSeq(heads), UnionOfFirst(H, n))
    BY <1>2, <2>2, <2>3, <2>4, FlattenedLists DEF ListEach
  <2>. QED
    BY <1>6, <2>5
<1>9. Lists(Seqs!FlattenSeq(tails), obs \ Candidates(obs))
  <2>1. \A k \in 1..n : Lists(tails[k], T[k])
    BY <1>4
  <2>2. \A k, l \in 1..n : k # l => T[k] \cap T[l] = {}
    BY <1>3
  <2>3. Len(tails) = n
    BY <1>2
  <2>. HIDE DEF tails, T
  <2>4. Lists(Seqs!FlattenSeq(tails), UnionOfFirst(T, n))
    BY <1>2, <2>1, <2>2, <2>3, FlattenedLists DEF ListEach
  <2>. QED
    BY <1>7, <2>4
<1>. QED
  BY <1>1, <1>8, <1>9

\* How observations are listed among the contributions.
Linked(obs, role) == {[recordId |-> o.recordId, role |-> role] : o \in obs}

LEMMA ContributedOnce ==
    ASSUME NEW s, NEW S, HasDistinctIds(S), Lists(s, S), NEW role
    PROVE  Lists(Contribute(s, role), Linked(S, role))
<1>. DEFINE g == [o \in S |-> [recordId |-> o.recordId, role |-> role]]
            t == Contribute(s, role)
<1>1. ASSUME NEW o \in S, NEW p \in S, g[o] = g[p] PROVE o = p
  <2>1. g[o].recordId = o.recordId /\ g[p].recordId = p.recordId
    OBVIOUS
  <2>. QED
    BY <1>1, <2>1 DEF HasDistinctIds
<1>2. DOMAIN g = S /\ Range(g) = Linked(S, role)
  BY DEF Linked, Range
<1>3. /\ DOMAIN s = 1..Len(s) /\ \A i \in 1..Len(s) : s[i] \in S
  BY ListIsAsLong, ElementOfSeq DEF Lists
<1>4. t = [i \in 1..Len(s) |-> g[s[i]]]
  BY <1>3 DEF Contribute
<1>. HIDE DEF g, t
<1>5. Lists(t, Range(g))
  BY <1>1, <1>2, <1>4, ListOfImages
<1>. QED
  BY <1>2, <1>5 DEF t

\* The first two of the ranked candidates are the winner and the runner-up.
LEMMA RankedWinner ==
    ASSUME NEW station \in Station,
           NEW obs \in SUBSET Observation, HasDistinctIds(obs), obs # {},
           NEW s, Lists(s, Candidates(obs)),
           NEW ranked, ranked = Ranked(station, s)
    PROVE  /\ Lists(ranked, Candidates(obs)) /\ Len(ranked) \in Nat \ {0}
           /\ ranked[1] = Winner(station, obs)
           /\ Len(ranked) = 1 <=> Candidates(obs) = {Winner(station, obs)}
           /\ Len(ranked) # 1 => ranked[2] = RunnerUp(station, obs)
<1>. DEFINE C == Candidates(obs)
            w == Winner(station, obs)
            n == Len(ranked)
<1>1. C \in SUBSET Observation /\ HasDistinctIds(C)
  BY DEF Candidates, HasDistinctIds
<1>2. /\ w \in C /\ IsFirst(station, C, w)
      /\ \A v : IsFirst(station, C, v) => v = w
  BY ResolutionIsDeterministic
<1>. HIDE DEF C, w
<1>3. /\ Lists(ranked, C) /\ n = Len(s)
      /\ \A k, l \in 1..n : k < l => CompareCandidates(station, ranked[k], ranked[l])
  <2>1. Lists(s, C)
    BY DEF C
  <2>. QED
    BY <1>1, <2>1, CandidatesAreRanked
<1>4. /\ n \in Nat /\ \A i \in 1..n : ranked[i] \in C
      /\ \A i, j \in 1..n : ranked[i] = ranked[j] => i = j
      /\ \A c \in C : \E i \in 1..n : ranked[i] = c
  BY <1>3, LenProperties, ElementOfSeq DEF Lists
<1>. HIDE DEF n
<1>5. n \in Nat \ {0} /\ 1 \in 1..n
  <2>1. PICK i \in 1..n : ranked[i] = w
    BY <1>2, <1>4
  <2>. QED
    BY <1>4, <2>1
<1>6. ranked[1] = w
  <2>1. ASSUME NEW c \in C \ {ranked[1]} PROVE CompareCandidates(station, ranked[1], c)
    <3>1. PICK i \in 1..n : ranked[i] = c
      BY <1>4
    <3>2. 1 < i
      BY <1>5, <2>1, <3>1
    <3>. QED
      BY <1>3, <1>5, <3>1, <3>2
  <2>2. IsFirst(station, C, ranked[1])
    BY <1>4, <1>5, <2>1 DEF IsFirst
  <2>. QED
    BY <1>2, <2>2
<1>7. n = 1 <=> C = {w}
  <2>1. ASSUME n = 1 PROVE C = {w}
    <3>1. \A c \in C : c = ranked[1]
      BY <1>4, <2>1
    <3>. QED
      BY <1>2, <1>6, <3>1
  <2>2. ASSUME n # 1 PROVE C # {w}
    <3>1. 2 \in 1..n
      BY <1>5, <2>2
    <3>2. ranked[2] \in C /\ ranked[2] # ranked[1]
      BY <1>4, <1>5, <3>1
    <3>. QED
      BY <1>6, <3>2
  <2>. QED
    BY <2>1, <2>2
<1>8. ASSUME n # 1 PROVE ranked[2] = RunnerUp(station, obs)
  <2>. DEFINE losers == C \ {w}
  <2>1. 2 \in 1..n
    BY <1>5, <1>8
  <2>2. ranked[2] \in losers
    BY <1>4, <1>5, <1>6, <2>1
  <2>3. ASSUME NEW c \in losers \ {ranked[2]}
        PROVE  CompareCandidates(station, ranked[2], c)
    <3>1. PICK i \in 1..n : ranked[i] = c
      BY <1>4
    <3>2. 2 < i
      BY <1>6, <2>3, <3>1
    <3>. QED
      BY <1>3, <2>1, <3>1, <3>2
  <2>4. IsFirst(station, losers, ranked[2])
    BY <2>2, <2>3 DEF IsFirst
  <2>5. \A r : IsFirst(station, losers, r) => r = ranked[2]
    <3>1. losers \in SUBSET Observation
      BY <1>1
    <3>. HIDE DEF losers
    <3>. QED
      BY <2>4, <3>1, FirstIsUnique
  <2>6. RunnerUp(station, obs) = CHOOSE r \in losers : IsFirst(station, losers, r)
    BY DEF RunnerUp, C, w
  <2>. HIDE DEF losers
  <2>. QED
    BY <2>2, <2>4, <2>5, <2>6
<1>. QED
  BY <1>3, <1>5, <1>6, <1>7, <1>8 DEF C, w, n

\* More than one quantity is reported when two candidates report different ones.
LEMMA QuantitiesDiffer ==
    ASSUME NEW obs, NEW s, Lists(s, Candidates(obs)),
           NEW quantities, quantities = {c.quantity : c \in Candidates(obs)} \ {Null}
    PROVE  Len(s) > 1 /\ Cardinality(quantities) > 1 <=> HasConflict(obs)
<1>. DEFINE C == Candidates(obs)
            q == [c \in C |-> c.quantity]
            all == {q[c] : c \in C}
<1>1. Len(s) \in Nat /\ IsFiniteSet(C) /\ Cardinality(C) = Len(s)
  BY ListIsAsLong
<1>2. IsFiniteSet(quantities)
  <2>1. q \in Surjection(C, all)
    BY DEF Surjection
  <2>2. quantities \in SUBSET all
    OBVIOUS
  <2>. HIDE DEF C, q, all
  <2>3. IsFiniteSet(all)
    BY <1>1, <2>1, FS_Surjection
  <2>. QED
    BY <2>2, <2>3, FS_Subset
<1>3. HasConflict(obs) <=> \E x, y \in quantities : x # y
  BY DEF HasConflict
<1>. HIDE DEF C, q, all
<1>4. ASSUME NEW x \in quantities, NEW y \in quantities, x # y
      PROVE  Cardinality(quantities) > 1
  <2>1. PICK X : X = {x}
    OBVIOUS
  <2>2. Cardinality(X) = 1
    BY <2>1, FS_Singleton
  <2>3. X \in SUBSET quantities /\ X # quantities
    BY <1>4, <2>1
  <2>4. /\ Cardinality(X) <= Cardinality(quantities)
        /\ Cardinality(X) # Cardinality(quantities)
        /\ Cardinality(quantities) \in Nat
    BY <1>2, <2>3, FS_Subset, FS_CardinalityType
  <2>. QED
    BY <2>2, <2>4
<1>5. ASSUME \A x, y \in quantities : x = y
      PROVE  ~ (Cardinality(quantities) > 1)
  <2>1. CASE quantities = {}
    BY <2>1, FS_EmptySet
  <2>2. CASE quantities # {}
    <3>1. PICK x \in quantities : TRUE
      BY <2>2
    <3>2. quantities = {x}
      BY <1>5
    <3>3. Cardinality({x}) = 1
      BY FS_Singleton
    <3>. QED
      BY <3>2, <3>3
  <2>. QED
    BY <2>1, <2>2
<1>6. HasConflict(obs) => Len(s) > 1
  <2>1. ASSUME HasConflict(obs) PROVE Len(s) > 1
    <3>1. PICK a, b \in C : a # b
      BY <2>1 DEF HasConflict, C
    <3>2. PICK i \in 1..Len(s), j \in 1..Len(s) : s[i] = a /\ s[j] = b
      BY DEF Lists, C
    <3>3. i # j
      BY <3>1, <3>2
    <3>. QED
      BY <1>1, <3>2, <3>3
  <2>. QED
    BY <2>1
<1>. QED
  BY <1>3, <1>4, <1>5, <1>6

\* What the array algorithm returns is what the policy says of the set of rows.
LEMMA ResolvesTheSet ==
    ASSUME NEW station \in Station,
           NEW obs \in SUBSET Observation, HasDistinctIds(obs), obs # {},
           NEW buckets, IsBucketed(buckets, obs),
           NEW r, r = ResolveObservations(station, buckets)
    PROVE  /\ r.winner = Winner(station, obs)
           /\ r.rule = Rule(station, obs)
           /\ r.hasConflict = HasConflict(obs)
           /\ Lists(r.contributions,
                    {[recordId |-> o.recordId, role |-> Role(station, obs, o)] : o \in obs})
<1>. DEFINE C == Candidates(obs)
            w == Winner(station, obs)
            candidates ==
              Seqs!FlattenSeq([k \in DOMAIN buckets |-> <<Head(Ordered(buckets[k]))>>])
            repeats == Seqs!FlattenSeq([k \in DOMAIN buckets |-> Tail(Ordered(buckets[k]))])
            ranked == Ranked(station, candidates)
            quantities == {c.quantity : c \in Range(candidates)} \ {Null}
            listed == Contribute(repeats, "DUPLICATE")
                        \o Contribute(<<ranked[1]>>, "WINNER")
                        \o Contribute(Losers(ranked), "SUPERSEDED")
<1>1. r = [winner        |-> ranked[1],
           contributions |-> listed,
           rule          |-> IF Len(ranked) = 1 THEN "SINGLE_OBSERVATION"
                             ELSE DecidingRule(station, ranked[1], ranked[2]),
           hasConflict   |-> Len(candidates) > 1 /\ Cardinality(quantities) > 1]
  BY DEF ResolveObservations
<1>2. Lists(candidates, C) /\ Lists(repeats, obs \ C)
  BY BucketsSplit
<1>. HIDE DEF candidates, repeats
<1>3. /\ Lists(ranked, C) /\ Len(ranked) \in Nat \ {0}
      /\ ranked[1] = w
      /\ Len(ranked) = 1 <=> C = {w}
      /\ Len(ranked) # 1 => ranked[2] = RunnerUp(station, obs)
  BY <1>2, RankedWinner
<1>4. w \in C /\ C \in SUBSET obs
  BY ResolutionIsDeterministic DEF Candidates
<1>. HIDE DEF ranked
<1>5. r.winner = w /\ r.rule = Rule(station, obs)
  BY <1>1, <1>3 DEF Rule
<1>6. r.hasConflict = HasConflict(obs)
  <2>1. Range(candidates) = C
    BY <1>2, ListIsAsLong
  <2>2. quantities = {c.quantity : c \in C} \ {Null}
    BY <2>1
  <2>. HIDE DEF quantities
  <2>3. Len(candidates) > 1 /\ Cardinality(quantities) > 1 <=> HasConflict(obs)
    BY <1>2, <2>2, QuantitiesDiffer
  <2>4. HasConflict(obs) \in BOOLEAN
    BY DEF HasConflict
  <2>. HIDE DEF listed, C
  <2>. QED
    BY <1>1, <2>3, <2>4
<1>7. Lists(listed, (Linked(obs \ C, "DUPLICATE") \cup Linked({w}, "WINNER"))
                      \cup Linked(C \ {w}, "SUPERSEDED"))
  <2>1. HasDistinctIds(obs \ C) /\ HasDistinctIds({w}) /\ HasDistinctIds(C \ {w})
    BY <1>4 DEF HasDistinctIds
  <2>2. Lists(<<w>>, {w})
    BY DEF Lists
  <2>3. ranked # <<>>
    BY <1>3
  <2>4. Losers(ranked) = Tail(ranked) /\ Lists(Tail(ranked), C \ {w})
    BY <1>3, <2>3, ListOfOthers DEF Losers
  <2>. HIDE DEF C, w
  <2>5. /\ Lists(Contribute(repeats, "DUPLICATE"), Linked(obs \ C, "DUPLICATE"))
        /\ Lists(Contribute(<<ranked[1]>>, "WINNER"), Linked({w}, "WINNER"))
        /\ Lists(Contribute(Losers(ranked), "SUPERSEDED"), Linked(C \ {w}, "SUPERSEDED"))
    BY <1>2, <1>3, <2>1, <2>2, <2>4, ContributedOnce
  <2>6. /\ Linked(obs \ C, "DUPLICATE") \cap Linked({w}, "WINNER") = {}
        /\ (Linked(obs \ C, "DUPLICATE") \cup Linked({w}, "WINNER"))
              \cap Linked(C \ {w}, "SUPERSEDED") = {}
    BY DEF Linked
  <2>7. Lists(Contribute(repeats, "DUPLICATE") \o Contribute(<<ranked[1]>>, "WINNER"),
              Linked(obs \ C, "DUPLICATE") \cup Linked({w}, "WINNER"))
    BY <2>5, <2>6, ListOfBoth
  <2>. QED
    BY <2>5, <2>6, <2>7, ListOfBoth
<1>8. (Linked(obs \ C, "DUPLICATE") \cup Linked({w}, "WINNER"))
        \cup Linked(C \ {w}, "SUPERSEDED")
        = {[recordId |-> o.recordId, role |-> Role(station, obs, o)] : o \in obs}
  <2>. DEFINE roleOf(o) == [recordId |-> o.recordId, role |-> Role(station, obs, o)]
  <2>1. /\ \A o \in obs \ C : roleOf(o) = [recordId |-> o.recordId, role |-> "DUPLICATE"]
        /\ roleOf(w) = [recordId |-> w.recordId, role |-> "WINNER"]
        /\ \A o \in C \ {w} : roleOf(o) = [recordId |-> o.recordId, role |-> "SUPERSEDED"]
    BY <1>4 DEF Role
  <2>. HIDE DEF roleOf, C, w
  <2>2. /\ Linked(obs \ C, "DUPLICATE") = {roleOf(o) : o \in obs \ C}
        /\ Linked({w}, "WINNER") = {roleOf(o) : o \in {w}}
        /\ Linked(C \ {w}, "SUPERSEDED") = {roleOf(o) : o \in C \ {w}}
    BY <2>1 DEF Linked
  <2>3. obs = ((obs \ C) \cup {w}) \cup (C \ {w})
    BY <1>4
  <2>4. {roleOf(o) : o \in obs}
          = (Linked(obs \ C, "DUPLICATE") \cup Linked({w}, "WINNER"))
              \cup Linked(C \ {w}, "SUPERSEDED")
    BY <2>2, <2>3
  <2>. QED
    BY <2>4 DEF roleOf
<1>9. r.contributions = listed
  BY <1>1
<1>. HIDE DEF listed, C, w
<1>. QED
  BY <1>5, <1>6, <1>7, <1>8, <1>9 DEF w

\* The inductive invariant: the rows are told apart, the buckets are those of the rows so
\* far, and the result is computed from them.
ArraysInv ==
    /\ at \in Station
    /\ Range(array) \subseteq Reportable /\ Lists(array, Range(array))
    /\ IsBucketed(byIdentity, Range(array))
    /\ array # <<>> => resolution = ResolveObservations(at, byIdentity)

\* One more row is one more of the set.
LEMMA RowIsDelivered ==
    ASSUME ArraysInv, NEW o \in Reportable, Deliver(o)
    PROVE  /\ at' = at /\ Range(array') = Range(array) \cup {o}
           /\ array' # <<>> /\ array'[Len(array')] = o
           /\ Lists(array', Range(array'))
<1>1. o \notin Range(array) /\ array' = Append(array, o) /\ at' = at
  BY DEF Deliver
<1>. DEFINE S == Range(array)
<1>2. Lists(array', S \cup {o})
  <2>1. Lists(array, S)
    BY DEF ArraysInv
  <2>. HIDE DEF S
  <2>. QED
    BY <1>1, <2>1, ListOfOneMore DEF S
<1>3. Range(array') = S \cup {o}
  <2>. HIDE DEF S
  <2>. QED
    BY <1>2, ListIsAsLong
<1>4. array' # <<>> /\ array'[Len(array')] = o
  <2>1. array \in Seq(S)
    BY DEF ArraysInv, Lists
  <2>2. array \in Seq(S \cup {o})
    BY <2>1, SeqMonotonic
  <2>. HIDE DEF S
  <2>3. /\ Len(array') = Len(array) + 1 /\ array'[Len(array) + 1] = o
        /\ Len(array) \in Nat
    BY <1>1, <2>2, AppendProperties, LenProperties
  <2>. QED
    BY <2>3
<1>. QED
  BY <1>1, <1>2, <1>3, <1>4

\* A step is one more row, or nothing.
LEMMA ArraysNextKeepsInv == ArraysInv /\ [ArraysNext]_arrays => ArraysInv'
<1>. SUFFICES ASSUME ArraysInv, [ArraysNext]_arrays PROVE ArraysInv'
  OBVIOUS
<1>1. CASE UNCHANGED arrays
  BY <1>1 DEF arrays, ArraysInv
<1>2. ASSUME NEW o \in Reportable, Deliver(o) PROVE ArraysInv'
  <2>1. /\ at' = at /\ Range(array') = Range(array) \cup {o}
        /\ Lists(array', Range(array'))
    BY <1>2, RowIsDelivered
  <2>2. IsBucketed(byIdentity', Range(array'))
    <3>1. o \notin Range(array) /\ byIdentity' = Push(byIdentity, o)
      BY <1>2 DEF Deliver
    <3>. QED
      BY <2>1, <3>1, PushKeepsBuckets DEF ArraysInv
  <2>3. resolution' = ResolveObservations(at', byIdentity')
    BY <1>2 DEF Deliver
  <2>4. Range(array') \subseteq Reportable /\ at' \in Station
    BY <2>1 DEF ArraysInv
  <2>. QED
    BY <2>1, <2>2, <2>3, <2>4 DEF ArraysInv
<1>. QED
  BY <1>1, <1>2 DEF ArraysNext

LEMMA ArraysInitEstablishesInv == ArraysInit => ArraysInv
<1>. SUFFICES ASSUME ArraysInit PROVE ArraysInv
  OBVIOUS
<1>1. Range(array) = {}
  BY DEF ArraysInit, Range
<1>2. Lists(array, {})
  BY DEF ArraysInit, Lists
<1>3. IsBucketed(byIdentity, {})
  BY DEF ArraysInit, IsBucketed
<1>. QED
  BY <1>1, <1>2, <1>3 DEF ArraysInit, ArraysInv

LEMMA ArraysInvIsInvariant == ArraysSpec => []ArraysInv
BY ArraysInitEstablishesInv, ArraysNextKeepsInv, PTL DEF ArraysSpec

\* What is returned of the rows of a reachable state.
IsResolved ==
    array # <<>> =>
        LET obs == Range(array)
        IN  /\ at \in Station
            /\ obs \in SUBSET Observation /\ obs # {}
            /\ HasDistinctIds(obs) /\ IsOfOneKind(obs)
            /\ resolution.winner = Winner(at, obs)
            /\ resolution.rule = Rule(at, obs)
            /\ resolution.hasConflict = HasConflict(obs)
            /\ Lists(resolution.contributions,
                     {[recordId |-> o.recordId, role |-> Role(at, obs, o)] : o \in obs})

LEMMA ArrayIsResolved == ArraysInv => IsResolved
<1>. SUFFICES ASSUME ArraysInv, array # <<>> PROVE IsResolved
  BY DEF IsResolved
<1>. DEFINE obs == Range(array)
<1>1. obs \in SUBSET Observation /\ HasDistinctIds(obs) /\ IsOfOneKind(obs)
  BY ReportableIsSound DEF ArraysInv, HasDistinctIds, IsOfOneKind
<1>2. obs # {}
  <2>1. array \in Seq(obs)
    BY DEF ArraysInv, Lists
  <2>. HIDE DEF obs
  <2>2. Len(array) \in Nat \ {0}
    BY <2>1, LenProperties, EmptySeq
  <2>3. 1 \in 1..Len(array)
    BY <2>2
  <2>. QED
    BY <2>1, <2>3, ElementOfSeq
<1>3. at \in Station /\ IsBucketed(byIdentity, obs)
  BY DEF ArraysInv
<1>4. resolution = ResolveObservations(at, byIdentity)
  BY DEF ArraysInv
<1>. HIDE DEF obs
<1>. QED
  BY <1>1, <1>2, <1>3, <1>4, ResolvesTheSet DEF obs, IsResolved

\* In whatever order the rows come, what is accepted, why, with which conflict flag and
\* in which roles is what the set of rows determines.
LEMMA ResolvedInAnyOrder == ArraysInv => OrderIndependent
<1>. SUFFICES ASSUME ArraysInv, array # <<>> PROVE OrderIndependent
  BY DEF OrderIndependent
<1>. DEFINE obs == Range(array)
            all == {[recordId |-> o.recordId, role |-> Role(at, obs, o)] : o \in obs}
<1>1. /\ resolution.winner = Winner(at, obs)
      /\ resolution.rule = Rule(at, obs)
      /\ resolution.hasConflict = HasConflict(obs)
      /\ Lists(resolution.contributions, all)
  BY ArrayIsResolved DEF IsResolved
<1>2. \A o \in obs : [recordId |-> o.recordId, role |-> Role(at, obs, o)] \in all
  OBVIOUS
<1>. HIDE DEF all
<1>3. Range(resolution.contributions) = all
  BY <1>1, ListIsAsLong
<1>. HIDE DEF obs
<1>. QED
  BY <1>1, <1>2, <1>3 DEF OrderIndependent, obs

\* Every row is accounted for once, and one of them is the winner.
LEMMA RowsContributeOnce == ArraysInv => EachRowContributesOnce
<1>. SUFFICES ASSUME ArraysInv, array # <<>> PROVE EachRowContributesOnce
  BY DEF EachRowContributesOnce
<1>. DEFINE obs == Range(array)
            listed == resolution.contributions
            link == [o \in obs |-> [recordId |-> o.recordId, role |-> Role(at, obs, o)]]
            n == Len(array)
<1>1. /\ obs \in SUBSET Observation /\ obs # {} /\ HasDistinctIds(obs)
      /\ Lists(listed, {link[o] : o \in obs})
  BY ArrayIsResolved DEF IsResolved
<1>2. Lists(array, obs) /\ at \in Station
  BY DEF ArraysInv
<1>3. Winner(at, obs) \in Candidates(obs) /\ Candidates(obs) \subseteq obs
  BY <1>1, <1>2, ResolutionIsDeterministic DEF Candidates
<1>4. \A o \in obs : /\ link[o].recordId = o.recordId
                     /\ link[o].role = "WINNER" <=> o = Winner(at, obs)
  BY <1>3 DEF Role
<1>5. DOMAIN link = obs /\ Range(link) = {link[o] : o \in obs}
  BY DEF Range
<1>. HIDE DEF link, listed, obs, n
<1>6. Lists(listed, Range(link))
  BY <1>1, <1>5
<1>7. /\ IsFiniteSet(obs) /\ Cardinality(obs) = Len(array)
      /\ Cardinality(Range(link)) = Len(listed)
      /\ n \in Nat /\ DOMAIN array = 1..n
  BY <1>2, <1>6, ListIsAsLong DEF n
<1>8. Len(listed) = n
  <2>1. link \in Bijection(obs, Range(link))
    <3>1. \A o, p \in obs : link[o] = link[p] => o = p
      BY <1>1, <1>4 DEF HasDistinctIds
    <3>2. link \in [obs -> Range(link)] /\ \A x \in Range(link) : \E o \in obs : link[o] = x
      BY <1>5 DEF link
    <3>. QED
      BY <3>1, <3>2, Fun_IsBij
  <2>2. ExistsBijection(obs, Range(link))
    BY <2>1 DEF ExistsBijection
  <2>3. Cardinality(Range(link)) = Cardinality(obs)
    BY <1>7, <2>2, FS_Bijection
  <2>. QED
    BY <1>7, <2>3 DEF n
<1>9. /\ \A i \in 1..n : \E o \in obs : listed[i] = link[o]
      /\ \A i, j \in 1..n : listed[i] = listed[j] => i = j
      /\ \A o \in obs : \E i \in 1..n : listed[i] = link[o]
  <2>1. \A i \in 1..n : listed[i] \in Range(link)
    BY <1>6, <1>8, ElementOfSeq DEF Lists
  <2>. QED
    BY <1>5, <1>6, <1>8, <2>1 DEF Lists
<1>10. {listed[i].recordId : i \in 1..n} = {o.recordId : o \in obs}
  BY <1>4, <1>9
<1>11. Cardinality({i \in 1..n : listed[i].role = "WINNER"}) = 1
  <2>1. PICK k \in 1..n : listed[k] = link[Winner(at, obs)]
    BY <1>3, <1>9
  <2>2. \A i \in 1..n : listed[i].role = "WINNER" <=> i = k
    BY <1>3, <1>4, <1>9, <2>1
  <2>3. {i \in 1..n : listed[i].role = "WINNER"} = {k}
    BY <2>2
  <2>. QED
    BY <2>3, FS_Singleton
<1>. QED
  BY <1>7, <1>8, <1>10, <1>11 DEF EachRowContributesOnce, listed, obs, n

\* The algorithm returns, of the rows of a batch and station in any order, what the policy
\* says of their set: which is accepted, by which rule, whether they disagree, and in
\* which role each is kept (dedup.ts:119-201).
THEOREM ArrayOrderIsIrrelevant == ArraysSpec => []OrderIndependent
BY ResolvedInAnyOrder, ArraysInvIsInvariant, PTL

\* It accounts for every row once, however many there are and however often they repeat,
\* and for one as the winner: the unique key of a contribution is never met
\* (dedup.ts:167-201, normalization.service.ts:141-151).
THEOREM ArrayRowsContributeOnce == ArraysSpec => []EachRowContributesOnce
BY RowsContributeOnce, ArraysInvIsInvariant, PTL

\* It believes the first kind the station lists that has reported (stations.ts:40-52).
THEOREM ArrayBelievesRequired == ArraysSpec => []RequiredSourceIsBelieved
<1>1. ArraysInv => RequiredSourceIsBelieved
  <2>. SUFFICES ASSUME ArraysInv, array # <<>> PROVE RequiredSourceIsBelieved
    BY DEF RequiredSourceIsBelieved
  <2>. DEFINE obs == Range(array)
  <2>1. /\ obs \in SUBSET Observation /\ HasDistinctIds(obs) /\ IsOfOneKind(obs)
        /\ resolution.winner = Winner(at, obs) /\ at \in Station
    BY ArrayIsResolved DEF IsResolved
  <2>. HIDE DEF obs
  <2>. QED
    BY <2>1, RequiredSourceBelieved DEF RequiredSourceIsBelieved, obs
<1>. QED
  BY <1>1, ArraysInvIsInvariant, PTL

\* What a delivered row does to what is accepted.
LEMMA DeliveryResolves ==
    ASSUME ArraysInv, IsResolved, IsResolved',
           NEW o \in Reportable, Deliver(o), array # <<>>
    PROVE  LET obs == Range(array)
           IN  /\ at \in Station /\ array'[Len(array')] = o
               /\ obs \in SUBSET Observation /\ obs # {} /\ o \in Observation
               /\ HasDistinctIds(obs \cup {o})
               /\ resolution.winner = Winner(at, obs)
               /\ resolution'.winner = Winner(at, obs \cup {o})
               /\ resolution.rule = Rule(at, obs)
               /\ resolution'.rule = Rule(at, obs \cup {o})
               /\ resolution.hasConflict = HasConflict(obs)
               /\ resolution'.hasConflict = HasConflict(obs \cup {o})
<1>. DEFINE obs == Range(array)
<1>1. /\ at' = at /\ Range(array') = obs \cup {o}
      /\ array' # <<>> /\ array'[Len(array')] = o
  BY RowIsDelivered
<1>2. /\ obs \in SUBSET Observation /\ obs # {}
      /\ resolution.winner = Winner(at, obs) /\ resolution.rule = Rule(at, obs)
      /\ resolution.hasConflict = HasConflict(obs)
  BY DEF IsResolved
<1>3. /\ HasDistinctIds(Range(array'))
      /\ resolution'.winner = Winner(at', Range(array'))
      /\ resolution'.rule = Rule(at', Range(array'))
      /\ resolution'.hasConflict = HasConflict(Range(array'))
  BY <1>1 DEF IsResolved
<1>4. at \in Station /\ o \in Observation
  BY ReportableIsSound DEF ArraysInv
<1>. HIDE DEF obs
<1>. QED
  BY <1>1, <1>2, <1>3, <1>4 DEF obs

\* One more row dislodges what is accepted only by being accepted itself, or as an
\* earlier sighting of it (dedup.ts:133-165).
THEOREM ArrayOnlyBetterDislodge == ArraysSpec => OnlyBetterRowsDislodge
<1>1. ASSUME ArraysInv, IsResolved, IsResolved', [ArraysNext]_arrays
      PROVE  [array # <<>> /\ resolution'.winner # resolution.winner =>
                LET new == array'[Len(array')]
                IN  \/ resolution'.winner = new
                    \/ /\ SameIdentity(new, resolution.winner)
                       /\ EarlierSighting(new, resolution.winner)]_arrays
  <2>1. ASSUME NEW o \in Reportable, Deliver(o),
               array # <<>>, resolution'.winner # resolution.winner
        PROVE  LET new == array'[Len(array')]
               IN  \/ resolution'.winner = new
                   \/ /\ SameIdentity(new, resolution.winner)
                      /\ EarlierSighting(new, resolution.winner)
    <3>. DEFINE obs == Range(array)
    <3>1. /\ at \in Station /\ array'[Len(array')] = o
          /\ obs \in SUBSET Observation /\ obs # {} /\ o \in Observation
          /\ HasDistinctIds(obs \cup {o})
          /\ resolution.winner = Winner(at, obs)
          /\ resolution'.winner = Winner(at, obs \cup {o})
      BY <1>1, <2>1, DeliveryResolves
    <3>. HIDE DEF obs
    <3>. QED
      BY <2>1, <3>1, OnlyBetterObservationsDislodge
  <2>. QED
    BY <1>1, <2>1 DEF ArraysNext
<1>. QED
  BY <1>1, ArraysInvIsInvariant, ArrayIsResolved, PTL DEF ArraysSpec, OnlyBetterRowsDislodge

\* A row that was read again changes nothing that is accepted, nor why, nor the conflict
\* flag (dedup.ts:133-152).
THEOREM ArrayRepeatsAreHarmless == ArraysSpec => RepeatsAreHarmless
<1>1. ASSUME ArraysInv, IsResolved, IsResolved', [ArraysNext]_arrays
      PROVE  [LET new == array'[Len(array')]
              IN  (\E o \in Range(array) : SameIdentity(o, new) /\ ~ EarlierSighting(new, o))
                    => /\ resolution'.winner = resolution.winner
                       /\ resolution'.rule = resolution.rule
                       /\ resolution'.hasConflict = resolution.hasConflict]_arrays
  <2>1. ASSUME NEW new \in Reportable, Deliver(new),
               NEW o \in Range(array), SameIdentity(o, new), ~ EarlierSighting(new, o)
        PROVE  /\ resolution'.winner = resolution.winner
               /\ resolution'.rule = resolution.rule
               /\ resolution'.hasConflict = resolution.hasConflict
    <3>. DEFINE obs == Range(array)
    <3>1. array # <<>>
      BY DEF Range
    <3>2. /\ at \in Station
          /\ obs \in SUBSET Observation /\ new \in Observation
          /\ HasDistinctIds(obs \cup {new})
          /\ resolution.winner = Winner(at, obs)
          /\ resolution'.winner = Winner(at, obs \cup {new})
          /\ resolution.rule = Rule(at, obs)
          /\ resolution'.rule = Rule(at, obs \cup {new})
          /\ resolution.hasConflict = HasConflict(obs)
          /\ resolution'.hasConflict = HasConflict(obs \cup {new})
      BY <1>1, <2>1, <3>1, DeliveryResolves
    <3>3. o \in obs /\ HasConflict(obs) \in BOOLEAN /\ HasConflict(obs \cup {new}) \in BOOLEAN
      BY DEF HasConflict
    <3>. HIDE DEF obs
    <3>4. /\ Winner(at, obs \cup {new}) = Winner(at, obs)
          /\ Rule(at, obs \cup {new}) = Rule(at, obs)
          /\ HasConflict(obs \cup {new}) <=> HasConflict(obs)
      BY <2>1, <3>2, <3>3, RepeatsChangeNothing
    <3>. QED
      BY <3>2, <3>3, <3>4
  <2>2. \A new \in Reportable : Deliver(new) => array'[Len(array')] = new
    BY <1>1, RowIsDelivered
  <2>. QED
    BY <1>1, <2>1, <2>2 DEF ArraysNext
<1>. QED
  BY <1>1, ArraysInvIsInvariant, ArrayIsResolved, PTL DEF ArraysSpec, RepeatsAreHarmless

-----------------------------------------------------------------------------
\* The inductive invariant of the tables.
LInv ==
    /\ LedgerTypeOK
    /\ ContributionsAreSound
    /\ AtMostOneWinner
    /\ WinnerIsTheEvent
    /\ EventIsItsResolution
    /\ MasterDataIsAudited

(***************************************************************************)
(* The events a rebuild derives from its snapshot.                         *)
(***************************************************************************)
\* A stored row is one its collector may return.
LEMMA RecordsAreTyped ==
    ASSUME LedgerTypeOK, NEW i \in DOMAIN records
    PROVE  i \in Nat /\ records[i] \in Record
BY ElementOfSeq, LenProperties DEF LedgerTypeOK

\* Usable records are observations, told apart by their ids.
LEMMA ObservationsAreTyped ==
    ASSUME LedgerTypeOK, NEW ids \in SUBSET UsableRows, NEW b \in Batch, NEW s \in Station
    PROVE  /\ ObservationsAt(ids, b, s) \in SUBSET Observation
           /\ HasDistinctIds(ObservationsAt(ids, b, s))
           /\ \A o \in ObservationsAt(ids, b, s) :
                /\ o.recordId \in ids
                /\ o = ObservationOf(o.recordId)
                /\ records[o.recordId].row.batchId = b
                /\ records[o.recordId].row.station = s
<1>1. ASSUME NEW i \in ids
      PROVE  ObservationOf(i) \in Observation /\ ObservationOf(i).recordId = i
  <2>1. i \in DOMAIN records /\ IsUsable(records[i].row)
    BY DEF UsableRows
  <2>2. i \in Nat /\ records[i] \in Record
    BY <2>1, RecordsAreTyped
  <2>3. /\ records[i].source \in SourceId
        /\ records[i].row \in Row
    BY <2>2 DEF Record
  <2>4. /\ records[i].row.sourceRecordId \in Nat
        /\ records[i].row.quantity \in Quantity \cup {Null}
        /\ records[i].row.occurredAt \in Nat
        /\ records[i].row.recordedAt \in Nat \cup {Null}
    BY <2>1, <2>3 DEF Row, IsUsable
  <2>5. TypeOf[records[i].source] \in SourceType
    BY <2>3, SourcesAreSound
  <2>. QED
    BY <2>2, <2>3, <2>4, <2>5 DEF ObservationOf, Observation
<1>2. IdsOfBatch(ids, b) \subseteq ids
  BY DEF IdsOfBatch
<1>. QED
  BY <1>1, <1>2 DEF ObservationsAt, HasDistinctIds, IdsOfBatch

\* The accepted observation is one of them.
LEMMA WinnerIsObserved ==
    ASSUME LedgerTypeOK, NEW ids \in SUBSET UsableRows, NEW b \in Batch,
           NEW s \in Reported(ids, b)
    PROVE  /\ s \in Station
           /\ WinnerAt(ids, b, s) \in ObservationsAt(ids, b, s)
           /\ WinnerAt(ids, b, s) \in Observation
<1>1. s \in Station /\ ObservationsAt(ids, b, s) # {}
  BY DEF Reported
<1>2. Winner(s, ObservationsAt(ids, b, s)) \in Candidates(ObservationsAt(ids, b, s))
  BY <1>1, ObservationsAreTyped, ResolutionIsDeterministic
<1>. QED
  BY <1>1, <1>2, ObservationsAreTyped DEF WinnerAt, Candidates

\* What rebuildBatch writes is an event.
LEMMA EventOfIsAnEvent ==
    ASSUME LedgerTypeOK, NEW ids \in SUBSET UsableRows, NEW b \in Batch,
           NEW s \in Reported(ids, b)
    PROVE  EventOf(ids, b, s) \in Event
<1>1. WinnerAt(ids, b, s) \in Observation
  BY WinnerIsObserved
<1>2. IsLate(ids, b, s) \in BOOLEAN
  BY DEF IsLate
<1>3. HasConflict(ObservationsAt(ids, b, s)) \in BOOLEAN
  BY DEF HasConflict
<1>4. Rule(s, ObservationsAt(ids, b, s)) \in ResolutionRule
  BY DEF Rule, DecidingRule, ResolutionRule
<1>. QED
  BY <1>1, <1>2, <1>3, <1>4 DEF EventOf, Event, Observation

\* A contribution written by a rebuild is explained by its snapshot, and an
\* accepted one is the winner.
LEMMA RebuiltContribution ==
    ASSUME LedgerTypeOK, NEW ids \in SUBSET UsableRows, NEW b \in Batch,
           NEW s \in Reported(ids, b), NEW c \in ContributionsOf(ids, b, s)
    PROVE  /\ c \in Contribution
           /\ c.batchId = b /\ c.station = s
           /\ c.recordId \in IdsOfBatch(ids, b)
           /\ records[c.recordId].row.station = s
           /\ c.role = "WINNER" => ObservationOf(c.recordId) = WinnerAt(ids, b, s)
<1>1. PICK o \in ObservationsAt(ids, b, s) :
          c = [batchId |-> b, station |-> s, recordId |-> o.recordId,
               role |-> Role(s, ObservationsAt(ids, b, s), o)]
  BY DEF ContributionsOf
<1>2. s \in Station
  BY DEF Reported
<1>3. /\ o \in Observation /\ o.recordId \in ids /\ o = ObservationOf(o.recordId)
      /\ records[o.recordId].row.batchId = b
      /\ records[o.recordId].row.station = s
  BY <1>2, ObservationsAreTyped
<1>4. c.role \in ContributionRole
  BY <1>1 DEF Role, ContributionRole
<1>5. c.role = "WINNER" => o = WinnerAt(ids, b, s)
  BY <1>1 DEF Role, WinnerAt
<1>. QED
  BY <1>1, <1>2, <1>3, <1>4, <1>5 DEF Contribution, Observation, IdsOfBatch

(***************************************************************************)
(* An event and its explanation are of one rebuild.                        *)
(***************************************************************************)
\* What records say does not change while they are only read or appended to.
LEMMA SameObservations ==
    ASSUME NEW S, S \subseteq DOMAIN records, \A i \in S : records'[i] = records[i]
    PROVE  /\ \A ids \in SUBSET S : \A b, s :
                  /\ ObservationsAt(ids, b, s)' = ObservationsAt(ids, b, s)
                  /\ ContributionsOf(ids, b, s)' = ContributionsOf(ids, b, s)
<1>1. \A i \in S : ObservationOf(i)' = ObservationOf(i)
  BY DEF ObservationOf
<1>2. \A ids \in SUBSET S : \A b : IdsOfBatch(ids, b)' = IdsOfBatch(ids, b)
  BY DEF IdsOfBatch
<1>3. ASSUME NEW ids \in SUBSET S, NEW b, NEW s
      PROVE  ObservationsAt(ids, b, s)' = ObservationsAt(ids, b, s)
  BY <1>1, <1>2 DEF ObservationsAt, IdsOfBatch
<1>4. ASSUME NEW ids \in SUBSET S, NEW b, NEW s
      PROVE  ContributionsOf(ids, b, s)' = ContributionsOf(ids, b, s)
  BY <1>3 DEF ContributionsOf
<1>. QED
  BY <1>3, <1>4

\* Where neither events nor explanations change, they stay of one rebuild.
LEMMA EventsStayResolved ==
    ASSUME LedgerTypeOK, ContributionsAreSound, EventIsItsResolution,
           NothingRemoved' => NothingRemoved,
           UNCHANGED <<canonical, contributions>>,
           \A i \in DOMAIN records : records'[i] = records[i]
    PROVE  EventIsItsResolution'
<1>1. \A b, s : ContributingIds(b, s)' = ContributingIds(b, s)
  BY DEF ContributingIds
<1>2. \A b, s : ContributingIds(b, s) \in SUBSET DOMAIN records
  BY DEF ContributingIds, ContributionsAreSound, Usable, Stored
<1>3. \A b, s : LET ids == ContributingIds(b, s)
                IN  /\ ObservationsAt(ids, b, s)' = ObservationsAt(ids, b, s)
                    /\ ContributionsOf(ids, b, s)' = ContributionsOf(ids, b, s)
  BY <1>1, <1>2, SameObservations
<1>. QED
  BY <1>1, <1>3 DEF EventIsItsResolution

\* The records that a rebuild makes contribute are those it resolved.
LEMMA ContributorsAreResolved ==
    ASSUME NEW ids, NEW b, NEW s
    PROVE  LET own == {c.recordId : c \in ContributionsOf(ids, b, s)}
           IN  /\ ObservationsAt(own, b, s) = ObservationsAt(ids, b, s)
               /\ ContributionsOf(own, b, s) = ContributionsOf(ids, b, s)
<1>. DEFINE own == {c.recordId : c \in ContributionsOf(ids, b, s)}
<1>1. own = {i \in IdsOfBatch(ids, b) : records[i].row.station = s}
  <2>1. \A i : ObservationOf(i).recordId = i
    BY DEF ObservationOf
  <2>2. ASSUME NEW i \in own
        PROVE  i \in IdsOfBatch(ids, b) /\ records[i].row.station = s
    <3>1. PICK o \in ObservationsAt(ids, b, s) : i = o.recordId
      BY <2>2 DEF ContributionsOf
    <3>. QED
      BY <2>1, <3>1 DEF ObservationsAt
  <2>3. ASSUME NEW i \in IdsOfBatch(ids, b), records[i].row.station = s
        PROVE  i \in own
    <3>. DEFINE o == ObservationOf(i)
                c == [batchId |-> b, station |-> s, recordId |-> o.recordId,
                      role |-> Role(s, ObservationsAt(ids, b, s), o)]
    <3>1. o \in ObservationsAt(ids, b, s)
      BY <2>3 DEF ObservationsAt
    <3>2. c \in ContributionsOf(ids, b, s) /\ c.recordId = i
      BY <2>1, <3>1 DEF ContributionsOf
    <3>. QED
      BY <3>2
  <2>. QED
    BY <2>2, <2>3
<1>2. ObservationsAt(own, b, s) = ObservationsAt(ids, b, s)
  BY <1>1 DEF ObservationsAt, IdsOfBatch
<1>3. ContributionsOf(own, b, s) = ContributionsOf(ids, b, s)
  BY <1>2 DEF ContributionsOf
<1>. QED
  BY <1>2, <1>3

\* A rebuild writes the events of what it resolved with their explanation, and no
\* other event or explanation.
LEMMA RebuildWrites ==
    ASSUME LedgerTypeOK, NEW b \in Batch, NEW ids \in SUBSET UsableRows, Rebuild(b, ids)
    PROVE  /\ \A s \in Reported(ids, b) :
                  /\ canonical'[b][s] = EventOf(ids, b, s)
                  /\ {c \in contributions' : c.batchId = b /\ c.station = s}
                       = ContributionsOf(ids, b, s)
           /\ \A a \in Batch : \A s \in Station : a # b \/ s \notin Reported(ids, b) =>
                  /\ canonical'[a][s] = canonical[a][s]
                  /\ {c \in contributions' : c.batchId = a /\ c.station = s}
                       = {c \in contributions : c.batchId = a /\ c.station = s}
<1>. DEFINE At(C, a, s) == {c \in C : c.batchId = a /\ c.station = s}
<1>1. /\ canonical' = [canonical EXCEPT ![b] = UpsertEvents(ids, b)]
      /\ contributions' = RewriteContributions(ids, b)
  BY DEF Rebuild
<1>2. \A s \in Reported(ids, b) : \A c \in ContributionsOf(ids, b, s) :
          c.batchId = b /\ c.station = s
  BY DEF ContributionsOf
<1>3. ASSUME NEW s \in Reported(ids, b)
      PROVE  /\ canonical'[b][s] = EventOf(ids, b, s)
             /\ At(contributions', b, s) = ContributionsOf(ids, b, s)
  <2>1. canonical'[b][s] = EventOf(ids, b, s)
    BY <1>1 DEF LedgerTypeOK, UpsertEvents, Reported
  <2>. QED
    BY <1>1, <1>2, <2>1 DEF RewriteContributions
<1>4. ASSUME NEW a \in Batch, NEW s \in Station, a # b \/ s \notin Reported(ids, b)
      PROVE  /\ canonical'[a][s] = canonical[a][s]
             /\ At(contributions', a, s) = At(contributions, a, s)
  <2>1. canonical'[a][s] = canonical[a][s]
    BY <1>1, <1>4 DEF LedgerTypeOK, UpsertEvents
  <2>. QED
    BY <1>1, <1>2, <1>4, <2>1 DEF RewriteContributions
<1>. QED
  BY <1>3, <1>4

\* A rebuild writes an event and its whole explanation, or neither.
LEMMA RebuildResolves ==
    ASSUME LedgerTypeOK, EventIsItsResolution,
           NEW b \in Batch, NEW ids \in SUBSET UsableRows, Rebuild(b, ids)
    PROVE  EventIsItsResolution'
<1>. DEFINE At(C, a, s) == {c \in C : c.batchId = a /\ c.station = s}
<1>1. sources' = sources /\ records' = records
  BY DEF Rebuild
<1>2. ASSUME NEW s \in Reported(ids, b)
      PROVE  /\ canonical'[b][s] = EventOf(ids, b, s)
             /\ At(contributions', b, s) = ContributionsOf(ids, b, s)
  BY RebuildWrites
<1>3. ASSUME NEW a \in Batch, NEW s \in Station, a # b \/ s \notin Reported(ids, b)
      PROVE  /\ canonical'[a][s] = canonical[a][s]
             /\ At(contributions', a, s) = At(contributions, a, s)
  BY <1>3, RebuildWrites
<1>4. \A own, a, s : /\ ObservationsAt(own, a, s)' = ObservationsAt(own, a, s)
                     /\ ContributionsOf(own, a, s)' = ContributionsOf(own, a, s)
  <2>1. \A i : ObservationOf(i)' = ObservationOf(i)
    BY <1>1 DEF ObservationOf
  <2>2. \A own, a, s : ObservationsAt(own, a, s)' = ObservationsAt(own, a, s)
    BY <1>1, <2>1 DEF ObservationsAt, IdsOfBatch
  <2>. QED
    BY <2>2 DEF ContributionsOf
<1>5. ASSUME NothingRemoved', NEW a \in Batch, NEW s \in Station, canonical'[a][s] # Null
      PROVE  LET own == ContributingIds(a, s)'
                 obs == ObservationsAt(own, a, s)
             IN  /\ own # {}
                 /\ ContributionsOf(own, a, s) = At(contributions', a, s)
                 /\ canonical'[a][s].rule = Rule(s, obs)
                 /\ canonical'[a][s].hasConflict = HasConflict(obs)
  <2>. DEFINE own == ContributingIds(a, s)'
  <2>1. own = {c.recordId : c \in At(contributions', a, s)}
    BY DEF ContributingIds
  <2>2. CASE a = b /\ s \in Reported(ids, b)
    <3>1. own = {c.recordId : c \in ContributionsOf(ids, b, s)}
      BY <1>2, <2>1, <2>2
    <3>2. /\ ObservationsAt(own, b, s) = ObservationsAt(ids, b, s)
          /\ ContributionsOf(own, b, s) = ContributionsOf(ids, b, s)
      BY <3>1, ContributorsAreResolved
    <3>3. own # {}
      <4>1. ContributionsOf(ids, b, s) # {}
        BY <2>2 DEF ContributionsOf, Reported
      <4>. QED
        BY <3>1, <4>1
    <3>4. /\ EventOf(ids, b, s).rule = Rule(s, ObservationsAt(ids, b, s))
          /\ EventOf(ids, b, s).hasConflict = HasConflict(ObservationsAt(ids, b, s))
      BY DEF EventOf
    <3>. QED
      BY <1>2, <2>2, <3>2, <3>3, <3>4
  <2>3. CASE a # b \/ s \notin Reported(ids, b)
    <3>1. own = ContributingIds(a, s)
      BY <1>3, <2>1, <2>3 DEF ContributingIds
    <3>2. NothingRemoved
      BY <1>1, <1>5 DEF NothingRemoved
    <3>. QED
      BY <1>3, <1>5, <2>3, <3>1, <3>2 DEF EventIsItsResolution
  <2>. QED
    BY <2>2, <2>3
<1>. QED
  BY <1>4, <1>5 DEF EventIsItsResolution

(***************************************************************************)
(* Every step keeps the invariant.                                         *)
(***************************************************************************)
\* A rebuild replaces events and explanation together.
LEMMA RebuildKeepsLInv ==
    ASSUME LInv, NEW b \in Batch, NEW ids \in SUBSET UsableRows, Rebuild(b, ids)
    PROVE  LInv'
<1>1. /\ sources' = sources /\ records' = records /\ master' = master
      /\ IdsOfBatch(ids, b) \subseteq Stored
      /\ canonical' = [canonical EXCEPT ![b] = UpsertEvents(ids, b)]
      /\ contributions' = RewriteContributions(ids, b)
  BY DEF Rebuild
<1>2. LedgerTypeOK
  BY DEF LInv
<1>3. ids \in SUBSET UsableRows
  OBVIOUS
<1>4. \A s \in Reported(ids, b) : EventOf(ids, b, s) \in Event /\ EventOf(ids, b, s) # Null
  BY <1>2, <1>3, EventOfIsAnEvent, NullIsNoRow
<1>5. /\ canonical' \in [Batch -> [Station -> Event \cup {Null}]]
      /\ canonical'[b] = UpsertEvents(ids, b)
      /\ \A a \in Batch \ {b} : canonical'[a] = canonical[a]
  <2>1. UpsertEvents(ids, b) \in [Station -> Event \cup {Null}]
    BY <1>2, <1>4 DEF UpsertEvents, LedgerTypeOK
  <2>. QED
    BY <1>1, <1>2, <2>1 DEF LedgerTypeOK
<1>6. ASSUME NEW c \in contributions'
      PROVE  \/ /\ c \in contributions
                /\ c.batchId \in Batch /\ c.station \in Station
                /\ canonical'[c.batchId][c.station] = canonical[c.batchId][c.station]
                /\ ~ (c.batchId = b /\ c.station \in Reported(ids, b))
             \/ /\ c.batchId = b /\ c.station \in Reported(ids, b)
                /\ c \in ContributionsOf(ids, b, c.station)
                /\ canonical'[c.batchId][c.station] = EventOf(ids, b, c.station)
  <2>1. CASE /\ c \in contributions
             /\ c.batchId # b \/ c.station \notin Reported(ids, b)
    <3>1. c.batchId \in Batch /\ c.station \in Station
      BY <1>2, <2>1 DEF LedgerTypeOK, Contribution
    <3>. QED
      BY <1>5, <2>1, <3>1 DEF UpsertEvents
  <2>2. ASSUME NEW s \in Reported(ids, b), c \in ContributionsOf(ids, b, s)
        PROVE  /\ c.batchId = b /\ c.station = s
               /\ canonical'[c.batchId][c.station] = EventOf(ids, b, s)
    <3>1. s \in Station
      BY DEF Reported
    <3>2. c.batchId = b /\ c.station = s
      BY <1>2, <1>3, <2>2, RebuiltContribution
    <3>. QED
      BY <1>5, <3>1, <3>2 DEF UpsertEvents
  <2>. QED
    BY <1>1, <2>1, <2>2 DEF RewriteContributions
<1>7. LedgerTypeOK'
  <2>1. contributions' \subseteq Contribution
    BY <1>2, <1>3, <1>6, RebuiltContribution DEF LedgerTypeOK
  <2>. QED
    BY <1>1, <1>2, <1>5, <2>1 DEF LedgerTypeOK
<1>8. ContributionsAreSound'
  <2>1. Usable' = Usable
    BY <1>1 DEF Usable, Stored, IsRegistered
  <2>2. IdsOfBatch(ids, b) \subseteq Usable
    BY <1>1, <1>3 DEF Usable, UsableRows, IdsOfBatch
  <2>3. ASSUME NEW c \in contributions'
        PROVE  /\ c.recordId \in Usable
               /\ records[c.recordId].row.batchId = c.batchId
               /\ records[c.recordId].row.station = c.station
               /\ canonical'[c.batchId][c.station] # Null
    <3>1. CASE c \in contributions /\ canonical'[c.batchId][c.station]
                                       = canonical[c.batchId][c.station]
      BY <3>1 DEF LInv, ContributionsAreSound
    <3>2. CASE /\ c.batchId = b /\ c.station \in Reported(ids, b)
               /\ c \in ContributionsOf(ids, b, c.station)
               /\ canonical'[c.batchId][c.station] = EventOf(ids, b, c.station)
      BY <1>2, <1>3, <1>4, <2>2, <3>2, RebuiltContribution DEF IdsOfBatch
    <3>. QED
      BY <1>6, <3>1, <3>2
  <2>. QED
    BY <1>1, <2>1, <2>3 DEF ContributionsAreSound
<1>9. AtMostOneWinner'
  <2>1. ASSUME NEW c \in contributions', NEW d \in contributions',
               c.batchId = d.batchId, c.station = d.station,
               c.role = "WINNER", d.role = "WINNER"
        PROVE  c = d
    <3>1. CASE c.batchId = b /\ c.station \in Reported(ids, b)
      <4>1. /\ c \in ContributionsOf(ids, b, c.station)
            /\ d \in ContributionsOf(ids, b, c.station)
        BY <1>6, <2>1, <3>1
      <4>2. /\ c \in Contribution /\ d \in Contribution
            /\ ObservationOf(c.recordId) = ObservationOf(d.recordId)
        BY <1>2, <1>3, <2>1, <3>1, <4>1, RebuiltContribution
      <4>3. c.recordId = d.recordId
        BY <4>2 DEF ObservationOf
      <4>. QED
        BY <2>1, <4>2, <4>3 DEF Contribution
    <3>2. CASE ~ (c.batchId = b /\ c.station \in Reported(ids, b))
      <4>1. c \in contributions /\ d \in contributions
        BY <1>6, <2>1, <3>2
      <4>. QED
        BY <2>1, <4>1 DEF LInv, AtMostOneWinner
    <3>. QED
      BY <3>1, <3>2
  <2>. QED
    BY <2>1 DEF AtMostOneWinner
<1>10. WinnerIsTheEvent'
  <2>1. ASSUME NEW c \in contributions', c.role = "WINNER"
        PROVE  LET event == canonical'[c.batchId][c.station]
                   winner == ObservationOf(c.recordId)
               IN  /\ event.quantity = winner.quantity
                   /\ event.occurredAt = winner.occurredAt
                   /\ event.observedAt = winner.observedAt
    <3>1. CASE c \in contributions /\ canonical'[c.batchId][c.station]
                                       = canonical[c.batchId][c.station]
      BY <2>1, <3>1 DEF LInv, WinnerIsTheEvent
    <3>2. CASE /\ c.batchId = b /\ c.station \in Reported(ids, b)
               /\ c \in ContributionsOf(ids, b, c.station)
               /\ canonical'[c.batchId][c.station] = EventOf(ids, b, c.station)
      <4>1. ObservationOf(c.recordId) = WinnerAt(ids, b, c.station)
        BY <1>2, <1>3, <2>1, <3>2, RebuiltContribution
      <4>. QED
        BY <3>2, <4>1 DEF EventOf
    <3>. QED
      BY <1>6, <3>1, <3>2
  <2>2. \A i : ObservationOf(i)' = ObservationOf(i)
    BY <1>1 DEF ObservationOf
  <2>. QED
    BY <2>1, <2>2 DEF WinnerIsTheEvent
<1>11. MasterDataIsAudited'
  BY <1>1 DEF LInv, MasterDataIsAudited
<1>12. EventIsItsResolution'
  BY <1>3, RebuildResolves DEF LInv
<1>. QED
  BY <1>7, <1>8, <1>9, <1>10, <1>11, <1>12 DEF LInv

\* Registration only adds usable records.
LEMMA RegisterKeepsLInv ==
    ASSUME LInv, NEW s \in SourceId, RegisterSource(s)
    PROVE  LInv'
<1>1. /\ sources' = [sources EXCEPT ![s] = "registered"]
      /\ sources[s] = "unregistered"
      /\ records' = records /\ master' = master
      /\ canonical' = canonical /\ contributions' = contributions
  BY DEF RegisterSource
<1>2. LedgerTypeOK'
  BY <1>1 DEF LInv, LedgerTypeOK, SourceState
<1>3. Usable \subseteq Usable'
  BY <1>1 DEF Usable, Stored, IsRegistered, LInv, LedgerTypeOK
<1>4. ContributionsAreSound'
  BY <1>1, <1>3 DEF LInv, ContributionsAreSound
<1>5. AtMostOneWinner' /\ WinnerIsTheEvent' /\ MasterDataIsAudited'
  BY <1>1 DEF LInv, AtMostOneWinner, WinnerIsTheEvent, ObservationOf, MasterDataIsAudited
<1>6. NothingRemoved' => NothingRemoved
  BY <1>1 DEF NothingRemoved, LInv, LedgerTypeOK
<1>7. EventIsItsResolution'
  BY <1>1, <1>6, EventsStayResolved DEF LInv
<1>. QED
  BY <1>2, <1>4, <1>5, <1>7 DEF LInv

\* The cascade removes exactly the contributions whose records go.
LEMMA RemoveKeepsLInv ==
    ASSUME LInv, NEW s \in SourceId, RemoveSource(s)
    PROVE  LInv'
<1>1. /\ sources' = [sources EXCEPT ![s] = "removed"]
      /\ contributions' = {c \in contributions : records[c.recordId].source # s}
      /\ records' = records /\ master' = master /\ canonical' = canonical
  BY DEF RemoveSource
<1>2. LedgerTypeOK'
  BY <1>1 DEF LInv, LedgerTypeOK, SourceState
<1>3. ASSUME NEW c \in contributions'
      PROVE  c \in contributions /\ c.recordId \in Usable'
  <2>1. /\ c \in contributions /\ c.recordId \in Usable
        /\ records[c.recordId].source # s
    BY <1>1 DEF LInv, ContributionsAreSound
  <2>2. records[c.recordId].source \in SourceId
    BY <2>1, RecordsAreTyped DEF LInv, Usable, Stored, Record
  <2>3. sources'[records[c.recordId].source] = sources[records[c.recordId].source]
    BY <1>1, <2>1, <2>2 DEF LInv, LedgerTypeOK
  <2>. QED
    BY <1>1, <2>1, <2>3 DEF Usable, Stored, IsRegistered
<1>4. ContributionsAreSound'
  BY <1>1, <1>3 DEF LInv, ContributionsAreSound
<1>5. AtMostOneWinner' /\ WinnerIsTheEvent' /\ MasterDataIsAudited'
  BY <1>1 DEF LInv, AtMostOneWinner, WinnerIsTheEvent, ObservationOf, MasterDataIsAudited
<1>6. EventIsItsResolution'
  BY <1>1 DEF EventIsItsResolution, NothingRemoved, LInv, LedgerTypeOK
<1>. QED
  BY <1>2, <1>4, <1>5, <1>6 DEF LInv

\* Records are only appended, so those already explained stay as they were.
LEMMA StoreKeepsLInv ==
    ASSUME LInv, NEW s \in SourceId, StoreRows(s)
    PROVE  LInv'
<1>1. /\ records' \in Seq(Record)
      /\ \A i \in DOMAIN records : records'[i] = records[i]
      /\ sources' = sources /\ master' = master
      /\ canonical' = canonical /\ contributions' = contributions
  BY DEF StoreRows
<1>2. DOMAIN records \subseteq DOMAIN records'
  <2>1. PICK outcome \in Outcomes[s] :
            Len(records') = Len(records) + Len(outcome.records)
    BY DEF StoreRows
  <2>2. Len(outcome.records) \in Nat
    BY SourcesAreSound, LenProperties DEF Outcome
  <2>. QED
    BY <1>1, <2>1, <2>2, LenProperties DEF LInv, LedgerTypeOK
<1>3. LedgerTypeOK'
  BY <1>1 DEF LInv, LedgerTypeOK
<1>4. ASSUME NEW c \in contributions
      PROVE  /\ c.recordId \in DOMAIN records /\ c.recordId \in Usable'
             /\ ObservationOf(c.recordId)' = ObservationOf(c.recordId)
  BY <1>1, <1>2 DEF LInv, ContributionsAreSound, Usable, Stored, IsRegistered, ObservationOf
<1>5. ContributionsAreSound'
  BY <1>1, <1>4 DEF LInv, ContributionsAreSound
<1>6. AtMostOneWinner' /\ WinnerIsTheEvent'
  BY <1>1, <1>4 DEF LInv, AtMostOneWinner, WinnerIsTheEvent
<1>7. MasterDataIsAudited'
  BY <1>1, <1>2 DEF LInv, MasterDataIsAudited
<1>8. EventIsItsResolution'
  BY <1>1, EventsStayResolved DEF LInv, NothingRemoved
<1>. QED
  BY <1>3, <1>5, <1>6, <1>7, <1>8 DEF LInv

\* What is published stands in the row it is published from.
LEMMA PublishKeepsLInv ==
    ASSUME LInv, NEW i \in DOMAIN records, Publish(i)
    PROVE  LInv'
<1>. DEFINE data == records[i].row.master
<1>1. /\ data # Null
      /\ master' = [master EXCEPT ![data.key] = data.value]
      /\ sources' = sources /\ records' = records
      /\ canonical' = canonical /\ contributions' = contributions
  BY DEF Publish
<1>2. data \in [key : MasterKey, value : MasterValue]
  <2>1. records[i].row \in Row
    BY RecordsAreTyped DEF LInv, Record
  <2>. QED
    BY <1>1, <2>1 DEF Row
<1>3. data = [key |-> data.key, value |-> data.value]
  BY <1>2
<1>4. LedgerTypeOK'
  BY <1>1, <1>2 DEF LInv, LedgerTypeOK
<1>5. MasterDataIsAudited'
  <2>1. ASSUME NEW k \in MasterKey, master'[k] # Null
        PROVE  \E j \in DOMAIN records :
                   records[j].row.master = [key |-> k, value |-> master'[k]]
    <3>1. CASE k = data.key
      <4>1. master'[k] = data.value
        BY <1>1, <3>1 DEF LInv, LedgerTypeOK
      <4>. QED
        BY <1>3, <3>1, <4>1
    <3>2. CASE k # data.key
      <4>1. master'[k] = master[k]
        BY <1>1, <3>2 DEF LInv, LedgerTypeOK
      <4>. QED
        BY <2>1, <4>1 DEF LInv, MasterDataIsAudited
    <3>. QED
      BY <3>1, <3>2
  <2>. QED
    BY <1>1, <2>1 DEF MasterDataIsAudited
<1>6. ContributionsAreSound' /\ AtMostOneWinner' /\ WinnerIsTheEvent'
  BY <1>1 DEF LInv, ContributionsAreSound, AtMostOneWinner, WinnerIsTheEvent,
              Usable, Stored, IsRegistered, ObservationOf
<1>7. EventIsItsResolution'
  BY <1>1, EventsStayResolved DEF LInv, NothingRemoved
<1>. QED
  BY <1>4, <1>5, <1>6, <1>7 DEF LInv

\* Empty tables are sound.
LEMMA LedgerInitEstablishesLInv == LedgerInit => LInv
<1>. SUFFICES ASSUME LedgerInit PROVE LInv
  OBVIOUS
<1>1. LedgerTypeOK
  BY EmptySeq DEF LedgerInit, LedgerTypeOK, SourceState
<1>2. /\ ContributionsAreSound /\ AtMostOneWinner
      /\ WinnerIsTheEvent /\ EventIsItsResolution /\ MasterDataIsAudited
  BY DEF LedgerInit, ContributionsAreSound, AtMostOneWinner, WinnerIsTheEvent,
         EventIsItsResolution, MasterDataIsAudited
<1>. QED
  BY <1>1, <1>2 DEF LInv

\* Every step of the ledger keeps its tables sound.
LEMMA LedgerNextKeepsLInv == LInv /\ [LedgerNext]_ledger => LInv'
<1>1. LInv /\ UNCHANGED ledger => LInv'
  <2>1. LInv /\ UNCHANGED ledger => EventIsItsResolution'
    BY EventsStayResolved DEF ledger, LInv, NothingRemoved
  <2>. QED
    BY <2>1 DEF ledger, LInv, LedgerTypeOK, ContributionsAreSound, AtMostOneWinner,
                WinnerIsTheEvent, MasterDataIsAudited, Usable, Stored, IsRegistered,
                ObservationOf
<1>. QED
  BY <1>1, RegisterKeepsLInv, RemoveKeepsLInv, StoreKeepsLInv, PublishKeepsLInv,
     RebuildKeepsLInv DEF LedgerNext

\* The tables are sound in every reachable state.
LEMMA LInvIsInvariant == LedgerSpec => []LInv
BY LedgerInitEstablishesLInv, LedgerNextKeepsLInv, PTL DEF LedgerSpec

(***************************************************************************)
(* A batch never moves backwards.                                          *)
(***************************************************************************)
\* An accepted event is replaced by another, never by none.
LEMMA EventsAreKept ==
    ASSUME LInv, [LedgerNext]_ledger, NEW b \in Batch, NEW s \in Station,
           canonical[b][s] # Null
    PROVE  canonical'[b][s] # Null
<1>1. CASE UNCHANGED canonical
  BY <1>1
<1>2. ASSUME NEW a \in Batch, NEW ids \in SUBSET UsableRows, Rebuild(a, ids)
      PROVE  canonical'[b][s] # Null
  <2>1. /\ canonical' = [canonical EXCEPT ![a] = UpsertEvents(ids, a)]
        /\ canonical \in [Batch -> [Station -> Event \cup {Null}]]
    BY <1>2 DEF Rebuild, LInv, LedgerTypeOK
  <2>2. s \in Reported(ids, a) => EventOf(ids, a, s) # Null
    BY EventOfIsAnEvent, NullIsNoRow DEF LInv
  <2>. QED
    BY <2>1, <2>2 DEF UpsertEvents
<1>. QED
  BY <1>1, <1>2 DEF LedgerNext, RegisterSource, RemoveSource, StoreRows, Publish, ledger

\* No step of the ledger moves a batch backwards.
LEMMA StepNeverGoesBack ==
    ASSUME LInv, [LedgerNext]_ledger, NEW b \in Batch
    PROVE  Progress(b)' >= Progress(b)
<1>. DEFINE reached == {StationIndex(s) : s \in {t \in Station : canonical[b][t] # Null}}
            reachedNext == {StationIndex(s) : s \in {t \in Station : canonical'[b][t] # Null}}
<1>1. reached \subseteq 0..5 /\ reachedNext \subseteq 0..5
  BY IndexIsBounded
<1>2. reached \subseteq reachedNext
  BY EventsAreKept
<1>. DEFINE far(S) == CHOOSE i \in S : \A j \in S : j <= i
<1>3. ASSUME NEW S, S \subseteq 0..5, S # {}
      PROVE  far(S) \in S /\ \A j \in S : j <= far(S)
  BY <1>3, FurthestExists
<1>4. /\ Progress(b) = IF reached = {} THEN -1 ELSE far(reached)
      /\ Progress(b)' = IF reachedNext = {} THEN -1 ELSE far(reachedNext)
  BY DEF Progress
<1>. HIDE DEF reached, reachedNext, far
<1>5. CASE reached = {}
  <2>1. Progress(b) = -1
    BY <1>4, <1>5
  <2>2. reachedNext # {} => far(reachedNext) \in 0..5
    BY <1>1, <1>3
  <2>. QED
    BY <1>4, <2>1, <2>2
<1>6. CASE reached # {}
  <2>1. far(reached) \in reached /\ reachedNext # {}
    BY <1>1, <1>2, <1>3, <1>6
  <2>2. far(reachedNext) \in reachedNext /\ far(reached) <= far(reachedNext)
    BY <1>1, <1>2, <1>3, <2>1
  <2>. QED
    BY <1>1, <1>4, <1>6, <2>1, <2>2
<1>. QED
  BY <1>5, <1>6

(***************************************************************************)
(* Who is believed, on the tables.                                         *)
(***************************************************************************)
\* Of the records that explain an event, the accepted one is of a kind that no other
\* has more authority than at this station.
AuthorityIsRespected ==
    \A c, d \in contributions :
        c.role = "WINNER" /\ c.batchId = d.batchId /\ c.station = d.station =>
            AuthorityRank(c.station, TypeOf[records[c.recordId].source])
              <= AuthorityRank(c.station, TypeOf[records[d.recordId].source])

\* A rebuild accepts who has the most authority in its snapshot.
LEMMA RebuildRespectsAuthority ==
    ASSUME LedgerTypeOK, ContributionsAreSound, AuthorityIsRespected,
           NEW b \in Batch, NEW ids \in SUBSET UsableRows, Rebuild(b, ids),
           LedgerTypeOK'
    PROVE  AuthorityIsRespected'
<1>1. records' = records
  BY DEF Rebuild
<1>2. ASSUME NEW c \in contributions', NEW d \in contributions',
             c.role = "WINNER", c.batchId = d.batchId, c.station = d.station
      PROVE  AuthorityRank(c.station, TypeOf[records[c.recordId].source])
               <= AuthorityRank(c.station, TypeOf[records[d.recordId].source])
  <2>. DEFINE s == c.station
  <2>1. c.batchId \in Batch /\ s \in Station
    BY DEF LedgerTypeOK, Contribution
  <2>2. CASE c.batchId = b /\ s \in Reported(ids, b)
    <3>. DEFINE obs == ObservationsAt(ids, b, s)
    <3>1. c \in ContributionsOf(ids, b, s) /\ d \in ContributionsOf(ids, b, s)
      <4>1. {e \in contributions' : e.batchId = b /\ e.station = s}
              = ContributionsOf(ids, b, s)
        BY <2>2, RebuildWrites
      <4>2. c \in {e \in contributions' : e.batchId = b /\ e.station = s}
        BY <1>2, <2>2
      <4>3. d \in {e \in contributions' : e.batchId = b /\ e.station = s}
        BY <1>2, <2>2
      <4>. QED
        BY <4>1, <4>2, <4>3
    <3>2. ObservationOf(c.recordId) = Winner(s, obs)
      BY <1>2, <2>2, <3>1, RebuiltContribution DEF WinnerAt
    <3>3. /\ d.recordId \in IdsOfBatch(ids, b) /\ records[d.recordId].row.station = s
      BY <2>2, <3>1, RebuiltContribution
    <3>4. ObservationOf(d.recordId) \in obs
      BY <3>3 DEF ObservationsAt
    <3>5. obs \in SUBSET Observation /\ HasDistinctIds(obs)
      BY <2>1, ObservationsAreTyped
    <3>6. IsOfOneKind(obs)
      BY DEF IsOfOneKind, ObservationsAt, ObservationOf
    <3>7. AuthorityRank(s, Winner(s, obs).sourceType)
            <= AuthorityRank(s, ObservationOf(d.recordId).sourceType)
      BY <2>1, <3>4, <3>5, <3>6, WinnerHasAuthority
    <3>. QED
      BY <3>2, <3>7 DEF ObservationOf
  <2>3. CASE c.batchId # b \/ s \notin Reported(ids, b)
    <3>1. c \in contributions /\ d \in contributions
      <4>1. {e \in contributions' : e.batchId = c.batchId /\ e.station = s}
              = {e \in contributions : e.batchId = c.batchId /\ e.station = s}
        BY <2>1, <2>3, RebuildWrites
      <4>2. c \in {e \in contributions' : e.batchId = c.batchId /\ e.station = s}
        BY <1>2
      <4>3. d \in {e \in contributions' : e.batchId = c.batchId /\ e.station = s}
        BY <1>2
      <4>. QED
        BY <4>1, <4>2, <4>3
    <3>. QED
      BY <1>2, <3>1 DEF AuthorityIsRespected
  <2>. QED
    BY <2>2, <2>3
<1>. QED
  BY <1>1, <1>2 DEF AuthorityIsRespected

\* The other steps only take contributions away.
LEMMA StepRespectsAuthority ==
    ASSUME LInv, LInv', [LedgerNext]_ledger, AuthorityIsRespected
    PROVE  AuthorityIsRespected'
<1>1. ASSUME NEW b \in Batch, NEW ids \in SUBSET UsableRows, Rebuild(b, ids)
      PROVE  AuthorityIsRespected'
  BY <1>1, RebuildRespectsAuthority DEF LInv
<1>2. CASE /\ contributions' \subseteq contributions
           /\ \A i \in DOMAIN records : records'[i] = records[i]
  <2>1. \A c \in contributions : records'[c.recordId] = records[c.recordId]
    BY <1>2 DEF LInv, ContributionsAreSound, Usable, Stored
  <2>. QED
    BY <1>2, <2>1 DEF AuthorityIsRespected
<1>. QED
  BY <1>1, <1>2 DEF LedgerNext, RegisterSource, RemoveSource, StoreRows, Publish, ledger

\* A source that is not the best of those that explain an event is never the accepted
\* one, however collections, rebuilds from old snapshots and removals interleave
\* (stations.ts:40-52, normalization.service.ts:97-154).
THEOREM AuthorityPrevails == LedgerSpec => []AuthorityIsRespected
<1>1. LedgerInit => AuthorityIsRespected
  BY DEF LedgerInit, AuthorityIsRespected
<1>2. LInv /\ LInv' /\ [LedgerNext]_ledger /\ AuthorityIsRespected => AuthorityIsRespected'
  BY StepRespectsAuthority
<1>. QED
  BY <1>1, <1>2, LInvIsInvariant, PTL DEF LedgerSpec

(***************************************************************************)
(* The theorems.                                                           *)
(***************************************************************************)
\* Contributions always link an accepted event to a stored record of its batch
\* and station, also after removals (the cascades of schema.prisma).
THEOREM LedgerIsSound ==
    LedgerSpec => [](LedgerTypeOK /\ ContributionsAreSound)
<1>1. LInv => LedgerTypeOK /\ ContributionsAreSound
  BY DEF LInv
<1>. QED
  BY <1>1, LInvIsInvariant, PTL

\* No event has two accepted observations, and an event says what its accepted
\* observation says (normalization.service.ts:109-151).
THEOREM EventsAreExplained ==
    LedgerSpec => [](AtMostOneWinner /\ WinnerIsTheEvent)
<1>1. LInv => AtMostOneWinner /\ WinnerIsTheEvent
  BY DEF LInv
<1>. QED
  BY <1>1, LInvIsInvariant, PTL

\* While no source was removed, the event of a batch at a station and everything that
\* explains it (roles, rule, conflict flag) are of one rebuild, however many requests
\* have rebuilt it from different snapshots (normalization.service.ts:97-154).
THEOREM EventsAreTheirResolution == LedgerSpec => []EventIsItsResolution
<1>1. LInv => EventIsItsResolution
  BY DEF LInv
<1>. QED
  BY <1>1, LInvIsInvariant, PTL

\* Every value of a work order or batch link stands in a stored row
\* (sources.service.ts:181-199).
THEOREM MasterDataAudited == LedgerSpec => []MasterDataIsAudited
<1>1. LInv => MasterDataIsAudited
  BY DEF LInv
<1>. QED
  BY <1>1, LInvIsInvariant, PTL

\* Late rows, stale rebuilds and removals never move a batch backwards
\* (batch-state.ts:150-158 over the upserts of normalization.service.ts:109-151).
THEOREM BatchesNeverGoBack == LedgerSpec => NeverBackwards
<1>1. LInv /\ [LedgerNext]_ledger => \A b \in Batch : Progress(b)' >= Progress(b)
  BY StepNeverGoesBack
<1>. QED
  BY <1>1, LInvIsInvariant, PTL DEF LedgerSpec, NeverBackwards

\* Every step of the ledger is a step of the contract or leaves its tables alone.
LEMMA StepIsAccepted ==
    ASSUME LInv, [LedgerNext]_ledger
    PROVE  [View!AcceptedNext]_<<canonical, LinkedTo>>
<1>0. LInv'
  BY LedgerNextKeepsLInv
<1>1. CASE UNCHANGED <<canonical, master>>
  BY <1>1 DEF LinkedTo
<1>2. ASSUME NEW i \in DOMAIN records, Publish(i)
      PROVE  [View!AcceptedNext]_<<canonical, LinkedTo>>
  <2>. DEFINE data == records[i].row.master
  <2>1. /\ data.key \in MasterKey /\ data.value \in MasterValue
        /\ master' = [master EXCEPT ![data.key] = data.value]
        /\ UNCHANGED canonical
        /\ master \in [MasterKey -> MasterValue \cup {Null}]
    <3>1. /\ data # Null /\ UNCHANGED canonical
          /\ master' = [master EXCEPT ![data.key] = data.value]
      BY <1>2 DEF Publish
    <3>2. records[i].row \in Row
      BY RecordsAreTyped DEF LInv, Record
    <3>3. data \in [key : MasterKey, value : MasterValue]
      BY <3>1, <3>2 DEF Row
    <3>. QED
      BY <3>1, <3>3 DEF LInv, LedgerTypeOK
  <2>. HIDE DEF data
  <2>2. CASE data.key \notin Batch
    BY <2>1, <2>2 DEF LinkedTo
  <2>3. CASE data.key \in Batch
    <3>1. LinkedTo' = [LinkedTo EXCEPT ![data.key] = data.value]
      BY <2>1, <2>3 DEF LinkedTo
    <3>2. View!LinkOf(data.key)
      BY <2>1, <3>1 DEF View!LinkOf
    <3>. QED
      BY <2>3, <3>2 DEF View!AcceptedNext
  <2>. QED
    BY <2>2, <2>3
<1>3. ASSUME NEW b \in Batch, NEW ids \in SUBSET UsableRows, Rebuild(b, ids)
      PROVE  [View!AcceptedNext]_<<canonical, LinkedTo>>
  <2>1. /\ canonical' \in [Batch -> [Station -> Event \cup {Null}]]
        /\ canonical \in [Batch -> [Station -> Event \cup {Null}]]
    BY <1>0 DEF LInv, LedgerTypeOK
  <2>2. \A c \in Batch \ {b} : canonical'[c] = canonical[c]
    BY <1>3, <2>1 DEF Rebuild
  <2>3. \A s \in Station : canonical[b][s] # Null => canonical'[b][s] # Null
    BY EventsAreKept
  <2>4. UNCHANGED LinkedTo
    BY <1>3 DEF Rebuild, LinkedTo
  <2>. QED
    BY <2>1, <2>2, <2>3, <2>4 DEF View!AcceptedNext, View!EventsOf
<1>. QED
  BY <1>1, <1>2, <1>3
     DEF LedgerNext, RegisterSource, RemoveSource, StoreRows, Rebuild, ledger

\* The ledger provides what the board is drawn from: events and links are never
\* withdrawn, also when their source is removed
\* (normalization.service.ts:103-151, sources.service.ts:78-85).
THEOREM LedgerProvidesAccepted == LedgerSpec => ProvidesAccepted
<1>1. LedgerInit => View!AcceptedInit
  BY DEF LedgerInit, View!AcceptedInit, LinkedTo
<1>2. LInv /\ [LedgerNext]_ledger => [View!AcceptedNext]_<<canonical, LinkedTo>>
  BY StepIsAccepted
<1>. QED
  BY <1>1, <1>2, LInvIsInvariant, PTL
     DEF LedgerSpec, ProvidesAccepted, View!AcceptedSpec
=============================================================================
