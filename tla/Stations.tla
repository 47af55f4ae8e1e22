------------------------------ MODULE Stations ------------------------------
(***************************************************************************)
(* The fixed vocabulary every other module speaks: the six stations in     *)
(* process order, the four kinds of source, and which kind is believed     *)
(* first at which station (apps/api/src/domain/stations.ts).               *)
(***************************************************************************)
EXTENDS Integers, Sequences

STATION_ORDER ==
    <<"RECEIVING", "SORTING", "WASHING", "DRYING", "FOLDING", "DISPATCH">>

Station == {STATION_ORDER[i] : i \in 1..6}

\* Position of a station in the process, 0-based.
StationIndex(station) == (CHOOSE i \in 1..6 : STATION_ORDER[i] = station) - 1

StationsBefore(station) ==
    {s \in Station : StationIndex(s) < StationIndex(station)}

SourceType == {"CRAWLER", "APPLICATION_API", "DATABASE", "MQTT"}

\* Most authoritative first.
STATION_AUTHORITY ==
    [RECEIVING |-> <<"CRAWLER", "APPLICATION_API", "DATABASE">>,
     SORTING   |-> <<"DATABASE", "APPLICATION_API">>,
     WASHING   |-> <<"DATABASE", "MQTT", "APPLICATION_API">>,
     DRYING    |-> <<"DATABASE", "MQTT", "APPLICATION_API">>,
     FOLDING   |-> <<"DATABASE", "APPLICATION_API">>,
     DISPATCH  |-> <<"APPLICATION_API", "DATABASE">>]

IsListed(station, sourceType) ==
    \E i \in DOMAIN STATION_AUTHORITY[station] :
        STATION_AUTHORITY[station][i] = sourceType

\* Mutant: indexOf used as the rank, so that an unlisted type ranks first.
AuthorityRankByIndex(station, sourceType) ==
    LET ranking == STATION_AUTHORITY[station]
    IN  IF IsListed(station, sourceType)
        THEN (CHOOSE i \in DOMAIN ranking : ranking[i] = sourceType) - 1
        ELSE -1

\* Lower is more authoritative; an unlisted type ranks after every listed one.
AuthorityRank(station, sourceType) ==
    LET ranking == STATION_AUTHORITY[station]
    IN  IF IsListed(station, sourceType)
        THEN (CHOOSE i \in DOMAIN ranking : ranking[i] = sourceType) - 1
        ELSE Len(ranking)
=============================================================================
