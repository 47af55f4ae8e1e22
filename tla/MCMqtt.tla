-------------------------------- MODULE MCMqtt --------------------------------
(***************************************************************************)
(* A broker that retains a message of each of two machines, and publishes  *)
(* more than the buffer takes: readings, texts, nulls.                     *)
(***************************************************************************)
EXTENDS Mqtt

CONSTANTS m1, m2, r1, t1    \* model values: two machines' topics, a reading, a time

MCReading == {r1}
MCTopic == {m1, m2}
MCTime == {t1}

Read == [kind |-> "object", readingId |-> r1, at |-> t1,
         has |-> {"batchId", "station", "occurredAt"}]
Anonymous == [Read EXCEPT !.readingId = Null]
Untimed == [Anonymous EXCEPT !.has = {"batchId", "station"}, !.at = Null]
Garbled == [kind |-> "text", readingId |-> Null, at |-> Null, has |-> {}]
Nothing == [Garbled EXCEPT !.kind = "null"]

MCPayload == {Read, Anonymous, Untimed, Garbled, Nothing}
MCRetained == <<[topic |-> m1, payload |-> Read], [topic |-> m2, payload |-> Untimed]>>
=============================================================================
