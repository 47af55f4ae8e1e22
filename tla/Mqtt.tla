-------------------------------- MODULE Mqtt --------------------------------
(***************************************************************************)
(* Listening to machine telemetry                                          *)
(* (apps/api/src/sources/collectors/mqtt.collector.ts): one call of test,  *)
(* discover or collect, which connects, subscribes, listens for a window   *)
(* and disconnects.  The client library calls back in its own order, and   *)
(* may still hand over what it had read when it was ended.                 *)
(***************************************************************************)
EXTENDS Naturals, FiniteSets, Sequences

CONSTANTS Null,
          Reading, Topic, Time,
          Payload,        \* what may be published
          Retained,       \* the messages the broker keeps, in the order it sends them
          BufferLimit,
          MaxPublished    \* bound: messages sent during one call

Message == [topic : Topic, payload : Payload]

\* A payload is an object, a text that is no JSON, or the JSON value null; it has those
\* of the fields that can be read.  What "at" says may be no time.
ASSUME TelemetryIsSound ==
    /\ \A p \in Payload :
           /\ p.kind \in {"object", "text", "null"}
           /\ p.readingId \in Reading \cup {Null}
           /\ p.has \subseteq {"batchId", "station", "occurredAt"}
           /\ p.at \in Time \cup {Null}
           /\ p.kind # "object" => p.readingId = Null /\ p.at = Null /\ p.has = {}
           /\ "occurredAt" \in p.has => p.at # Null
    /\ Retained \in Seq(Message)
    /\ BufferLimit \in Nat \ {0}
    /\ MaxPublished \in Nat

VARIABLES
    op,             \* what was called
    pc,             \* "called", "connecting", "listening", then "finishing" once
                    \* listen has resolved, and at last "done", "thrown", or "spoilt"
                    \* by an exception over one of the messages
    client,
    timer,          \* whether the window's timer is set
    subscription,   \* "sent", "active" at the broker, "granted" or "refused" to the caller
    sent,           \* what the broker has sent
    handled,        \* how many of them the message callback was called with
    messages,
    records,
    errors          \* how many errors are reported

session == <<op, pc, client, timer, subscription>>
feed == <<sent, handled, messages>>
vars == <<session, feed, records, errors>>

Record == [dataset        : Topic,
           sourceRecordId : Reading \cup (Topic \X (Time \cup {Null})),
           parseError     : BOOLEAN,
           has            : SUBSET {"batchId", "station", "occurredAt"}]

Init ==
    /\ op \in {"test", "discover", "collect"}
    /\ pc = "called"
    /\ client = "none"
    /\ timer = FALSE
    /\ subscription = "none"
    /\ sent = <<>> /\ handled = 0
    /\ messages = <<>>
    /\ records = <<>>
    /\ errors = 0
-----------------------------------------------------------------------------
(***************************************************************************)
(* connect.                                                                *)
(***************************************************************************)
\* A source without a broker or a topic filter fails before it connects.
Begin ==
    /\ pc = "called"
    /\ \/ pc' = "connecting" /\ client' = "connecting"
       \/ pc' = "thrown" /\ UNCHANGED client
    /\ UNCHANGED <<op, timer, subscription, feed, records, errors>>

\* A test is over once connected; the others set the timer, then subscribe.
OnConnect ==
    /\ pc = "connecting"
    /\ IF op = "test"
       THEN /\ pc' = "done"
            /\ client' = "ended"
            /\ UNCHANGED <<timer, subscription>>
       ELSE /\ pc' = "listening"
            /\ client' = "connected"
            /\ timer' = TRUE
            /\ subscription' = "sent"
    /\ UNCHANGED <<op, feed, records, errors>>

\* An error or the connection timeout ends the client, a close needs not; a test
\* answers that it failed.
ConnectFails ==
    /\ pc = "connecting"
    /\ pc' = IF op = "test" THEN "done" ELSE "thrown"
    /\ client' \in {"ended", "dropped"}
    /\ UNCHANGED <<op, timer, subscription, feed, records, errors>>

\* The callbacks of connect are still there while listening: an error ends the
\* client, a close ends nothing, and neither can reject a promise that is settled.
ConnectionLost ==
    /\ pc = "listening"
    /\ client = "connected"
    /\ client' \in {"ended", "dropped"}
    /\ UNCHANGED <<op, pc, timer, subscription, feed, records, errors>>
-----------------------------------------------------------------------------
(***************************************************************************)
(* The broker.                                                             *)
(***************************************************************************)
\* The broker may send what it retains before the client hears it is subscribed.
BrokerSubscribes ==
    /\ client = "connected"
    /\ subscription = "sent"
    /\ subscription' = "active"
    /\ sent' = Retained
    /\ UNCHANGED <<op, pc, client, timer, handled, messages, records, errors>>

Granted ==
    /\ client = "connected"
    /\ subscription = "active"
    /\ subscription' = "granted"
    /\ UNCHANGED <<op, pc, client, timer, feed, records, errors>>

Publish(message) ==
    /\ client = "connected"
    /\ subscription \in {"active", "granted"}
    /\ Len(sent) < MaxPublished
    /\ sent' = Append(sent, message)
    /\ UNCHANGED <<session, handled, messages, records, errors>>
-----------------------------------------------------------------------------
(***************************************************************************)
(* listen.                                                                 *)
(***************************************************************************)
\* The library answers a subscription it gives up with an error.
Outstanding == subscription \in {"sent", "active"}

\* Mutant: the refused subscription leaves the timer and the client alone.
RejectOnly ==
    /\ subscription' = "refused"
    /\ pc' = IF pc = "listening" THEN "thrown" ELSE pc
    /\ UNCHANGED <<timer, client>>

RejectSubscription ==
    /\ subscription' = "refused"
    /\ timer' = FALSE
    /\ client' = "ended"
    /\ pc' = IF pc = "listening" THEN "thrown" ELSE pc

SubscribeFails ==
    /\ pc \in {"listening", "finishing"}
    /\ Outstanding
    /\ RejectSubscription
    /\ UNCHANGED <<op, feed, records, errors>>

\* Ending the client may refuse an outstanding subscription before listen resolves.
Finish ==
    \/ /\ timer' = FALSE
       /\ client' = "ended"
       /\ pc' = "finishing"
       /\ UNCHANGED subscription
    \/ pc = "listening" /\ Outstanding /\ RejectSubscription

WindowEnds ==
    /\ timer
    /\ Finish
    /\ UNCHANGED <<op, feed, records, errors>>

\* Mutant: a payload that is no JSON is dropped.
KeepJson(message) ==
    IF message.payload.kind = "text" THEN messages ELSE Append(messages, message)

\* A payload that is no JSON is kept as it is.
Keep(message) == Append(messages, message)

\* The buffer's limit ends the window; messages that were read with the last one
\* are still added, for listen resolves with the array and not with a copy.
Deliver ==
    /\ pc \in {"listening", "finishing"}
    /\ handled < Len(sent)
    /\ handled' = handled + 1
    /\ messages' = Keep(sent[handled'])
    /\ IF Len(messages') >= BufferLimit
       THEN Finish
       ELSE UNCHANGED <<pc, client, timer, subscription>>
    /\ UNCHANGED <<op, sent, records, errors>>
-----------------------------------------------------------------------------
(***************************************************************************)
(* What was received becomes the outcome.                                  *)
(***************************************************************************)
IsRejected(payload) == payload.has # {"batchId", "station", "occurredAt"}

\* Without an identifier of its own a reading is known by its topic and its time.
ToRecord(message) ==
    LET payload == message.payload
    IN  [dataset        |-> message.topic,
         sourceRecordId |-> IF payload.readingId # Null THEN payload.readingId
                            ELSE <<message.topic, payload.at>>,
         parseError     |-> IsRejected(payload),
         has            |-> IF IsRejected(payload) THEN {} ELSE payload.has]

\* Mutant: only a reading without a batch is reported.
RejectsWithoutBatch(received) ==
    {i \in DOMAIN received : "batchId" \notin received[i].payload.has}

Rejects(received) == {i \in DOMAIN received : IsRejected(received[i].payload)}

\* A reading cannot be looked up in null, and collect looks at every payload.
Throws(received) == \E i \in DOMAIN received : received[i].payload.kind = "null"

Answer ==
    /\ pc = "finishing"
    /\ IF op = "collect" /\ Throws(messages)
       THEN pc' = "spoilt" /\ UNCHANGED <<records, errors>>
       ELSE /\ pc' = "done"
            /\ IF op = "collect"
               THEN /\ records' = [i \in DOMAIN messages |-> ToRecord(messages[i])]
                    /\ errors' = Cardinality(Rejects(messages))
               ELSE UNCHANGED <<records, errors>>
    /\ UNCHANGED <<op, client, timer, subscription, feed>>

Listen == WindowEnds \/ Deliver \/ SubscribeFails \/ Granted \/ Answer

Broker ==
    \/ BrokerSubscribes
    \/ ConnectionLost
    \/ \E topic \in Topic, p \in Payload : Publish([topic |-> topic, payload |-> p])

Next == Begin \/ OnConnect \/ ConnectFails \/ Listen \/ Broker

Spec == Init /\ [][Next]_vars

\* A connection succeeds or fails within its timeout, the timer fires and the code
\* runs on; nothing is assumed of the broker.
FairSpec == Spec /\ WF_vars(Begin \/ OnConnect \/ ConnectFails \/ WindowEnds \/ Answer)
-----------------------------------------------------------------------------
TypeOK ==
    /\ op \in {"test", "discover", "collect"}
    /\ pc \in {"called", "connecting", "listening", "finishing", "done", "thrown", "spoilt"}
    /\ client \in {"none", "connecting", "connected", "dropped", "ended"}
    /\ timer \in BOOLEAN /\ (timer <=> pc = "listening")
    /\ subscription \in {"none", "sent", "active", "granted", "refused"}
    /\ sent \in Seq(Message)
    /\ handled \in 0..Len(sent)
    /\ messages \in Seq(Message)
    /\ records \in Seq(Record)
    /\ errors \in Nat

\* However the timer, the buffer's limit, a refused subscription and a lost
\* connection race, a call that is over holds neither a timer nor a connection.
ReleasesWhatItHolds ==
    pc \in {"finishing", "done", "thrown", "spoilt"} =>
        ~ timer /\ client \in {"none", "ended", "dropped"}

\* Of a collection that returns: every message the library handed over is recorded in
\* the order it came, also one that is no JSON, and one that arrived between the end of
\* the window and the use of the buffer (mqtt.collector.ts:150-151).
HandedOverIsRecorded ==
    op = "collect" /\ pc = "done" =>
        /\ Len(records) = handled
        /\ \A i \in DOMAIN records : records[i] = ToRecord(sent[i])

\* Stored as it is, the query of rebuild selects the record.
IsUsable(record) == ~ record.parseError /\ record.has = {"batchId", "station", "occurredAt"}

\* What the messages handed over come to.
Outcome ==
    IF pc = "done"
    THEN [state    |-> "returned",
          shown    |-> IF op = "collect" THEN handled ELSE 0,
          rejected |-> Cardinality({i \in DOMAIN records : records[i].parseError}),
          usable   |-> Cardinality({i \in DOMAIN records : IsUsable(records[i])}),
          errors   |-> errors]
    ELSE [state |-> IF pc \in {"thrown", "spoilt"} THEN pc ELSE "pending"]

Contract == INSTANCE Collector WITH outcome <- Outcome

\* The one departure from the contract: the exception over a message of many that
\* collector.types.ts:127-129 rules out.
SpoiltByNull == pc' = "spoilt" /\ op = "collect" /\ Throws(messages)

\* Every call is answered once, whatever the broker does, and each message handed over
\* is a usable record or a rejected one with an error; only a message that is the JSON
\* value null, into which the code looks for a reading (mqtt.collector.ts:173), spoils a
\* collection, and every other message with it.
KeepsContractButForNull ==
    /\ Contract!Init
    /\ [][Contract!Next \/ SpoiltByNull]_Outcome
    /\ Contract!IsAnswered
=============================================================================
