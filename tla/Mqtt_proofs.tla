----------------------------- MODULE Mqtt_proofs -----------------------------
(***************************************************************************)
(* What holds of a call that listens to machine telemetry for any broker,  *)
(* any buffer limit and any order of the callbacks.                        *)
(***************************************************************************)
EXTENDS Mqtt, Counting, SequenceTheorems

\* What the callbacks find: a connection only while listening, nothing sent before
\* the broker knows of the subscription, the messages handed over in their order.
SessionIsSound ==
    /\ pc = "called" => client = "none"
    /\ pc = "connecting" => client = "connecting"
    /\ client = "connected" => pc = "listening"
    /\ subscription \in {"none", "sent"} => sent = <<>>
    /\ pc \in {"called", "connecting"} => subscription = "none"

HandedOver ==
    /\ Len(messages) = handled
    /\ \A i \in 1..handled : messages[i] = sent[i]

RecordedAsHandedOver ==
    IF pc = "done" /\ op = "collect"
    THEN /\ DOMAIN records = DOMAIN messages
         /\ \A i \in DOMAIN messages : records[i] = ToRecord(messages[i])
         /\ errors = Cardinality(Rejects(messages))
    ELSE records = <<>> /\ errors = 0

\* The inductive invariant.
IInv ==
    /\ TypeOK
    /\ ReleasesWhatItHolds
    /\ SessionIsSound
    /\ HandedOver
    /\ RecordedAsHandedOver

\* A message becomes a record.
LEMMA ToRecordIsTyped ==
    ASSUME NEW message \in Message
    PROVE  ToRecord(message) \in Record
BY TelemetryIsSound DEF Message, ToRecord, Record, IsRejected

\* What is reported of messages is a number.
LEMMA RejectsAreCounted ==
    ASSUME NEW received \in Seq(Message)
    PROVE  Cardinality(Rejects(received)) \in Nat
<1>1. DOMAIN received = 1..Len(received) /\ Len(received) \in Nat
  BY LenProperties
<1>2. IsFiniteSet(1..Len(received)) /\ Rejects(received) \subseteq 1..Len(received)
  BY <1>1, FS_Interval DEF Rejects
<1>. QED
  BY <1>2, FS_Subset, FS_CardinalityType

\* Before the call nothing has been read.
LEMMA InitEstablishesIInv == Init => IInv
<1>. SUFFICES ASSUME Init PROVE IInv
  OBVIOUS
<1>1. TypeOK
  <2>1. sent \in Seq(Message) /\ messages \in Seq(Message) /\ records \in Seq(Record)
    BY EmptySeq DEF Init
  <2>2. handled \in 0..Len(sent)
    BY EmptySeq DEF Init
  <2>. QED
    BY <2>1, <2>2 DEF Init, TypeOK
<1>2. ReleasesWhatItHolds /\ SessionIsSound /\ RecordedAsHandedOver
  BY DEF Init, ReleasesWhatItHolds, SessionIsSound, RecordedAsHandedOver
<1>3. HandedOver
  BY EmptySeq DEF Init, HandedOver
<1>. QED
  BY <1>1, <1>2, <1>3 DEF IInv

\* Ending a window, whichever callback does it, lets go of timer and client.
LEMMA FinishKeepsSession ==
    ASSUME IInv, pc \in {"listening", "finishing"}, Finish, UNCHANGED <<op, records, errors>>
    PROVE  /\ pc' \in {"finishing", "thrown"} /\ timer' = FALSE /\ client' = "ended"
           /\ subscription' \in {subscription, "refused"}
BY DEF Finish, RejectSubscription, Outstanding, IInv, TypeOK

\* The callbacks of connect.
LEMMA ConnectKeepsIInv ==
    ASSUME IInv, Begin \/ OnConnect \/ ConnectFails \/ ConnectionLost
    PROVE  IInv'
<1>. USE DEF IInv, TypeOK, ReleasesWhatItHolds, SessionIsSound, HandedOver,
             RecordedAsHandedOver, feed
<1>1. CASE Begin
  BY <1>1 DEF Begin
<1>2. CASE OnConnect
  BY <1>2 DEF OnConnect
<1>3. CASE ConnectFails
  BY <1>3 DEF ConnectFails
<1>4. CASE ConnectionLost
  BY <1>4 DEF ConnectionLost
<1>. QED
  BY <1>1, <1>2, <1>3, <1>4

\* The broker only appends to what it has sent.
LEMMA BrokerKeepsIInv ==
    ASSUME IInv, BrokerSubscribes \/ \E message \in Message : Publish(message)
    PROVE  IInv'
<1>1. /\ sent' \in Seq(Message) /\ Len(sent) \in Nat /\ Len(sent') \in Nat
      /\ Len(sent) <= Len(sent')
      /\ \A i \in 1..Len(sent) : sent'[i] = sent[i]
  <2>1. CASE BrokerSubscribes
    BY <2>1, TelemetryIsSound, EmptySeq, LenProperties
       DEF BrokerSubscribes, IInv, SessionIsSound
  <2>2. ASSUME NEW message \in Message, Publish(message)
        PROVE  /\ sent' \in Seq(Message) /\ Len(sent) \in Nat /\ Len(sent') \in Nat
               /\ Len(sent) <= Len(sent')
               /\ \A i \in 1..Len(sent) : sent'[i] = sent[i]
    BY <2>2, AppendProperties, LenProperties DEF Publish, IInv, TypeOK
  <2>. QED
    BY <2>1, <2>2
<1>2. /\ UNCHANGED <<op, pc, client, timer, handled, messages, records, errors>>
      /\ subscription \in {"sent", "active", "granted"}
      /\ subscription' \in {"active", "granted"}
  BY DEF BrokerSubscribes, Publish, session
<1>3. TypeOK'
  BY <1>1, <1>2 DEF IInv, TypeOK
<1>4. ReleasesWhatItHolds' /\ RecordedAsHandedOver' /\ SessionIsSound'
  BY <1>2 DEF IInv, ReleasesWhatItHolds, RecordedAsHandedOver, SessionIsSound
<1>5. HandedOver'
  <2>1. HandedOver /\ handled \in 0..Len(sent)
    BY DEF IInv, TypeOK
  <2>. QED
    BY <1>1, <1>2, <2>1 DEF HandedOver
<1>. QED
  BY <1>3, <1>4, <1>5 DEF IInv

\* A message is handed over once, in its turn, also after the window has ended.
LEMMA DeliverKeepsIInv ==
    ASSUME IInv, Deliver
    PROVE  IInv'
<1>1. /\ pc \in {"listening", "finishing"} /\ handled < Len(sent) /\ handled' = handled + 1
      /\ messages' = Append(messages, sent[handled + 1])
      /\ UNCHANGED <<op, sent, records, errors>>
  BY DEF Deliver, Keep
<1>2. /\ messages' \in Seq(Message) /\ handled' \in 0..Len(sent)
      /\ Len(messages') = handled' /\ handled \in Nat
      /\ \A i \in 1..handled' : messages'[i] = sent[i]
  <2>1. sent \in Seq(Message) /\ messages \in Seq(Message) /\ handled \in 0..Len(sent)
    BY DEF IInv, TypeOK
  <2>2. sent[handled + 1] \in Message /\ Len(sent) \in Nat
    BY <1>1, <2>1, ElementOfSeq, LenProperties
  <2>3. Len(messages) = handled /\ \A i \in 1..handled : messages[i] = sent[i]
    BY DEF IInv, HandedOver
  <2>. QED
    BY <1>1, <2>1, <2>2, <2>3, AppendProperties
<1>3. \/ UNCHANGED <<pc, client, timer, subscription>>
      \/ /\ pc' \in {"finishing", "thrown"} /\ timer' = FALSE /\ client' = "ended"
         /\ subscription' \in {subscription, "refused"}
  BY <1>1, FinishKeepsSession DEF Deliver
<1>4. TypeOK'
  <2>1. CASE UNCHANGED <<pc, client, timer, subscription>>
    BY <1>1, <1>2, <2>1 DEF IInv, TypeOK
  <2>2. CASE ~ UNCHANGED <<pc, client, timer, subscription>>
    BY <1>1, <1>2, <1>3, <2>2 DEF IInv, TypeOK
  <2>. QED
    BY <2>1, <2>2
<1>5. ReleasesWhatItHolds' /\ RecordedAsHandedOver' /\ SessionIsSound'
  BY <1>1, <1>3 DEF IInv, TypeOK, ReleasesWhatItHolds, RecordedAsHandedOver, SessionIsSound
<1>6. HandedOver'
  BY <1>1, <1>2 DEF HandedOver
<1>. QED
  BY <1>4, <1>5, <1>6 DEF IInv

\* The outcome has one record for each message.
LEMMA AnswerKeepsIInv ==
    ASSUME IInv, Answer
    PROVE  IInv'
<1>1. /\ pc = "finishing" /\ UNCHANGED <<op, client, timer, subscription, feed>>
      /\ \/ pc' = "spoilt" /\ UNCHANGED <<records, errors>>
         \/ pc' = "done" /\ op # "collect" /\ UNCHANGED <<records, errors>>
         \/ /\ pc' = "done" /\ op = "collect"
            /\ records' = [i \in DOMAIN messages |-> ToRecord(messages[i])]
            /\ errors' = Cardinality(Rejects(messages))
  BY DEF Answer
<1>2. messages \in Seq(Message) /\ DOMAIN messages = 1..Len(messages) /\ Len(messages) \in Nat
  BY LenProperties DEF IInv, TypeOK
<1>3. [i \in DOMAIN messages |-> ToRecord(messages[i])] \in Seq(Record)
  <2>1. \A i \in 1..Len(messages) : ToRecord(messages[i]) \in Record
    BY <1>2, ToRecordIsTyped, ElementOfSeq
  <2>. QED
    BY <1>2, <2>1, IsASeq
<1>4. Cardinality(Rejects(messages)) \in Nat
  BY <1>2, RejectsAreCounted
<1>5. TypeOK'
  <2>1. records' \in Seq(Record) /\ errors' \in Nat
    BY <1>1, <1>3, <1>4 DEF IInv, TypeOK
  <2>. QED
    BY <1>1, <2>1 DEF IInv, TypeOK, feed
<1>6. ReleasesWhatItHolds' /\ SessionIsSound' /\ HandedOver'
  BY <1>1 DEF IInv, TypeOK, ReleasesWhatItHolds, SessionIsSound, HandedOver, feed
<1>7. RecordedAsHandedOver'
  <2>1. records = <<>> /\ errors = 0 /\ UNCHANGED <<op, messages>>
    BY <1>1 DEF IInv, RecordedAsHandedOver, feed
  <2>2. CASE pc' = "done" /\ op = "collect"
    BY <1>1, <2>1, <2>2 DEF RecordedAsHandedOver, Rejects
  <2>3. CASE ~ (pc' = "done" /\ op = "collect")
    BY <1>1, <2>1, <2>3 DEF RecordedAsHandedOver
  <2>. QED
    BY <2>2, <2>3
<1>. QED
  BY <1>5, <1>6, <1>7 DEF IInv

\* Every step keeps the invariant.
LEMMA NextKeepsIInv == IInv /\ [Next]_vars => IInv'
<1>. SUFFICES ASSUME IInv, [Next]_vars PROVE IInv'
  OBVIOUS
<1>. USE DEF IInv, TypeOK, ReleasesWhatItHolds, SessionIsSound, HandedOver,
             RecordedAsHandedOver
<1>1. CASE UNCHANGED vars
  BY <1>1 DEF vars, session, feed
<1>2. CASE WindowEnds
  <2>1. /\ pc' \in {"finishing", "thrown"} /\ timer' = FALSE /\ client' = "ended"
        /\ subscription' \in {subscription, "refused"}
    BY <1>2, FinishKeepsSession DEF WindowEnds
  <2>. QED
    BY <1>2, <2>1 DEF WindowEnds, feed
<1>3. CASE SubscribeFails
  BY <1>3 DEF SubscribeFails, RejectSubscription, Outstanding, feed
<1>4. CASE Granted
  BY <1>4 DEF Granted, feed
<1>5. CASE Deliver \/ Answer
  BY <1>5, DeliverKeepsIInv, AnswerKeepsIInv
<1>6. CASE Begin \/ OnConnect \/ ConnectFails \/ ConnectionLost
  BY <1>6, ConnectKeepsIInv
<1>7. ASSUME BrokerSubscribes \/ \E t \in Topic, p \in Payload :
                                     Publish([topic |-> t, payload |-> p])
      PROVE  IInv'
  BY <1>7, BrokerKeepsIInv DEF Message
<1>. QED
  BY <1>1, <1>2, <1>3, <1>4, <1>5, <1>6, <1>7 DEF Next, Listen, Broker

\* So it holds throughout.
LEMMA IInvIsInvariant == Spec => []IInv
BY InitEstablishesIInv, NextKeepsIInv, PTL DEF Spec
-----------------------------------------------------------------------------
\* The session, the feed and the outcome hold what their types say
\* (mqtt.collector.ts:83-168).
THEOREM TypeCorrect == Spec => []TypeOK
<1>1. IInv => TypeOK
  BY DEF IInv
<1>. QED
  BY <1>1, IInvIsInvariant, PTL

\* Whichever of the timer, the buffer's limit, a refusal and a lost connection
\* comes first, a call that is over holds nothing (mqtt.collector.ts:140-168).
THEOREM NothingIsHeld == Spec => []ReleasesWhatItHolds
<1>1. IInv => ReleasesWhatItHolds
  BY DEF IInv
<1>. QED
  BY <1>1, IInvIsInvariant, PTL

\* If the collection returns, every message handed over is a record of the outcome, in
\* its order (mqtt.collector.ts:83-105, 147-158).
THEOREM NothingHandedOverIsLost == Spec => []HandedOverIsRecorded
<1>1. IInv => HandedOverIsRecorded
  BY LenProperties
     DEF IInv, TypeOK, HandedOver, RecordedAsHandedOver, HandedOverIsRecorded
<1>. QED
  BY <1>1, IInvIsInvariant, PTL
-----------------------------------------------------------------------------
\* What is answered accounts for the messages handed over.
Accounts ==
    pc = "done" =>
        /\ Outcome \in Contract!Outcome
        /\ Outcome.shown = Outcome.usable + Outcome.rejected
        /\ Outcome.rejected <= Outcome.errors

\* Every row that was read is usable or rejected, and a rejected one is reported.
LEMMA OutcomeAccounts == IInv => Accounts
<1>. SUFFICES ASSUME IInv, pc = "done" PROVE Accounts
  BY DEF Accounts
<1>. DEFINE U == {i \in DOMAIN records : IsUsable(records[i])}
            R == {i \in DOMAIN records : records[i].parseError}
            count == IF op = "collect" THEN handled ELSE 0
<1>1. Outcome = [state |-> "returned", shown |-> count, rejected |-> Cardinality(R),
                 usable |-> Cardinality(U), errors |-> errors]
  BY DEF Outcome
<1>2. Len(records) \in Nat /\ DOMAIN records = 1..Len(records) /\ errors \in Nat
  BY LenProperties DEF IInv, TypeOK
<1>3. CASE op = "collect"
  <2>1. /\ DOMAIN records = DOMAIN messages /\ errors = Cardinality(Rejects(messages))
        /\ \A i \in DOMAIN messages : records[i] = ToRecord(messages[i])
    BY <1>3 DEF IInv, RecordedAsHandedOver
  <2>2. Len(records) = count
    <3>1. HandedOverIsRecorded
      BY LenProperties
         DEF IInv, TypeOK, HandedOver, RecordedAsHandedOver, HandedOverIsRecorded
    <3>. QED
      BY <1>3, <3>1 DEF HandedOverIsRecorded
  <2>3. ASSUME NEW i \in DOMAIN records
        PROVE  /\ records[i].parseError <=> IsRejected(messages[i].payload)
               /\ IsUsable(records[i]) <=> ~ IsRejected(messages[i].payload)
    <3>1. records[i] = ToRecord(messages[i])
      BY <2>1
    <3>2. /\ records[i].parseError = IsRejected(messages[i].payload)
          /\ records[i].has = IF IsRejected(messages[i].payload) THEN {}
                              ELSE messages[i].payload.has
      BY <3>1 DEF ToRecord
    <3>3. CASE IsRejected(messages[i].payload)
      BY <3>2, <3>3, Zenon DEF IsUsable
    <3>4. CASE ~ IsRejected(messages[i].payload)
      <4>1. records[i].has = messages[i].payload.has /\ ~ records[i].parseError
        BY <3>2, <3>4, Zenon
      <4>. QED
        BY <3>4, <4>1, Zenon DEF IsUsable, IsRejected
    <3>. QED
      BY <3>3, <3>4
  <2>4. U \cup R = 1..Len(records) /\ U \cap R = {}
    BY <1>2, <2>3
  <2>5. R = Rejects(messages)
    BY <2>1, <2>3 DEF Rejects
  <2>6. Cardinality(R) = errors
    BY <2>1, <2>5, Zenon
  <2>. HIDE DEF U, R
  <2>7. /\ Cardinality(U) \in Nat /\ Cardinality(R) \in Nat
        /\ Len(records) = Cardinality(U) + Cardinality(R)
    BY <1>2, <2>4, PartsAddUp
  <2>. QED
    BY <1>1, <1>2, <2>2, <2>6, <2>7 DEF Accounts, Contract!Outcome
<1>4. CASE op # "collect"
  <2>1. records = <<>> /\ errors = 0
    BY <1>4 DEF IInv, RecordedAsHandedOver
  <2>2. Len(records) = 0 /\ U = {} /\ R = {}
    BY <1>2, <2>1, EmptySeq
  <2>3. Cardinality(U) = 0 /\ Cardinality(R) = 0
    BY <2>2, FS_EmptySet, Zenon
  <2>. HIDE DEF U, R
  <2>. QED
    BY <1>1, <1>4, <2>1, <2>2, <2>3 DEF Accounts, Contract!Outcome
<1>. QED
  BY <1>3, <1>4

\* An answer is given once, and nothing changes it.
LEMMA NextKeepsContract ==
    ASSUME TypeOK, Accounts', [Next]_vars
    PROVE  [Contract!Next \/ SpoiltByNull]_Outcome
<1>1. CASE pc \in {"done", "thrown", "spoilt"}
  <2>1. UNCHANGED <<op, pc, handled, records, errors>>
    BY <1>1 DEF Next, Begin, OnConnect, ConnectFails, Listen, WindowEnds, Deliver, SubscribeFails,
                Granted, Answer, Broker, BrokerSubscribes, ConnectionLost, Publish, vars,
                session, feed, TypeOK
  <2>. QED
    BY <2>1 DEF Outcome, IsUsable
<1>2. CASE pc \notin {"done", "thrown", "spoilt"}
  <2>1. Outcome = [state |-> "pending"]
    BY <1>2 DEF Outcome
  <2>2. CASE pc' = "done"
    <3>1. Outcome'.state = "returned"
      BY <2>2 DEF Outcome
    <3>. QED
      BY <2>1, <2>2, <3>1 DEF Accounts, Contract!Next, Contract!Returns
  <2>3. CASE pc' = "thrown"
    BY <2>1, <2>3 DEF Outcome, Contract!Next, Contract!Throws
  <2>4. CASE pc' = "spoilt"
    BY <1>2, <2>4
       DEF Next, Begin, OnConnect, ConnectFails, Listen, WindowEnds, Deliver, SubscribeFails,
           Granted, Answer, Broker, BrokerSubscribes, ConnectionLost, Publish, Finish,
           RejectSubscription, vars, session, SpoiltByNull
  <2>5. CASE pc' \notin {"done", "thrown", "spoilt"}
    BY <2>1, <2>5 DEF Outcome
  <2>. QED
    BY <2>2, <2>3, <2>4, <2>5
<1>. QED
  BY <1>1, <1>2

\* The call is answered at most once, and no message handed over is unaccounted for: the
\* safety half of KeepsContractButForNull.  Nothing but a message that is the JSON value
\* null makes it depart from the contract (mqtt.collector.ts:173,
\* collector.types.ts:127-129).
THEOREM CallKeepsTheContract ==
    Spec => Contract!Init /\ [][Contract!Next \/ SpoiltByNull]_Outcome
<1>1. Init => Contract!Init
  BY DEF Init, Contract!Init, Outcome
<1>2. TypeOK /\ Accounts' /\ [Next]_vars => [Contract!Next \/ SpoiltByNull]_Outcome
  BY NextKeepsContract
<1>. QED
  BY <1>1, <1>2, IInvIsInvariant, TypeCorrect, OutcomeAccounts, PTL DEF Spec
=============================================================================
