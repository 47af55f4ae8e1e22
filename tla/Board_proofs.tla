---------------------------- MODULE Board_proofs -----------------------------
(***************************************************************************)
(* What holds of the board for any batches, managers and clients, while    *)
(* collections change the tables it is drawn from.                         *)
(***************************************************************************)
EXTENDS Board, Counting

(***************************************************************************)
(* The tables only grow.                                                   *)
(***************************************************************************)
\* An event that may be accepted is an event, and no event is Null.
LEMMA ChoicesAreEvents ==
    ASSUME NEW b \in Batch, NEW s \in Station, NEW e \in Choice[b][s]
    PROVE  e \in Event /\ e # Null
BY BoardIsSound

\* A rebuild fills in or replaces events of one batch.
LEMMA RebuiltEvents ==
    ASSUME TypeOK, NEW b \in Batch, RebuildBatch(b)
    PROVE  /\ canonical' \in [Batch -> [Station -> Event \cup {Null}]]
           /\ \A c \in Batch : Reached(canonical[c]) \subseteq Reached(canonical'[c])
<1>0. PICK S \in SUBSET {s \in Station : Choice[b][s] # {}} :
         \E new \in [S -> UNION {Choice[b][s] : s \in S}] :
              /\ \A s \in S : new[s] \in Choice[b][s]
              /\ canonical' = [canonical EXCEPT ![b] =
                     [s \in Station |-> IF s \in S THEN new[s] ELSE canonical[b][s]]]
  BY DEF RebuildBatch, TypeOK
<1>1. PICK new \in [S -> UNION {Choice[b][s] : s \in S}] :
              /\ \A s \in S : new[s] \in Choice[b][s]
              /\ canonical' = [canonical EXCEPT ![b] =
                     [s \in Station |-> IF s \in S THEN new[s] ELSE canonical[b][s]]]
  BY <1>0
<1>2. canonical \in [Batch -> [Station -> Event \cup {Null}]]
  BY DEF TypeOK
<1>3. \A s \in S : s \in Station /\ new[s] \in Event /\ new[s] # Null
  BY <1>1, ChoicesAreEvents
<1>. DEFINE row == [s \in Station |-> IF s \in S THEN new[s] ELSE canonical[b][s]]
<1>4. row \in [Station -> Event \cup {Null}]
  BY <1>2, <1>3
<1>5. \A s \in Station : canonical[b][s] # Null => row[s] # Null
  BY <1>3
<1>. HIDE DEF row
<1>6. canonical' = [canonical EXCEPT ![b] = row]
  BY <1>1 DEF row
<1>. QED
  BY <1>2, <1>4, <1>5, <1>6 DEF Reached

\* No step takes an event or a link from a batch.
LEMMA TablesOnlyGrow ==
    ASSUME TypeOK, [Next]_vars, NEW b \in Batch
    PROVE  /\ Reached(canonical[b]) \subseteq Reached(canonical'[b])
           /\ link[b] # Null => link'[b] # Null
<1>1. CASE UNCHANGED <<canonical, link>>
  BY <1>1
<1>2. ASSUME NEW c \in Batch, RebuildBatch(c)
      PROVE  /\ Reached(canonical[b]) \subseteq Reached(canonical'[b])
             /\ link[b] # Null => link'[b] # Null
  <2>1. UNCHANGED link
    BY <1>2 DEF RebuildBatch
  <2>. QED
    BY <1>2, <2>1, RebuiltEvents
<1>3. ASSUME NEW c \in Batch, PublishLink(c)
      PROVE  /\ Reached(canonical[b]) \subseteq Reached(canonical'[b])
             /\ link[b] # Null => link'[b] # Null
  BY <1>3, BoardIsSound DEF PublishLink, TypeOK
<1>. QED
  BY <1>1, <1>2, <1>3
     DEF Next, vars, tables, Tick, AddManagementEvent, CountLinks, CountEvents, Stamp,
         Insert, Fail, Request, ReadLinks, ReadEvents, ReadActions, Respond, GiveUp

\* What a batch has is told from the stations it reached.
LEMMA HasEventsIfReached ==
    ASSUME NEW events, NEW b
    PROVE  HasEvents(events, b) <=> Reached(events[b]) # {}
BY DEF HasEvents, Reached

\* A batch that is known stays known.
LEMMA KnownStaysKnown ==
    ASSUME TypeOK, [Next]_vars, NEW b \in Batch
    PROVE  /\ HasEvents(canonical, b) => HasEvents(canonical', b)
           /\ IsKnown(b) => IsKnown(b)'
<1>1. HasEvents(canonical, b) => HasEvents(canonical', b)
  BY TablesOnlyGrow, HasEventsIfReached
<1>. QED
  BY <1>1, TablesOnlyGrow DEF IsKnown
(***************************************************************************)
(* Managers.                                                               *)
(***************************************************************************)
Ids == {a.id : a \in actions}

\* What the await a request has passed tells of its batch.
ManagerKnows(m) ==
    LET a == manager[m].action
    IN  /\ manager[m].pc # "idle" => a \in Action
        /\ manager[m].pc = "links" /\ manager[m].knew => IsKnown(a.batchId)
        /\ manager[m].pc = "events" /\ manager[m].knew => HasEvents(canonical, a.batchId)
        /\ manager[m].pc \in {"stamp", "insert"} => IsKnown(a.batchId)
        /\ manager[m].pc = "refused" => ~ manager[m].knew

\* The actions an action follows are older than it, in time and in number.
Follows(a) ==
    /\ a.after \subseteq Ids
    /\ \A x \in actions : x.id \in a.after => x.id < a.id /\ x.createdAt <= a.createdAt

\* A request knows stored actions only, and once stamped has a number no other
\* action has.
ManagerIsOrdered(m) ==
    LET a == manager[m].action
    IN  /\ manager[m].pc \in {"links", "events", "stamp", "insert"} => a.after \subseteq Ids
        /\ manager[m].pc = "insert" =>
              /\ a.id \in 1..stamped /\ a.id \notin Ids
              /\ a.createdAt <= now
              /\ Follows(a)
              /\ \A n \in Manager \ {m} :
                    manager[n].pc = "insert" => manager[n].action.id # a.id

ActionsAreOrdered ==
    \A a \in actions : a.id \in 1..stamped /\ a.createdAt <= now /\ Follows(a)

ManagersInv ==
    /\ TypeOK
    /\ \A m \in Manager : ManagerKnows(m) /\ ManagerIsOrdered(m)
    /\ ActionsAreOnTheBoard
    /\ ActionsAreOrdered

\* A request that moves on keeps the rest of its record.
LEMMA MoveIsARecord ==
    ASSUME TypeOK, NEW m \in Manager, NEW next
    PROVE  [manager[m] EXCEPT !.pc = next]
             = [pc |-> next, action |-> manager[m].action, knew |-> manager[m].knew]
<1>1. manager[m] \in [pc : {"idle", "links", "events", "stamp", "insert", "refused"},
                      action : Action \cup {Null}, knew : BOOLEAN]
  BY DEF TypeOK
<1>. HIDE DEF Action
<1>. QED
  BY <1>1

\* An action gets its id and its time from the client library.
LEMMA StampIsARecord ==
    ASSUME NEW a \in Action, NEW id, NEW at
    PROVE  [a EXCEPT !.id = id, !.createdAt = at]
             = [batchId |-> a.batchId, type |-> a.type, id |-> id, createdAt |-> at,
                after |-> a.after]
<1>. DEFINE b == [batchId |-> a.batchId, type |-> a.type, id |-> id,
                  createdAt |-> a.createdAt, after |-> a.after]
<1>1. [a EXCEPT !.id = id] = b
  BY DEF Action
<1>2. [b EXCEPT !.createdAt = at]
        = [batchId |-> a.batchId, type |-> a.type, id |-> id, createdAt |-> at,
           after |-> a.after]
  OBVIOUS
<1>3. [[a EXCEPT !.id = id] EXCEPT !.createdAt = at] = [b EXCEPT !.createdAt = at]
  BY <1>1
<1>. QED
  BY <1>2, <1>3

\* So does the request that sends it.
LEMMA StampedIsARecord ==
    ASSUME TypeOK, NEW m \in Manager, NEW next, NEW b
    PROVE  [manager[m] EXCEPT !.pc = next, !.action = b]
             = [pc |-> next, action |-> b, knew |-> manager[m].knew]
<1>. DEFINE s == [pc |-> next, action |-> manager[m].action, knew |-> manager[m].knew]
<1>1. [manager[m] EXCEPT !.pc = next] = s
  BY MoveIsARecord
<1>2. [s EXCEPT !.action = b] = [pc |-> next, action |-> b, knew |-> manager[m].knew]
  OBVIOUS
<1>3. [[manager[m] EXCEPT !.pc = next] EXCEPT !.action = b] = [s EXCEPT !.action = b]
  BY <1>1
<1>. QED
  BY <1>2, <1>3

\* Handlers hold what their type says.
LEMMA ManagerIsTyped ==
    ASSUME TypeOK, NEW m \in Manager
    PROVE  /\ manager[m].pc \in {"idle", "links", "events", "stamp", "insert", "refused"}
           /\ manager[m].action \in Action \cup {Null}
           /\ manager[m].knew \in BOOLEAN
           /\ manager[m] = [pc |-> manager[m].pc, action |-> manager[m].action,
                            knew |-> manager[m].knew]
BY DEF TypeOK

\* A step that changes at most one request, and neither actions nor the count,
\* keeps the order of the others.
LEMMA OthersStayOrdered ==
    ASSUME ManagersInv, UNCHANGED <<actions, stamped>>, now <= now', now' \in Nat,
           NEW m \in Manager, manager'[m] = manager[m],
           \A n \in Manager : manager'[n] = manager[n] \/ manager'[n].pc # "insert"
    PROVE  ManagerIsOrdered(m)'
<1>1. UNCHANGED Ids
  BY DEF Ids
<1>2. ManagerIsOrdered(m) /\ now \in Nat
  BY DEF ManagersInv, TypeOK
<1>3. manager[m].pc = "insert" => manager[m].action.createdAt \in Nat
  BY DEF ManagersInv, ManagerKnows, Action
<1>. QED
  BY <1>1, <1>2, <1>3 DEF ManagerIsOrdered, Follows

\* What is known of the others stays known.
LEMMA OthersStayKnown ==
    ASSUME ManagersInv, [Next]_vars, NEW m \in Manager, manager'[m] = manager[m]
    PROVE  ManagerKnows(m)'
<1>1. ManagerKnows(m) /\ TypeOK
  BY DEF ManagersInv
<1>2. manager[m].pc # "idle" => manager[m].action.batchId \in Batch
  BY <1>1 DEF ManagerKnows, Action
<1>. QED
  BY <1>1, <1>2, KnownStaysKnown DEF ManagerKnows

\* Stored actions stay on the board and in order while none is added.
LEMMA StoredActionsStay ==
    ASSUME ManagersInv, [Next]_vars, UNCHANGED <<actions>>,
           stamped <= stamped', stamped' \in Nat, now <= now', now' \in Nat
    PROVE  ActionsAreOnTheBoard' /\ ActionsAreOrdered'
<1>1. UNCHANGED Ids
  BY DEF Ids
<1>2. TypeOK /\ actions \subseteq Action /\ now \in Nat /\ stamped \in Nat
  BY BoardIsSound DEF ManagersInv, TypeOK
<1>3. ActionsAreOnTheBoard'
  BY <1>2, KnownStaysKnown DEF ManagersInv, ActionsAreOnTheBoard, Action
<1>4. ActionsAreOrdered'
  <2>1. ASSUME NEW a \in actions
        PROVE  a.id \in 1..stamped' /\ a.createdAt <= now' /\ Follows(a)'
    <3>1. a.id \in 1..stamped /\ a.createdAt <= now /\ Follows(a) /\ a \in Action
      BY <1>2 DEF ManagersInv, ActionsAreOrdered
    <3>2. a.id \in Nat /\ a.createdAt \in Nat
      BY <3>1 DEF Action
    <3>3. Follows(a)'
      BY <1>1, <3>1 DEF Follows
    <3>. QED
      BY <1>2, <3>1, <3>2, <3>3
  <2>. QED
    BY <2>1 DEF ActionsAreOrdered
<1>. QED
  BY <1>3, <1>4
(***************************************************************************)
(* One lemma per step.                                                     *)
(***************************************************************************)
\* Steps of the tables and of the clock.
LEMMA WorldKeepsManagers ==
    ASSUME ManagersInv, [Next]_vars, UNCHANGED <<actions, stamped, manager>>,
           TypeOK', now <= now'
    PROVE  ManagersInv'
<1>1. stamped' \in Nat /\ now' \in Nat /\ stamped <= stamped'
  BY BoardIsSound DEF TypeOK
<1>2. \A m \in Manager : ManagerKnows(m)' /\ ManagerIsOrdered(m)'
  BY <1>1, OthersStayKnown, OthersStayOrdered
<1>3. ActionsAreOnTheBoard' /\ ActionsAreOrdered'
  BY <1>1, StoredActionsStay
<1>. QED
  BY <1>2, <1>3 DEF ManagersInv

\* Steps of a request that does not get to its insert.
LEMMA RequestKeepsManagers ==
    ASSUME ManagersInv, [Next]_vars, UNCHANGED <<canonical, link, actions, stamped, now>>,
           TypeOK', NEW m \in Manager,
           \A n \in Manager \ {m} : manager'[n] = manager[n],
           manager'[m].pc # "insert", ManagerKnows(m)', ManagerIsOrdered(m)'
    PROVE  ManagersInv'
<1>1. stamped' \in Nat /\ now' \in Nat /\ stamped <= stamped' /\ now <= now'
  BY BoardIsSound DEF TypeOK, ManagersInv
<1>3. \A n \in Manager \ {m} : ManagerKnows(n)'
  BY OthersStayKnown
<1>4. \A n \in Manager \ {m} : ManagerIsOrdered(n)'
  BY <1>1, OthersStayOrdered
<1>5. ActionsAreOnTheBoard' /\ ActionsAreOrdered'
  BY <1>1, StoredActionsStay
<1>. QED
  BY <1>3, <1>4, <1>5 DEF ManagersInv

\* A handler that is replaced by a typed one leaves the state typed.
LEMMA RequestKeepsTypes ==
    ASSUME TypeOK, UNCHANGED <<canonical, link, actions, now, client, shown>>,
           stamped' \in 0..MaxActions,
           NEW m \in Manager, NEW r,
           r \in [pc : {"idle", "links", "events", "stamp", "insert", "refused"},
                  action : Action \cup {Null}, knew : BOOLEAN],
           manager' = [manager EXCEPT ![m] = r]
    PROVE  TypeOK'
<1>1. manager' \in [Manager -> [pc : {"idle", "links", "events", "stamp", "insert", "refused"},
                                action : Action \cup {Null}, knew : BOOLEAN]]
  BY DEF TypeOK
<1>. QED
  BY <1>1 DEF TypeOK, ReadBy

\* A request that fails holds nothing any more.
LEMMA FailKeepsManagers ==
    ASSUME ManagersInv, [Next]_vars, NEW m \in Manager, Fail(m)
    PROVE  ManagersInv'
<1>1. /\ manager' = [manager EXCEPT ![m] = Resting]
      /\ UNCHANGED <<canonical, link, actions, stamped, now, client, shown>>
  BY DEF Fail, tables
<1>2. TypeOK'
  BY <1>1, RequestKeepsTypes DEF ManagersInv, Resting, TypeOK
<1>3. manager'[m] = Resting /\ \A n \in Manager \ {m} : manager'[n] = manager[n]
  BY <1>1 DEF ManagersInv, TypeOK
<1>4. ManagerKnows(m)' /\ ManagerIsOrdered(m)'
  BY <1>3 DEF ManagerKnows, ManagerIsOrdered, Resting
<1>. QED
  BY <1>1, <1>2, <1>3, <1>4, RequestKeepsManagers DEF Resting

\* A new request knows what is on the board and what is stored.
LEMMA AddKeepsManagers ==
    ASSUME ManagersInv, [Next]_vars, NEW m \in Manager, NEW b \in Batch,
           NEW type \in ActionTypes, AddManagementEvent(m, b, type)
    PROVE  ManagersInv'
<1>. DEFINE a == [batchId |-> b, type |-> type, id |-> 0, createdAt |-> 0, after |-> Ids]
            r == [pc |-> "links", knew |-> IsKnown(b), action |-> a]
<1>1. /\ manager' = [manager EXCEPT ![m] = r]
      /\ UNCHANGED <<canonical, link, actions, stamped, now, client, shown>>
  BY DEF AddManagementEvent, tables, Ids
<1>2. Ids \in SUBSET Nat
  BY DEF ManagersInv, TypeOK, Ids, Action
<1>3. a \in Action
  BY <1>2, BoardIsSound DEF Action
<1>4. IsKnown(b) \in BOOLEAN /\ IsKnown(b)' = IsKnown(b)
  BY <1>1 DEF IsKnown, HasEvents
<1>5. TypeOK'
  <2>1. r \in [pc : {"idle", "links", "events", "stamp", "insert", "refused"},
               action : Action \cup {Null}, knew : BOOLEAN]
    BY <1>3, <1>4
  <2>. QED
    BY <1>1, <2>1, RequestKeepsTypes DEF ManagersInv, TypeOK
<1>6. /\ manager'[m] = r /\ UNCHANGED Ids
      /\ \A n \in Manager \ {m} : manager'[n] = manager[n]
  BY <1>1 DEF ManagersInv, TypeOK, Ids
<1>7. ManagerKnows(m)' /\ ManagerIsOrdered(m)'
  BY <1>3, <1>4, <1>6 DEF ManagerKnows, ManagerIsOrdered
<1>. QED
  BY <1>1, <1>5, <1>6, <1>7, RequestKeepsManagers

\* A batch without a link that is known has events.
LEMMA CountLinksKeepsManagers ==
    ASSUME ManagersInv, [Next]_vars, NEW m \in Manager, CountLinks(m)
    PROVE  ManagersInv'
<1>. DEFINE next == IF link[manager[m].action.batchId] # Null THEN "stamp" ELSE "events"
            r == [pc |-> next, action |-> manager[m].action, knew |-> manager[m].knew]
<1>1. /\ manager[m].pc = "links"
      /\ manager' = [manager EXCEPT ![m] = r]
      /\ UNCHANGED <<canonical, link, actions, stamped, now, client, shown>>
  <2>1. manager' = [manager EXCEPT ![m] = [manager[m] EXCEPT !.pc = next]]
    BY DEF CountLinks
  <2>. HIDE DEF next
  <2>2. [manager[m] EXCEPT !.pc = next] = r
    BY MoveIsARecord DEF ManagersInv
  <2>. QED
    BY <2>1, <2>2 DEF CountLinks, tables
<1>2. TypeOK'
  BY <1>1, ManagerIsTyped, RequestKeepsTypes DEF ManagersInv, TypeOK
<1>3. /\ manager'[m] = r /\ UNCHANGED Ids
      /\ \A n \in Manager \ {m} : manager'[n] = manager[n]
  BY <1>1 DEF ManagersInv, TypeOK, Ids
<1>4. ManagerKnows(m) /\ ManagerIsOrdered(m)
  BY DEF ManagersInv
<1>5. ManagerKnows(m)' /\ ManagerIsOrdered(m)'
  BY <1>1, <1>3, <1>4 DEF ManagerKnows, ManagerIsOrdered, IsKnown
<1>. QED
  BY <1>1, <1>2, <1>3, <1>5, RequestKeepsManagers

\* Only a batch without events is refused.
LEMMA CountEventsKeepsManagers ==
    ASSUME ManagersInv, [Next]_vars, NEW m \in Manager, CountEvents(m)
    PROVE  ManagersInv'
<1>. DEFINE next == IF HasEvents(canonical, manager[m].action.batchId)
                    THEN "stamp" ELSE "refused"
            r == [pc |-> next, action |-> manager[m].action, knew |-> manager[m].knew]
<1>1. /\ manager[m].pc = "events"
      /\ manager' = [manager EXCEPT ![m] = r]
      /\ UNCHANGED <<canonical, link, actions, stamped, now, client, shown>>
  <2>1. manager' = [manager EXCEPT ![m] = [manager[m] EXCEPT !.pc = next]]
    BY DEF CountEvents
  <2>. HIDE DEF next
  <2>2. [manager[m] EXCEPT !.pc = next] = r
    BY MoveIsARecord DEF ManagersInv
  <2>. QED
    BY <2>1, <2>2 DEF CountEvents, tables
<1>2. TypeOK'
  BY <1>1, ManagerIsTyped, RequestKeepsTypes DEF ManagersInv, TypeOK
<1>3. /\ manager'[m] = r /\ UNCHANGED Ids
      /\ \A n \in Manager \ {m} : manager'[n] = manager[n]
  BY <1>1 DEF ManagersInv, TypeOK, Ids
<1>4. ManagerKnows(m) /\ ManagerIsOrdered(m)
  BY DEF ManagersInv
<1>5. ManagerKnows(m)' /\ ManagerIsOrdered(m)'
  BY <1>1, <1>3, <1>4 DEF ManagerKnows, ManagerIsOrdered, IsKnown
<1>. QED
  BY <1>1, <1>2, <1>3, <1>5, RequestKeepsManagers
\* An action is numbered after every action it follows.
LEMMA StampKeepsManagers ==
    ASSUME ManagersInv, [Next]_vars, NEW m \in Manager, Stamp(m)
    PROVE  ManagersInv'
<1>. DEFINE a == manager[m].action
            b == [batchId |-> a.batchId, type |-> a.type, id |-> stamped + 1,
                  createdAt |-> now, after |-> a.after]
            r == [pc |-> "insert", action |-> b, knew |-> manager[m].knew]
<1>1. /\ TypeOK /\ ManagerKnows(m) /\ ManagerIsOrdered(m)
      /\ manager[m].pc = "stamp" /\ a \in Action
  BY DEF ManagersInv, ManagerKnows, Stamp
<1>2. /\ a.batchId \in Batch /\ a.type \in ManagementEventType /\ a.after \in SUBSET Nat
      /\ a = [batchId |-> a.batchId, type |-> a.type, id |-> a.id,
              createdAt |-> a.createdAt, after |-> a.after]
  BY <1>1 DEF Action
<1>3. [a EXCEPT !.id = stamped + 1, !.createdAt = now] = b
  BY <1>1, StampIsARecord
<1>4. /\ manager' = [manager EXCEPT ![m] = r]
      /\ stamped' = stamped + 1 /\ stamped' \in 0..MaxActions /\ stamped \in Nat /\ now \in Nat
      /\ UNCHANGED <<canonical, link, actions, now, client, shown>>
  <2>1. manager' = [manager EXCEPT ![m] =
            [manager[m] EXCEPT !.pc = "insert",
                               !.action = [a EXCEPT !.id = stamped + 1, !.createdAt = now]]]
    BY DEF Stamp
  <2>4. stamped' = stamped + 1 /\ stamped < MaxActions /\ stamped \in 0..MaxActions /\ now \in Nat
    BY <1>1, BoardIsSound DEF Stamp, TypeOK
  <2>. QED
    <3>1. UNCHANGED <<canonical, link, actions, now, client, shown>>
      BY DEF Stamp, tables
    <3>. HIDE DEF a, b
    <3>2. manager' = [manager EXCEPT ![m] =
              [manager[m] EXCEPT !.pc = "insert", !.action = b]]
      BY <1>3, <2>1
    <3>3. [manager[m] EXCEPT !.pc = "insert", !.action = b] = r
      BY <1>1, StampedIsARecord
    <3>4. stamped + 1 \in 0..MaxActions /\ stamped \in Nat
      BY <2>4, BoardIsSound
    <3>. QED
      BY <2>4, <3>1, <3>2, <3>3, <3>4
<1>5. b \in Action
  BY <1>2, <1>4 DEF Action
<1>6. TypeOK'
  <2>1. r \in [pc : {"idle", "links", "events", "stamp", "insert", "refused"},
               action : Action \cup {Null}, knew : BOOLEAN]
    BY <1>1, <1>5, ManagerIsTyped
  <2>. QED
    BY <1>1, <1>4, <2>1, RequestKeepsTypes
<1>7. /\ manager'[m] = r /\ UNCHANGED Ids
      /\ \A n \in Manager \ {m} : manager'[n] = manager[n]
  BY <1>1, <1>4 DEF TypeOK, Ids
<1>8. \A x \in actions : x.id \in 1..stamped /\ x.createdAt <= now
  BY DEF ManagersInv, ActionsAreOrdered
<1>9. ManagerKnows(m)'
  BY <1>1, <1>4, <1>5, <1>7 DEF ManagerKnows, IsKnown
<1>10. \A n \in Manager \ {m} : manager[n].pc = "insert" => manager[n].action.id \in 1..stamped
  BY DEF ManagersInv, ManagerIsOrdered
<1>11. ManagerIsOrdered(m)'
  <2>1. b.after \subseteq Ids
    BY <1>1 DEF ManagerIsOrdered
  <2>2. stamped + 1 \notin Ids /\ stamped + 1 \in 1..stamped'
    BY <1>4, <1>8 DEF Ids
  <2>3. \A x \in actions : x.id < stamped + 1 /\ x.createdAt <= now
    BY <1>4, <1>8
  <2>4. \A n \in Manager \ {m} : manager'[n].pc = "insert" => manager'[n].action.id # stamped + 1
    BY <1>4, <1>7, <1>10
  <2>5. /\ manager'[m].action = b /\ manager'[m].pc = "insert" /\ actions' = actions
        /\ Ids' = Ids /\ now' = now
        /\ b.id = stamped + 1 /\ b.createdAt = now
    BY <1>4, <1>7
  <2>6. manager'[m].action.createdAt <= now'
    BY <1>4, <2>5
  <2>. HIDE DEF b
  <2>. QED
    BY <2>1, <2>2, <2>3, <2>4, <2>5, <2>6 DEF ManagerIsOrdered, Follows
<1>12. \A n \in Manager \ {m} : ManagerKnows(n)'
  BY <1>7, OthersStayKnown
<1>13. ASSUME NEW n \in Manager \ {m} PROVE ManagerIsOrdered(n)'
  <2>1. ManagerIsOrdered(n)
    BY DEF ManagersInv
  <2>2. manager[n].pc = "insert" => manager[n].action.id # stamped + 1
    BY <1>4, <1>10
  <2>3. \A k \in Manager \ {n} : manager'[k].pc = "insert" =>
            manager'[k].action.id = stamped + 1 \/ manager'[k] = manager[k]
    BY <1>7
  <2>. QED
    BY <1>4, <1>7, <2>1, <2>2, <2>3 DEF ManagerIsOrdered, Follows
<1>14. ActionsAreOnTheBoard' /\ ActionsAreOrdered'
  BY <1>4, StoredActionsStay, BoardIsSound
<1>. QED
  BY <1>6, <1>9, <1>11, <1>12, <1>13, <1>14 DEF ManagersInv

\* No action follows one that was not stored when it was sent.
LEMMA InsertKeepsManagers ==
    ASSUME ManagersInv, [Next]_vars, NEW m \in Manager, Insert(m)
    PROVE  ManagersInv'
<1>. DEFINE a == manager[m].action
<1>1. /\ TypeOK /\ ManagerKnows(m) /\ ManagerIsOrdered(m)
      /\ manager[m].pc = "insert" /\ a \in Action
      /\ actions' = actions \cup {a} /\ manager' = [manager EXCEPT ![m] = Resting]
      /\ UNCHANGED <<canonical, link, stamped, now, client, shown>>
  BY DEF ManagersInv, ManagerKnows, Insert
<1>2. /\ a.id \in 1..stamped /\ a.id \notin Ids /\ a.createdAt <= now /\ Follows(a)
      /\ IsKnown(a.batchId)
  BY <1>1 DEF ManagerIsOrdered, ManagerKnows
<1>3. Ids' = Ids \cup {a.id}
  BY <1>1 DEF Ids
<1>4. TypeOK'
  BY <1>1 DEF TypeOK, Resting, ReadBy
<1>5. /\ manager'[m] = Resting
      /\ \A n \in Manager \ {m} : manager'[n] = manager[n]
  BY <1>1 DEF TypeOK
<1>6. ASSUME NEW x, Follows(x) PROVE Follows(x)'
  BY <1>1, <1>2, <1>3, <1>6 DEF Follows
<1>7. ManagerKnows(m)' /\ ManagerIsOrdered(m)'
  BY <1>5 DEF ManagerKnows, ManagerIsOrdered, Resting
<1>8. \A n \in Manager \ {m} : ManagerKnows(n)'
  BY <1>5, OthersStayKnown
<1>9. ASSUME NEW n \in Manager \ {m} PROVE ManagerIsOrdered(n)'
  <2>1. ManagerIsOrdered(n)
    BY DEF ManagersInv
  <2>2. manager[n].pc = "insert" => manager[n].action.id # a.id
    BY <1>1 DEF ManagerIsOrdered
  <2>3. \A k \in Manager : manager'[k].pc = "insert" => manager'[k] = manager[k]
    BY <1>5 DEF Resting
  <2>4. manager[n].pc = "insert" => Follows(manager[n].action)'
    BY <1>5, <1>6, <2>1 DEF ManagerIsOrdered
  <2>. QED
    BY <1>1, <1>3, <1>5, <2>1, <2>2, <2>3, <2>4 DEF ManagerIsOrdered
<1>10. ActionsAreOnTheBoard'
  BY <1>1, <1>2 DEF ManagersInv, ActionsAreOnTheBoard, IsKnown
<1>11. ActionsAreOrdered'
  BY <1>1, <1>2, <1>6 DEF ManagersInv, ActionsAreOrdered
<1>. QED
  BY <1>4, <1>7, <1>8, <1>9, <1>10, <1>11 DEF ManagersInv
(***************************************************************************)
(* Clients.                                                                *)
(***************************************************************************)
\* What is shown of a batch is what its events say.
ShownIsSound(c) ==
    \A b \in DOMAIN shown[c] :
        /\ b \in ScopeOf[c]
        /\ shown[c][b].currentStation = CurrentStation(shown[c][b].stations)
        /\ shown[c][b].state = "COMPLETED"
             <=> "DISPATCH" \in Reached(shown[c][b].stations)

\* What is shown of a batch was read from tables that only grow.
ShownIsBehind(c) ==
    \A b \in DOMAIN shown[c] :
        /\ Reached(shown[c][b].stations) \subseteq Reached(canonical[b])
        /\ Reached(shown[c][b].stations) = {} => link[b] # Null

\* The events of a request are between what is shown and what is stored.
EventsAreBetween(c) ==
    IsReading(c) /\ "events" \notin client[c].todo =>
        /\ client[c].events \in [ScopeOf[c] -> [Station -> Event \cup {Null}]]
        /\ \A b \in ScopeOf[c] : Reached(client[c].events[b]) \subseteq Reached(canonical[b])
        /\ \A b \in DOMAIN shown[c] :
              Reached(shown[c][b].stations) \subseteq Reached(client[c].events[b])

\* So are its links.
LinksAreBetween(c) ==
    IsReading(c) /\ "links" \notin client[c].todo =>
        /\ client[c].link \in [ScopeOf[c] -> Link \cup {Null}]
        /\ \A b \in ScopeOf[c] : client[c].link[b] # Null => link[b] # Null
        /\ \A b \in DOMAIN shown[c] :
              Reached(shown[c][b].stations) = {} => client[c].link[b] # Null

ClientIsSound(c) ==
    ShownIsSound(c) /\ ShownIsBehind(c) /\ EventsAreBetween(c) /\ LinksAreBetween(c)

ClientsInv == TypeOK /\ \A c \in Client : ClientIsSound(c)

\* A client asks for batches.
LEMMA ScopeIsOfBatches ==
    ASSUME NEW c \in Client
    PROVE  ScopeOf[c] \subseteq Batch
BY BoardIsSound

\* Whatever happens to the tables, what a client has read and shows stays
\* behind them.
LEMMA OthersStayBehind ==
    ASSUME ClientsInv, [Next]_vars, NEW c \in Client,
           client'[c] = client[c], shown'[c] = shown[c]
    PROVE  ClientIsSound(c)'
<1>1. /\ ShownIsSound(c) /\ ShownIsBehind(c) /\ EventsAreBetween(c) /\ LinksAreBetween(c)
      /\ TypeOK
  BY DEF ClientsInv, ClientIsSound
<1>2. \A b \in ScopeOf[c] : /\ Reached(canonical[b]) \subseteq Reached(canonical'[b])
                            /\ link[b] # Null => link'[b] # Null
  BY <1>1, ScopeIsOfBatches, TablesOnlyGrow
<1>3. \A b \in DOMAIN shown[c] : b \in ScopeOf[c]
  BY <1>1 DEF ShownIsSound
<1>4. ShownIsSound(c)'
  BY <1>1 DEF ShownIsSound
<1>5. ShownIsBehind(c)'
  BY <1>1, <1>2, <1>3 DEF ShownIsBehind
<1>6. EventsAreBetween(c)'
  BY <1>1, <1>2 DEF EventsAreBetween, IsReading
<1>7. LinksAreBetween(c)'
  BY <1>1, <1>2 DEF LinksAreBetween, IsReading
<1>. QED
  BY <1>4, <1>5, <1>6, <1>7 DEF ClientIsSound

\* The view of a batch holds its events and is derived from them.
LEMMA ViewIsOfItsEvents ==
    ASSUME NEW l, NEW events, NEW acts, NEW at
    PROVE  LET v == BatchView(l, events, acts, at)
           IN  /\ v.stations = events
               /\ v.currentStation = CurrentStation(events)
               /\ v.state = "COMPLETED" <=> "DISPATCH" \in Reached(events)
<1>. DEFINE v == BatchView(l, events, acts, at)
<1>1. /\ v.stations = events
      /\ v.currentStation = CurrentStation(events)
      /\ v.state = StateOf(events, ResolveBlock(acts).isBlocked)
  BY DEF BatchView
<1>2. StateOf(events, ResolveBlock(acts).isBlocked) = "COMPLETED"
        <=> "DISPATCH" \in Reached(events)
  BY DEF StateOf
<1>. QED
  BY <1>1, <1>2

\* The fields of a request.
LEMMA ClientIsTyped ==
    ASSUME TypeOK, NEW c \in Client
    PROVE  /\ client[c] \in ReadBy(c)
           /\ client[c].todo \subseteq Queries
           /\ client[c] = [todo |-> client[c].todo, link |-> client[c].link,
                           events |-> client[c].events, actions |-> client[c].actions]
           /\ client[c].todo # {} => IsReading(c)
<1>1. client[c] \in ReadBy(c)
  BY DEF TypeOK
<1>2. client[c].todo \subseteq Queries
  BY <1>1 DEF ReadBy
<1>3. client[c] = [todo |-> client[c].todo, link |-> client[c].link,
                   events |-> client[c].events, actions |-> client[c].actions]
  BY <1>1 DEF ReadBy
<1>4. client[c].todo # {} => IsReading(c)
  BY DEF IsReading, Waiting
<1>. QED
  BY <1>1, <1>2, <1>3, <1>4

\* A record of four fields keeps the rest when one is replaced.
LEMMA FieldIsReplaced ==
    ASSUME NEW A, NEW B, NEW C, NEW D,
           NEW x \in [todo : A, link : B, events : C, actions : D], NEW todo
    PROVE  [x EXCEPT !.todo = todo]
             = [todo |-> todo, link |-> x.link, events |-> x.events, actions |-> x.actions]
OBVIOUS

\* The queries still open are one of those fields.
LEMMA TodoIsReplaced ==
    ASSUME TypeOK, NEW c \in Client, NEW todo
    PROVE  [client[c] EXCEPT !.todo = todo]
             = [todo |-> todo, link |-> client[c].link,
                events |-> client[c].events, actions |-> client[c].actions]
<1>. DEFINE A == SUBSET Queries
            B == [ScopeOf[c] -> Link \cup {Null}] \cup {Null}
            C == [ScopeOf[c] -> [Station -> Event \cup {Null}]] \cup {Null}
            D == {Null} \cup (SUBSET Action)
<1>1. client[c] \in [todo : A, link : B, events : C, actions : D]
  BY ClientIsTyped DEF ReadBy
<1>. HIDE DEF A, B, C, D
<1>. QED
  BY <1>1, FieldIsReplaced

\* A step of one client keeps the others, and the types.
LEMMA ClientStep ==
    ASSUME ClientsInv, [Next]_vars, NEW c \in Client,
           UNCHANGED <<canonical, link, actions, stamped, now, manager>>,
           DOMAIN client' = Client, DOMAIN shown' = Client,
           \A d \in Client \ {c} : client'[d] = client[d] /\ shown'[d] = shown[d],
           client'[c] \in ReadBy(c), ClientIsSound(c)'
    PROVE  ClientsInv'
<1>1. \A d \in Client \ {c} : ClientIsSound(d)'
  BY OthersStayBehind
<1>2. TypeOK'
  BY DEF ClientsInv, TypeOK, ReadBy
<1>. QED
  BY <1>1, <1>2 DEF ClientsInv
\* Nothing has been read when a request starts.
LEMMA RequestKeepsClients ==
    ASSUME ClientsInv, [Next]_vars, NEW c \in Client, Request(c)
    PROVE  ClientsInv'
<1>. DEFINE r == [todo |-> Queries, link |-> client[c].link,
                  events |-> client[c].events, actions |-> client[c].actions]
<1>1. TypeOK /\ ClientIsSound(c)
  BY DEF ClientsInv
<1>2. /\ client' = [client EXCEPT ![c] = r]
      /\ UNCHANGED <<canonical, link, actions, stamped, now, manager, shown>>
  <2>1. client' = [client EXCEPT ![c] = [client[c] EXCEPT !.todo = Queries]]
    BY DEF Request
  <2>2. [client[c] EXCEPT !.todo = Queries] = r
    BY <1>1, TodoIsReplaced
  <2>. QED
    BY <2>1, <2>2 DEF Request, tables
<1>3. r \in ReadBy(c)
  BY <1>1, ClientIsTyped DEF ReadBy
<1>4. /\ DOMAIN client' = Client /\ DOMAIN shown' = Client /\ client'[c] = r
      /\ \A d \in Client \ {c} : client'[d] = client[d] /\ shown'[d] = shown[d]
  BY <1>1, <1>2 DEF TypeOK
<1>5. ClientIsSound(c)'
  BY <1>1, <1>2, <1>4
     DEF ClientIsSound, ShownIsSound, ShownIsBehind, EventsAreBetween, LinksAreBetween, Queries
<1>. QED
  BY <1>2, <1>3, <1>4, <1>5, ClientStep

\* A request that fails leaves what is shown alone.
LEMMA GiveUpKeepsClients ==
    ASSUME ClientsInv, [Next]_vars, NEW c \in Client, GiveUp(c)
    PROVE  ClientsInv'
<1>1. TypeOK /\ ClientIsSound(c)
  BY DEF ClientsInv
<1>2. /\ client' = [client EXCEPT ![c] = Waiting]
      /\ UNCHANGED <<canonical, link, actions, stamped, now, manager, shown>>
  BY DEF GiveUp, tables
<1>3. Waiting \in ReadBy(c)
  BY DEF ReadBy, Waiting
<1>4. /\ DOMAIN client' = Client /\ DOMAIN shown' = Client /\ client'[c] = Waiting
      /\ \A d \in Client \ {c} : client'[d] = client[d] /\ shown'[d] = shown[d]
  BY <1>1, <1>2 DEF TypeOK
<1>5. ClientIsSound(c)'
  BY <1>1, <1>2, <1>4
     DEF ClientIsSound, ShownIsSound, ShownIsBehind, EventsAreBetween, LinksAreBetween, IsReading
<1>. QED
  BY <1>2, <1>3, <1>4, <1>5, ClientStep

\* Links read now are those of the table.
LEMMA ReadLinksKeepsClients ==
    ASSUME ClientsInv, [Next]_vars, NEW c \in Client, ReadLinks(c)
    PROVE  ClientsInv'
<1>. DEFINE todo == client[c].todo \ {"links"}
            read == [b \in ScopeOf[c] |-> link[b]]
            r == [todo |-> todo, link |-> read,
                  events |-> client[c].events, actions |-> client[c].actions]
<1>1. /\ TypeOK /\ ClientIsSound(c) /\ IsReading(c) /\ "links" \in client[c].todo
  BY ClientIsTyped DEF ClientsInv, ReadLinks
<1>2. /\ client' = [client EXCEPT ![c] = r]
      /\ UNCHANGED <<canonical, link, actions, stamped, now, manager, shown>>
  <2>. DEFINE s == [todo |-> todo, link |-> client[c].link,
                    events |-> client[c].events, actions |-> client[c].actions]
  <2>1. client' = [client EXCEPT ![c] = [client[c] EXCEPT !.todo = todo, !.link = read]]
    BY DEF ReadLinks
  <2>2. UNCHANGED <<canonical, link, actions, stamped, now, manager, shown>>
    BY DEF ReadLinks, tables
  <2>. HIDE DEF todo, read
  <2>3. [client[c] EXCEPT !.todo = todo] = s
    BY <1>1, TodoIsReplaced
  <2>4. [s EXCEPT !.link = read] = r
    OBVIOUS
  <2>5. [[client[c] EXCEPT !.todo = todo] EXCEPT !.link = read] = [s EXCEPT !.link = read]
    BY <2>3
  <2>6. [client[c] EXCEPT !.todo = todo, !.link = read] = r
    BY <2>4, <2>5
  <2>. QED
    BY <2>1, <2>2, <2>6
<1>3. read \in [ScopeOf[c] -> Link \cup {Null}]
  BY <1>1, ScopeIsOfBatches DEF TypeOK
<1>4. r \in ReadBy(c)
  BY <1>1, <1>3, ClientIsTyped DEF ReadBy
<1>5. /\ DOMAIN client' = Client /\ DOMAIN shown' = Client /\ client'[c] = r
      /\ \A d \in Client \ {c} : client'[d] = client[d] /\ shown'[d] = shown[d]
  BY <1>1, <1>2 DEF TypeOK
<1>6. ShownIsSound(c)' /\ ShownIsBehind(c)'
  BY <1>1, <1>2 DEF ClientIsSound, ShownIsSound, ShownIsBehind
<1>7. EventsAreBetween(c)'
  BY <1>1, <1>2, <1>5 DEF ClientIsSound, EventsAreBetween
<1>8. LinksAreBetween(c)'
  <2>1. \A b \in DOMAIN shown[c] :
            b \in ScopeOf[c] /\ (Reached(shown[c][b].stations) = {} => link[b] # Null)
    BY <1>1 DEF ClientIsSound, ShownIsSound, ShownIsBehind
  <2>. QED
    BY <1>2, <1>3, <1>5, <2>1 DEF LinksAreBetween
<1>9. ClientIsSound(c)'
  BY <1>6, <1>7, <1>8 DEF ClientIsSound
<1>. QED
  BY <1>2, <1>4, <1>5, <1>9, ClientStep

\* Events read now are those of the table.
LEMMA ReadEventsKeepsClients ==
    ASSUME ClientsInv, [Next]_vars, NEW c \in Client, ReadEvents(c)
    PROVE  ClientsInv'
<1>. DEFINE todo == client[c].todo \ {"events"}
            read == [b \in ScopeOf[c] |-> canonical[b]]
            r == [todo |-> todo, link |-> client[c].link,
                  events |-> read, actions |-> client[c].actions]
<1>1. /\ TypeOK /\ ClientIsSound(c) /\ IsReading(c) /\ "events" \in client[c].todo
  BY ClientIsTyped DEF ClientsInv, ReadEvents
<1>2. /\ client' = [client EXCEPT ![c] = r]
      /\ UNCHANGED <<canonical, link, actions, stamped, now, manager, shown>>
  <2>. DEFINE s == [todo |-> todo, link |-> client[c].link,
                    events |-> client[c].events, actions |-> client[c].actions]
  <2>1. client' = [client EXCEPT ![c] = [client[c] EXCEPT !.todo = todo, !.events = read]]
    BY DEF ReadEvents
  <2>2. UNCHANGED <<canonical, link, actions, stamped, now, manager, shown>>
    BY DEF ReadEvents, tables
  <2>. HIDE DEF todo, read
  <2>3. [client[c] EXCEPT !.todo = todo] = s
    BY <1>1, TodoIsReplaced
  <2>4. [s EXCEPT !.events = read] = r
    OBVIOUS
  <2>5. [[client[c] EXCEPT !.todo = todo] EXCEPT !.events = read] = [s EXCEPT !.events = read]
    BY <2>3
  <2>6. [client[c] EXCEPT !.todo = todo, !.events = read] = r
    BY <2>4, <2>5
  <2>. QED
    BY <2>1, <2>2, <2>6
<1>3. read \in [ScopeOf[c] -> [Station -> Event \cup {Null}]]
  BY <1>1, ScopeIsOfBatches DEF TypeOK
<1>4. r \in ReadBy(c)
  BY <1>1, <1>3, ClientIsTyped DEF ReadBy
<1>5. /\ DOMAIN client' = Client /\ DOMAIN shown' = Client /\ client'[c] = r
      /\ \A d \in Client \ {c} : client'[d] = client[d] /\ shown'[d] = shown[d]
  BY <1>1, <1>2 DEF TypeOK
<1>6. ShownIsSound(c)' /\ ShownIsBehind(c)'
  BY <1>1, <1>2 DEF ClientIsSound, ShownIsSound, ShownIsBehind
<1>7. EventsAreBetween(c)'
  <2>1. \A b \in DOMAIN shown[c] :
            b \in ScopeOf[c] /\ Reached(shown[c][b].stations) \subseteq Reached(canonical[b])
    BY <1>1 DEF ClientIsSound, ShownIsSound, ShownIsBehind
  <2>2. \A b \in ScopeOf[c] : read[b] = canonical[b]
    OBVIOUS
  <2>3. client'[c].events = read
    BY <1>5
  <2>. HIDE DEF read
  <2>. QED
    BY <1>2, <1>3, <2>1, <2>2, <2>3 DEF EventsAreBetween
<1>8. LinksAreBetween(c)'
  BY <1>1, <1>2, <1>5 DEF ClientIsSound, LinksAreBetween
<1>9. ClientIsSound(c)'
  BY <1>6, <1>7, <1>8 DEF ClientIsSound
<1>. QED
  BY <1>2, <1>4, <1>5, <1>9, ClientStep
\* Actions say nothing of the station a batch is at.
LEMMA ReadActionsKeepsClients ==
    ASSUME ClientsInv, [Next]_vars, NEW c \in Client, ReadActions(c)
    PROVE  ClientsInv'
<1>. DEFINE todo == client[c].todo \ {"actions"}
            read == {a \in actions : a.batchId \in ScopeOf[c]}
            r == [todo |-> todo, link |-> client[c].link,
                  events |-> client[c].events, actions |-> read]
<1>1. /\ TypeOK /\ ClientIsSound(c) /\ IsReading(c) /\ "actions" \in client[c].todo
  BY ClientIsTyped DEF ClientsInv, ReadActions
<1>2. /\ client' = [client EXCEPT ![c] = r]
      /\ UNCHANGED <<canonical, link, actions, stamped, now, manager, shown>>
  <2>. DEFINE s == [todo |-> todo, link |-> client[c].link,
                    events |-> client[c].events, actions |-> client[c].actions]
  <2>1. client' = [client EXCEPT ![c] = [client[c] EXCEPT !.todo = todo, !.actions = read]]
    BY DEF ReadActions
  <2>2. UNCHANGED <<canonical, link, actions, stamped, now, manager, shown>>
    BY DEF ReadActions, tables
  <2>. HIDE DEF todo, read
  <2>3. [client[c] EXCEPT !.todo = todo] = s
    BY <1>1, TodoIsReplaced
  <2>4. [s EXCEPT !.actions = read] = r
    OBVIOUS
  <2>5. [[client[c] EXCEPT !.todo = todo] EXCEPT !.actions = read] = [s EXCEPT !.actions = read]
    BY <2>3
  <2>6. [client[c] EXCEPT !.todo = todo, !.actions = read] = r
    BY <2>4, <2>5
  <2>. QED
    BY <2>1, <2>2, <2>6
<1>3. read \in SUBSET Action
  BY <1>1 DEF TypeOK
<1>4. r \in ReadBy(c)
  BY <1>1, <1>3, ClientIsTyped DEF ReadBy
<1>5. /\ DOMAIN client' = Client /\ DOMAIN shown' = Client /\ client'[c] = r
      /\ \A d \in Client \ {c} : client'[d] = client[d] /\ shown'[d] = shown[d]
  BY <1>1, <1>2 DEF TypeOK
<1>6. ClientIsSound(c)'
  BY <1>1, <1>2, <1>5
     DEF ClientIsSound, ShownIsSound, ShownIsBehind, EventsAreBetween, LinksAreBetween
<1>. QED
  BY <1>2, <1>4, <1>5, <1>6, ClientStep

\* What a client is answered: every batch it knew, with at least the events it
\* was shown.
LEMMA AnswerIsAhead ==
    ASSUME ClientsInv, NEW c \in Client, Respond(c)
    PROVE  /\ DOMAIN shown' = Client /\ \A d \in Client \ {c} : shown'[d] = shown[d]
           /\ DOMAIN shown'[c] = Listed(client[c].link, client[c].events)
           /\ DOMAIN shown'[c] \subseteq ScopeOf[c]
           /\ \A b \in DOMAIN shown'[c] :
                 /\ shown'[c][b].stations = client[c].events[b]
                 /\ shown'[c][b].currentStation = CurrentStation(shown'[c][b].stations)
                 /\ shown'[c][b].state = "COMPLETED"
                      <=> "DISPATCH" \in Reached(shown'[c][b].stations)
           /\ \A b \in DOMAIN shown[c] : b \in DOMAIN shown'[c]
<1>. DEFINE answer == Views(client[c].link, client[c].events, client[c].actions, now)
<1>1. /\ TypeOK /\ ClientIsSound(c) /\ IsReading(c) /\ client[c].todo = {}
      /\ shown' = [shown EXCEPT ![c] = answer]
  BY DEF ClientsInv, Respond
<1>2. /\ ShownIsSound(c)
      /\ client[c].link \in [ScopeOf[c] -> Link \cup {Null}]
      /\ \A b \in DOMAIN shown[c] :
            /\ Reached(shown[c][b].stations) \subseteq Reached(client[c].events[b])
            /\ Reached(shown[c][b].stations) = {} => client[c].link[b] # Null
  BY <1>1 DEF ClientIsSound, EventsAreBetween, LinksAreBetween
<1>3. DOMAIN answer = Listed(client[c].link, client[c].events)
  BY DEF Views
<1>4. \A b \in DOMAIN answer :
         answer[b] = BatchView(client[c].link[b], client[c].events[b],
                               {a \in client[c].actions : a.batchId = b}, now)
  BY DEF Views
<1>. HIDE DEF answer
<1>5. \A b \in DOMAIN answer :
         /\ answer[b].stations = client[c].events[b]
         /\ answer[b].currentStation = CurrentStation(answer[b].stations)
         /\ answer[b].state = "COMPLETED" <=> "DISPATCH" \in Reached(answer[b].stations)
  <2>1. ASSUME NEW b \in DOMAIN answer, NEW e, NEW v, e = client[c].events[b], v = answer[b]
        PROVE  /\ v.stations = e
               /\ v.currentStation = CurrentStation(v.stations)
               /\ v.state = "COMPLETED" <=> "DISPATCH" \in Reached(v.stations)
    <3>. DEFINE l == client[c].link[b]
                acts == {a \in client[c].actions : a.batchId = b}
    <3>1. v = BatchView(l, e, acts, now)
      BY <1>4, <2>1
    <3>. HIDE DEF l, acts
    <3>. QED
      BY <3>1, ViewIsOfItsEvents
  <2>. QED
    BY <2>1
<1>6. DOMAIN answer \subseteq ScopeOf[c]
  BY <1>2, <1>3 DEF Listed
<1>7. \A b \in DOMAIN shown[c] : b \in DOMAIN answer
  BY <1>2, <1>3, HasEventsIfReached DEF Listed, ShownIsSound
<1>8. /\ DOMAIN shown' = Client /\ shown'[c] = answer
      /\ \A d \in Client \ {c} : shown'[d] = shown[d]
  BY <1>1 DEF TypeOK
<1>. QED
  BY <1>3, <1>5, <1>6, <1>7, <1>8

\* What was read is not ahead of the tables, so neither is the answer.
LEMMA RespondKeepsClients ==
    ASSUME ClientsInv, [Next]_vars, NEW c \in Client, Respond(c)
    PROVE  ClientsInv'
<1>1. TypeOK /\ ClientIsSound(c) /\ IsReading(c) /\ client[c].todo = {}
  BY DEF ClientsInv, Respond
<1>2. /\ client' = [client EXCEPT ![c] = Waiting]
      /\ UNCHANGED <<canonical, link, actions, stamped, now, manager>>
  BY DEF Respond, tables
<1>3. Waiting \in ReadBy(c)
  BY DEF ReadBy, Waiting
<1>4. /\ DOMAIN client' = Client /\ client'[c] = Waiting
      /\ \A d \in Client \ {c} : client'[d] = client[d]
  BY <1>1, <1>2 DEF TypeOK
<1>5. ShownIsSound(c)'
  BY AnswerIsAhead DEF ShownIsSound
<1>6. ShownIsBehind(c)'
  <2>1. \A b \in ScopeOf[c] :
            /\ Reached(client[c].events[b]) \subseteq Reached(canonical[b])
            /\ client[c].link[b] # Null => link[b] # Null
    BY <1>1 DEF ClientIsSound, EventsAreBetween, LinksAreBetween
  <2>2. \A b \in DOMAIN shown'[c] :
            client[c].link[b] # Null \/ Reached(client[c].events[b]) # {}
    BY AnswerIsAhead, HasEventsIfReached DEF Listed
  <2>. QED
    BY <1>2, <2>1, <2>2, AnswerIsAhead DEF ShownIsBehind
<1>7. EventsAreBetween(c)' /\ LinksAreBetween(c)'
  BY <1>4 DEF EventsAreBetween, LinksAreBetween, IsReading
<1>8. ClientIsSound(c)'
  BY <1>5, <1>6, <1>7 DEF ClientIsSound
<1>. QED
  BY <1>2, <1>3, <1>4, <1>8, AnswerIsAhead, ClientStep
(***************************************************************************)
(* The inductive invariant.                                                *)
(***************************************************************************)
IInv == ManagersInv /\ ClientsInv

\* Initially nothing is stored and nobody asks.
LEMMA InitEstablishesIInv == Init => IInv
<1>. SUFFICES ASSUME Init PROVE IInv
  OBVIOUS
<1>1. TypeOK
  <2>1. /\ canonical \in [Batch -> [Station -> Event \cup {Null}]]
        /\ link \in [Batch -> Link \cup {Null}]
        /\ actions \subseteq Action /\ stamped \in 0..MaxActions /\ now \in 0..MaxTime
    BY BoardIsSound DEF Init
  <2>2. manager \in [Manager -> [pc : {"idle", "links", "events", "stamp", "insert", "refused"},
                                 action : Action \cup {Null}, knew : BOOLEAN]]
    BY DEF Init, Resting
  <2>3. /\ DOMAIN client = Client /\ DOMAIN shown = Client
        /\ \A c \in Client : client[c] \in ReadBy(c)
    BY DEF Init, Waiting, ReadBy
  <2>. QED
    BY <2>1, <2>2, <2>3 DEF TypeOK
<1>2. \A m \in Manager : ManagerKnows(m) /\ ManagerIsOrdered(m)
  BY DEF Init, Resting, ManagerKnows, ManagerIsOrdered
<1>3. ActionsAreOnTheBoard /\ ActionsAreOrdered
  BY DEF Init, ActionsAreOnTheBoard, ActionsAreOrdered
<1>4. ASSUME NEW c \in Client PROVE ClientIsSound(c)
  <2>1. client[c] = Waiting /\ shown[c] = <<>> /\ DOMAIN shown[c] = {}
    BY DEF Init
  <2>. QED
    BY <2>1 DEF ClientIsSound, ShownIsSound, ShownIsBehind, EventsAreBetween,
                LinksAreBetween, IsReading
<1>. QED
  BY <1>1, <1>2, <1>3, <1>4 DEF IInv, ManagersInv, ClientsInv

\* A step that only touches clients keeps what holds of managers, and the
\* other way round.
LEMMA ClientsStay ==
    ASSUME ClientsInv, [Next]_vars, UNCHANGED <<client, shown>>, TypeOK'
    PROVE  ClientsInv'
BY OthersStayBehind DEF ClientsInv

\* Steps of clients.
LEMMA ClientStepKeepsIInv ==
    ASSUME IInv, [Next]_vars, NEW c \in Client,
           \/ Request(c) \/ ReadLinks(c) \/ ReadEvents(c) \/ ReadActions(c)
           \/ Respond(c) \/ GiveUp(c)
    PROVE  IInv'
<1>1. ClientsInv'
  BY RequestKeepsClients, ReadLinksKeepsClients, ReadEventsKeepsClients,
     ReadActionsKeepsClients, RespondKeepsClients, GiveUpKeepsClients DEF IInv
<1>2. UNCHANGED <<actions, stamped, manager, now>>
  BY DEF Request, ReadLinks, ReadEvents, ReadActions, Respond, GiveUp, tables
<1>3. now <= now' /\ TypeOK'
  BY <1>1, <1>2, BoardIsSound DEF ClientsInv, TypeOK
<1>. QED
  BY <1>1, <1>2, <1>3, WorldKeepsManagers DEF IInv

\* Steps of managers.
LEMMA ManagerStepKeepsIInv ==
    ASSUME IInv, [Next]_vars, NEW m \in Manager,
           \/ \E b \in Batch, type \in ActionTypes : AddManagementEvent(m, b, type)
           \/ CountLinks(m) \/ CountEvents(m) \/ Stamp(m) \/ Insert(m) \/ Fail(m)
    PROVE  IInv'
<1>1. ManagersInv'
  BY AddKeepsManagers, CountLinksKeepsManagers, CountEventsKeepsManagers,
     StampKeepsManagers, InsertKeepsManagers, FailKeepsManagers DEF IInv
<1>2. UNCHANGED <<client, shown>>
  BY DEF AddManagementEvent, CountLinks, CountEvents, Stamp, Insert, Fail
<1>. QED
  BY <1>1, <1>2, ClientsStay DEF IInv, ManagersInv

\* Steps of the tables and of the clock.
LEMMA WorldStepKeepsIInv ==
    ASSUME IInv, [Next]_vars,
           (\E b \in Batch : RebuildBatch(b) \/ PublishLink(b)) \/ Tick \/ UNCHANGED vars
    PROVE  IInv'
<1>1. UNCHANGED <<actions, stamped, manager, client, shown>>
  BY DEF RebuildBatch, PublishLink, Tick, vars, tables
<1>2. TypeOK
  BY DEF IInv, ManagersInv
<1>3. now \in 0..MaxTime /\ now' \in 0..MaxTime /\ now <= now'
  BY <1>2, BoardIsSound DEF TypeOK, RebuildBatch, PublishLink, Tick, vars
<1>4. canonical' \in [Batch -> [Station -> Event \cup {Null}]]
  <2>1. ASSUME NEW b \in Batch, RebuildBatch(b)
        PROVE  canonical' \in [Batch -> [Station -> Event \cup {Null}]]
    BY <1>2, <2>1, RebuiltEvents
  <2>2. CASE UNCHANGED canonical
    BY <1>2, <2>2 DEF TypeOK
  <2>. QED
    BY <2>1, <2>2 DEF PublishLink, Tick, vars, tables
<1>5. link' \in [Batch -> Link \cup {Null}]
  BY <1>2 DEF TypeOK, RebuildBatch, PublishLink, Tick, vars, tables
<1>6. TypeOK'
  BY <1>1, <1>2, <1>3, <1>4, <1>5 DEF TypeOK, ReadBy
<1>. QED
  BY <1>1, <1>3, <1>6, WorldKeepsManagers, ClientsStay DEF IInv

\* Every step keeps the invariant.
LEMMA NextKeepsIInv == IInv /\ [Next]_vars => IInv'
BY ClientStepKeepsIInv, ManagerStepKeepsIInv, WorldStepKeepsIInv DEF Next

\* So it holds throughout.
LEMMA IInvIsInvariant == Spec => []IInv
BY InitEstablishesIInv, NextKeepsIInv, PTL DEF Spec

(***************************************************************************)
(* What is shown never goes back.                                          *)
(***************************************************************************)
\* The stations are those of the line.
LEMMA StationsAre ==
    Station = {"RECEIVING", "SORTING", "WASHING", "DRYING", "FOLDING", "DISPATCH"}
<1>1. 1..6 = {1, 2, 3, 4, 5, 6}
  OBVIOUS
<1>. QED
  BY <1>1 DEF Station, STATION_ORDER

\* Positions are 0 to 5.
LEMMA IndexIsBounded ==
    ASSUME NEW s \in Station
    PROVE  StationIndex(s) \in 0..5
<1>1. \E i \in 1..6 : STATION_ORDER[i] = s
  BY DEF Station
<1>. QED
  BY <1>1 DEF StationIndex

\* Among stations there is a furthest one.
LEMMA FurthestStation ==
    ASSUME NEW events, Reached(events) # {}
    PROVE  /\ CurrentStation(events) \in Reached(events)
           /\ \A t \in Reached(events) :
                 StationIndex(t) <= StationIndex(CurrentStation(events))
<1>. DEFINE S == {StationIndex(s) : s \in Reached(events)}
<1>1. Reached(events) \subseteq Station
  BY DEF Reached
<1>2. S \subseteq 0..5 /\ S # {}
  BY <1>1, IndexIsBounded
<1>3. PICK i \in S : \A j \in S : j <= i
  BY <1>2, FurthestExists
<1>4. PICK s \in Reached(events) : i = StationIndex(s)
  BY <1>3
<1>5. \A t \in Reached(events) : StationIndex(t) <= StationIndex(s)
  BY <1>3, <1>4
<1>. QED
  BY <1>5 DEF CurrentStation

\* More events never mean an earlier station.
LEMMA PositionGrows ==
    ASSUME NEW old, NEW new, Reached(old) \subseteq Reached(new)
    PROVE  Position(CurrentStation(new)) >= Position(CurrentStation(old))
<1>1. Reached(old) \subseteq Station /\ Reached(new) \subseteq Station /\ Null \notin Station
  BY BoardIsSound DEF Reached
<1>2. CASE Reached(old) = {}
  <2>1. Position(CurrentStation(old)) = -1
    BY <1>2 DEF Position, CurrentStation
  <2>2. CASE Reached(new) = {}
    BY <2>1, <2>2 DEF Position, CurrentStation
  <2>3. CASE Reached(new) # {}
    <3>1. CurrentStation(new) \in Station
      BY <1>1, <2>3, FurthestStation
    <3>2. StationIndex(CurrentStation(new)) \in 0..5
      BY <3>1, IndexIsBounded
    <3>. QED
      BY <1>1, <2>1, <3>1, <3>2 DEF Position
  <2>. QED
    BY <2>2, <2>3
<1>3. CASE Reached(old) # {}
  <2>1. /\ CurrentStation(old) \in Reached(new) /\ CurrentStation(old) \in Station
        /\ CurrentStation(new) \in Station
        /\ StationIndex(CurrentStation(old)) <= StationIndex(CurrentStation(new))
    BY <1>1, <1>3, FurthestStation
  <2>2. /\ StationIndex(CurrentStation(old)) \in 0..5
        /\ StationIndex(CurrentStation(new)) \in 0..5
    BY <2>1, IndexIsBounded
  <2>. QED
    BY <1>1, <2>1, <2>2 DEF Position
<1>. QED
  BY <1>2, <1>3

\* No answer takes back an earlier one.
LEMMA AnswerNeverGoesBack ==
    ASSUME ClientsInv, [Next]_vars, NEW c \in Client, NEW b \in DOMAIN shown[c]
    PROVE  /\ b \in DOMAIN shown'[c]
           /\ Position(shown'[c][b].currentStation) >= Position(shown[c][b].currentStation)
           /\ shown[c][b].state = "COMPLETED" => shown'[c][b].state = "COMPLETED"
<1>1. /\ ShownIsSound(c) /\ EventsAreBetween(c)
  BY DEF ClientsInv, ClientIsSound
<1>. DEFINE old == shown[c][b].stations
            new == shown'[c][b].stations
<1>2. /\ shown[c][b].currentStation = CurrentStation(old)
      /\ shown[c][b].state = "COMPLETED" <=> "DISPATCH" \in Reached(old)
  BY <1>1 DEF ShownIsSound
<1>3. CASE Respond(c)
  <2>1. /\ b \in DOMAIN shown'[c] /\ new = client[c].events[b]
        /\ shown'[c][b].currentStation = CurrentStation(new)
        /\ shown'[c][b].state = "COMPLETED" <=> "DISPATCH" \in Reached(new)
    BY <1>3, AnswerIsAhead
  <2>2. Reached(old) \subseteq Reached(new)
    BY <1>1, <1>3, <2>1 DEF EventsAreBetween, Respond
  <2>. HIDE DEF old, new
  <2>. QED
    BY <1>2, <2>1, <2>2, PositionGrows
<1>4. CASE shown'[c] = shown[c]
  <2>1. Position(CurrentStation(old)) >= Position(CurrentStation(old))
    BY PositionGrows
  <2>. QED
    BY <1>2, <1>4, <2>1
<1>5. Respond(c) \/ shown'[c] = shown[c]
  <2>1. ASSUME NEW d \in Client \ {c}, Respond(d) PROVE shown'[c] = shown[c]
    BY <2>1, AnswerIsAhead
  <2>. QED
    BY <2>1
       DEF Next, vars, RebuildBatch, PublishLink, Tick, AddManagementEvent, CountLinks,
           CountEvents, Stamp, Insert, Fail, Request, ReadLinks, ReadEvents, ReadActions, GiveUp
<1>. QED
  BY <1>3, <1>4, <1>5

(***************************************************************************)
(* The theorems.                                                           *)
(***************************************************************************)
\* Tables and requests hold what their type says (production.service.ts).
THEOREM TypeCorrect == Spec => []TypeOK
<1>1. IInv => TypeOK
  BY DEF IInv, ManagersInv
<1>. QED
  BY <1>1, IInvIsInvariant, PTL

\* Without a foreign key and without a transaction, a management event is on a
\* batch the board knows (production.service.ts:126-143): nothing takes a batch
\* away between the check and the insert.
THEOREM ActionsOnTheBoard == Spec => []ActionsAreOnTheBoard
<1>1. IInv => ActionsAreOnTheBoard
  BY DEF IInv, ManagersInv
<1>. QED
  BY <1>1, IInvIsInvariant, PTL

\* Two counts at two moments never miss a batch that was known
\* (production.service.ts:127-133).
THEOREM RefusalsAreJust == Spec => []RefusedOnlyIfUnknown
<1>1. IInv => RefusedOnlyIfUnknown
  BY DEF IInv, ManagersInv, ManagerKnows, RefusedOnlyIfUnknown
<1>. QED
  BY <1>1, IInvIsInvariant, PTL

\* The replay agrees with the order in which managers saw their actions stored
\* (batch-state.ts:96-108).
THEOREM ReplayIsInOrder == Spec => []ReplayFollowsRealTime
<1>1. IInv => ReplayFollowsRealTime
  <2>. SUFFICES ASSUME IInv, NEW a \in actions, NEW b \in actions, a.id \in b.after
                PROVE  ReplayedBefore(a, b)
    BY DEF ReplayFollowsRealTime
  <2>1. a.id < b.id /\ a.createdAt <= b.createdAt /\ a.createdAt \in Nat /\ b.createdAt \in Nat
    BY DEF IInv, ManagersInv, ActionsAreOrdered, Follows, TypeOK, Action
  <2>. QED
    BY <2>1 DEF ReplayedBefore
<1>. QED
  BY <1>1, IInvIsInvariant, PTL

\* Whatever a read tears apart, a client never sees a batch vanish, go back or
\* reopen (production.service.ts:165-199, batch-state.ts:149-172).
THEOREM ShownOnlyAdvances == Spec => ShownNeverGoesBack
<1>1. IInv /\ [Next]_vars =>
        \A c \in Client : \A b \in DOMAIN shown[c] :
            /\ b \in DOMAIN shown'[c]
            /\ LET old == shown[c][b]
                   new == shown'[c][b]
               IN  /\ Position(new.currentStation) >= Position(old.currentStation)
                   /\ old.state = "COMPLETED" => new.state = "COMPLETED"
  BY AnswerNeverGoesBack DEF IInv
<1>. QED
  BY <1>1, IInvIsInvariant, PTL DEF Spec, ShownNeverGoesBack

(***************************************************************************)
(* What is shown of a batch was true once: when it was answered.           *)
(***************************************************************************)
\* The last event of a batch is at an instant, if there is an event.
LEMMA LastEventIsAnInstant ==
    ASSUME NEW events \in [Station -> Event \cup {Null}]
    PROVE  /\ Reached(events) # {} => LastEventAt(events) \in Nat
           /\ Reached(events) = {} <=> LastEventAt(events) = Null
<1>. DEFINE instants == {events[s].occurredAt : s \in Reached(events)}
            instant(s) == IF events[s] = Null THEN 0 ELSE events[s].occurredAt
<1>1. \A s \in Station : instant(s) \in Nat
  BY DEF Event
<1>2. \A s \in Reached(events) : s \in Station /\ events[s].occurredAt = instant(s)
  BY DEF Reached
<1>3. instants \in SUBSET Nat
  BY <1>1, <1>2
<1>. HIDE DEF instant
<1>4. PICK n \in Nat : \A s \in Station : instant(s) <= n
  <2>. DEFINE n == instant("RECEIVING") + instant("SORTING") + instant("WASHING")
                     + instant("DRYING") + instant("FOLDING") + instant("DISPATCH")
  <2>1. /\ instant("RECEIVING") \in Nat /\ instant("SORTING") \in Nat
        /\ instant("WASHING") \in Nat /\ instant("DRYING") \in Nat
        /\ instant("FOLDING") \in Nat /\ instant("DISPATCH") \in Nat
    BY <1>1, StationsAre
  <2>2. /\ n \in Nat
        /\ instant("RECEIVING") <= n /\ instant("SORTING") <= n /\ instant("WASHING") <= n
        /\ instant("DRYING") <= n /\ instant("FOLDING") <= n /\ instant("DISPATCH") <= n
    BY <2>1
  <2>. HIDE DEF n
  <2>. QED
    BY <2>2, StationsAre
<1>5. \A t \in instants : t <= n
  BY <1>2, <1>4
<1>6. LastEventAt(events) = IF instants = {} THEN Null
                            ELSE CHOOSE t \in instants : \A u \in instants : u <= t
  BY DEF LastEventAt, Latest
<1>7. instants = {} <=> Reached(events) = {}
  OBVIOUS
<1>. HIDE DEF instants
<1>8. instants # {} => \E t \in instants : \A u \in instants : u <= t
  BY <1>3, <1>5, GreatestExists
<1>9. instants # {} => LastEventAt(events) \in instants
  BY <1>6, <1>8
<1>. QED
  BY <1>3, <1>6, <1>7, <1>9, BoardIsSound

\* A batch that is shown as stale has been quiet for too long, and still is; one
\* without events is on a line.
ShownWasTrue(c) ==
    \A b \in DOMAIN shown[c] :
        LET v == shown[c][b]
        IN  /\ v.stations \in [Station -> Event \cup {Null}]
            /\ v.lastEventAt = LastEventAt(v.stations)
            /\ v.isStale => v.lastEventAt # Null /\ now - v.lastEventAt > StaleThreshold
            /\ Reached(v.stations) = {} => v.lineId # Null

\* Only an answer changes what a client is shown.
LEMMA OnlyAnswersShow ==
    ASSUME ClientsInv, [Next]_vars, NEW c \in Client
    PROVE  Respond(c) \/ shown'[c] = shown[c]
<1>1. ASSUME NEW d \in Client \ {c}, Respond(d) PROVE shown'[c] = shown[c]
  BY <1>1, AnswerIsAhead
<1>. QED
  BY <1>1
     DEF Next, vars, RebuildBatch, PublishLink, Tick, AddManagementEvent, CountLinks,
         CountEvents, Stamp, Insert, Fail, Request, ReadLinks, ReadEvents, ReadActions, GiveUp

\* What an answer says of the age and the line of a batch.
LEMMA AnswerIsTrue ==
    ASSUME ClientsInv, NEW c \in Client, Respond(c), NEW b \in DOMAIN shown'[c]
    PROVE  LET v == shown'[c][b]
           IN  /\ v.stations \in [Station -> Event \cup {Null}]
               /\ v.lastEventAt = LastEventAt(v.stations)
               /\ v.isStale <=> /\ v.lastEventAt # Null /\ v.state # "COMPLETED"
                                /\ now - v.lastEventAt > StaleThreshold
               /\ Reached(v.stations) = {} => v.lineId # Null
<1>1. /\ TypeOK /\ IsReading(c) /\ client[c].todo = {} /\ now' = now
      /\ EventsAreBetween(c) /\ LinksAreBetween(c)
      /\ shown' = [shown EXCEPT ![c] =
             Views(client[c].link, client[c].events, client[c].actions, now)]
  BY DEF ClientsInv, ClientIsSound, Respond
<1>2. /\ client[c].events \in [ScopeOf[c] -> [Station -> Event \cup {Null}]]
      /\ client[c].link \in [ScopeOf[c] -> Link \cup {Null}]
  BY <1>1 DEF EventsAreBetween, LinksAreBetween
<1>3. b \in Listed(client[c].link, client[c].events) /\ b \in ScopeOf[c]
  BY AnswerIsAhead
<1>4. PICK l, e, acts : /\ l = client[c].link[b] /\ e = client[c].events[b]
                        /\ acts = {a \in client[c].actions : a.batchId = b}
  OBVIOUS
<1>5. shown'[c] = Views(client[c].link, client[c].events, client[c].actions, now)
  BY <1>1 DEF TypeOK
<1>6. shown'[c][b] = BatchView(l, e, acts, now)
  BY <1>3, <1>4, <1>5 DEF Views
<1>7. PICK v : v = BatchView(l, e, acts, now)
  OBVIOUS
<1>8. /\ v.stations = e /\ v.lastEventAt = LastEventAt(e)
      /\ v.lineId = IF l = Null THEN Null ELSE l.lineId
      /\ v.isStale = IsStale(v.state, v.lastEventAt, now)
  BY <1>7 DEF BatchView
<1>9. e \in [Station -> Event \cup {Null}] /\ l \in Link \cup {Null}
  BY <1>2, <1>3, <1>4
<1>10. Reached(e) = {} => l # Null
  BY <1>3, <1>4, HasEventsIfReached DEF Listed
<1>11. v.isStale <=> /\ v.lastEventAt # Null /\ v.state # "COMPLETED"
                     /\ now - v.lastEventAt > StaleThreshold
  BY <1>8, Zenon DEF IsStale
<1>. QED
  BY <1>6, <1>7, <1>8, <1>9, <1>10, <1>11, BoardIsSound

\* The clock only makes what is shown older.
LEMMA ShownStaysTrue ==
    ASSUME ClientsInv, ClientsInv', [Next]_vars, \A c \in Client : ShownWasTrue(c)
    PROVE  \A c \in Client : ShownWasTrue(c)'
<1>. SUFFICES ASSUME NEW c \in Client, NEW b \in DOMAIN shown'[c]
              PROVE  LET v == shown'[c][b]
                     IN  /\ v.stations \in [Station -> Event \cup {Null}]
                         /\ v.lastEventAt = LastEventAt(v.stations)
                         /\ v.isStale => /\ v.lastEventAt # Null
                                         /\ now' - v.lastEventAt > StaleThreshold
                         /\ Reached(v.stations) = {} => v.lineId # Null
  BY DEF ShownWasTrue
<1>1. CASE Respond(c)
  <2>1. now' = now
    BY <1>1 DEF Respond
  <2>. QED
    BY <1>1, <2>1, AnswerIsTrue
<1>2. CASE shown'[c] = shown[c]
  <2>1. now \in Nat /\ now' \in Nat /\ now <= now' /\ StaleThreshold \in Nat
    <3>1. now \in Nat /\ now' \in Nat
      BY BoardIsSound DEF ClientsInv, TypeOK
    <3>2. now' = now \/ now' = now + 1
      BY DEF Next, vars, RebuildBatch, PublishLink, Tick, AddManagementEvent, CountLinks,
             CountEvents, Stamp, Insert, Fail, Request, ReadLinks, ReadEvents, ReadActions,
             Respond, GiveUp
    <3>. QED
      BY <3>1, <3>2, OptionsAreSound
  <2>2. PICK v : v = shown[c][b]
    OBVIOUS
  <2>3. /\ v.stations \in [Station -> Event \cup {Null}]
        /\ v.lastEventAt = LastEventAt(v.stations)
        /\ v.isStale => v.lastEventAt # Null /\ now - v.lastEventAt > StaleThreshold
        /\ Reached(v.stations) = {} => v.lineId # Null
    BY <1>2, <2>2 DEF ShownWasTrue
  <2>4. v.lastEventAt # Null => v.lastEventAt \in Nat
    BY <2>3, LastEventIsAnInstant
  <2>5. v.isStale => v.lastEventAt # Null /\ now' - v.lastEventAt > StaleThreshold
    BY <2>1, <2>3, <2>4
  <2>. QED
    BY <1>2, <2>2, <2>3, <2>5
<1>. QED
  BY <1>1, <1>2, OnlyAnswersShow

\* So what a client is shown was true when it was answered.
LEMMA ShownWasTrueAlways == Spec => [](\A c \in Client : ShownWasTrue(c))
<1>1. Init => \A c \in Client : ShownWasTrue(c)
  BY DEF Init, ShownWasTrue
<1>2. /\ IInv /\ IInv' /\ [Next]_vars /\ (\A c \in Client : ShownWasTrue(c))
      => (\A c \in Client : ShownWasTrue(c))'
  BY ShownStaysTrue DEF IInv
<1>. QED
  BY <1>1, <1>2, IInvIsInvariant, PTL DEF Spec

\* An answer makes a batch fresh again only with news of it.
LEMMA AnswerStaysStale ==
    ASSUME ClientsInv, [Next]_vars, NEW c \in Client, ShownWasTrue(c),
           NEW b \in DOMAIN shown[c], shown[c][b].isStale, ~ shown'[c][b].isStale
    PROVE  \/ shown'[c][b].state = "COMPLETED"
           \/ shown'[c][b].lastEventAt > shown[c][b].lastEventAt
<1>1. Respond(c)
  BY OnlyAnswersShow
<1>2. PICK old, new : old = shown[c][b] /\ new = shown'[c][b]
  OBVIOUS
<1>3. /\ b \in DOMAIN shown'[c] /\ b \in ScopeOf[c]
      /\ Reached(old.stations) \subseteq Reached(new.stations)
  <2>1. b \in DOMAIN shown'[c] /\ new.stations = client[c].events[b]
    BY <1>1, <1>2, AnswerIsAhead
  <2>. QED
    BY <1>1, <1>2, <2>1
       DEF ClientsInv, ClientIsSound, ShownIsSound, EventsAreBetween, Respond
<1>4. /\ old.stations \in [Station -> Event \cup {Null}]
      /\ old.lastEventAt = LastEventAt(old.stations)
      /\ old.lastEventAt # Null /\ now - old.lastEventAt > StaleThreshold
  BY <1>2 DEF ShownWasTrue
<1>5. /\ new.stations \in [Station -> Event \cup {Null}]
      /\ new.lastEventAt = LastEventAt(new.stations)
      /\ \/ new.lastEventAt = Null \/ new.state = "COMPLETED"
         \/ ~ (now - new.lastEventAt > StaleThreshold)
  BY <1>1, <1>2, <1>3, AnswerIsTrue
<1>6. old.lastEventAt \in Nat /\ new.lastEventAt \in Nat /\ new.lastEventAt # Null
  BY <1>3, <1>4, <1>5, LastEventIsAnInstant
<1>7. now \in Nat /\ StaleThreshold \in Nat
  BY BoardIsSound, OptionsAreSound DEF ClientsInv, TypeOK
<1>8. ~ (now - new.lastEventAt > StaleThreshold) => new.lastEventAt > old.lastEventAt
  BY <1>4, <1>6, <1>7
<1>. QED
  BY <1>2, <1>5, <1>6, <1>8

\* Whatever is corrected, rebuilt or read in pieces, the board does not take back
\* that a batch has been quiet for too long unless a later event was accepted or the
\* batch is done (batch-state.ts:174-185, production.service.ts:165-199).
THEOREM StaleStays == Spec => StaleUntilNewerEvent
<1>1. /\ IInv /\ (\A c \in Client : ShownWasTrue(c)) /\ [Next]_vars
      => [\A c \in Client : \A b \in DOMAIN shown[c] :
             shown[c][b].isStale /\ ~ shown'[c][b].isStale =>
                 \/ shown'[c][b].state = "COMPLETED"
                 \/ shown'[c][b].lastEventAt > shown[c][b].lastEventAt]_shown
  BY AnswerStaysStale DEF IInv
<1>. QED
  BY <1>1, IInvIsInvariant, ShownWasTrueAlways, PTL DEF Spec, StaleUntilNewerEvent

(***************************************************************************)
(* The work in progress of a line.                                         *)
(***************************************************************************)
Known == {b \in Batch : IsKnown(b)}

\* Of all batches there may ever be, the board knows finitely many.
KnownIsFinite == IsFiniteSet(Known)

\* A collection makes at most one batch known at a time.
LEMMA KnownGrowsByOne ==
    ASSUME TypeOK, [Next]_vars, KnownIsFinite
    PROVE  KnownIsFinite'
<1>1. ASSUME NEW b \in Batch, RebuildBatch(b) \/ PublishLink(b) PROVE KnownIsFinite'
  <2>1. \A c \in Batch \ {b} : link'[c] = link[c] /\ canonical'[c] = canonical[c]
    BY <1>1 DEF RebuildBatch, PublishLink, TypeOK
  <2>2. \A c \in Batch \ {b} : IsKnown(c)' => IsKnown(c)
    BY <2>1 DEF IsKnown, HasEvents
  <2>3. Known' \subseteq Known \cup {b}
    BY <2>2 DEF Known
  <2>4. IsFiniteSet(Known \cup {b})
    BY FS_AddElement DEF KnownIsFinite
  <2>5. IsFiniteSet(Known')
    BY <2>3, <2>4, FS_Subset
  <2>. QED
    BY <2>5 DEF KnownIsFinite
<1>2. CASE UNCHANGED <<canonical, link>>
  BY <1>2 DEF KnownIsFinite, Known, IsKnown, HasEvents
<1>. QED
  BY <1>1, <1>2
     DEF Next, vars, tables, Tick, AddManagementEvent, CountLinks, CountEvents, Stamp,
         Insert, Fail, Request, ReadLinks, ReadEvents, ReadActions, Respond, GiveUp

\* So what it knows stays finite.
LEMMA KnownStaysFinite == Spec => []KnownIsFinite
<1>1. Init => KnownIsFinite
  <2>1. Init => Known = {}
    BY DEF Init, Known, IsKnown, HasEvents
  <2>. QED
    BY <2>1, FS_EmptySet DEF KnownIsFinite
<1>2. IInv /\ [Next]_vars /\ KnownIsFinite => KnownIsFinite'
  BY KnownGrowsByOne DEF IInv, ClientsInv
<1>. QED
  BY <1>1, <1>2, IInvIsInvariant, PTL DEF Spec

\* A client is shown known batches only.
LEMMA ShownIsFinite ==
    ASSUME ClientsInv, KnownIsFinite, NEW c \in Client
    PROVE  IsFiniteSet(DOMAIN shown[c])
<1>1. ShownIsSound(c) /\ ShownIsBehind(c)
  BY DEF ClientsInv, ClientIsSound
<1>2. ASSUME NEW b \in DOMAIN shown[c] PROVE b \in Known
  <2>1. b \in Batch
    BY <1>1, ScopeIsOfBatches DEF ShownIsSound
  <2>2. /\ Reached(shown[c][b].stations) \subseteq Reached(canonical[b])
        /\ Reached(shown[c][b].stations) = {} => link[b] # Null
    BY <1>1 DEF ShownIsBehind
  <2>. QED
    BY <2>1, <2>2, HasEventsIfReached DEF Known, IsKnown
<1>. QED
  BY <1>2, FS_Subset DEF KnownIsFinite

\* The last station is the furthest, and a batch is somewhere if it has an event.
LEMMA StationAndState ==
    ASSUME NEW events
    PROVE  /\ CurrentStation(events) \in Station \cup {Null}
           /\ CurrentStation(events) = Null <=> Reached(events) = {}
           /\ CurrentStation(events) = "DISPATCH" <=> "DISPATCH" \in Reached(events)
<1>1. Reached(events) \subseteq Station /\ Null \notin Station
  BY BoardIsSound DEF Reached
<1>2. CASE Reached(events) = {}
  BY <1>1, <1>2, StationsAre DEF CurrentStation
<1>3. CASE Reached(events) # {}
  <2>1. /\ CurrentStation(events) \in Reached(events)
        /\ \A t \in Reached(events) : StationIndex(t) <= StationIndex(CurrentStation(events))
    BY <1>3, FurthestStation
  <2>2. ASSUME "DISPATCH" \in Reached(events) PROVE CurrentStation(events) = "DISPATCH"
    <3>1. \A i \in 1..6 : STATION_ORDER[i] = "DISPATCH" <=> i = 6
      BY DEF STATION_ORDER
    <3>2. StationIndex("DISPATCH") = 5
      BY <3>1 DEF StationIndex
    <3>3. StationIndex(CurrentStation(events)) \in 0..5
      BY <1>1, <2>1, IndexIsBounded
    <3>4. StationIndex(CurrentStation(events)) = 5
      BY <2>1, <2>2, <3>2, <3>3
    <3>5. PICK i \in 1..6 : STATION_ORDER[i] = CurrentStation(events)
      BY <1>1, <2>1 DEF Station
    <3>6. \A j \in 1..6 : STATION_ORDER[j] = STATION_ORDER[i] => j = i
      BY DEF STATION_ORDER
    <3>7. StationIndex(CurrentStation(events)) = i - 1
      BY <3>5, <3>6 DEF StationIndex
    <3>. QED
      BY <3>1, <3>4, <3>5, <3>7
  <2>. QED
    BY <1>1, <1>3, <2>1, <2>2
<1>. QED
  BY <1>2, <1>3

\* Sets that have no member in common add up.
LEMMA DisjointAddsUp ==
    ASSUME NEW U, NEW V, IsFiniteSet(U), IsFiniteSet(V), U \cap V = {}
    PROVE  /\ IsFiniteSet(U \cup V)
           /\ Cardinality(U \cup V) = Cardinality(U) + Cardinality(V)
<1>1. /\ IsFiniteSet(U \cup V)
      /\ Cardinality(U \cup V) = Cardinality(U) + Cardinality(V) - Cardinality(U \cap V)
  BY FS_Union
<1>2. Cardinality(U) \in Nat /\ Cardinality(V) \in Nat
  BY FS_CardinalityType
<1>3. Cardinality(U \cap V) = 0
  BY FS_EmptySet, Zenon
<1>. QED
  BY <1>1, <1>2, <1>3

\* A batch that is somewhere is counted at the station it is at, or as completed.
LEMMA LineAddsUp ==
    ASSUME NEW views, IsFiniteSet(DOMAIN views),
           \A b \in DOMAIN views :
               /\ views[b].currentStation \in Station \cup {Null}
               /\ views[b].state = "COMPLETED" <=> views[b].currentStation = "DISPATCH"
    PROVE  LET line    == LineView(views)
               started == {b \in DOMAIN views : views[b].currentStation # Null}
           IN  /\ Cardinality(started) = line.completedCount
                    + line.stations["RECEIVING"].wip + line.stations["SORTING"].wip
                    + line.stations["WASHING"].wip + line.stations["DRYING"].wip
                    + line.stations["FOLDING"].wip
               /\ line.stations["DISPATCH"].wip = 0
<1>. DEFINE D == DOMAIN views
            C == {b \in D : views[b].state = "COMPLETED"}
            At(s) == {b \in D : AtStation(views[b], s)}
            started == {b \in D : views[b].currentStation # Null}
<1>1. LineView(views).completedCount = Cardinality(C)
  BY DEF LineView, CountOf
<1>2. \A s \in Station : LineView(views).stations[s].wip = Cardinality(At(s))
  BY DEF LineView, CountOf
<1>3. /\ IsFiniteSet(C) /\ IsFiniteSet(At("RECEIVING")) /\ IsFiniteSet(At("SORTING"))
      /\ IsFiniteSet(At("WASHING")) /\ IsFiniteSet(At("DRYING")) /\ IsFiniteSet(At("FOLDING"))
  BY FS_Subset
<1>4. At("DISPATCH") = {}
  BY DEF AtStation
<1>5. Null \notin Station
  BY BoardIsSound
<1>6. started = C \cup (At("RECEIVING") \cup (At("SORTING") \cup (At("WASHING")
                  \cup (At("DRYING") \cup At("FOLDING")))))
  BY <1>5, StationsAre DEF AtStation
<1>7. \A b \in D : \A s \in Station : b \in At(s) <=> b \notin C /\ views[b].currentStation = s
  BY DEF AtStation
<1>. DEFINE P4 == At("DRYING") \cup At("FOLDING")
            P3 == At("WASHING") \cup P4
            P2 == At("SORTING") \cup P3
            P1 == At("RECEIVING") \cup P2
<1>8. /\ At("DRYING") \cap At("FOLDING") = {} /\ At("WASHING") \cap P4 = {}
      /\ At("SORTING") \cap P3 = {} /\ At("RECEIVING") \cap P2 = {} /\ C \cap P1 = {}
  BY DEF AtStation
<1>9. started = C \cup P1
  BY <1>6
<1>. HIDE DEF C, At, started
<1>10. IsFiniteSet(P4) /\ Cardinality(P4) = Cardinality(At("DRYING")) + Cardinality(At("FOLDING"))
  BY <1>3, <1>8, DisjointAddsUp
<1>. HIDE DEF P4
<1>11. IsFiniteSet(P3) /\ Cardinality(P3) = Cardinality(At("WASHING")) + Cardinality(P4)
  BY <1>3, <1>8, <1>10, DisjointAddsUp
<1>. HIDE DEF P3
<1>12. IsFiniteSet(P2) /\ Cardinality(P2) = Cardinality(At("SORTING")) + Cardinality(P3)
  BY <1>3, <1>8, <1>11, DisjointAddsUp
<1>. HIDE DEF P2
<1>13. IsFiniteSet(P1) /\ Cardinality(P1) = Cardinality(At("RECEIVING")) + Cardinality(P2)
  BY <1>3, <1>8, <1>12, DisjointAddsUp
<1>. HIDE DEF P1
<1>14. Cardinality(C \cup P1) = Cardinality(C) + Cardinality(P1)
  BY <1>3, <1>8, <1>13, DisjointAddsUp
<1>15. /\ Cardinality(C) \in Nat /\ Cardinality(At("RECEIVING")) \in Nat
       /\ Cardinality(At("SORTING")) \in Nat /\ Cardinality(At("WASHING")) \in Nat
       /\ Cardinality(At("DRYING")) \in Nat /\ Cardinality(At("FOLDING")) \in Nat
  BY <1>3, FS_CardinalityType
<1>16. Cardinality(started) = Cardinality(C) + Cardinality(At("RECEIVING"))
         + Cardinality(At("SORTING")) + Cardinality(At("WASHING"))
         + Cardinality(At("DRYING")) + Cardinality(At("FOLDING"))
  BY <1>9, <1>10, <1>11, <1>12, <1>13, <1>14, <1>15
<1>17. Cardinality(At("DISPATCH")) = 0
  BY <1>4, FS_EmptySet
<1>18. /\ LineView(views).stations["RECEIVING"].wip = Cardinality(At("RECEIVING"))
       /\ LineView(views).stations["SORTING"].wip = Cardinality(At("SORTING"))
       /\ LineView(views).stations["WASHING"].wip = Cardinality(At("WASHING"))
       /\ LineView(views).stations["DRYING"].wip = Cardinality(At("DRYING"))
       /\ LineView(views).stations["FOLDING"].wip = Cardinality(At("FOLDING"))
       /\ LineView(views).stations["DISPATCH"].wip = Cardinality(At("DISPATCH"))
  BY <1>2, StationsAre
<1>19. started = {b \in DOMAIN views : views[b].currentStation # Null}
  BY DEF started
<1>. QED
  BY <1>1, <1>16, <1>17, <1>18, <1>19

\* Of the batches a client is shown, each is counted once: at the one station it is in
\* progress at, as completed, or as not started and then only because a line was given
\* it (batch-state.ts:365-371, production.service.ts:30-51).
THEOREM WorkAddsUp == Spec => []WorkInProgressAddsUp
<1>1. ASSUME IInv, KnownIsFinite, \A c \in Client : ShownWasTrue(c)
      PROVE  WorkInProgressAddsUp
  <2>1. ASSUME NEW c \in Client
        PROVE  /\ IsFiniteSet(DOMAIN shown[c])
               /\ \A b \in DOMAIN shown[c] :
                     /\ shown[c][b].currentStation \in Station \cup {Null}
                     /\ shown[c][b].state = "COMPLETED"
                          <=> shown[c][b].currentStation = "DISPATCH"
                     /\ shown[c][b].currentStation = Null =>
                          shown[c][b].lineId # Null /\ shown[c][b].state # "COMPLETED"
    <3>1. IsFiniteSet(DOMAIN shown[c])
      BY <1>1, ShownIsFinite DEF IInv
    <3>2. ASSUME NEW b \in DOMAIN shown[c]
          PROVE  /\ shown[c][b].currentStation \in Station \cup {Null}
                 /\ shown[c][b].state = "COMPLETED"
                      <=> shown[c][b].currentStation = "DISPATCH"
                 /\ shown[c][b].currentStation = Null =>
                      shown[c][b].lineId # Null /\ shown[c][b].state # "COMPLETED"
      <4>1. PICK v : v = shown[c][b]
        OBVIOUS
      <4>2. /\ v.currentStation = CurrentStation(v.stations)
            /\ v.state = "COMPLETED" <=> "DISPATCH" \in Reached(v.stations)
        BY <1>1, <4>1 DEF IInv, ClientsInv, ClientIsSound, ShownIsSound
      <4>3. Reached(v.stations) = {} => v.lineId # Null
        BY <1>1, <4>1 DEF ShownWasTrue
      <4>. QED
        BY <4>1, <4>2, <4>3, StationAndState
    <3>. QED
      BY <3>1, <3>2
  <2>. QED
    BY <2>1, LineAddsUp DEF WorkInProgressAddsUp
<1>. QED
  BY <1>1, IInvIsInvariant, KnownStaysFinite, ShownWasTrueAlways, PTL

(***************************************************************************)
(* The contract with collection and normalization (Accepted.tla).          *)
(***************************************************************************)
\* Whatever the contract allows for a batch is a rebuild of this model, when
\* any event may be accepted: the bound Choice is all that is left out.
LEMMA AnyAcceptedEventsAreModelled ==
    ASSUME TypeOK, NEW b \in Batch, \A s \in Station : Choice[b][s] = Event,
           Contract!EventsOf(b),
           UNCHANGED <<actions, stamped, now, manager, client, shown>>
    PROVE  RebuildBatch(b) \/ UNCHANGED vars
<1>1. /\ canonical \in [Batch -> [Station -> Event \cup {Null}]]
      /\ canonical' \in [Batch -> [Station -> Event \cup {Null}]]
      /\ \A c \in Batch \ {b} : canonical'[c] = canonical[c]
      /\ \A s \in Station : canonical[b][s] # Null => canonical'[b][s] # Null
      /\ UNCHANGED link
  BY DEF TypeOK, Contract!EventsOf
<1>. DEFINE S == {s \in Station : canonical'[b][s] # Null}
            new == [s \in S |-> canonical'[b][s]]
<1>2. CASE S = {}
  <2>1. \A s \in Station : canonical'[b][s] = canonical[b][s]
    BY <1>1, <1>2
  <2>2. canonical'[b] = canonical[b]
    BY <1>1, <2>1
  <2>3. canonical' = canonical
    BY <1>1, <2>2
  <2>. QED
    BY <1>1, <2>3 DEF vars, tables
<1>3. CASE S # {}
  <2>1. \A s \in S : new[s] \in Event
    BY <1>1
  <2>2. S \in SUBSET {s \in Station : Choice[b][s] # {}}
    BY <2>1
  <2>3. new \in [S -> UNION {Choice[b][s] : s \in S}] /\ \A s \in S : new[s] \in Choice[b][s]
    BY <2>1
  <2>4. canonical'[b] = [s \in Station |-> IF s \in S THEN new[s] ELSE canonical[b][s]]
    BY <1>1
  <2>5. canonical' = [canonical EXCEPT ![b] =
            [s \in Station |-> IF s \in S THEN new[s] ELSE canonical[b][s]]]
    BY <1>1, <2>4
  <2>. HIDE DEF S, new
  <2>. QED
    BY <1>1, <1>3, <2>2, <2>3, <2>5 DEF RebuildBatch
<1>. QED
  BY <1>2, <1>3
=============================================================================
