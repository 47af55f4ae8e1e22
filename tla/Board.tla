------------------------------- MODULE Board --------------------------------
(***************************************************************************)
(* The production view (apps/api/src/production/production.service.ts):    *)
(* managers append actions, clients read the board.  A read is three       *)
(* queries in no transaction, answered in any order, while collections     *)
(* publish links and rebuild events; an action is checked, stamped and     *)
(* written in separate round trips.  Nothing derived is stored.            *)
(***************************************************************************)
EXTENDS BatchState

CONSTANTS Batch,
          Link,        \* the BatchLink rows: line and planned quantity
          Choice,      \* the events that may be accepted, by batch and station
          Manager,     \* POST requests that can be in progress at once
          Client,      \* queries a browser repeats, one request at a time
          ScopeOf,     \* the batches a client asks for: the board, or one
          ActionTypes, \* bound: the types of action managers take
          MaxActions,  \* bound: how many actions are ever stamped
          MaxTime      \* bound: how far the clock runs

\* What the board needs of an accepted event.
Event == [quantity : Quantity \cup {Null}, occurredAt : Nat,
          isLate : BOOLEAN, hasConflict : BOOLEAN]

ASSUME BoardIsSound ==
    /\ Choice \in [Batch -> [Station -> SUBSET Event]]
    /\ ScopeOf \in [Client -> SUBSET Batch]
    /\ ActionTypes \subseteq ManagementEventType
    /\ MaxActions \in Nat /\ MaxTime \in Nat
    /\ \A l \in Link : l.lineId # Null
    /\ Null \notin Event \cup Link \cup Batch \cup Nat \cup Station \cup ManagementEventType

VARIABLES
    canonical,  \* CanonicalEvent, unique per batch and station
    link,       \* BatchLink
    actions,    \* ManagementEvent
    stamped,    \* how many actions have been given an id
    now,        \* the clock of the API process
    manager,    \* the POST requests in progress
    client,     \* the read requests in progress
    shown       \* what each client was last answered

tables == <<canonical, link, actions>>
vars == <<tables, stamped, now, manager, client, shown>>

\* An action and, for the properties only, the actions stored when it was sent.
Action == [batchId : Batch, type : ManagementEventType, id : Nat, createdAt : Nat,
           after : SUBSET Nat]

Resting == [pc |-> "idle", action |-> Null, knew |-> FALSE]

\* todo holds the queries not answered yet, the other fields what was read.
Waiting == [todo |-> {}, link |-> Null, events |-> Null, actions |-> Null]

Queries == {"links", "events", "actions"}

Init ==
    /\ canonical = [b \in Batch |-> [s \in Station |-> Null]]
    /\ link = [b \in Batch |-> Null]
    /\ actions = {}
    /\ stamped = 0
    /\ now = 0
    /\ manager = [m \in Manager |-> Resting]
    /\ client = [c \in Client |-> Waiting]
    /\ shown = [c \in Client |-> <<>>]
-----------------------------------------------------------------------------
HasEvents(events, b) == \E s \in Station : events[b][s] # Null

\* A batch is known from a link, from an event, or from both.
IsKnown(b) == link[b] # Null \/ HasEvents(canonical, b)
-----------------------------------------------------------------------------
(***************************************************************************)
(* What collection and normalization do to the tables (Accepted.tla).      *)
(***************************************************************************)
\* One transaction: the upserts of one batch.
RebuildBatch(b) ==
    /\ \E S \in SUBSET {s \in Station : Choice[b][s] # {}} :
           /\ S # {}
           /\ \E new \in [S -> UNION {Choice[b][s] : s \in S}] :
                  /\ \A s \in S : new[s] \in Choice[b][s]
                  /\ canonical' = [canonical EXCEPT ![b] =
                         [s \in Station |-> IF s \in S THEN new[s] ELSE @[s]]]
    /\ UNCHANGED <<link, actions, stamped, now, manager, client, shown>>

PublishLink(b) ==
    /\ \E l \in Link : link' = [link EXCEPT ![b] = l]
    /\ UNCHANGED <<canonical, actions, stamped, now, manager, client, shown>>

Tick ==
    /\ now < MaxTime
    /\ now' = now + 1
    /\ UNCHANGED <<tables, stamped, manager, client, shown>>
-----------------------------------------------------------------------------
(***************************************************************************)
(* POST /batches/:batchId/events.                                          *)
(***************************************************************************)
AddManagementEvent(m, b, type) ==
    /\ manager[m].pc \in {"idle", "refused"}
    /\ manager' = [manager EXCEPT ![m] =
           [pc |-> "links", knew |-> IsKnown(b),
            action |-> [batchId |-> b, type |-> type, id |-> 0, createdAt |-> 0,
                        after |-> {a.id : a \in actions}]]]
    /\ UNCHANGED <<tables, stamped, now, client, shown>>

\* Mutant: the batch must have a link and events.
CountLinksAndEvents(m) ==
    /\ manager[m].pc = "links"
    /\ manager' = [manager EXCEPT ![m].pc =
           IF link[manager[m].action.batchId] # Null THEN "events" ELSE "refused"]
    /\ UNCHANGED <<tables, stamped, now, client, shown>>

\* Events are counted only when there is no link.
CountLinks(m) ==
    /\ manager[m].pc = "links"
    /\ manager' = [manager EXCEPT ![m].pc =
           IF link[manager[m].action.batchId] # Null THEN "stamp" ELSE "events"]
    /\ UNCHANGED <<tables, stamped, now, client, shown>>

\* Mutant: the answer of the second count is not looked at.
CountEventsForNothing(m) ==
    /\ manager[m].pc = "events"
    /\ manager' = [manager EXCEPT ![m].pc = "stamp"]
    /\ UNCHANGED <<tables, stamped, now, client, shown>>

\* An unknown batch is answered 404.
CountEvents(m) ==
    /\ manager[m].pc = "events"
    /\ manager' = [manager EXCEPT ![m].pc =
           IF HasEvents(canonical, manager[m].action.batchId) THEN "stamp" ELSE "refused"]
    /\ UNCHANGED <<tables, stamped, now, client, shown>>

\* The client library fills in the defaults, id and createdAt, and sends the
\* insert.
Stamp(m) ==
    /\ manager[m].pc = "stamp"
    /\ stamped < MaxActions
    /\ stamped' = stamped + 1
    /\ manager' = [manager EXCEPT ![m].pc = "insert",
                                  ![m].action.id = stamped + 1,
                                  ![m].action.createdAt = now]
    /\ UNCHANGED <<tables, now, client, shown>>

Insert(m) ==
    /\ manager[m].pc = "insert"
    /\ actions' = actions \cup {manager[m].action}
    /\ manager' = [manager EXCEPT ![m] = Resting]
    /\ UNCHANGED <<canonical, link, stamped, now, client, shown>>

\* A statement is refused, or the process dies and is restarted.
Fail(m) ==
    /\ manager[m].pc \in {"links", "events", "stamp", "insert"}
    /\ manager' = [manager EXCEPT ![m] = Resting]
    /\ UNCHANGED <<tables, stamped, now, client, shown>>
-----------------------------------------------------------------------------
(***************************************************************************)
(* GET /lines, /batches and /batches/:batchId.                             *)
(***************************************************************************)
IsReading(c) == client[c] # Waiting

Request(c) ==
    /\ ~ IsReading(c)
    /\ client' = [client EXCEPT ![c].todo = Queries]
    /\ UNCHANGED <<tables, stamped, now, manager, shown>>

ReadLinks(c) ==
    /\ "links" \in client[c].todo
    /\ client' = [client EXCEPT ![c].todo = @ \ {"links"},
                                ![c].link = [b \in ScopeOf[c] |-> link[b]]]
    /\ UNCHANGED <<tables, stamped, now, manager, shown>>

ReadEvents(c) ==
    /\ "events" \in client[c].todo
    /\ client' = [client EXCEPT ![c].todo = @ \ {"events"},
                                ![c].events = [b \in ScopeOf[c] |-> canonical[b]]]
    /\ UNCHANGED <<tables, stamped, now, manager, shown>>

ReadActions(c) ==
    /\ "actions" \in client[c].todo
    /\ client' = [client EXCEPT ![c].todo = @ \ {"actions"},
                                ![c].actions = {a \in actions : a.batchId \in ScopeOf[c]}]
    /\ UNCHANGED <<tables, stamped, now, manager, shown>>

Listed(links, events) ==
    {b \in DOMAIN links : links[b] # Null \/ HasEvents(events, b)}

\* buildBatchViews: the batches that are known, each with its view.
Views(links, events, acts, at) ==
    [b \in Listed(links, events) |->
        BatchView(links[b], events[b], {a \in acts : a.batchId = b}, at)]

Respond(c) ==
    /\ IsReading(c)
    /\ client[c].todo = {}
    /\ shown' = [shown EXCEPT ![c] =
           Views(client[c].link, client[c].events, client[c].actions, now)]
    /\ client' = [client EXCEPT ![c] = Waiting]
    /\ UNCHANGED <<tables, stamped, now, manager>>

\* A query is refused, or the process dies: the client keeps what it shows.
GiveUp(c) ==
    /\ IsReading(c)
    /\ client' = [client EXCEPT ![c] = Waiting]
    /\ UNCHANGED <<tables, stamped, now, manager, shown>>
-----------------------------------------------------------------------------
Next ==
    \/ \E b \in Batch : RebuildBatch(b) \/ PublishLink(b)
    \/ \E m \in Manager :
          \/ \E b \in Batch, type \in ActionTypes : AddManagementEvent(m, b, type)
          \/ CountLinks(m) \/ CountEvents(m) \/ Stamp(m) \/ Insert(m) \/ Fail(m)
    \/ \E c \in Client :
          \/ Request(c) \/ ReadLinks(c) \/ ReadEvents(c) \/ ReadActions(c)
          \/ Respond(c) \/ GiveUp(c)
    \/ Tick

Spec == Init /\ [][Next]_vars
-----------------------------------------------------------------------------
ReadBy(c) ==
    [todo    : SUBSET Queries,
     link    : [ScopeOf[c] -> Link \cup {Null}] \cup {Null},
     events  : [ScopeOf[c] -> [Station -> Event \cup {Null}]] \cup {Null},
     actions : {Null} \cup (SUBSET Action)]

TypeOK ==
    /\ canonical \in [Batch -> [Station -> Event \cup {Null}]]
    /\ link \in [Batch -> Link \cup {Null}]
    /\ actions \subseteq Action
    /\ stamped \in 0..MaxActions
    /\ now \in 0..MaxTime
    /\ manager \in [Manager -> [pc     : {"idle", "links", "events", "stamp", "insert", "refused"},
                                action : Action \cup {Null},
                                knew   : BOOLEAN]]
    /\ DOMAIN client = Client /\ DOMAIN shown = Client
    /\ \A c \in Client : client[c] \in ReadBy(c)

\* What Ledger.tla promises of the tables; Board_proofs.tla compares RebuildBatch with it.
Contract == INSTANCE Accepted WITH Line <- Link

\* A manager acts on batches of the board only, although the check and the
\* insert are apart and no foreign key backs the check
\* (production.service.ts:126-133).
ActionsAreOnTheBoard == \A a \in actions : IsKnown(a.batchId)

\* An answer 404 is just: the batch was unknown when the request was sent,
\* although link and events are counted one after the other.
RefusedOnlyIfUnknown ==
    \A m \in Manager : manager[m].pc = "refused" => ~ manager[m].knew

\* An action sent after another was stored is replayed after it, also within
\* one instant of the clock: a block holds until a later resume
\* (batch-state.ts:96-108).
ReplayFollowsRealTime ==
    \A a, b \in actions : a.id \in b.after => ReplayedBefore(a, b)

Position(station) == IF station = Null THEN -1 ELSE StationIndex(station)

\* What a client is shown never goes back: a batch stays listed, stays at its
\* station or moves on, and stays completed (batch-state.ts:149-151).
ShownNeverGoesBack ==
    [][\A c \in Client : \A b \in DOMAIN shown[c] :
          /\ b \in DOMAIN shown'[c]
          /\ LET old == shown[c][b]
                 new == shown'[c][b]
             IN  /\ Position(new.currentStation) >= Position(old.currentStation)
                 /\ old.state = "COMPLETED" => new.state = "COMPLETED"]_shown

\* A batch that was shown as stale is fresh again only because a newer event
\* was accepted or because it was completed (README.md, Freshness).
StaleUntilNewerEvent ==
    [][\A c \in Client : \A b \in DOMAIN shown[c] :
          shown[c][b].isStale /\ ~ shown'[c][b].isStale =>
              \/ shown'[c][b].state = "COMPLETED"
              \/ shown'[c][b].lastEventAt > shown[c][b].lastEventAt]_shown

\* Every batch shown is counted once: in progress at one station, completed, or
\* not started; and no work in progress sits at the end of the line
\* (batch-state.ts:365-371).
WorkInProgressAddsUp ==
    \A c \in Client :
        LET views == shown[c]
            line  == LineView(views)
            started == {b \in DOMAIN views : views[b].currentStation # Null}
        IN  /\ Cardinality(started) = line.completedCount
                 + line.stations["RECEIVING"].wip + line.stations["SORTING"].wip
                 + line.stations["WASHING"].wip + line.stations["DRYING"].wip
                 + line.stations["FOLDING"].wip
            /\ line.stations["DISPATCH"].wip = 0
            /\ \A b \in DOMAIN views \ started : /\ views[b].state # "COMPLETED"
                                                 /\ views[b].lineId # Null
=============================================================================
