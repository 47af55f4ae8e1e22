------------------------------ MODULE Selection ------------------------------
(***************************************************************************)
(* The life of one seeded database source: test, discover, select and      *)
(* collect (apps/api/src/sources/sources.service.ts), asked for by the     *)
(* cards and selection editors of browser tabs                             *)
(* (apps/web/src/app/sources/), while the source may be removed, the API   *)
(* restarted (apps/api/src/seed.ts runs first) and the schema of the       *)
(* database changed.  Database.tla is the collector of the source.         *)
(***************************************************************************)
EXTENDS Database

CONSTANTS Tab, TabOf,     \* the browser tabs, and which one sends a request
          Seed,           \* the configuration of the source in the seed
          MaxRestarts     \* bound: restarts of the API

\* An editor names a table with its schema once it was picked from the list.
FormTable == (Schema \cup {Null}) \X Name

ASSUME SelectionIsSound ==
    /\ TabOf \in [Request -> Tab]
    /\ Seed \in Config
    /\ "public" \in Schema /\ Null \notin FormTable
    /\ MaxRestarts \in Nat

VARIABLES
    source,     \* its row, or Null once it is removed
    tab,        \* the card of the source in each browser tab, if it lists the source
    restarts

vars == <<columns, call, source, tab, restarts>>

\* A source that was removed and created anew is another one.
Source == [id : 0..MaxRestarts, config : Config, status : {"REGISTERED", "VERIFIED", "ERROR"}]

\* The source as it was listed last and what was discovered of it.  The form exists
\* while the card is expanded and something was discovered.
Card == [id        : 0..MaxRestarts,
         seen      : Config,
         expanded  : BOOLEAN,
         discovery : [Table -> SUBSET Column] \cup {Null},
         table     : FormTable \cup {Null},
         mapping   : [Field -> Column \cup {Null}]]

NoMapping == [f \in Field |-> Null]

CardOf(s) == [id |-> s.id, seen |-> s.config, expanded |-> FALSE, discovery |-> Null,
              table |-> Null, mapping |-> NoMapping]

Seeded(id) == [id |-> id, config |-> Seed, status |-> "REGISTERED"]

Init ==
    /\ columns \in [Table -> SUBSET Column]
    /\ \A t \in Table : columns[t] \in ColumnsOf[t]
    /\ call = [q \in Request |-> NotMade]
    /\ source = Seeded(0)
    /\ tab = [t \in Tab |-> CardOf(source)]
    /\ restarts = 0
-----------------------------------------------------------------------------
(***************************************************************************)
(* The editor.                                                             *)
(***************************************************************************)
IsOpen(c) == c # Null /\ c.expanded /\ c.discovery # Null

\* A form starts from the source as it was listed, with the bare name of its table.
Mounted(c) ==
    IF IsOpen(c)
    THEN [c EXCEPT
        !.table = IF c.seen.table = Null THEN Null ELSE <<Null, c.seen.table[2]>>,
        !.mapping = IF c.seen.mapping = Null THEN NoMapping ELSE c.seen.mapping]
    ELSE [c EXCEPT !.table = Null, !.mapping = NoMapping]

\* A collapsed card loses its form.
Toggle(t) ==
    /\ tab[t] # Null
    /\ tab' = [tab EXCEPT ![t] = Mounted([@ EXCEPT !.expanded = ~ tab[t].expanded])]
    /\ UNCHANGED <<columns, call, source, restarts>>

\* What is discovered opens a form, or replaces what an open one lists.
Discovered(c, reported) ==
    LET knowing == [c EXCEPT !.discovery = reported]
    IN  IF IsOpen(c) THEN knowing ELSE Mounted(knowing)

Listed(c) == {t \in Table : c.discovery[t] # {}}

\* Another table leaves the mapping as it is.
PickTable(t, table) ==
    /\ IsOpen(tab[t])
    /\ table \in Listed(tab[t])
    /\ tab' = [tab EXCEPT ![t].table = table]
    /\ UNCHANGED <<columns, call, source, restarts>>

\* The fields offer the columns of the table that is picked.
PickColumns(t, mapping) ==
    /\ IsOpen(tab[t])
    /\ tab[t].table \in Listed(tab[t])
    /\ \A f \in Field :
           mapping[f] \in {tab[t].mapping[f], Null} \cup tab[t].discovery[tab[t].table]
    /\ tab' = [tab EXCEPT ![t].mapping = mapping]
    /\ UNCHANGED <<columns, call, source, restarts>>

\* What the form submits: a name without a schema is taken to be in "public".
Submitted(c) ==
    [table   |-> IF c.table[1] = Null THEN <<"public", c.table[2]>> ELSE c.table,
     mapping |-> c.mapping]

\* The sources are listed again, now and then and after most requests.  A card stays
\* as long as its source does.
Refetch(t) ==
    /\ tab' = [tab EXCEPT ![t] =
           IF source = Null THEN Null
           ELSE IF @ # Null /\ @.id = source.id THEN [@ EXCEPT !.seen = source.config]
           ELSE CardOf(source)]
    /\ UNCHANGED <<columns, call, source, restarts>>
-----------------------------------------------------------------------------
(***************************************************************************)
(* The requests.                                                           *)
(***************************************************************************)
AnswerWith(q, result) ==
    call' = [call EXCEPT ![q].pc = "answered", ![q].result = result]

IsThere(id) == source # Null /\ source.id = id

\* The buttons of an expanded card; for a source that was removed the answer is 404.
Ask(q) ==
    LET c == tab[TabOf[q]]
    IN  /\ call[q].pc = "idle"
        /\ OpOf[q] # "select"
        /\ c # Null /\ c.expanded
        /\ IF IsThere(c.id)
           THEN call' = [call EXCEPT ![q].pc = "asked", ![q].id = c.id,
                                     ![q].config = source.config]
           ELSE AnswerWith(q, "thrown")
        /\ UNCHANGED <<columns, source, tab, restarts>>

IsComplete(mapping) == \A f \in RequiredField : mapping[f] # Null

\* updateSelection reads the configuration and merges what was submitted, which is
\* all there is to it; without a required column it is answered 400.
Save(q) ==
    LET c == tab[TabOf[q]]
    IN  /\ call[q].pc = "idle"
        /\ OpOf[q] = "select"
        /\ IsOpen(c) /\ c.table # Null
        /\ IF IsThere(c.id) /\ IsComplete(c.mapping)
           THEN call' = [call EXCEPT ![q].pc = "storing", ![q].id = c.id,
                                     ![q].config = Submitted(c)]
           ELSE AnswerWith(q, "thrown")
        /\ UNCHANGED <<columns, source, tab, restarts>>

\* Mutant: the selection is stored as a new registration is.
StoreRow(q) ==
    /\ call[q].pc = "storing"
    /\ IsThere(call[q].id)
    /\ source' = [source EXCEPT !.config = call[q].config, !.status = "REGISTERED"]
    /\ AnswerWith(q, "returned")
    /\ UNCHANGED <<columns, tab, restarts>>

StoreSelection(q) ==
    /\ call[q].pc = "storing"
    /\ IsThere(call[q].id)
    /\ source' = [source EXCEPT !.config = call[q].config]
    /\ AnswerWith(q, "returned")
    /\ UNCHANGED <<columns, tab, restarts>>

StoreStatus(q) ==
    /\ call[q].pc = "over"
    /\ OpOf[q] = "test"
    /\ IsThere(call[q].id)
    /\ source' = [source EXCEPT !.status = IF call[q].ok THEN "VERIFIED" ELSE "ERROR"]
    /\ AnswerWith(q, "returned")
    /\ UNCHANGED <<columns, tab, restarts>>

\* The source was removed meanwhile: the update throws, the answer is 500.
StoreFails(q) ==
    /\ call[q].pc = "storing" \/ (call[q].pc = "over" /\ OpOf[q] = "test")
    /\ ~ IsThere(call[q].id)
    /\ AnswerWith(q, "thrown")
    /\ UNCHANGED <<columns, source, tab, restarts>>

\* What was discovered is shown by the card that asked, if it is still there.
Answer(q) ==
    /\ call[q].pc = "over"
    /\ OpOf[q] \in {"discover", "collect"}
    /\ AnswerWith(q, call[q].result)
    /\ LET t == TabOf[q]
       IN  tab' = IF /\ OpOf[q] = "discover" /\ call[q].result = "returned"
                     /\ tab[t] # Null /\ tab[t].id = call[q].id
                  THEN [tab EXCEPT ![t] = Discovered(@, call[q].reported)]
                  ELSE tab
    /\ UNCHANGED <<columns, source, restarts>>

Remove ==
    /\ source # Null
    /\ source' = Null
    /\ UNCHANGED <<columns, call, tab, restarts>>

\* Nobody answers the requests in progress, not even those whose collector is done.
\* The seed writes its configuration to the source, and in place of one that was
\* removed it creates another.
Restart ==
    /\ restarts < MaxRestarts
    /\ restarts' = restarts + 1
    /\ call' = [q \in Request |->
           CASE call[q].pc \in {"idle", "answered", "lost"} -> call[q]
             [] call[q].pc = "over" -> [call[q] EXCEPT !.pc = "lost"]
             [] OTHER -> [call[q] EXCEPT !.pc = "lost", !.open = FALSE, !.result = "pending"]]
    /\ source' = IF source = Null THEN Seeded(restarts') ELSE [source EXCEPT !.config = Seed]
    /\ UNCHANGED <<columns, tab>>

Proceed(q) ==
    \/ Work(q) /\ UNCHANGED <<source, tab, restarts>>
    \/ StoreSelection(q) \/ StoreStatus(q) \/ StoreFails(q) \/ Answer(q)

Next ==
    \/ \E q \in Request : Ask(q) \/ Save(q) \/ Proceed(q)
    \/ \E t \in Tab :
           \/ Refetch(t) \/ Toggle(t)
           \/ \E table \in Table : PickTable(t, table)
           \/ \E mapping \in Mapping : PickColumns(t, mapping)
    \/ Remove
    \/ Restart
    \/ \E table \in Table : AlterTable(table) /\ UNCHANGED <<source, tab, restarts>>

Spec == Init /\ [][Next]_vars

-----------------------------------------------------------------------------
TypeOK ==
    /\ DatabaseTypeOK
    /\ source \in Source \cup {Null}
    /\ tab \in [Tab -> Card \cup {Null}]
    /\ restarts \in 0..MaxRestarts

\* However a test, a save, a removal and a restart overlap, the status of the source
\* is what the last test wrote, and no other request takes it back
\* (sources.service.ts:104-111, 137-140).
StatusIsOfTheLastTest ==
    [][source # Null /\ source' # Null /\ source'.status # source.status =>
          \E q \in Request :
              /\ OpOf[q] = "test" /\ call[q].pc = "over" /\ call'[q].pc = "answered"
              /\ source'.status = IF call[q].ok THEN "VERIFIED" ELSE "ERROR"]_vars

\* What an operator selected stays selected until a selection is saved: restarting
\* is always safe (README.md:51).
SelectionIsKept ==
    [][source # Null /\ source' # Null /\ source'.config # source.config =>
          \E q \in Request :
              OpOf[q] = "select" /\ call[q].pc = "storing" /\ call'[q].result = "returned"]_vars

Collections == {q \in Request : OpOf[q] = "collect"}

\* Each collection is answered at most once and accounts for its rows, whatever
\* happens to the source, the schema and the process (collector.types.ts:124-130).
KeepsContract ==
    /\ \A q \in Collections : Contract(q)!Init
    /\ [][\A q \in Collections : [Contract(q)!Next]_(Outcome(q))]_vars
=============================================================================
