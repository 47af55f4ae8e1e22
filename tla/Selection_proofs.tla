--------------------------- MODULE Selection_proofs ---------------------------
(***************************************************************************)
(* What holds of a database source for any number of tabs and requests,    *)
(* any schema and any change of it, and any number of restarts.            *)
(***************************************************************************)
EXTENDS Selection, Counting, SequenceTheorems

\* What a form can submit: a mapping that was chosen, or the empty one.
FormsAreChosen == \A t \in Tab : tab[t] # Null => tab[t].mapping \in Mapping \cup {NoMapping}

\* A collection that reaches the database has a table and a mapping, and its
\* statement was checked against what the database reported.
CallIsSound(q) ==
    /\ call[q].pc \in {"asked", "connecting", "first", "select"} =>
           /\ OpOf[q] # "select"
           /\ call[q].config \in Config
    /\ call[q].pc = "select" => OpOf[q] \in {"test", "collect"}
    /\ OpOf[q] = "collect" /\ call[q].pc = "select" =>
           Mapped(call[q].config.mapping) \subseteq call[q].reported[call[q].config.table]
    /\ OpOf[q] = "collect" /\ call[q].pc \in {"connecting", "first", "select"} =>
           call[q].config.table \in Table /\ call[q].config.mapping \in Mapping
    /\ call[q].pc = "storing" => OpOf[q] = "select" /\ call[q].config \in Config

RejectedBy(q) == {i \in DOMAIN call[q].records : call[q].records[i].parseError}

\* What a collection returned accounts for its rows.
CallAccounts(q) ==
    /\ \A i \in DOMAIN call[q].records :
           call[q].records[i].parseError <=> ~ call[q].records[i].usable
    /\ Cardinality(RejectedBy(q)) <= call[q].errors
    /\ call[q].shown = Len(call[q].records)

\* A collection is answered once it is over, and was made if it is not idle.
CallIsAnswered(q) ==
    OpOf[q] = "collect" =>
        /\ call[q].pc = "idle" => call[q].config = Null
        /\ call[q].pc \in {"idle", "asked", "connecting", "first", "select"} =>
               call[q].result = "pending"
        /\ call[q].pc \in {"ending", "over"} =>
               call[q].config \in Config /\ call[q].result # "pending"
        /\ call[q].pc = "answered" => call[q].result # "pending"
        /\ call[q].config = Null => call[q].result # "returned"

\* The inductive invariant.
IInv ==
    /\ TypeOK
    /\ FormsAreChosen
    /\ \A q \in Request : CallIsSound(q) /\ CallAccounts(q) /\ CallIsAnswered(q)

(***************************************************************************)
(* Rows become records.                                                    *)
(***************************************************************************)
LEMMA SelectedRows ==
    ASSUME NEW rows \in Seq(Row), NEW mapping \in Mapping,
           NEW records, records = [i \in DOMAIN rows |-> ToRecord(rows[i], mapping)]
    PROVE  /\ records \in Seq([parseError : BOOLEAN, usable : BOOLEAN])
           /\ Len(records) = Len(rows) /\ Len(rows) \in Nat
           /\ \A i \in DOMAIN records : records[i].parseError <=> ~ records[i].usable
           /\ {i \in DOMAIN records : records[i].parseError} = Rejects(rows, mapping)
           /\ Cardinality(Rejects(rows, mapping)) \in Nat
<1>1. DOMAIN rows = 1..Len(rows) /\ Len(rows) \in Nat
  BY LenProperties
<1>2. ASSUME NEW i \in 1..Len(rows)
      PROVE  /\ ToRecord(rows[i], mapping) \in [parseError : BOOLEAN, usable : BOOLEAN]
             /\ ToRecord(rows[i], mapping).parseError = IsRejected(rows[i], mapping)
             /\ ToRecord(rows[i], mapping).parseError <=> ~ ToRecord(rows[i], mapping).usable
  <2>1. IsRejected(rows[i], mapping) \in BOOLEAN /\ IsUsable(rows[i], mapping) \in BOOLEAN
    BY DEF IsRejected, IsUsable
  <2>2. ~ IsRejected(rows[i], mapping) => IsUsable(rows[i], mapping)
    BY DEF IsRejected, IsUsable
  <2>. QED
    BY <2>1, <2>2 DEF ToRecord
<1>3. /\ records \in Seq([parseError : BOOLEAN, usable : BOOLEAN])
      /\ Len(records) = Len(rows)
  BY <1>1, <1>2, IsASeq
<1>4. /\ \A i \in DOMAIN records : records[i].parseError <=> ~ records[i].usable
      /\ {i \in DOMAIN records : records[i].parseError} = Rejects(rows, mapping)
  BY <1>1, <1>2 DEF Rejects
<1>5. IsFiniteSet(1..Len(rows)) /\ Rejects(rows, mapping) \subseteq 1..Len(rows)
  BY <1>1, FS_Interval DEF Rejects
<1>6. Cardinality(Rejects(rows, mapping)) \in Nat
  BY <1>5, FS_Subset, FS_CardinalityType
<1>. QED
  BY <1>1, <1>3, <1>4, <1>6

(***************************************************************************)
(* One request.                                                            *)
(***************************************************************************)
\* What IInv says of one request, and of the tab and the source beside it.
RequestIsSound(q) ==
    /\ call[q] \in Call
    /\ call[q].open <=> call[q].pc \in {"first", "select", "ending"}
    /\ CallIsSound(q)
    /\ CallAccounts(q)
    /\ CallIsAnswered(q)

\* Closing, throwing and answering leave the rows of a call as they are.
LEMMA RowsAreKept ==
    ASSUME NEW q \in Request, CallAccounts(q),
           call'[q].records = call[q].records, call'[q].errors = call[q].errors,
           call'[q].shown = call[q].shown
    PROVE  CallAccounts(q)'
BY DEF CallAccounts, RejectedBy

\* A request is worked on while the others stay as they are.
LEMMA OneRequestMoves ==
    ASSUME IInv, NEW q \in Request, NEW c, call' = [call EXCEPT ![q] = c],
           call'[q] = c => RequestIsSound(q)',
           columns' \in [Table -> SUBSET Column], source' \in Source \cup {Null},
           tab' \in [Tab -> Card \cup {Null}], FormsAreChosen', restarts' \in 0..MaxRestarts
    PROVE  IInv'
<1>1. DOMAIN call = Request /\ call' \in [Request -> {call'[r] : r \in Request}]
  BY DEF IInv, TypeOK, DatabaseTypeOK
<1>2. ASSUME NEW r \in Request
      PROVE  RequestIsSound(r)'
  <2>1. CASE r = q
    BY <1>1, <2>1
  <2>2. CASE r # q
    <3>1. call'[r] = call[r] /\ RequestIsSound(r)
      BY <2>2 DEF IInv, TypeOK, DatabaseTypeOK, RequestIsSound
    <3>2. CallAccounts(r)'
      BY <3>1, RowsAreKept DEF RequestIsSound
    <3>. QED
      BY <3>1, <3>2 DEF RequestIsSound, CallIsSound, CallIsAnswered
  <2>. QED
    BY <2>1, <2>2
<1>3. call' \in [Request -> Call]
  BY <1>1, <1>2 DEF RequestIsSound
<1>. QED
  BY <1>2, <1>3 DEF IInv, TypeOK, DatabaseTypeOK, RequestIsSound

\* An exception leaves nothing open but the connection that is closed next.
LEMMA ThrowKeepsIInv ==
    ASSUME IInv, NEW q \in Request, Throw(q), UNCHANGED <<columns, source, tab, restarts>>,
           call[q].pc \in {"asked", "connecting", "first", "select"}
    PROVE  IInv'
<1>1. call \in [Request -> Call] /\ RequestIsSound(q)
  BY DEF IInv, TypeOK, DatabaseTypeOK, RequestIsSound
<1>. DEFINE c == [call[q] EXCEPT !.pc     = IF @ \in {"first", "select"} THEN "ending" ELSE "over",
                                 !.result = IF OpOf[q] = "test" THEN "returned" ELSE "thrown"]
<1>2. call' = [call EXCEPT ![q] = c] /\ call'[q] = c
  BY <1>1 DEF Throw
<1>3. /\ c \in Call /\ c.config = call[q].config /\ c.records = call[q].records
      /\ c.errors = call[q].errors /\ c.shown = call[q].shown /\ c.open = call[q].open
      /\ c.pc = IF call[q].pc \in {"first", "select"} THEN "ending" ELSE "over"
      /\ c.result = IF OpOf[q] = "test" THEN "returned" ELSE "thrown"
  BY <1>1 DEF Call, PC, RequestIsSound
<1>. HIDE DEF c
<1>4. CallAccounts(q)'
  BY <1>1, <1>2, <1>3, RowsAreKept DEF RequestIsSound
<1>5. RequestIsSound(q)'
  BY <1>1, <1>2, <1>3, <1>4 DEF RequestIsSound, CallIsSound, CallIsAnswered
<1>. QED
  BY <1>2, <1>5, OneRequestMoves DEF IInv, TypeOK, DatabaseTypeOK, FormsAreChosen

\* A step of a request that leaves its rows alone.
LEMMA MoveKeepsIInv ==
    ASSUME IInv, NEW q \in Request, NEW c \in Call, call' = [call EXCEPT ![q] = c],
           c.open <=> c.pc \in {"first", "select", "ending"},
           c.records = call[q].records, c.errors = call[q].errors, c.shown = call[q].shown,
           call'[q] = c => CallIsSound(q)' /\ CallIsAnswered(q)',
           columns' \in [Table -> SUBSET Column], source' \in Source \cup {Null},
           tab' \in [Tab -> Card \cup {Null}], FormsAreChosen', restarts' \in 0..MaxRestarts
    PROVE  IInv'
<1>1. call \in [Request -> Call] /\ CallAccounts(q)
  BY DEF IInv, TypeOK, DatabaseTypeOK
<1>2. call'[q] = c
  BY <1>1
<1>3. CallAccounts(q)'
  BY <1>1, <1>2, RowsAreKept
<1>4. RequestIsSound(q)'
  BY <1>2, <1>3 DEF RequestIsSound
<1>. QED
  BY <1>4, OneRequestMoves

\* The calls of the collector up to the statement, and its end.
LEMMA CallKeepsIInv ==
    ASSUME IInv, NEW q \in Request,
           \/ Begin(q) \/ Connect(q) \/ Query(q) \/ CountTables(q)
           \/ DatabaseFails(q) \/ End(q),
           UNCHANGED <<source, tab, restarts>>
    PROVE  IInv'
<1>1. /\ call \in [Request -> Call] /\ call[q] \in Call /\ RequestIsSound(q)
      /\ columns \in [Table -> SUBSET Column]
  BY DEF IInv, TypeOK, DatabaseTypeOK, RequestIsSound
<1>2. UNCHANGED columns
  BY DEF Begin, Connect, Query, CountTables, DatabaseFails, End
<1>3. CASE /\ call[q].pc \in {"asked", "connecting", "first", "select"}
           /\ Throw(q)
  BY <1>2, <1>3, ThrowKeepsIInv
<1>. DEFINE Moves(c) == /\ call' = [call EXCEPT ![q] = c]
                        /\ c \in Call
                        /\ c.open <=> c.pc \in {"first", "select", "ending"}
                        /\ c.records = call[q].records /\ c.errors = call[q].errors
                        /\ c.shown = call[q].shown
                        /\ c.config = call[q].config
<1>4. ASSUME NEW c, Moves(c), call'[q] = c => CallIsSound(q)' /\ CallIsAnswered(q)'
      PROVE  IInv'
  BY <1>1, <1>2, <1>4, MoveKeepsIInv DEF IInv, TypeOK, DatabaseTypeOK, FormsAreChosen
<1>5. CASE Begin(q) /\ ~ Throw(q)
  <2>. DEFINE c == [call[q] EXCEPT !.pc = "connecting"]
  <2>1. /\ Moves(c) /\ c.pc = "connecting" /\ c.result = call[q].result
    BY <1>1, <1>5 DEF Begin, Call, PC, RequestIsSound
  <2>2. /\ call[q].pc = "asked"
        /\ OpOf[q] = "collect" => call[q].config.table \in Table /\ call[q].config.mapping \in Mapping
    BY <1>1, <1>5 DEF Begin, RequestIsSound, CallIsSound, Config
  <2>. HIDE DEF c
  <2>. QED
    BY <1>1, <1>4, <2>1, <2>2 DEF RequestIsSound, CallIsSound, CallIsAnswered
<1>6. CASE Connect(q)
  <2>. DEFINE c == [call[q] EXCEPT !.pc = "first", !.open = TRUE]
  <2>1. /\ Moves(c) /\ c.pc = "first" /\ c.result = call[q].result /\ call[q].pc = "connecting"
    BY <1>1, <1>6 DEF Connect, Call, PC, RequestIsSound
  <2>. HIDE DEF c
  <2>. QED
    BY <1>1, <1>4, <2>1 DEF RequestIsSound, CallIsSound, CallIsAnswered
<1>7. CASE Query(q) /\ ~ Throw(q)
  <2>1. CASE OpOf[q] = "test"
    <3>. DEFINE c == [call[q] EXCEPT !.pc = "select"]
    <3>1. /\ Moves(c) /\ c.pc = "select" /\ call[q].pc = "first"
      BY <1>1, <1>7, <2>1 DEF Query, Call, PC, RequestIsSound
    <3>. HIDE DEF c
    <3>. QED
      BY <1>1, <1>4, <2>1, <3>1 DEF RequestIsSound, CallIsSound, CallIsAnswered
  <2>2. CASE OpOf[q] = "discover"
    <3>. DEFINE c == [call[q] EXCEPT !.pc = "ending", !.result = "returned", !.reported = columns]
    <3>1. /\ Moves(c) /\ c.pc = "ending"
      BY <1>1, <1>7, <2>2 DEF Query, Call, PC, RequestIsSound
    <3>. HIDE DEF c
    <3>. QED
      BY <1>1, <1>4, <2>2, <3>1 DEF RequestIsSound, CallIsSound, CallIsAnswered
  <2>3. CASE OpOf[q] \notin {"test", "discover"}
    <3>. DEFINE table == call[q].config.table
                mapping == call[q].config.mapping
                c == [call[q] EXCEPT !.pc = "select", !.reported[table] = columns[table]]
    <3>1. /\ call[q].pc = "first" /\ OpOf[q] = "collect"
          /\ table \in Table /\ mapping \in Mapping
      BY <1>1, <1>7, <2>3, DatabaseIsSound DEF Query, RequestIsSound, CallIsSound
    <3>2. /\ Mapped(mapping) \subseteq columns[table]
          /\ call' = [call EXCEPT ![q] = c]
      BY <1>1, <1>7, <2>3 DEF Query, ResolveMapping
    <3>3. /\ Moves(c) /\ c.pc = "select" /\ c.result = call[q].result
          /\ c.config.table = table /\ c.config.mapping = mapping /\ c.config = call[q].config
          /\ c.reported[table] = columns[table]
      BY <1>1, <3>1, <3>2 DEF Call, PC, RequestIsSound
    <3>4. call[q].config \in Config /\ call[q].result = "pending" /\ call[q].config # Null
      BY <1>1, <3>1, DatabaseIsSound DEF RequestIsSound, CallIsSound, CallIsAnswered
    <3>. HIDE DEF c, table, mapping
    <3>5. ASSUME call'[q] = c
          PROVE  CallIsSound(q)' /\ CallIsAnswered(q)'
      BY <3>1, <3>2, <3>3, <3>4, <3>5 DEF CallIsSound, CallIsAnswered
    <3>. HIDE DEF Moves
    <3>. QED
      BY <1>4, <3>3, <3>5
  <2>. QED
    BY <2>1, <2>2, <2>3
<1>9. CASE CountTables(q)
  <2>. DEFINE c == [call[q] EXCEPT !.pc = "ending", !.result = "returned", !.ok = TRUE]
  <2>1. /\ Moves(c) /\ c.pc = "ending" /\ OpOf[q] = "test"
    BY <1>1, <1>9 DEF CountTables, Call, PC, RequestIsSound
  <2>. HIDE DEF c
  <2>. QED
    BY <1>1, <1>4, <2>1 DEF RequestIsSound, CallIsSound, CallIsAnswered
<1>8. CASE End(q)
  <2>. DEFINE c == [call[q] EXCEPT !.pc = "over", !.open = FALSE]
  <2>1. /\ Moves(c) /\ c.pc = "over" /\ c.result = call[q].result /\ call[q].pc = "ending"
    BY <1>1, <1>8 DEF End, Call, PC, RequestIsSound
  <2>. HIDE DEF c
  <2>. QED
    BY <1>1, <1>4, <2>1 DEF RequestIsSound, CallIsSound, CallIsAnswered
<1>. QED
  BY <1>3, <1>5, <1>6, <1>7, <1>8, <1>9 DEF Begin, Query, DatabaseFails

\* The rows a statement returns are counted once.
LEMMA SelectKeepsIInv ==
    ASSUME IInv, NEW q \in Request, Select(q), UNCHANGED <<source, tab, restarts>>
    PROVE  IInv'
<1>1. /\ call \in [Request -> Call] /\ call[q] \in Call /\ RequestIsSound(q)
      /\ call[q].pc = "select" /\ UNCHANGED columns
  BY DEF Select, IInv, TypeOK, DatabaseTypeOK, RequestIsSound
<1>2. CASE Throw(q)
  BY <1>1, <1>2, ThrowKeepsIInv
<1>3. CASE ~ Throw(q)
  <2>. DEFINE mapping == call[q].config.mapping
  <2>1. PICK rows \in Contents :
            call' = [call EXCEPT
                ![q].pc = "ending",
                ![q].result = "returned",
                ![q].shown = Len(rows),
                ![q].records = [i \in DOMAIN rows |-> ToRecord(rows[i], mapping)],
                ![q].errors = Cardinality(Rejects(rows, mapping))]
    BY <1>3 DEF Select
  <2>. DEFINE records == [i \in DOMAIN rows |-> ToRecord(rows[i], mapping)]
              errors == Cardinality(Rejects(rows, mapping))
              c == [call[q] EXCEPT !.pc = "ending", !.result = "returned",
                                   !.shown = Len(rows), !.records = records, !.errors = errors]
  <2>2. call' = [call EXCEPT ![q] = c] /\ call'[q] = c
    BY <1>1, <2>1
  <2>3. rows \in Seq(Row) /\ mapping \in Mapping /\ OpOf[q] = "collect"
    BY <1>1, <2>1, DatabaseIsSound DEF Select, RequestIsSound, CallIsSound
  <2>. HIDE DEF mapping
  <2>4. /\ records \in Seq([parseError : BOOLEAN, usable : BOOLEAN]) /\ errors \in Nat
        /\ Len(records) = Len(rows) /\ Len(rows) \in Nat
        /\ \A i \in DOMAIN records : records[i].parseError <=> ~ records[i].usable
        /\ {i \in DOMAIN records : records[i].parseError} = Rejects(rows, mapping)
    BY <2>3, SelectedRows
  <2>. HIDE DEF records
  <2>5. Cardinality({i \in DOMAIN records : records[i].parseError}) = errors
    BY <2>4, Zenon
  <2>. HIDE DEF errors
  <2>6. /\ c \in Call /\ c.records = records /\ c.errors = errors /\ c.config = call[q].config
        /\ c.pc = "ending" /\ c.result = "returned" /\ c.open = call[q].open
        /\ c.shown = Len(records)
    BY <1>1, <2>4 DEF Call, PC
  <2>. HIDE DEF c
  <2>7. CallAccounts(q)'
    <3>1. /\ call'[q].records = records /\ call'[q].errors = errors
          /\ call'[q].shown = Len(records)
      BY <2>2, <2>6
    <3>2. Cardinality(RejectedBy(q)') = errors
      BY <2>5, <3>1, Zenon DEF RejectedBy
    <3>. QED
      BY <2>4, <3>1, <3>2 DEF CallAccounts
  <2>8. RequestIsSound(q)'
    <3>1. call[q].config \in Config /\ call[q].config # Null /\ call[q].open
      BY <1>1, DatabaseIsSound DEF RequestIsSound, CallIsSound
    <3>. QED
      BY <1>1, <2>2, <2>6, <2>7, <3>1 DEF RequestIsSound, CallIsSound, CallIsAnswered
  <2>. QED
    BY <1>1, <2>2, <2>8, OneRequestMoves DEF IInv, TypeOK, DatabaseTypeOK, FormsAreChosen
<1>. QED
  BY <1>2, <1>3

(***************************************************************************)
(* The requests, the editor and the source.                                *)
(***************************************************************************)
\* What an editor submits once its mapping is complete is a configuration.
LEMMA SubmittedIsConfig ==
    ASSUME IInv, NEW t \in Tab, tab[t] # Null, tab[t].table # Null, IsComplete(tab[t].mapping)
    PROVE  Submitted(tab[t]) \in Config
<1>1. tab[t].table \in (Schema \cup {Null}) \X Name /\ tab[t].mapping \in Mapping \cup {NoMapping}
  BY DEF IInv, TypeOK, Card, FormTable, FormsAreChosen
<1>2. tab[t].mapping \in Mapping
  <2>1. "batchId" \in RequiredField /\ "batchId" \in Field
    BY DEF RequiredField, Field, Needs
  <2>. QED
    BY <1>1, <2>1 DEF NoMapping, IsComplete
<1>3. PICK s \in Schema \cup {Null}, n \in Name : tab[t].table = <<s, n>>
  BY <1>1
<1>4. Submitted(tab[t]).table \in Table /\ Submitted(tab[t]).table = <<IF s = Null THEN "public" ELSE s, n>>
  BY <1>3, SelectionIsSound DEF Submitted, Table
<1>. QED
  BY <1>2, <1>4 DEF Submitted, Config

\* A request begins with the source as it is, or with what the editor holds.
LEMMA RequestKeepsIInv ==
    ASSUME IInv, NEW q \in Request, Ask(q) \/ Save(q)
    PROVE  IInv'
<1>1. /\ call \in [Request -> Call] /\ call[q] \in Call /\ RequestIsSound(q)
      /\ call[q].pc = "idle" /\ UNCHANGED <<columns, source, tab, restarts>>
  BY DEF Ask, Save, IInv, TypeOK, DatabaseTypeOK, RequestIsSound
<1>. DEFINE Moves(c) == /\ call' = [call EXCEPT ![q] = c]
                        /\ c \in Call
                        /\ c.open = call[q].open
                        /\ c.records = call[q].records /\ c.errors = call[q].errors
                        /\ c.shown = call[q].shown
<1>2. ASSUME NEW c, Moves(c), c.pc \in {"asked", "storing", "answered"},
             call'[q] = c => CallIsSound(q)' /\ CallIsAnswered(q)'
      PROVE  IInv'
  BY <1>1, <1>2, MoveKeepsIInv DEF IInv, TypeOK, DatabaseTypeOK, FormsAreChosen, RequestIsSound
<1>3. CASE AnswerWith(q, "thrown")
  <2>. DEFINE c == [call[q] EXCEPT !.pc = "answered", !.result = "thrown"]
  <2>1. Moves(c) /\ c.pc = "answered" /\ c.result = "thrown"
    BY <1>1, <1>3 DEF AnswerWith, Call, PC
  <2>. HIDE DEF c
  <2>. QED
    BY <1>1, <1>2, <2>1 DEF RequestIsSound, CallIsSound, CallIsAnswered
<1>. DEFINE id == tab[TabOf[q]].id
<1>0. Ask(q) \/ Save(q) => TabOf[q] \in Tab /\ tab[TabOf[q]] # Null /\ id \in Nat
  BY SelectionIsSound DEF Ask, Save, IsOpen, IInv, TypeOK, Card
<1>4. CASE Ask(q) /\ IsThere(id)
  <2>. DEFINE c == [call[q] EXCEPT !.pc = "asked", !.id = id, !.config = source.config]
  <2>0. source.config \in Config /\ OpOf[q] # "select" /\ id \in Nat
    BY <1>0, <1>4 DEF Ask, IsThere, IInv, TypeOK, Source
  <2>1. Moves(c) /\ c.pc = "asked" /\ c.config = source.config /\ c.result = call[q].result
    BY <1>1, <1>4, <2>0 DEF Ask, Call, PC
  <2>. HIDE DEF c
  <2>. QED
    BY <1>1, <1>2, <2>0, <2>1, DatabaseIsSound DEF RequestIsSound, CallIsSound, CallIsAnswered
<1>5. CASE Save(q) /\ IsThere(id) /\ IsComplete(tab[TabOf[q]].mapping)
  <2>. DEFINE config == Submitted(tab[TabOf[q]])
              c == [call[q] EXCEPT !.pc = "storing", !.id = id, !.config = config]
  <2>1. config \in Config /\ OpOf[q] = "select" /\ id \in Nat
    BY <1>0, <1>5, SubmittedIsConfig DEF Save
  <2>2. call' = [call EXCEPT ![q] = c]
    BY <1>1, <1>5 DEF Save
  <2>. HIDE DEF config
  <2>3. Moves(c) /\ c.pc = "storing" /\ c.config = config /\ c.result = call[q].result
    BY <1>1, <2>1, <2>2 DEF Call, PC
  <2>. HIDE DEF c
  <2>. QED
    BY <1>1, <1>2, <2>1, <2>3 DEF RequestIsSound, CallIsSound, CallIsAnswered
<1>. QED
  BY <1>3, <1>4, <1>5 DEF Ask, Save

\* A form is filled in with what a card has listed.
LEMMA MountedIsCard ==
    ASSUME NEW c \in Card
    PROVE  Mounted(c) \in Card /\ Mounted(c).mapping \in Mapping \cup {NoMapping}
<1>1. c.seen \in Config /\ NoMapping \in [Field -> Column \cup {Null}]
  BY DEF Card, NoMapping
<1>2. c.seen.table # Null => <<Null, c.seen.table[2]>> \in FormTable
  BY <1>1 DEF Config, Table, FormTable
<1>. QED
  BY <1>1, <1>2, DatabaseIsSound DEF Mounted, Card, Config

\* A request is answered, and what it found is stored or shown.
LEMMA AnswerKeepsIInv ==
    ASSUME IInv, NEW q \in Request,
           StoreSelection(q) \/ StoreStatus(q) \/ StoreFails(q) \/ Answer(q)
    PROVE  IInv'
<1>1. /\ call \in [Request -> Call] /\ call[q] \in Call /\ RequestIsSound(q)
      /\ call[q].pc \in {"storing", "over"} /\ UNCHANGED <<columns, restarts>>
  BY DEF StoreSelection, StoreStatus, StoreFails, Answer,
         IInv, TypeOK, DatabaseTypeOK, RequestIsSound
<1>2. PICK result \in {"returned", "thrown", call[q].result} :
          AnswerWith(q, result) /\ (OpOf[q] = "collect" => result = call[q].result)
  BY <1>1 DEF StoreSelection, StoreStatus, StoreFails, Answer, RequestIsSound, CallIsSound
<1>3. source' \in Source \cup {Null}
  <2>1. CASE StoreSelection(q)
    BY <2>1 DEF StoreSelection, IsThere, Source, IInv, TypeOK, CallIsSound
  <2>2. CASE StoreStatus(q)
    BY <2>2 DEF StoreStatus, IsThere, Source, IInv, TypeOK
  <2>3. CASE StoreFails(q) \/ Answer(q)
    BY <2>3 DEF StoreFails, Answer, IInv, TypeOK
  <2>. QED
    BY <2>1, <2>2, <2>3
<1>4. tab' \in [Tab -> Card \cup {Null}] /\ FormsAreChosen'
  <2>1. CASE UNCHANGED tab
    BY <2>1 DEF IInv, TypeOK, FormsAreChosen
  <2>2. CASE /\ tab[TabOf[q]] # Null
             /\ tab' = [tab EXCEPT ![TabOf[q]] = Discovered(@, call[q].reported)]
    <3>. DEFINE e == tab[TabOf[q]]
                knowing == [e EXCEPT !.discovery = call[q].reported]
    <3>1. TabOf[q] \in Tab /\ e \in Card /\ e.mapping \in Mapping \cup {NoMapping}
      BY <2>2, SelectionIsSound DEF IInv, TypeOK, FormsAreChosen
    <3>2. knowing \in Card /\ knowing.mapping = e.mapping
      BY <1>1, <3>1 DEF Card, Call
    <3>3. Discovered(e, call[q].reported) \in {knowing, Mounted(knowing)}
      BY DEF Discovered
    <3>. HIDE DEF knowing
    <3>4. LET d == Discovered(e, call[q].reported)
          IN  d \in Card /\ d.mapping \in Mapping \cup {NoMapping}
      BY <3>1, <3>2, <3>3, MountedIsCard
    <3>. QED
      BY <2>2, <3>1, <3>4 DEF IInv, TypeOK, FormsAreChosen
  <2>. QED
    BY <2>1, <2>2 DEF StoreSelection, StoreStatus, StoreFails, Answer
<1>. DEFINE c == [call[q] EXCEPT !.pc = "answered", !.result = result]
<1>5. /\ call' = [call EXCEPT ![q] = c] /\ c \in Call
      /\ c.pc = "answered" /\ c.result = result /\ c.config = call[q].config
      /\ c.records = call[q].records /\ c.errors = call[q].errors /\ c.open = call[q].open
      /\ c.shown = call[q].shown
  BY <1>1, <1>2 DEF AnswerWith, Call, PC
<1>. HIDE DEF c
<1>6. ~ c.open
  BY <1>1, <1>5 DEF RequestIsSound
<1>7. call'[q] = c => CallIsSound(q)' /\ CallIsAnswered(q)'
  BY <1>1, <1>2, <1>5 DEF RequestIsSound, CallIsSound, CallIsAnswered
<1>. QED
  BY <1>1, <1>3, <1>4, <1>5, <1>6, <1>7, MoveKeepsIInv DEF IInv, TypeOK, DatabaseTypeOK

\* The tabs, the owner of the database and a removal touch no request.
LEMMA SurroundingsKeepIInv ==
    ASSUME IInv, UNCHANGED call,
           columns' \in [Table -> SUBSET Column], source' \in Source \cup {Null},
           tab' \in [Tab -> Card \cup {Null}], FormsAreChosen', UNCHANGED restarts
    PROVE  IInv'
BY DEF IInv, TypeOK, DatabaseTypeOK, CallIsSound, CallAccounts, CallIsAnswered, RejectedBy

\* A tab shows what it fetched and offers what was reported.
LEMMA EditorKeepsIInv ==
    ASSUME IInv, NEW t \in Tab,
           \/ Refetch(t) \/ Toggle(t)
           \/ \E table \in Table : PickTable(t, table)
           \/ \E mapping \in Mapping : PickColumns(t, mapping)
    PROVE  IInv'
<1>1. /\ tab \in [Tab -> Card \cup {Null}] /\ source \in Source \cup {Null}
      /\ columns \in [Table -> SUBSET Column]
      /\ tab[t] # Null => tab[t] \in Card /\ tab[t].mapping \in Mapping \cup {NoMapping}
      /\ Mapping \subseteq [Field -> Column \cup {Null}] /\ Table \subseteq FormTable
  BY DatabaseIsSound DEF IInv, TypeOK, DatabaseTypeOK, FormsAreChosen, Table, FormTable
<1>2. ASSUME NEW c, tab' = [tab EXCEPT ![t] = c], UNCHANGED <<columns, call, source, restarts>>,
             (c \in Card /\ c.mapping \in Mapping \cup {NoMapping}) \/ c = Null
      PROVE  IInv'
  <2>1. tab' \in [Tab -> Card \cup {Null}]
    BY <1>1, <1>2
  <2>2. FormsAreChosen'
    BY <1>1, <1>2 DEF IInv, FormsAreChosen
  <2>. QED
    BY <1>1, <1>2, <2>1, <2>2, SurroundingsKeepIInv
<1>3. CASE Refetch(t)
  <2>1. CASE source = Null
    BY <1>1, <1>2, <1>3, <2>1 DEF Refetch
  <2>2. CASE source # Null /\ tab[t] # Null /\ tab[t].id = source.id
    <3>. DEFINE c == [tab[t] EXCEPT !.seen = source.config]
    <3>1. c \in Card /\ c.mapping \in Mapping \cup {NoMapping}
      BY <1>1, <2>2 DEF Card, Source
    <3>2. tab' = [tab EXCEPT ![t] = c] /\ UNCHANGED <<columns, call, source, restarts>>
      BY <1>1, <1>3, <2>2 DEF Refetch
    <3>. HIDE DEF c
    <3>. QED
      BY <1>2, <3>1, <3>2
  <2>3. CASE source # Null /\ ~ (tab[t] # Null /\ tab[t].id = source.id)
    <3>1. CardOf(source) \in Card /\ CardOf(source).mapping = NoMapping
      BY <1>1, <2>3 DEF CardOf, Card, Source, NoMapping
    <3>2. tab' = [tab EXCEPT ![t] = CardOf(source)]
      BY <1>1, <1>3, <2>3 DEF Refetch
    <3>. QED
      BY <1>2, <1>3, <3>1, <3>2 DEF Refetch
  <2>. QED
    BY <2>1, <2>2, <2>3
<1>4. CASE Toggle(t)
  <2>. DEFINE c == [tab[t] EXCEPT !.expanded = ~ tab[t].expanded]
  <2>1. c \in Card
    BY <1>1, <1>4 DEF Toggle, Card
  <2>2. tab' = [tab EXCEPT ![t] = Mounted(c)]
    BY <1>1, <1>4 DEF Toggle
  <2>. HIDE DEF c
  <2>. QED
    BY <1>2, <1>4, <2>1, <2>2, MountedIsCard DEF Toggle
<1>5. ASSUME NEW table \in Table, PickTable(t, table)
      PROVE  IInv'
  <2>. DEFINE c == [tab[t] EXCEPT !.table = table]
  <2>1. c \in Card /\ c.mapping = tab[t].mapping /\ tab[t] # Null
    BY <1>1, <1>5 DEF PickTable, IsOpen, Card
  <2>2. tab' = [tab EXCEPT ![t] = c]
    BY <1>5 DEF PickTable
  <2>. HIDE DEF c
  <2>. QED
    BY <1>1, <1>2, <1>5, <2>1, <2>2 DEF PickTable
<1>6. ASSUME NEW mapping \in Mapping, PickColumns(t, mapping)
      PROVE  IInv'
  <2>. DEFINE c == [tab[t] EXCEPT !.mapping = mapping]
  <2>1. c \in Card /\ c.mapping = mapping
    BY <1>1, <1>6 DEF PickColumns, IsOpen, Card
  <2>2. tab' = [tab EXCEPT ![t] = c]
    BY <1>6 DEF PickColumns
  <2>. HIDE DEF c
  <2>. QED
    BY <1>2, <1>6, <2>1, <2>2 DEF PickColumns
<1>. QED
  BY <1>3, <1>4, <1>5, <1>6

\* A restart answers nothing, and leaves the rows of each call.
LEMMA RestartKeepsIInv ==
    ASSUME IInv, Restart
    PROVE  IInv'
<1>. DEFINE c(q) == CASE call[q].pc \in {"idle", "answered", "lost"} -> call[q]
                      [] call[q].pc = "over" -> [call[q] EXCEPT !.pc = "lost"]
                      [] OTHER -> [call[q] EXCEPT !.pc = "lost", !.open = FALSE, !.result = "pending"]
<1>1. call' = [q \in Request |-> c(q)] /\ UNCHANGED <<columns, tab>>
  BY DEF Restart
<1>2. ASSUME NEW q \in Request
      PROVE  RequestIsSound(q)'
  <2>1. call[q] \in Call /\ RequestIsSound(q)
    BY DEF IInv, TypeOK, DatabaseTypeOK, RequestIsSound
  <2>2. /\ c(q) \in Call
        /\ c(q).records = call[q].records /\ c(q).errors = call[q].errors
        /\ c(q).config = call[q].config
        /\ c(q).shown = call[q].shown
        /\ IF call[q].pc \in {"idle", "answered", "lost"} THEN c(q) = call[q]
           ELSE /\ c(q).pc = "lost"
                /\ IF call[q].pc = "over" THEN c(q).result = call[q].result /\ c(q).open = call[q].open
                   ELSE c(q).result = "pending" /\ ~ c(q).open
    BY <2>1 DEF Call, PC
  <2>3. call'[q] = c(q)
    BY <1>1
  <2>. HIDE DEF c
  <2>4. CallAccounts(q)'
    BY <2>1, <2>2, <2>3, RowsAreKept DEF RequestIsSound
  <2>. QED
    BY <2>1, <2>2, <2>3, <2>4 DEF RequestIsSound, CallIsSound, CallIsAnswered
<1>3. call' \in [Request -> Call]
  <2>1. DOMAIN call' = Request /\ call' = [q \in Request |-> call'[q]]
    BY <1>1
  <2>. QED
    BY <1>2, <2>1 DEF RequestIsSound
<1>4. source' \in Source \cup {Null} /\ restarts' \in 0..MaxRestarts
  <2>1. /\ restarts' = restarts + 1 /\ restarts < MaxRestarts
        /\ source' = IF source = Null THEN Seeded(restarts') ELSE [source EXCEPT !.config = Seed]
    BY DEF Restart
  <2>2. restarts' \in 0..MaxRestarts
    BY <2>1, SelectionIsSound DEF IInv, TypeOK
  <2>. QED
    BY <2>1, <2>2, SelectionIsSound DEF IInv, TypeOK, Source, Seeded
<1>. QED
  BY <1>1, <1>2, <1>3, <1>4 DEF IInv, TypeOK, DatabaseTypeOK, RequestIsSound, FormsAreChosen

\* Initially nothing is selected and no request is made.
LEMMA InitEstablishesIInv == Init => IInv
<1>. SUFFICES ASSUME Init PROVE IInv
  OBVIOUS
<1>. USE DEF Init
<1>1. NotMade \in Call /\ NotMade.records = <<>> /\ NotMade.errors = 0 /\ NotMade.shown = 0
      /\ NotMade.pc = "idle" /\ ~ NotMade.open /\ NotMade.config = Null
      /\ NotMade.result = "pending"
  BY EmptySeq DEF NotMade, Call, PC, NothingReported
<1>2. TypeOK
  <2>1. tab \in [Tab -> Card \cup {Null}] /\ source \in Source \cup {Null} /\ restarts \in 0..MaxRestarts
    BY SelectionIsSound DEF Card, CardOf, Source, Seeded, NoMapping
  <2>. QED
    BY <1>1, <2>1 DEF TypeOK, DatabaseTypeOK
<1>3. FormsAreChosen
  BY DEF FormsAreChosen, CardOf
<1>4. ASSUME NEW q \in Request
      PROVE  CallIsSound(q) /\ CallAccounts(q) /\ CallIsAnswered(q)
  <2>1. call[q] = NotMade
    OBVIOUS
  <2>2. DOMAIN call[q].records = {} /\ RejectedBy(q) = {}
    BY <1>1, <2>1, EmptySeq DEF RejectedBy
  <2>3. Cardinality(RejectedBy(q)) = 0
    BY <2>2, FS_EmptySet, Zenon
  <2>. QED
    BY <1>1, <2>1, <2>2, <2>3 DEF CallIsSound, CallAccounts, CallIsAnswered
<1>. QED
  BY <1>2, <1>3, <1>4 DEF IInv

\* Every step keeps the invariant.
LEMMA NextKeepsIInv == IInv /\ [Next]_vars => IInv'
<1>. SUFFICES ASSUME IInv, [Next]_vars PROVE IInv'
  OBVIOUS
<1>0. /\ columns \in [Table -> SUBSET Column] /\ source \in Source \cup {Null}
      /\ tab \in [Tab -> Card \cup {Null}] /\ FormsAreChosen
  BY DEF IInv, TypeOK, DatabaseTypeOK
<1>1. CASE UNCHANGED vars
  BY <1>0, <1>1, SurroundingsKeepIInv DEF vars, FormsAreChosen
<1>2. ASSUME NEW q \in Request, Ask(q) \/ Save(q) \/ Proceed(q)
      PROVE  IInv'
  BY <1>2, RequestKeepsIInv, CallKeepsIInv, SelectKeepsIInv, AnswerKeepsIInv DEF Proceed, Work
<1>3. CASE Remove
  BY <1>0, <1>3, SurroundingsKeepIInv DEF Remove, FormsAreChosen
<1>4. ASSUME NEW table \in Table, AlterTable(table), UNCHANGED <<source, tab, restarts>>
      PROVE  IInv'
  <2>1. columns' \in [Table -> SUBSET Column] /\ UNCHANGED call
    <3>1. PICK c \in ColumnsOf[table] : columns' = [columns EXCEPT ![table] = c]
      BY <1>4 DEF AlterTable
    <3>2. c \in SUBSET Column
      BY DatabaseIsSound
    <3>. QED
      BY <1>0, <1>4, <3>1, <3>2 DEF AlterTable
  <2>. QED
    BY <1>0, <1>4, <2>1, SurroundingsKeepIInv DEF FormsAreChosen
<1>. QED
  BY <1>1, <1>2, <1>3, <1>4, EditorKeepsIInv, RestartKeepsIInv DEF Next

\* So it holds throughout.
LEMMA IInvIsInvariant == Spec => []IInv
BY InitEstablishesIInv, NextKeepsIInv, PTL DEF Spec
-----------------------------------------------------------------------------
\* The requests, the editors and the source hold what their types say, and each
\* request holds a connection only while it uses one
\* (database.collector.ts:63-72, sources.service.ts:78-141).
THEOREM TypeCorrect == Spec => []TypeOK
<1>1. IInv => TypeOK
  BY DEF IInv
<1>. QED
  BY <1>1, IInvIsInvariant, PTL

\* However the selection, the schema and the process change under it, a collection's
\* statement names what the database reported to it (database.collector.ts:139-151).
THEOREM OnlyReportedAreRead == Spec => []OnlyReportedIdentifiers
<1>1. IInv => OnlyReportedIdentifiers
  BY DEF IInv, CallIsSound, OnlyReportedIdentifiers
<1>. QED
  BY <1>1, IInvIsInvariant, PTL

\* However requests, removals and restarts overlap, the status of a source is the
\* one that the last test wrote (sources.service.ts:104-111, 137-140).
THEOREM StatusComesFromTests == Spec => StatusIsOfTheLastTest
<1>1. ASSUME TypeOK, Next, source # Null, source' # Null, source'.status # source.status
      PROVE  \E q \in Request :
                 /\ OpOf[q] = "test" /\ call[q].pc = "over" /\ call'[q].pc = "answered"
                 /\ source'.status = IF call[q].ok THEN "VERIFIED" ELSE "ERROR"
  <2>1. PICK q \in Request : StoreStatus(q)
    <3>1. source \in Source
      BY <1>1 DEF TypeOK
    <3>. QED
      BY <1>1, <3>1
         DEF Next, Ask, Save, Proceed, StoreSelection, StoreFails, Answer, Refetch, PickTable,
             PickColumns, Toggle, Remove, Restart, Source
  <2>2. source \in Source /\ call \in [Request -> Call] /\ call[q] \in Call
    BY <1>1 DEF TypeOK, DatabaseTypeOK
  <2>. QED
    BY <2>1, <2>2 DEF StoreStatus, IsThere, AnswerWith, Source, Call
<1>. QED
  BY <1>1, TypeCorrect, PTL DEF Spec, StatusIsOfTheLastTest
-----------------------------------------------------------------------------
\* What a collection answers accounts for its rows.
Accounts(q) ==
    Outcome(q).state = "returned" =>
        /\ Outcome(q) \in Contract(q)!Outcome
        /\ Outcome(q).shown = Outcome(q).usable + Outcome(q).rejected
        /\ Outcome(q).rejected <= Outcome(q).errors

\* Every row that was read is usable or rejected, and a rejected one is reported.
LEMMA OutcomeAccounts == IInv => \A q \in Collections : Accounts(q)
<1>. SUFFICES ASSUME IInv, NEW q \in Collections, Outcome(q).state = "returned"
              PROVE  Accounts(q)
  BY DEF Accounts
<1>. DEFINE records == call[q].records
            U == {i \in DOMAIN records : records[i].usable}
            R == {i \in DOMAIN records : records[i].parseError}
<1>1. Outcome(q) = [state |-> "returned", shown |-> call[q].shown, rejected |-> Cardinality(R),
                    usable |-> Cardinality(U), errors |-> call[q].errors]
  BY DEF Outcome
<1>2. /\ Len(records) \in Nat /\ DOMAIN records = 1..Len(records) /\ call[q].errors \in Nat
  BY LenProperties DEF IInv, TypeOK, DatabaseTypeOK, Call, Collections
<1>3. /\ U \cup R = 1..Len(records) /\ U \cap R = {}
      /\ Cardinality(R) <= call[q].errors /\ call[q].shown = Len(records)
  BY <1>2 DEF IInv, CallAccounts, RejectedBy, Collections
<1>. HIDE DEF U, R, records
<1>4. /\ Cardinality(U) \in Nat /\ Cardinality(R) \in Nat
      /\ Len(records) = Cardinality(U) + Cardinality(R)
  BY <1>2, <1>3, PartsAddUp
<1>. QED
  BY <1>1, <1>2, <1>3, <1>4 DEF Accounts, Contract!Outcome

InProgress == {"asked", "connecting", "first", "select", "ending"}

WasLost(q) == call[q].pc = "lost" /\ call[q].result = "pending"

\* How far one step takes a collection.
LEMMA CollectionMovesOn ==
    ASSUME IInv, NEW q \in Collections, [Next]_vars
    PROVE  \/ call'[q] = call[q]
           \/ call[q].pc = "idle" /\ call'[q].config = Null
           \/ call[q].pc = "idle" /\ call'[q].pc = "asked" /\ call'[q].config # Null
           \/ /\ call[q].pc \in InProgress
              /\ call'[q].pc \in InProgress \cup {"over"} \/ WasLost(q)'
              /\ call'[q].config = call[q].config
           \/ /\ call[q].pc = "over" /\ call'[q].pc \in {"answered", "lost"}
              /\ call'[q] = [call[q] EXCEPT !.pc = call'[q].pc]
<1>1. /\ call \in [Request -> Call] /\ q \in Request /\ call[q] \in Call
      /\ CallIsAnswered(q) /\ OpOf[q] = "collect"
  BY DEF IInv, TypeOK, DatabaseTypeOK, Collections
<1>2. CASE UNCHANGED call
  BY <1>2
<1>3. ASSUME NEW r \in Request, r # q, Ask(r) \/ Save(r) \/ Proceed(r)
      PROVE  call'[q] = call[q]
  BY <1>1, <1>3
     DEF Ask, Save, Proceed, Work, Begin, Connect, Query, CountTables, Select, DatabaseFails, End, Throw,
         StoreSelection, StoreStatus, StoreFails, Answer, AnswerWith
<1>4. CASE Ask(q)
  <2>1. CASE ~ IsThere(tab[TabOf[q]].id)
    BY <1>1, <1>4, <2>1 DEF Ask, AnswerWith, Call, CallIsAnswered
  <2>2. CASE IsThere(tab[TabOf[q]].id)
    <3>1. source.config # Null
      BY <2>2, DatabaseIsSound DEF IsThere, IInv, TypeOK, Source
    <3>. QED
      BY <1>1, <1>4, <2>2, <3>1 DEF Ask, Call
  <2>. QED
    BY <2>1, <2>2
<1>5. CASE Begin(q) \/ Connect(q) \/ Query(q) \/ CountTables(q) \/ DatabaseFails(q) \/ End(q)
  BY <1>1, <1>5
     DEF Begin, Connect, Query, CountTables, DatabaseFails, End, Throw, Call, InProgress
<1>6. CASE Select(q)
  <2>1. CASE Throw(q)
    BY <1>1, <1>6, <2>1 DEF Select, Throw, Call, InProgress
  <2>2. CASE ~ Throw(q)
    <3>1. PICK rows \in Contents :
              call' = [call EXCEPT
                  ![q].pc = "ending",
                  ![q].result = "returned",
                  ![q].shown = Len(rows),
                  ![q].records = [i \in DOMAIN rows |-> ToRecord(rows[i], call[q].config.mapping)],
                  ![q].errors = Cardinality(Rejects(rows, call[q].config.mapping))]
      BY <1>6, <2>2 DEF Select
    <3>. QED
      BY <1>1, <1>6, <3>1 DEF Select, Call, InProgress
  <2>. QED
    BY <2>1, <2>2
<1>7. CASE Answer(q)
  BY <1>1, <1>7 DEF Answer, AnswerWith, Call
<1>8. CASE StoreSelection(q) \/ StoreStatus(q) \/ StoreFails(q) \/ Save(q)
  <2>1. call[q].pc # "storing"
    BY <1>1 DEF IInv, CallIsSound
  <2>. QED
    BY <1>1, <1>8, <2>1 DEF StoreSelection, StoreStatus, StoreFails, Save
<1>9. CASE Restart
  <2>1. call'[q] = CASE call[q].pc \in {"idle", "answered", "lost"} -> call[q]
             [] call[q].pc = "over" -> [call[q] EXCEPT !.pc = "lost"]
             [] OTHER -> [call[q] EXCEPT !.pc = "lost", !.open = FALSE, !.result = "pending"]
    BY <1>1, <1>9 DEF Restart
  <2>2. call[q].pc # "storing"
    BY <1>1 DEF IInv, CallIsSound
  <2>. QED
    BY <1>1, <2>1, <2>2 DEF Call, PC, InProgress, WasLost
<1>10. ASSUME NEW t \in Tab,
              \/ Refetch(t) \/ Toggle(t)
              \/ \E table \in Table : PickTable(t, table)
              \/ \E mapping \in Mapping : PickColumns(t, mapping)
       PROVE  UNCHANGED call
  BY <1>10 DEF Refetch, Toggle, PickTable, PickColumns
<1>11. ASSUME Remove \/ \E table \in Table : AlterTable(table)
       PROVE  UNCHANGED call
  BY <1>11 DEF Remove, AlterTable
<1>. QED
  BY <1>2, <1>3, <1>4, <1>5, <1>6, <1>7, <1>8, <1>9, <1>10, <1>11 DEF Next, Proceed, Work, vars

\* A collection is asked for once, answered once, and nothing changes the answer.
LEMMA NextKeepsContract ==
    ASSUME IInv, IInv', NEW q \in Collections, Accounts(q)', [Next]_vars
    PROVE  [Contract(q)!Next]_(Outcome(q))
<1>1. /\ q \in Request /\ call[q] \in Call /\ call'[q] \in Call
      /\ CallIsSound(q) /\ CallIsAnswered(q) /\ CallIsAnswered(q)' /\ OpOf[q] = "collect"
  BY DEF IInv, TypeOK, DatabaseTypeOK, Collections
<1>2. CASE call'[q] = call[q]
  <2>1. Outcome(q)' = Outcome(q)
    BY <1>2, Zenon DEF Outcome
  <2>. QED
    BY <2>1
<1>3. CASE call[q].pc = "idle" /\ call'[q].config = Null
  BY <1>1, <1>3 DEF Outcome, CallIsAnswered
<1>4. CASE call[q].pc = "idle" /\ call'[q].pc = "asked" /\ call'[q].config # Null
  <2>1. Outcome(q) = [state |-> "uncalled"] /\ Outcome(q)' = [state |-> "pending"]
    BY <1>1, <1>4 DEF Outcome, CallIsAnswered
  <2>. QED
    BY <2>1 DEF Contract!Next, Contract!Call
<1>5. CASE /\ call[q].pc \in InProgress
           /\ call'[q].pc \in InProgress \cup {"over"} \/ WasLost(q)'
           /\ call'[q].config = call[q].config
  <2>1. call[q].config # Null /\ Outcome(q) = [state |-> "pending"]
    BY <1>1, <1>5, DatabaseIsSound DEF Outcome, InProgress, CallIsSound, CallIsAnswered
  <2>2. CASE call'[q].pc \in InProgress
    BY <1>5, <2>1, <2>2 DEF Outcome, InProgress
  <2>3. CASE WasLost(q)'
    BY <1>5, <2>1, <2>3 DEF Outcome, WasLost, Contract!Next, Contract!Lost
  <2>4. CASE call'[q].pc = "over" /\ call'[q].result = "returned"
    <3>1. Outcome(q)'.state = "returned"
      BY <2>4 DEF Outcome
    <3>. QED
      BY <2>1, <3>1 DEF Accounts, Contract!Next, Contract!Returns
  <2>5. CASE call'[q].pc = "over" /\ call'[q].result # "returned"
    <3>1. call'[q].result = "thrown"
      BY <1>1, <2>5 DEF CallIsAnswered, Call
    <3>. QED
      BY <1>5, <2>1, <2>5, <3>1 DEF Outcome, Contract!Next, Contract!Throws
  <2>. QED
    BY <1>5, <2>2, <2>3, <2>4, <2>5
<1>6. CASE /\ call[q].pc = "over" /\ call'[q].pc \in {"answered", "lost"}
           /\ call'[q] = [call[q] EXCEPT !.pc = call'[q].pc]
  <2>1. /\ call'[q].records = call[q].records /\ call'[q].errors = call[q].errors
        /\ call'[q].result = call[q].result /\ call'[q].config = call[q].config
        /\ call'[q].shown = call[q].shown /\ call[q].result # "pending"
    BY <1>1, <1>6 DEF Call, CallIsAnswered
  <2>. QED
    BY <1>6, <2>1 DEF Outcome
<1>. QED
  BY <1>2, <1>3, <1>4, <1>5, <1>6, CollectionMovesOn

\* Whatever happens to the source, the schema or the process, a collection is
\* answered at most once and accounts for its rows (collector.types.ts:124-130).
THEOREM CollectionsKeepTheContract == Spec => KeepsContract
<1>1. Init => \A q \in Collections : Contract(q)!Init
  BY DEF Init, Contract!Init, Outcome, NotMade, Collections
<1>. DEFINE AllAccount == \A q \in Collections : Accounts(q)
<1>2. IInv => AllAccount
  BY OutcomeAccounts
<1>3. ASSUME IInv, IInv', AllAccount', [Next]_vars
      PROVE  \A q \in Collections : [Contract(q)!Next]_(Outcome(q))
  BY <1>3, NextKeepsContract
<1>. HIDE DEF AllAccount
<1>. QED
  BY <1>1, <1>2, <1>3, IInvIsInvariant, PTL DEF Spec, KeepsContract
=============================================================================
