-------------------------- MODULE Collection_proofs --------------------------
(***************************************************************************)
(* That collection implements the ledger, whatever requests interleave and *)
(* whatever fails, so that the theorems about the ledger are theorems      *)
(* about collection; what holds of its runs; and, for requests that come   *)
(* one at a time, when the events on the board are current.                *)
(***************************************************************************)
EXTENDS Collection, Ledger_proofs

\* The rows a handler has still to apply are stored already.
StoredBeforeApplied ==
    \A h \in Handler : handler[h].pc = "master" =>
        \A i \in handler[h].todo : \E j \in DOMAIN records :
            records[j].row.master = handler[h].outcome.records[i].master

\* What the handlers rely on, and what the tables hold.
HandlersAreSound ==
    /\ runs \in Seq(Run)
    /\ handler \in [Handler -> Local]
    /\ \A h \in Handler : LocalIsSound(handler[h])
    /\ RunsAreOwned
    /\ StoredBeforeApplied

\* The inductive invariant.
IInv == LInv /\ HandlersAreSound

\* A collector returns rows that are typed.
LEMMA OutcomesAreTyped ==
    \A s \in SourceId : \A o \in Outcomes[s] : o \in Outcome /\ o # Null
BY SourcesAreSound, NullIsNoRow

(***************************************************************************)
(* How a handler moves.                                                    *)
(***************************************************************************)
\* It goes on with its own run and its own rows, or lets them go.
Moves(h) ==
    \E l \in Local :
        /\ handler' = [handler EXCEPT ![h] = l]
        /\ LocalIsSound(l)
        /\ l.run # Null => l.run = handler[h].run
        /\ l.pc = "master" => /\ handler[h].pc = "master"
                              /\ l.todo \subseteq handler[h].todo
                              /\ l.outcome = handler[h].outcome

\* Such a move disturbs no other handler.
LEMMA MoveKeepsHandlers ==
    ASSUME IInv, NEW h \in Handler, Moves(h), UNCHANGED <<runs, records>>
    PROVE  HandlersAreSound'
<1>1. PICK l \in Local :
          /\ handler' = [handler EXCEPT ![h] = l]
          /\ LocalIsSound(l)
          /\ l.run # Null => l.run = handler[h].run
          /\ l.pc = "master" => /\ handler[h].pc = "master"
                                /\ l.todo \subseteq handler[h].todo
                                /\ l.outcome = handler[h].outcome
  BY DEF Moves
<1>2. /\ handler' \in [Handler -> Local]
      /\ handler'[h] = l
      /\ \A g \in Handler \ {h} : handler'[g] = handler[g]
  BY <1>1 DEF IInv, HandlersAreSound
<1>3. \A g \in Handler : LocalIsSound(handler[g])'
  BY <1>1, <1>2 DEF IInv, HandlersAreSound, LocalIsSound, UsableRows
<1>4. RunsAreOwned'
  BY <1>1, <1>2 DEF IInv, HandlersAreSound, RunsAreOwned, IsCollecting
<1>5. StoredBeforeApplied'
  BY <1>1, <1>2 DEF IInv, HandlersAreSound, StoredBeforeApplied
<1>. QED
  BY <1>2, <1>3, <1>4, <1>5 DEF IInv, HandlersAreSound

\* The state of an idle handler.
LEMMA IdleIsSound ==
    Idle \in Local /\ LocalIsSound(Idle) /\ Idle.run = Null /\ Idle.pc = "idle"
BY DEF Idle, Local, PC, LocalIsSound

\* A handler that has answered holds nothing.
LEMMA DoneMoves ==
    ASSUME NEW h \in Handler, Done(h)
    PROVE  Moves(h)
BY IdleIsSound DEF Done, Moves

\* An exception leads to the catch block of a run, or ends the request.
LEMMA ThrowMoves ==
    ASSUME IInv, NEW h \in Handler, Throw(h)
    PROVE  Moves(h)
<1>1. CASE IsCollecting(h) /\ handler[h].pc # "fail"
  <2>. DEFINE l == [handler[h] EXCEPT !.pc = "fail"]
  <2>1. handler[h] \in Local /\ LocalIsSound(handler[h])
    BY DEF IInv, HandlersAreSound
  <2>2. handler' = [handler EXCEPT ![h] = l]
    BY <1>1 DEF Throw
  <2>3. l \in Local /\ l.run = handler[h].run /\ l.pc # "master"
    BY <2>1 DEF Local, PC
  <2>4. LocalIsSound(l)
    BY <1>1, <2>1, <2>3 DEF LocalIsSound, IsCollecting, Local
  <2>. QED
    BY <2>2, <2>3, <2>4 DEF Moves
<1>2. CASE ~ (IsCollecting(h) /\ handler[h].pc # "fail")
  BY <1>2, DoneMoves DEF Throw
<1>. QED
  BY <1>1, <1>2

\* normalization.rebuild returns to collect or ends the request.
LEMMA RebuildReturnMoves ==
    ASSUME IInv, NEW h \in Handler, handler[h].pc \in {"read", "rebuild"},
           RebuildReturns(h)
    PROVE  Moves(h)
<1>1. CASE IsCollecting(h)
  <2>. DEFINE l == [handler[h] EXCEPT !.pc = "finish", !.snapshot = {}, !.pending = {}]
  <2>1. handler[h] \in Local /\ LocalIsSound(handler[h])
    BY DEF IInv, HandlersAreSound
  <2>2. handler' = [handler EXCEPT ![h] = l]
    BY <1>1 DEF RebuildReturns
  <2>3. l \in Local /\ l.run = handler[h].run /\ l.pc # "master"
    BY <2>1 DEF Local, PC
  <2>4. LocalIsSound(l)
    BY <1>1, <2>1, <2>3 DEF LocalIsSound, IsCollecting, Local
  <2>. QED
    BY <2>2, <2>3, <2>4 DEF Moves
<1>2. CASE ~ IsCollecting(h)
  BY <1>2, DoneMoves DEF RebuildReturns
<1>. QED
  BY <1>1, <1>2

(***************************************************************************)
(* The actions that only read.                                             *)
(***************************************************************************)
LEMMA ReadRecordsMoves ==
    ASSUME IInv, NEW h \in Handler, ReadRecords(h)
    PROVE  Moves(h)
<1>. DEFINE ids == {i \in Usable : records[i].row.batchId \in Scope(h)}
            l == [handler[h] EXCEPT !.pc = "rebuild", !.snapshot = ids,
                      !.pending = {records[i].row.batchId : i \in ids}]
<1>1. handler[h] \in Local /\ LocalIsSound(handler[h]) /\ handler[h].pc = "read"
  BY DEF IInv, HandlersAreSound, ReadRecords
<1>2. CASE ids = {}
  BY <1>1, <1>2, RebuildReturnMoves DEF ReadRecords
<1>3. CASE ids # {}
  <2>1. handler' = [handler EXCEPT ![h] = l]
    BY <1>3 DEF ReadRecords
  <2>2. ids \subseteq UsableRows
    BY DEF Usable, Stored, UsableRows
  <2>3. {records[i].row.batchId : i \in ids} \subseteq Batch
    <3>1. ASSUME NEW i \in ids PROVE records[i].row.batchId \in Batch
      <4>1. records[i] \in Record /\ IsUsable(records[i].row)
        BY <2>2, RecordsAreTyped DEF UsableRows, IInv, LInv
      <4>. QED
        BY <4>1 DEF Record, Row, IsUsable
    <3>. QED
      BY <3>1
  <2>4. DOMAIN records \subseteq Nat
    BY LenProperties DEF IInv, LInv, LedgerTypeOK
  <2>5. l \in Local /\ l.run = handler[h].run /\ l.pc # "master"
    BY <1>1, <2>2, <2>3, <2>4 DEF Local, PC, UsableRows
  <2>6. LocalIsSound(l)
    BY <1>1, <2>2, <2>5 DEF LocalIsSound, Local, UsableRows
  <2>. QED
    BY <2>1, <2>5, <2>6 DEF Moves
<1>. QED
  BY <1>2, <1>3

\* Requests that arrive begin with no run.
LEMMA ArriveMoves ==
    ASSUME IInv, NEW h \in Handler, Arrive(h)
    PROVE  Moves(h) /\ UNCHANGED tables
<1>1. handler[h] \in Local /\ LocalIsSound(handler[h])
  BY DEF IInv, HandlersAreSound
<1>2. CASE Reconcile(h)
  <2>. DEFINE l == [handler[h] EXCEPT !.pc = "read"]
  <2>1. handler' = [handler EXCEPT ![h] = l] /\ handler[h].pc = "idle"
    BY <1>2 DEF Reconcile
  <2>2. l \in Local /\ l.run = handler[h].run /\ l.pc # "master"
    BY <1>1 DEF Local, PC
  <2>3. LocalIsSound(l)
    BY <1>1, <2>1, <2>2 DEF LocalIsSound, Local
  <2>. QED
    BY <1>2, <2>1, <2>2, <2>3 DEF Moves, Reconcile
<1>3. ASSUME NEW s \in SourceId, Remove(h, s)
      PROVE  Moves(h) /\ UNCHANGED tables
  <2>. DEFINE l == [handler[h] EXCEPT !.pc = "delete", !.source = s]
  <2>1. handler' = [handler EXCEPT ![h] = l] /\ handler[h].pc = "idle"
    BY <1>3 DEF Remove
  <2>2. l \in Local /\ l.run = handler[h].run /\ l.pc # "master"
    BY <1>1 DEF Local, PC
  <2>3. LocalIsSound(l)
    BY <1>1, <2>1, <2>2 DEF LocalIsSound, Local
  <2>. QED
    BY <1>3, <2>1, <2>2, <2>3 DEF Moves, Remove
<1>4. ASSUME NEW s \in SourceId, Collect(h, s)
      PROVE  Moves(h) /\ UNCHANGED tables
  <2>. DEFINE l == [handler[h] EXCEPT !.pc = "create", !.source = s]
  <2>1. handler' = [handler EXCEPT ![h] = l] /\ handler[h].pc = "idle"
    BY <1>4 DEF Collect
  <2>2. l \in Local /\ l.run = handler[h].run /\ l.pc # "master"
    BY <1>1 DEF Local, PC
  <2>3. LocalIsSound(l)
    BY <1>1, <2>1, <2>2 DEF LocalIsSound, Local
  <2>. QED
    BY <1>4, <2>1, <2>2, <2>3 DEF Moves, Collect
<1>. QED
  BY <1>2, <1>3, <1>4 DEF Arrive

\* What the collector returned is remembered until the run ends.
LEMMA CollectorReturnsMoves ==
    ASSUME IInv, NEW h \in Handler, CollectorReturns(h)
    PROVE  Moves(h)
<1>1. /\ handler[h] \in Local /\ LocalIsSound(handler[h])
      /\ handler[h].pc = "collect"
  BY DEF IInv, HandlersAreSound, CollectorReturns
<1>2. handler[h].run # Null /\ handler[h].source \in SourceId
  BY <1>1 DEF LocalIsSound
<1>3. PICK outcome \in Outcomes[handler[h].source] :
          handler' = [handler EXCEPT
              ![h].pc = IF outcome.records = <<>> THEN "read" ELSE "known",
              ![h].outcome = outcome]
  BY DEF CollectorReturns
<1>4. outcome \in Outcome /\ outcome # Null
  BY <1>2, SourcesAreSound, NullIsNoRow
<1>. DEFINE pc == IF outcome.records = <<>> THEN "read" ELSE "known"
            l == [handler[h] EXCEPT !.pc = pc, !.outcome = outcome]
<1>5. handler' = [handler EXCEPT ![h] = l]
  BY <1>3
<1>6. /\ l \in Local /\ l.run = handler[h].run /\ l.pc # "master" /\ l.outcome = outcome
      /\ l.pc \in {"read", "known"} /\ l.source = handler[h].source
      /\ l.snapshot = handler[h].snapshot
  BY <1>1, <1>4 DEF Local, PC
<1>7. LocalIsSound(l)
  BY <1>1, <1>2, <1>6 DEF LocalIsSound
<1>. QED
  BY <1>5, <1>6, <1>7 DEF Moves

\* A count of array positions is a number.
LEMMA CountIsNatural ==
    ASSUME NEW S, NEW seq \in Seq(S), NEW T \in SUBSET DOMAIN seq
    PROVE  Cardinality(T) \in Nat
<1>1. DOMAIN seq = 1..Len(seq) /\ Len(seq) \in Nat
  BY LenProperties
<1>2. IsFiniteSet(1..Len(seq))
  BY <1>1, FS_Interval
<1>. QED
  BY <1>1, <1>2, FS_Subset, FS_CardinalityType

\* Looking up the known ids changes only what the handler remembers.
LEMMA ReadKnownMoves ==
    ASSUME IInv, NEW h \in Handler, ReadKnownRecordIds(h)
    PROVE  Moves(h)
<1>. DEFINE rows == handler[h].outcome.records
            n == Cardinality(Duplicates(rows, KnownIds(handler[h].source)))
            l == [handler[h] EXCEPT !.pc = "store", !.duplicates = n]
<1>1. /\ handler[h] \in Local /\ LocalIsSound(handler[h])
      /\ handler[h].pc = "known"
  BY DEF IInv, HandlersAreSound, ReadKnownRecordIds
<1>2. handler[h].run # Null /\ handler[h].outcome \in Outcome
  BY <1>1, OutcomesAreTyped DEF LocalIsSound
<1>3. rows \in Seq(Row)
  BY <1>2 DEF Outcome
<1>4. n \in Nat
  BY <1>3, CountIsNatural DEF Duplicates
<1>5. handler' = [handler EXCEPT ![h] = l]
  BY DEF ReadKnownRecordIds
<1>6. l \in Local /\ l.run = handler[h].run /\ l.pc # "master"
  BY <1>1, <1>4 DEF Local, PC
<1>7. LocalIsSound(l)
  BY <1>1, <1>2, <1>6 DEF LocalIsSound, Local
<1>. QED
  BY <1>5, <1>6, <1>7 DEF Moves

\* One batch less is left to rebuild.
LEMMA RebuildBatchMoves ==
    ASSUME IInv, NEW h \in Handler, NEW b \in Batch, RebuildBatch(h, b)
    PROVE  Moves(h)
<1>1. CASE handler[h].pending = {b}
  BY <1>1, RebuildReturnMoves DEF RebuildBatch
<1>2. CASE handler[h].pending # {b}
  <2>. DEFINE l == [handler[h] EXCEPT !.pending = @ \ {b}]
  <2>1. /\ handler[h] \in Local /\ LocalIsSound(handler[h])
        /\ handler[h].pc = "rebuild"
    BY DEF IInv, HandlersAreSound, RebuildBatch
  <2>2. handler' = [handler EXCEPT ![h] = l]
    BY <1>2 DEF RebuildBatch
  <2>3. l \in Local /\ l.run = handler[h].run /\ l.pc # "master"
    BY <2>1 DEF Local, PC
  <2>4. LocalIsSound(l)
    BY <2>1, <2>3 DEF LocalIsSound, Local
  <2>. QED
    BY <2>2, <2>3, <2>4 DEF Moves
<1>. QED
  BY <1>1, <1>2

\* A removal goes on to rebuild, with no run of its own.
LEMMA DeleteSourceMoves ==
    ASSUME IInv, NEW h \in Handler, DeleteSource(h)
    PROVE  Moves(h)
<1>. DEFINE l == [handler[h] EXCEPT !.pc = "read"]
<1>1. /\ handler[h] \in Local /\ LocalIsSound(handler[h])
      /\ handler[h].pc = "delete"
      /\ handler' = [handler EXCEPT ![h] = l]
  BY DEF IInv, HandlersAreSound, DeleteSource
<1>2. l \in Local /\ l.run = handler[h].run /\ l.pc # "master"
  BY <1>1 DEF Local, PC
<1>3. LocalIsSound(l)
  BY <1>1, <1>2 DEF LocalIsSound, Local
<1>. QED
  BY <1>1, <1>2, <1>3 DEF Moves

(***************************************************************************)
(* The actions that write runs, records or master data.                    *)
(***************************************************************************)
\* A new run belongs to the request that created it.
LEMMA CreateRunKeepsHandlers ==
    ASSUME IInv, NEW h \in Handler, CreateRun(h)
    PROVE  HandlersAreSound'
<1>. DEFINE run == [source |-> handler[h].source, status |-> "RUNNING", stored |-> 0,
                    duplicate |-> 0, rejected |-> 0, errors |-> 0]
            l == [handler[h] EXCEPT !.pc = "collect", !.run = Len(runs')]
<1>1. /\ runs' = Append(runs, run)
      /\ sources' = sources /\ records' = records /\ master' = master
      /\ canonical' = canonical /\ contributions' = contributions
      /\ handler[h].pc = "create"
      /\ handler' = [handler EXCEPT ![h] = l]
  BY DEF CreateRun
<1>2. HandlersAreSound /\ handler[h] \in Local /\ LocalIsSound(handler[h])
  BY DEF IInv, HandlersAreSound
<1>3. run \in Run
  BY <1>1, <1>2 DEF LocalIsSound, Run, RunStatus
<1>4. /\ runs' \in Seq(Run)
      /\ Len(runs) \in Nat /\ Len(runs') = Len(runs) + 1
      /\ DOMAIN runs = 1..Len(runs) /\ DOMAIN runs' = 1..Len(runs')
      /\ \A r \in DOMAIN runs : runs'[r] = runs[r]
      /\ runs'[Len(runs')] = run
  BY <1>1, <1>2, <1>3, AppendProperties, LenProperties DEF HandlersAreSound
<1>5. /\ l \in Local /\ l.run = Len(runs') /\ l.pc = "collect"
      /\ l.source = handler[h].source /\ l.snapshot = handler[h].snapshot
  <2>1. ASSUME NEW id \in Nat
        PROVE  LET m == [handler[h] EXCEPT !.pc = "collect", !.run = id]
               IN  /\ m \in Local /\ m.run = id /\ m.pc = "collect"
                   /\ m.source = handler[h].source /\ m.snapshot = handler[h].snapshot
    BY <1>2 DEF Local, PC
  <2>2. Len(runs') \in Nat
    BY <1>4
  <2>. QED
    BY <2>1, <2>2
<1>6. /\ handler' \in [Handler -> Local] /\ handler'[h] = l
      /\ \A g \in Handler \ {h} : handler'[g] = handler[g]
  BY <1>1, <1>2, <1>5 DEF HandlersAreSound
<1>7. ASSUME NEW g \in Handler PROVE LocalIsSound(handler[g])'
  <2>1. CASE g = h
    <3>1. l.run # Null
      BY <1>4, <1>5, NullIsNoData
    <3>. QED
      BY <1>1, <1>2, <1>4, <1>5, <1>6, <2>1, <3>1 DEF LocalIsSound, UsableRows
  <2>2. CASE g # h
    BY <1>1, <1>2, <1>4, <1>6, <2>2 DEF LocalIsSound, HandlersAreSound, UsableRows
  <2>. QED
    BY <2>1, <2>2
<1>8. RunsAreOwned'
  <2>1. ASSUME NEW g \in Handler \ {h}, handler[g].run # Null
        PROVE  /\ handler[g].run \in DOMAIN runs
               /\ handler[g].run # Len(runs')
               /\ runs'[handler[g].run].status = "RUNNING"
    <3>1. handler[g].run \in DOMAIN runs
      BY <1>2, <2>1 DEF HandlersAreSound, LocalIsSound
    <3>. QED
      BY <1>4, <2>1, <3>1 DEF IInv, HandlersAreSound, RunsAreOwned, IsCollecting
  <2>2. runs'[handler'[h].run].status = "RUNNING"
    BY <1>4, <1>5, <1>6
  <2>3. ASSUME NEW g \in Handler, handler'[g].run # Null
        PROVE  /\ runs'[handler'[g].run].status = "RUNNING"
               /\ \A k \in Handler \ {g} : handler'[k].run # handler'[g].run
    <3>1. CASE g = h
      BY <1>5, <1>6, <2>1, <2>2, <2>3, <3>1
    <3>2. CASE g # h
      <4>1. handler'[g] = handler[g] /\ handler[g].run # Null
        BY <1>6, <2>3, <3>2
      <4>2. \A k \in Handler \ {g} : handler[k].run # handler[g].run
        BY <4>1 DEF IInv, HandlersAreSound, RunsAreOwned, IsCollecting
      <4>3. handler'[h].run # handler[g].run
        BY <1>5, <1>6, <2>1, <3>2, <4>1
      <4>4. ASSUME NEW k \in Handler \ {g}
            PROVE  handler'[k].run # handler'[g].run
        <5>1. CASE k = h
          BY <4>1, <4>3, <5>1
        <5>2. CASE k # h
          BY <1>6, <4>1, <4>2, <4>4, <5>2
        <5>. QED
          BY <5>1, <5>2
      <4>5. runs'[handler'[g].run].status = "RUNNING"
        BY <2>1, <3>2, <4>1
      <4>. QED
        BY <4>4, <4>5
    <3>. QED
      BY <3>1, <3>2
  <2>. QED
    BY <2>3 DEF RunsAreOwned, IsCollecting
<1>9. StoredBeforeApplied'
  BY <1>1, <1>5, <1>6 DEF IInv, HandlersAreSound, StoredBeforeApplied
<1>. QED
  BY <1>4, <1>6, <1>7, <1>8, <1>9 DEF HandlersAreSound

\* Where the elements of a concatenation are.
LEMMA Concatenated ==
    ASSUME NEW S, NEW s \in Seq(S), NEW t \in Seq(S)
    PROVE  /\ s \o t \in Seq(S)
           /\ DOMAIN s \subseteq DOMAIN (s \o t)
           /\ \A i \in DOMAIN s : (s \o t)[i] = s[i]
           /\ \A i \in DOMAIN t : /\ Len(s) + i \in DOMAIN (s \o t)
                                 /\ (s \o t)[Len(s) + i] = t[i]
<1>1. /\ Len(s) \in Nat /\ DOMAIN s = 1..Len(s)
      /\ Len(t) \in Nat /\ DOMAIN t = 1..Len(t)
  BY LenProperties
<1>2. s \o t \in Seq(S) /\ DOMAIN (s \o t) = 1..(Len(s) + Len(t))
  BY ConcatProperties, LenProperties
<1>3. \A k \in 1..(Len(s) + Len(t)) :
          (s \o t)[k] = IF k <= Len(s) THEN s[k] ELSE t[k - Len(s)]
  BY ConcatProperties
<1>4. ASSUME NEW i \in DOMAIN s PROVE i \in DOMAIN (s \o t) /\ (s \o t)[i] = s[i]
  BY <1>1, <1>2, <1>3
<1>5. ASSUME NEW i \in DOMAIN t
      PROVE  Len(s) + i \in DOMAIN (s \o t) /\ (s \o t)[Len(s) + i] = t[i]
  <2>1. /\ Len(s) + i \in 1..(Len(s) + Len(t)) /\ ~ (Len(s) + i <= Len(s))
        /\ (Len(s) + i) - Len(s) = i
    BY <1>1
  <2>. QED
    BY <1>2, <1>3, <2>1
<1>. QED
  BY <1>2, <1>4, <1>5

\* createMany appends a record for every row the collector returned.
LEMMA StoredRows ==
    ASSUME IInv, NEW h \in Handler, StoreRecords(h)
    PROVE  LET rows == handler[h].outcome.records
               new == [i \in DOMAIN rows |->
                          [source |-> handler[h].source, run |-> handler[h].run,
                           row |-> rows[i]]]
           IN  /\ records' \in Seq(Record)
               /\ DOMAIN records \subseteq DOMAIN records'
               /\ \A i \in DOMAIN records : records'[i] = records[i]
               /\ Len(records') = Len(records) + Len(rows)
               /\ \A i \in DOMAIN rows : /\ Len(records) + i \in DOMAIN records'
                                       /\ records'[Len(records) + i] = new[i]
<1>. DEFINE rows == handler[h].outcome.records
            new == [i \in DOMAIN rows |->
                       [source |-> handler[h].source, run |-> handler[h].run,
                        row |-> rows[i]]]
<1>1. records' = records \o new /\ handler[h].pc = "store"
  BY DEF StoreRecords
<1>2. /\ records \in Seq(Record)
      /\ handler[h] \in Local /\ LocalIsSound(handler[h])
  BY DEF IInv, LInv, LedgerTypeOK, HandlersAreSound
<1>3. /\ handler[h].run \in Nat /\ handler[h].source \in SourceId
      /\ handler[h].outcome \in Outcome
  BY <1>1, <1>2, OutcomesAreTyped DEF LocalIsSound, Local
<1>4. rows \in Seq(Row) /\ Len(rows) \in Nat /\ DOMAIN rows = 1..Len(rows)
  BY <1>3, LenProperties DEF Outcome
<1>5. new \in Seq(Record) /\ Len(new) = Len(rows) /\ DOMAIN new = DOMAIN rows
  <2>1. \A i \in 1..Len(rows) : rows[i] \in Row
    BY <1>4, ElementOfSeq
  <2>2. \A i \in 1..Len(rows) :
            [source |-> handler[h].source, run |-> handler[h].run, row |-> rows[i]]
                \in Record
    BY <1>3, <2>1 DEF Record
  <2>. QED
    BY <1>4, <2>2, IsASeq
<1>. HIDE DEF new
<1>6. Len(records \o new) = Len(records) + Len(new)
  BY <1>2, <1>5, ConcatProperties
<1>7. /\ records \o new \in Seq(Record)
      /\ DOMAIN records \subseteq DOMAIN (records \o new)
      /\ \A i \in DOMAIN records : (records \o new)[i] = records[i]
      /\ \A i \in DOMAIN new : /\ Len(records) + i \in DOMAIN (records \o new)
                              /\ (records \o new)[Len(records) + i] = new[i]
  BY <1>2, <1>5, Concatenated
<1>. HIDE DEF rows
<1>. QED
  BY <1>1, <1>5, <1>6, <1>7 DEF new, rows

\* Records are only appended, so those a snapshot holds stay as they were.
LEMMA StoreRecordsKeepsHandlers ==
    ASSUME IInv, NEW h \in Handler, StoreRecords(h)
    PROVE  HandlersAreSound'
<1>. DEFINE rows == handler[h].outcome.records
            todo == MasterRows(rows)
            new == [i \in DOMAIN rows |->
                       [source |-> handler[h].source, run |-> handler[h].run,
                        row |-> rows[i]]]
            pc == IF todo = {} THEN "read" ELSE "master"
            l == [handler[h] EXCEPT !.pc = pc, !.todo = todo]
<1>1. /\ records' = records \o new
      /\ sources' = sources /\ runs' = runs /\ master' = master
      /\ canonical' = canonical /\ contributions' = contributions
      /\ handler[h].pc = "store"
      /\ handler' = [handler EXCEPT ![h] = l]
  BY DEF StoreRecords
<1>2. HandlersAreSound /\ handler[h] \in Local /\ LocalIsSound(handler[h])
  BY DEF IInv, HandlersAreSound
<1>3. /\ handler[h].run # Null /\ handler[h].run \in Nat
      /\ handler[h].source \in SourceId
      /\ handler[h].outcome # Null /\ handler[h].outcome \in Outcome
  BY <1>1, <1>2, OutcomesAreTyped DEF LocalIsSound, Local
<1>4. rows \in Seq(Row) /\ Len(rows) \in Nat /\ DOMAIN rows = 1..Len(rows)
  BY <1>3, LenProperties DEF Outcome
<1>5. \A i \in DOMAIN rows : new[i].row = rows[i]
  OBVIOUS
<1>6. /\ records' \in Seq(Record)
      /\ DOMAIN records \subseteq DOMAIN records'
      /\ \A i \in DOMAIN records : records'[i] = records[i]
      /\ Len(records') = Len(records) + Len(rows)
      /\ \A i \in DOMAIN rows : /\ Len(records) + i \in DOMAIN records'
                              /\ records'[Len(records) + i] = new[i]
  BY StoredRows
<1>7. /\ l \in Local /\ l.run = handler[h].run /\ l.pc \in {"read", "master"}
      /\ l.todo = todo /\ l.outcome = handler[h].outcome
      /\ l.source = handler[h].source /\ l.snapshot = handler[h].snapshot
  <2>1. todo \subseteq Nat
    BY <1>4 DEF MasterRows
  <2>. HIDE DEF todo
  <2>. QED
    BY <1>2, <2>1 DEF Local, PC
<1>8. /\ handler' \in [Handler -> Local] /\ handler'[h] = l
      /\ \A g \in Handler \ {h} : handler'[g] = handler[g]
  BY <1>1, <1>2, <1>7 DEF HandlersAreSound
<1>9. \A i \in UsableRows : i \in DOMAIN records' /\ IsUsable(records'[i].row)
  BY <1>6 DEF UsableRows
<1>10. ASSUME NEW g \in Handler PROVE LocalIsSound(handler[g])'
  <2>1. handler[g].snapshot \subseteq UsableRows
    BY <1>2 DEF HandlersAreSound, LocalIsSound, UsableRows
  <2>2. handler'[g].snapshot \subseteq {i \in DOMAIN records' : IsUsable(records'[i].row)}
    BY <1>7, <1>8, <1>9, <2>1
  <2>3. CASE g = h
    BY <1>1, <1>2, <1>3, <1>7, <1>8, <2>2, <2>3 DEF LocalIsSound, UsableRows
  <2>4. CASE g # h
    BY <1>1, <1>2, <1>8, <2>2, <2>4 DEF LocalIsSound, HandlersAreSound, UsableRows
  <2>. QED
    BY <2>3, <2>4
<1>11. RunsAreOwned'
  BY <1>1, <1>7, <1>8 DEF IInv, HandlersAreSound, RunsAreOwned, IsCollecting
<1>12. StoredBeforeApplied'
  <2>1. \A i \in DOMAIN rows : \E j \in DOMAIN records' : records'[j].row = rows[i]
    BY <1>5, <1>6
  <2>2. ASSUME NEW i \in l.todo
        PROVE  \E j \in DOMAIN records' : records'[j].row.master = rows[i].master
    BY <1>7, <2>1 DEF MasterRows
  <2>3. ASSUME NEW g \in Handler \ {h}, handler[g].pc = "master", NEW i \in handler[g].todo
        PROVE  \E j \in DOMAIN records' :
                   records'[j].row.master = handler[g].outcome.records[i].master
    <3>1. PICK j \in DOMAIN records :
              records[j].row.master = handler[g].outcome.records[i].master
      BY <2>3 DEF IInv, HandlersAreSound, StoredBeforeApplied
    <3>2. j \in DOMAIN records' /\ records'[j] = records[j]
      BY <1>6
    <3>. QED
      BY <3>1, <3>2
  <2>4. /\ handler'[h].todo = l.todo /\ handler'[h].outcome = handler[h].outcome
        /\ \A g \in Handler \ {h} : handler'[g] = handler[g]
    BY <1>7, <1>8
  <2>. HIDE DEF rows, l
  <2>5. ASSUME NEW g \in Handler, handler'[g].pc = "master", NEW i \in handler'[g].todo
        PROVE  \E j \in DOMAIN records' :
                   records'[j].row.master = handler'[g].outcome.records[i].master
    <3>1. CASE g = h
      BY <2>2, <2>4, <2>5, <3>1 DEF rows
    <3>2. CASE g # h
      BY <2>3, <2>4, <2>5, <3>2
    <3>. QED
      BY <3>1, <3>2
  <2>. QED
    BY <2>5 DEF StoredBeforeApplied
<1>. QED
  BY <1>1, <1>2, <1>8, <1>10, <1>11, <1>12 DEF HandlersAreSound

\* A master row names a key and a value.
LEMMA ApplyMasterDataKeepsHandlers ==
    ASSUME IInv, NEW h \in Handler, ApplyMasterData(h)
    PROVE  HandlersAreSound'
<1>1. /\ HandlersAreSound /\ handler[h] \in Local /\ LocalIsSound(handler[h])
      /\ handler[h].pc = "master"
  BY DEF IInv, HandlersAreSound, ApplyMasterData
<1>2. PICK i \in handler[h].todo :
          LET data == handler[h].outcome.records[i].master
          IN  /\ master' = [master EXCEPT ![data.key] = data.value]
              /\ handler' = [handler EXCEPT
                     ![h].pc = IF handler[h].todo = {i} THEN "read" ELSE "master",
                     ![h].todo = @ \ {i}]
  BY DEF ApplyMasterData
<1>. DEFINE rows == handler[h].outcome.records
            pc == IF handler[h].todo = {i} THEN "read" ELSE "master"
            l == [handler[h] EXCEPT !.pc = pc, !.todo = @ \ {i}]
<1>3. runs' = runs /\ records' = records
  BY DEF ApplyMasterData
<1>4. /\ handler[h].run # Null /\ handler[h].source \in SourceId
      /\ handler[h].outcome # Null /\ handler[h].outcome \in Outcome
      /\ i \in MasterRows(rows)
  BY <1>1, OutcomesAreTyped DEF LocalIsSound, Local
<1>5. Moves(h)
  <2>1. handler' = [handler EXCEPT ![h] = l]
    BY <1>2
  <2>2. /\ l \in Local /\ l.run = handler[h].run
        /\ l.pc \in {"read", "master"} /\ l.todo \subseteq handler[h].todo
        /\ l.outcome = handler[h].outcome
        /\ l.source = handler[h].source /\ l.snapshot = handler[h].snapshot
    BY <1>1 DEF Local, PC
  <2>3. handler[h].todo \subseteq MasterRows(handler[h].outcome.records)
    BY <1>1 DEF LocalIsSound
  <2>4. LocalIsSound(l)
    <3>. HIDE DEF l
    <3>. QED
      BY <1>1, <1>4, <2>2, <2>3 DEF LocalIsSound
  <2>. QED
    BY <1>1, <2>1, <2>2, <2>4 DEF Moves
<1>. QED
  BY <1>3, <1>5, MoveKeepsHandlers

\* The update that ends a run touches that run and nothing else.
LEMMA EndedRunKeepsHandlers ==
    ASSUME IInv, NEW h \in Handler, IsCollecting(h), NEW ended \in Run,
           ended.source = runs[handler[h].run].source,
           runs' = [runs EXCEPT ![handler[h].run] = ended], Done(h),
           UNCHANGED records
    PROVE  HandlersAreSound'
<1>1. /\ records' = records
      /\ handler' = [handler EXCEPT ![h] = Idle]
  BY DEF Done
<1>2. HandlersAreSound /\ handler[h].run \in DOMAIN runs
  BY DEF IInv, HandlersAreSound, LocalIsSound, IsCollecting
<1>3. /\ runs' \in Seq(Run)
      /\ DOMAIN runs' = DOMAIN runs
      /\ \A r \in DOMAIN runs \ {handler[h].run} : runs'[r] = runs[r]
      /\ \A r \in DOMAIN runs : runs'[r].source = runs[r].source
  <2>1. handler[h].run \in 1..Len(runs)
    BY <1>2, LenProperties DEF HandlersAreSound
  <2>. QED
    BY <1>2, <2>1, ExceptSeq, LenProperties DEF HandlersAreSound
<1>4. /\ handler' \in [Handler -> Local] /\ handler'[h] = Idle
      /\ \A g \in Handler \ {h} : handler'[g] = handler[g]
  BY <1>1, <1>2, IdleIsSound DEF HandlersAreSound
<1>5. ASSUME NEW g \in Handler PROVE LocalIsSound(handler[g])'
  <2>1. CASE g = h
    BY <1>1, <1>4, <2>1 DEF LocalIsSound, Idle, UsableRows
  <2>2. CASE g # h
    BY <1>1, <1>2, <1>3, <1>4, <2>2 DEF LocalIsSound, HandlersAreSound, UsableRows
  <2>. QED
    BY <2>1, <2>2
<1>6. RunsAreOwned'
  <2>1. ASSUME NEW g \in Handler, handler'[g].run # Null
        PROVE  /\ runs'[handler'[g].run].status = "RUNNING"
               /\ \A k \in Handler \ {g} : handler'[k].run # handler'[g].run
    <3>1. g # h /\ handler'[g] = handler[g] /\ handler[g].run \in DOMAIN runs
      BY <1>2, <1>4, <2>1, IdleIsSound DEF HandlersAreSound, LocalIsSound
    <3>2. /\ runs[handler[g].run].status = "RUNNING"
          /\ \A k \in Handler \ {g} : handler[k].run # handler[g].run
      BY <2>1, <3>1 DEF IInv, HandlersAreSound, RunsAreOwned, IsCollecting
    <3>. QED
      BY <1>3, <1>4, <2>1, <3>1, <3>2, IdleIsSound
  <2>. QED
    BY <2>1 DEF RunsAreOwned, IsCollecting
<1>7. StoredBeforeApplied'
  BY <1>1, <1>4 DEF IInv, HandlersAreSound, StoredBeforeApplied, Idle
<1>. QED
  BY <1>3, <1>4, <1>5, <1>6, <1>7 DEF HandlersAreSound

\* What the two updates write is a run, and it has ended.
LEMMA RunEnds ==
    ASSUME IInv, NEW h \in Handler, FinishRun(h) \/ FailRun(h)
    PROVE  /\ IsCollecting(h)
           /\ \E ended \in Run :
                  /\ ended.source = runs[handler[h].run].source
                  /\ runs' = [runs EXCEPT ![handler[h].run] = ended]
<1>1. HandlersAreSound /\ handler[h] \in Local /\ LocalIsSound(handler[h])
  BY DEF IInv, HandlersAreSound
<1>2. handler[h].run # Null /\ handler[h].run \in DOMAIN runs
  BY <1>1 DEF LocalIsSound, FinishRun, FailRun
<1>3. runs[handler[h].run] \in Run
  BY <1>1, <1>2, ElementOfSeq, LenProperties DEF HandlersAreSound
<1>4. CASE FinishRun(h)
  <2>. DEFINE outcome == handler[h].outcome
              ended == Finished(runs[handler[h].run], outcome, handler[h].duplicates)
  <2>1. outcome \in Outcome /\ handler[h].duplicates \in Nat
    BY <1>1, <1>2, <1>4, OutcomesAreTyped DEF LocalIsSound, Local, FinishRun
  <2>2. outcome.records \in Seq(Row) /\ outcome.errors \in Nat
    BY <2>1 DEF Outcome
  <2>3. /\ Len(outcome.records) \in Nat
        /\ Cardinality(Rejected(outcome.records)) \in Nat
    BY <2>2, LenProperties, CountIsNatural DEF Rejected
  <2>4. StatusOf(outcome) \in RunStatus
    BY DEF StatusOf, RunStatus
  <2>5. ended \in Run /\ ended.source = runs[handler[h].run].source
    BY <1>3, <2>1, <2>2, <2>3, <2>4 DEF Finished, Run
  <2>6. runs' = [runs EXCEPT ![handler[h].run] = ended]
    BY <1>4 DEF FinishRun
  <2>. QED
    BY <1>2, <2>5, <2>6 DEF IsCollecting
<1>5. CASE FailRun(h)
  <2>. DEFINE ended == [runs[handler[h].run] EXCEPT !.status = "FAILED", !.errors = 1]
  <2>1. ended \in Run /\ ended.source = runs[handler[h].run].source
    BY <1>3 DEF Run, RunStatus
  <2>2. runs' = [runs EXCEPT ![handler[h].run] = ended]
    BY <1>5 DEF FailRun
  <2>. QED
    BY <1>2, <2>1, <2>2 DEF IsCollecting
<1>. QED
  BY <1>4, <1>5

\* The process restarts: no handler holds anything.
LEMMA CrashKeepsHandlers ==
    ASSUME IInv, Crash
    PROVE  HandlersAreSound'
<1>1. runs' = runs /\ handler' = [h \in Handler |-> Idle]
  BY DEF Crash, tables
<1>2. \A h \in Handler : LocalIsSound(handler[h])'
  BY <1>1 DEF LocalIsSound, Idle
<1>3. RunsAreOwned' /\ StoredBeforeApplied'
  BY <1>1, IdleIsSound DEF RunsAreOwned, IsCollecting, StoredBeforeApplied
<1>. QED
  BY <1>1, <1>2, <1>3, IdleIsSound DEF IInv, HandlersAreSound

\* The handlers stay sound, one action at a time.
LEMMA NextKeepsHandlers ==
    ASSUME IInv, [Next]_vars
    PROVE  HandlersAreSound'
<1>1. CASE UNCHANGED <<runs, records, handler>>
  BY <1>1 DEF IInv, HandlersAreSound, LocalIsSound, UsableRows, RunsAreOwned,
              IsCollecting, StoredBeforeApplied
<1>2. CASE Crash
  BY <1>2, CrashKeepsHandlers
<1>3. ASSUME NEW h \in Handler, Arrive(h) PROVE HandlersAreSound'
  BY <1>3, ArriveMoves, MoveKeepsHandlers DEF tables, ledger
<1>4. ASSUME NEW h \in Handler, DatabaseFails(h) PROVE HandlersAreSound'
  BY <1>4, ThrowMoves, MoveKeepsHandlers DEF DatabaseFails, tables, ledger
<1>5. ASSUME NEW h \in Handler, Proceed(h) PROVE HandlersAreSound'
  <2>1. CASE ReadRecords(h)
    BY <2>1, ReadRecordsMoves, MoveKeepsHandlers DEF ReadRecords, tables, ledger
  <2>2. ASSUME NEW b \in Batch, RebuildBatch(h, b) PROVE HandlersAreSound'
    BY <2>2, RebuildBatchMoves, MoveKeepsHandlers DEF RebuildBatch
  <2>3. CASE \/ RebuildAborts(h) \/ DeleteFindsNothing(h) \/ CreateRunFails(h)
             \/ CollectorThrows(h) \/ StoreFails(h) \/ UpdateFindsNoRun(h)
    BY <2>3, ThrowMoves, MoveKeepsHandlers
       DEF RebuildAborts, DeleteFindsNothing, CreateRunFails, CollectorThrows,
           StoreFails, UpdateFindsNoRun, tables, ledger
  <2>4. CASE DeleteSource(h)
    BY <2>4, DeleteSourceMoves, MoveKeepsHandlers DEF DeleteSource
  <2>5. CASE CreateRun(h)
    BY <2>5, CreateRunKeepsHandlers
  <2>6. CASE CollectorReturns(h)
    BY <2>6, CollectorReturnsMoves, MoveKeepsHandlers DEF CollectorReturns, tables, ledger
  <2>7. CASE ReadKnownRecordIds(h)
    BY <2>7, ReadKnownMoves, MoveKeepsHandlers DEF ReadKnownRecordIds, tables, ledger
  <2>8. CASE StoreRecords(h)
    BY <2>8, StoreRecordsKeepsHandlers
  <2>9. CASE ApplyMasterData(h)
    BY <2>9, ApplyMasterDataKeepsHandlers
  <2>10. CASE FinishRun(h) \/ FailRun(h)
    BY <2>10, RunEnds, EndedRunKeepsHandlers DEF FinishRun, FailRun
  <2>. QED
    BY <1>5, <2>1, <2>2, <2>3, <2>4, <2>5, <2>6, <2>7, <2>8, <2>9, <2>10 DEF Proceed
<1>. QED
  BY <1>1, <1>2, <1>3, <1>4, <1>5 DEF Next, Register, vars, tables, ledger

(***************************************************************************)
(* Every step of a request is a step of the ledger or changes no table.    *)
(***************************************************************************)
\* createMany is one step: every row or none.
LEMMA StoreIsLedgerStep ==
    ASSUME IInv, NEW h \in Handler, StoreRecords(h)
    PROVE  StoreRows(handler[h].source) /\ handler[h].source \in SourceId
<1>. DEFINE s == handler[h].source
            rows == handler[h].outcome.records
<1>1. /\ handler[h].pc = "store" /\ RunExists(handler[h].run)
      /\ UNCHANGED <<sources, master, canonical, contributions>>
  BY DEF StoreRecords
<1>2. handler[h] \in Local /\ LocalIsSound(handler[h])
  BY DEF IInv, HandlersAreSound
<1>3. /\ s \in SourceId /\ handler[h].outcome \in Outcomes[s]
      /\ s = runs[handler[h].run].source
  BY <1>1, <1>2 DEF LocalIsSound, Local
<1>4. IsRegistered(s)
  BY <1>1, <1>3 DEF RunExists
<1>5. /\ records' \in Seq(Record)
      /\ \A i \in DOMAIN records : records'[i] = records[i]
      /\ Len(records') = Len(records) + Len(rows)
      /\ \A i \in DOMAIN rows : /\ records'[Len(records) + i].source = s
                              /\ records'[Len(records) + i].row = rows[i]
  <2>. DEFINE new == [i \in DOMAIN rows |->
                         [source |-> handler[h].source, run |-> handler[h].run,
                          row |-> rows[i]]]
  <2>1. /\ records' \in Seq(Record)
        /\ \A i \in DOMAIN records : records'[i] = records[i]
        /\ Len(records') = Len(records) + Len(rows)
        /\ \A i \in DOMAIN rows : records'[Len(records) + i] = new[i]
    BY StoredRows
  <2>2. \A i \in DOMAIN rows : new[i].source = s /\ new[i].row = rows[i]
    OBVIOUS
  <2>. HIDE DEF new
  <2>. QED
    BY <2>1, <2>2
<1>. QED
  BY <1>1, <1>3, <1>4, <1>5 DEF StoreRows

\* The row published was stored before.
LEMMA ApplyIsLedgerStep ==
    ASSUME IInv, NEW h \in Handler, ApplyMasterData(h)
    PROVE  \E j \in DOMAIN records : Publish(j)
<1>1. PICK i \in handler[h].todo :
          LET data == handler[h].outcome.records[i].master
          IN  master' = [master EXCEPT ![data.key] = data.value]
  BY DEF ApplyMasterData
<1>2. /\ handler[h].pc = "master" /\ LocalIsSound(handler[h])
      /\ UNCHANGED <<sources, records, canonical, contributions>>
  BY DEF ApplyMasterData, IInv, HandlersAreSound
<1>3. handler[h].outcome.records[i].master # Null
  BY <1>2 DEF LocalIsSound, MasterRows
<1>4. PICK j \in DOMAIN records :
          records[j].row.master = handler[h].outcome.records[i].master
  BY <1>2 DEF IInv, HandlersAreSound, StoredBeforeApplied
<1>5. Publish(j)
  BY <1>1, <1>2, <1>3, <1>4 DEF Publish
<1>. QED
  BY <1>5

\* Four actions write the ledger, each as one of its steps; the others leave it.
LEMMA StepRefines ==
    ASSUME IInv, [Next]_vars
    PROVE  [LedgerNext]_ledger
<1>1. CASE UNCHANGED ledger
  BY <1>1
<1>2. ASSUME NEW s \in SourceId, Register(s) PROVE LedgerNext
  BY <1>2 DEF Register, RegisterSource, LedgerNext
<1>3. ASSUME NEW h \in Handler, DeleteSource(h) PROVE LedgerNext
  <2>1. handler[h].source \in SourceId
    BY <1>3 DEF DeleteSource, IInv, HandlersAreSound, LocalIsSound
  <2>2. RemoveSource(handler[h].source)
    BY <1>3 DEF DeleteSource, RemoveSource
  <2>. QED
    BY <2>1, <2>2 DEF LedgerNext
<1>4. ASSUME NEW h \in Handler, NEW b \in Batch, RebuildBatch(h, b) PROVE LedgerNext
  <2>1. handler[h].snapshot \in SUBSET UsableRows
    BY DEF IInv, HandlersAreSound, LocalIsSound
  <2>2. Rebuild(b, handler[h].snapshot)
    BY <1>4 DEF RebuildBatch, Rebuild
  <2>. QED
    BY <2>1, <2>2 DEF LedgerNext
<1>5. ASSUME NEW h \in Handler, StoreRecords(h) PROVE LedgerNext
  BY <1>5, StoreIsLedgerStep DEF LedgerNext
<1>6. ASSUME NEW h \in Handler, ApplyMasterData(h) PROVE LedgerNext
  BY <1>6, ApplyIsLedgerStep DEF LedgerNext
<1>7. \A h \in Handler :
          /\ Arrive(h) \/ DatabaseFails(h) => UNCHANGED ledger
          /\ Proceed(h) => \/ DeleteSource(h) \/ StoreRecords(h) \/ ApplyMasterData(h)
                           \/ \E b \in Batch : RebuildBatch(h, b)
                           \/ UNCHANGED ledger
  BY DEF Arrive, Reconcile, Remove, Collect, DatabaseFails, Proceed, tables, ledger,
         ReadRecords, RebuildAborts, DeleteFindsNothing, CreateRun, CreateRunFails,
         CollectorReturns, CollectorThrows, ReadKnownRecordIds, StoreFails, FinishRun,
         FailRun, UpdateFindsNoRun
<1>. QED
  BY <1>1, <1>2, <1>3, <1>4, <1>5, <1>6, <1>7 DEF Next, Crash, vars, tables

(***************************************************************************)
(* The invariant.                                                          *)
(***************************************************************************)
LEMMA InitEstablishesIInv == Init => IInv
<1>. SUFFICES ASSUME Init PROVE IInv
  OBVIOUS
<1>1. LInv
  BY LedgerInitEstablishesLInv DEF Init
<1>2. \A h \in Handler : LocalIsSound(handler[h])
  BY DEF Init, LocalIsSound, Idle
<1>3. RunsAreOwned /\ StoredBeforeApplied
  BY IdleIsSound DEF Init, RunsAreOwned, IsCollecting, StoredBeforeApplied
<1>. QED
  BY <1>1, <1>2, <1>3, IdleIsSound, EmptySeq DEF Init, IInv, HandlersAreSound

\* The handlers are kept by the lemmas above, the tables because each step refines.
LEMMA NextKeepsIInv == IInv /\ [Next]_vars => IInv'
BY NextKeepsHandlers, StepRefines, LedgerNextKeepsLInv DEF IInv

\* The invariant holds in every reachable state.
LEMMA IInvIsInvariant == Spec => []IInv
BY InitEstablishesIInv, NextKeepsIInv, PTL DEF Spec

(***************************************************************************)
(* The theorems.                                                           *)
(***************************************************************************)
\* Whatever requests interleave and whatever fails, the tables only take the
\* ledger's steps: a rebuild is atomic and derives events from records that are
\* stored, rows are stored all or none, reference data follows its row
\* (sources.service.ts:151-264, normalization.service.ts:31-154).
THEOREM CollectionImplementsLedger == Spec => LedgerSpec
<1>1. Init => LedgerInit
  BY DEF Init
<1>2. IInv /\ [Next]_vars => [LedgerNext]_ledger
  BY StepRefines
<1>. QED
  BY <1>1, <1>2, IInvIsInvariant, PTL DEF Spec, LedgerSpec

\* Whatever requests interleave, fail and are retried, the board never loses an
\* accepted event or a link (sources.service.ts:78-264).
THEOREM CollectionProvidesAccepted == Spec => ProvidesAccepted
BY CollectionImplementsLedger, LedgerProvidesAccepted

\* Every table and every handler holds what its type says, and a handler finds
\* after each await what it relies on (sources.service.ts:151-264).
THEOREM TypeCorrect == Spec => []TypeOK
<1>1. IInv => TypeOK
  BY DEF IInv, LInv, HandlersAreSound, TypeOK
<1>. QED
  BY <1>1, IInvIsInvariant, PTL

\* So a contribution links an accepted event to a stored record although
\* sources are removed while requests rebuild from what they read before.
THEOREM ContributionsSound == Spec => []ContributionsAreSound
BY CollectionImplementsLedger, LedgerIsSound, PTL

\* And concurrent rebuilds never leave an event with two accepted observations, or
\* one that says what its accepted record does not.
THEOREM EventsHaveOneWinner == Spec => []EventHasOneWinner
<1>. QED
  BY CollectionImplementsLedger, EventsAreExplained, PTL DEF EventHasOneWinner

\* And what the ledger shows of an event is the outcome of one rebuild, never a mix of
\* two that ran concurrently: while no source is removed its rule, its conflict flag and
\* its contributions are what the policy makes of exactly the records that contribute
\* (normalization.service.ts:60-154).
THEOREM EventsAreOfOneRebuild == Spec => []EventIsItsResolution
BY CollectionImplementsLedger, EventsAreTheirResolution, PTL

\* And however requests overlap, no source a station lists is overruled by one that it
\* lists behind it, or not at all (stations.ts:40-52, normalization.service.ts:97-154).
THEOREM RequestsRespectAuthority == Spec => []AuthorityIsRespected
BY CollectionImplementsLedger, AuthorityPrevails, PTL

\* And reference data is published from stored rows only.
THEOREM PublishedDataIsAudited == Spec => []MasterDataIsAudited
BY CollectionImplementsLedger, MasterDataAudited, PTL

\* And no request, however late or stale, moves a batch backwards.
THEOREM RequestsNeverGoBack == Spec => NeverBackwards
BY CollectionImplementsLedger, BatchesNeverGoBack, PTL

\* Only the owner of a run updates it, and only while it is RUNNING.
LEMMA StepKeepsFinishedRuns ==
    IInv /\ [Next]_vars =>
        [\A r \in DOMAIN runs : runs[r].status # "RUNNING" => runs'[r] = runs[r]]_vars
<1>. SUFFICES ASSUME IInv, Next,
                     NEW r \in DOMAIN runs, runs[r].status # "RUNNING"
              PROVE  runs'[r] = runs[r]
  OBVIOUS
<1>1. CASE UNCHANGED runs
  BY <1>1
<1>2. ASSUME NEW h \in Handler, CreateRun(h) PROVE runs'[r] = runs[r]
  <2>1. CreateRun(h) => \E run : runs' = Append(runs, run)
    BY DEF CreateRun
  <2>2. runs \in Seq(Run)
    BY DEF IInv, HandlersAreSound
  <2>. QED
    BY <1>2, <2>1, <2>2
<1>3. ASSUME NEW h \in Handler, FinishRun(h) \/ FailRun(h) PROVE runs'[r] = runs[r]
  <2>1. PICK ended \in Run : runs' = [runs EXCEPT ![handler[h].run] = ended]
    BY <1>3, RunEnds
  <2>2. r # handler[h].run
    BY <1>3, RunEnds DEF IInv, HandlersAreSound, RunsAreOwned
  <2>. QED
    BY <2>1, <2>2
<1>4. \A h \in Handler :
          /\ Arrive(h) \/ DatabaseFails(h) => UNCHANGED runs
          /\ Proceed(h) => CreateRun(h) \/ FinishRun(h) \/ FailRun(h) \/ UNCHANGED runs
  BY DEF Arrive, Reconcile, Remove, Collect, DatabaseFails, Proceed, tables,
         ReadRecords, RebuildBatch, RebuildAborts, DeleteSource, DeleteFindsNothing,
         CreateRunFails, CollectorReturns, CollectorThrows, ReadKnownRecordIds,
         StoreRecords, StoreFails, ApplyMasterData, UpdateFindsNoRun
<1>. QED
  BY <1>1, <1>2, <1>3, <1>4 DEF Next, Register, Crash, tables, ledger

\* The outcome of a finished run is never rewritten, however many requests
\* collect from its source (sources.service.ts:219-263).
THEOREM FinishedRunsKept == Spec => FinishedRunsAreKept
BY IInvIsInvariant, StepKeepsFinishedRuns, PTL DEF Spec, FinishedRunsAreKept

(***************************************************************************)
(* Without faults, a run that says RUNNING is being worked on.             *)
(***************************************************************************)
RunsAreServed ==
    \A r \in DOMAIN runs :
        /\ sources[runs[r].source] # "unregistered"
        /\ runs[r].status = "RUNNING" /\ RunExists(r) =>
               \E h \in Handler : handler[h].run = r

\* No source comes back, and none that has runs is registered anew.
LEMMA RunsStayGone ==
    ASSUME IInv, RunsAreServed, UNCHANGED runs,
           \/ UNCHANGED sources
           \/ \E s \in SourceId : /\ sources[s] = "unregistered"
                                  /\ sources' = [sources EXCEPT ![s] = "registered"]
           \/ \E s \in SourceId : sources' = [sources EXCEPT ![s] = "removed"]
    PROVE  \A r \in DOMAIN runs : /\ sources'[runs[r].source] # "unregistered"
                                  /\ RunExists(r)' => RunExists(r)
<1>. SUFFICES ASSUME NEW r \in DOMAIN runs
              PROVE  /\ sources'[runs[r].source] # "unregistered"
                     /\ RunExists(r)' => RunExists(r)
  OBVIOUS
<1>1. runs[r] \in Run
  BY ElementOfSeq, LenProperties DEF IInv, HandlersAreSound
<1>2. runs[r].source \in SourceId /\ sources \in [SourceId -> SourceState]
  BY <1>1 DEF Run, IInv, LInv, LedgerTypeOK
<1>. QED
  BY <1>2 DEF RunsAreServed, RunExists, IsRegistered

\* A request that moves on lets go of no run that exists.
LEMMA MoveServes ==
    ASSUME IInv, RunsAreServed, NEW h \in Handler, UNCHANGED runs,
           \/ UNCHANGED sources
           \/ \E s \in SourceId : sources' = [sources EXCEPT ![s] = "removed"],
           \A g \in Handler \ {h} : handler'[g] = handler[g],
           \/ handler'[h].run = handler[h].run \/ handler[h].run = Null
           \/ ~ RunExists(handler[h].run)
    PROVE  RunsAreServed'
<1>1. ASSUME NEW r \in DOMAIN runs, runs[r].status = "RUNNING", RunExists(r)
      PROVE  \E g \in Handler : handler'[g].run = r
  <2>1. PICK g \in Handler : handler[g].run = r
    BY <1>1 DEF RunsAreServed
  <2>2. r # Null
    BY NullIsNoData, LenProperties DEF IInv, HandlersAreSound
  <2>. QED
    BY <1>1, <2>1, <2>2
<1>. QED
  BY <1>1, RunsStayGone DEF RunsAreServed

\* A rebuild that has read its records goes on with the run it is for.
LEMMA ReadRecordsKeepsRun ==
    ASSUME IInv, NEW h \in Handler, ReadRecords(h)
    PROVE  /\ UNCHANGED tables
           /\ \/ RebuildReturns(h)
              \/ \E l : handler' = [handler EXCEPT ![h] = l] /\ l.run = handler[h].run
<1>. DEFINE ids == {i \in Usable : records[i].row.batchId \in Scope(h)}
            l == [handler[h] EXCEPT !.pc = "rebuild", !.snapshot = ids,
                      !.pending = {records[i].row.batchId : i \in ids}]
<1>1. CASE ids = {}
  BY <1>1 DEF ReadRecords
<1>2. CASE ids # {}
  <2>1. handler' = [handler EXCEPT ![h] = l]
    BY <1>2 DEF ReadRecords
  <2>2. l.run = handler[h].run
    BY DEF IInv, HandlersAreSound, Local
  <2>3. UNCHANGED tables
    BY DEF ReadRecords
  <2>. HIDE DEF l
  <2>. QED
    BY <2>1, <2>2, <2>3
<1>. QED
  BY <1>1, <1>2

\* Of the actions that keep the runs, only one whose run is deleted lets it go.
LEMMA ProceedKeepsRun ==
    ASSUME IInv, NEW h \in Handler, Proceed(h) \/ Arrive(h),
           ~ CreateRun(h), ~ FinishRun(h), ~ FailRun(h)
    PROVE  \/ handler'[h].run = handler[h].run \/ handler[h].run = Null
           \/ ~ RunExists(handler[h].run)
<1>. SUFFICES ASSUME handler[h].run # Null, RunExists(handler[h].run)
              PROVE  handler'[h].run = handler[h].run
  OBVIOUS
<1>1. /\ handler \in [Handler -> Local] /\ LocalIsSound(handler[h])
      /\ handler[h] \in Local
  BY DEF IInv, HandlersAreSound
<1>2. handler[h].pc \notin {"idle", "create", "delete"}
  BY <1>1 DEF LocalIsSound
<1>3. CASE RebuildReturns(h)
  BY <1>1, <1>3 DEF RebuildReturns, IsCollecting, Local
<1>4. CASE Throw(h) /\ handler[h].pc # "fail"
  BY <1>1, <1>4 DEF Throw, IsCollecting, Local
<1>5. CASE ReadRecords(h)
  <2>1. CASE RebuildReturns(h)
    BY <1>3, <2>1
  <2>2. ASSUME NEW l, handler' = [handler EXCEPT ![h] = l], l.run = handler[h].run
        PROVE  handler'[h].run = handler[h].run
    BY <1>1, <2>2
  <2>. QED
    BY <1>5, <2>1, <2>2, ReadRecordsKeepsRun
<1>6. ASSUME NEW b \in Batch, RebuildBatch(h, b) PROVE handler'[h].run = handler[h].run
  BY <1>1, <1>3, <1>6 DEF RebuildBatch, Local
<1>7. CASE CollectorReturns(h)
  BY <1>1, <1>7 DEF CollectorReturns, Local
<1>8. CASE ReadKnownRecordIds(h)
  BY <1>1, <1>8 DEF ReadKnownRecordIds, Local
<1>9. CASE StoreRecords(h)
  BY <1>1, <1>9 DEF StoreRecords, Local
<1>10. CASE ApplyMasterData(h)
  BY <1>1, <1>10 DEF ApplyMasterData, Local
<1>11. CASE RebuildAborts(h) \/ CollectorThrows(h) \/ StoreFails(h)
  BY <1>4, <1>11 DEF RebuildAborts, CollectorThrows, StoreFails
<1>. QED
  BY <1>2, <1>5, <1>6, <1>7, <1>8, <1>9, <1>10, <1>11
     DEF Proceed, Arrive, Reconcile, Remove, Collect, DeleteSource, DeleteFindsNothing,
         CreateRunFails, UpdateFindsNoRun

\* Each of these actions writes the state of its own request, and only that.
LEMMA StepWritesOneHandler ==
    ASSUME IInv, NEW h \in Handler, Proceed(h) \/ Arrive(h),
           ~ CreateRun(h), ~ FinishRun(h), ~ FailRun(h)
    PROVE  /\ UNCHANGED runs
           /\ UNCHANGED sources \/ DeleteSource(h)
           /\ \A g \in Handler \ {h} : handler'[g] = handler[g]
<1>. USE DEF tables, ledger
<1>. handler \in [Handler -> Local]
  BY DEF IInv, HandlersAreSound
<1>1. Throw(h) \/ RebuildReturns(h) => \A g \in Handler \ {h} : handler'[g] = handler[g]
  BY DEF Throw, RebuildReturns, Done
<1>2. CASE Arrive(h)
  BY <1>2 DEF Arrive, Reconcile, Remove, Collect
<1>3. CASE \/ ReadRecords(h) \/ CollectorReturns(h) \/ ReadKnownRecordIds(h)
           \/ \E b \in Batch : RebuildBatch(h, b)
  <2>1. Moves(h)
    BY <1>3, ReadRecordsMoves, CollectorReturnsMoves, ReadKnownMoves, RebuildBatchMoves
  <2>2. UNCHANGED <<runs, sources>>
    BY <1>3, ReadRecordsKeepsRun DEF CollectorReturns, ReadKnownRecordIds, RebuildBatch
  <2>. QED
    BY <2>1, <2>2 DEF Moves
<1>4. CASE RebuildAborts(h) \/ DeleteFindsNothing(h) \/ CreateRunFails(h)
           \/ CollectorThrows(h) \/ StoreFails(h) \/ UpdateFindsNoRun(h)
  BY <1>1, <1>4 DEF RebuildAborts, DeleteFindsNothing, CreateRunFails, CollectorThrows,
                    StoreFails, UpdateFindsNoRun
<1>5. CASE StoreRecords(h) \/ ApplyMasterData(h) \/ DeleteSource(h)
  BY <1>5 DEF StoreRecords, ApplyMasterData, DeleteSource
<1>. QED
  BY <1>2, <1>3, <1>4, <1>5 DEF Proceed

\* A new run is served by the request that created it.
LEMMA CreateRunServes ==
    ASSUME IInv, RunsAreServed, NEW h \in Handler, CreateRun(h)
    PROVE  RunsAreServed'
<1>. DEFINE n == Len(runs) + 1
<1>1. /\ IsRegistered(handler[h].source) /\ UNCHANGED sources
      /\ DOMAIN runs = 1..Len(runs) /\ DOMAIN runs' = 1..n
      /\ \A r \in DOMAIN runs : runs'[r] = runs[r]
      /\ runs'[n].source = handler[h].source /\ Len(runs') = n
  BY AppendProperties, LenProperties DEF CreateRun, IInv, HandlersAreSound
<1>2. handler'[h].run = n /\ handler[h].run = Null
  <2>1. handler[h] \in Local /\ LocalIsSound(handler[h]) /\ handler \in [Handler -> Local]
    BY DEF IInv, HandlersAreSound
  <2>2. handler[h].run = Null /\ handler' = [handler EXCEPT ![h].pc = "collect", ![h].run = n]
    BY <1>1, <2>1 DEF CreateRun, LocalIsSound
  <2>. QED
    BY <2>1, <2>2 DEF Local
<1>3. \A g \in Handler \ {h} : handler'[g] = handler[g]
  BY DEF CreateRun, IInv, HandlersAreSound
<1>4. ASSUME NEW r \in DOMAIN runs, runs[r].status = "RUNNING", RunExists(r)
      PROVE  \E g \in Handler : handler'[g].run = r
  <2>1. PICK g \in Handler : handler[g].run = r
    BY <1>4 DEF RunsAreServed
  <2>2. g # h
    BY <1>1, <1>2, <2>1, NullIsNoData
  <2>. QED
    BY <1>3, <2>1, <2>2
<1>. QED
  BY <1>1, <1>2, <1>4 DEF RunsAreServed, RunExists, IsRegistered

\* An update ends the run, and only the run, of the request that lets it go.
LEMMA EndedRunServes ==
    ASSUME IInv, RunsAreServed, NEW h \in Handler, FinishRun(h) \/ FailRun(h)
    PROVE  RunsAreServed'
<1>. DEFINE n == handler[h].run
<1>1. PICK ended \in Run : /\ ended.source = runs[n].source
                           /\ runs' = [runs EXCEPT ![n] = ended]
  BY RunEnds
<1>2. n \in DOMAIN runs /\ runs \in Seq(Run)
  BY RunEnds DEF IInv, HandlersAreSound, LocalIsSound, IsCollecting
<1>3. /\ DOMAIN runs' = DOMAIN runs /\ runs'[n] = ended
      /\ \A r \in DOMAIN runs \ {n} : runs'[r] = runs[r]
  BY <1>1, <1>2
<1>4. runs'[n].status # "RUNNING"
  <2>1. runs[n] \in Run
    BY <1>2, ElementOfSeq, LenProperties
  <2>2. CASE FinishRun(h)
    <3>. DEFINE o == handler[h].outcome
    <3>1. /\ StatusOf(o) # "RUNNING"
          /\ runs'[n] = Finished(runs[n], o, handler[h].duplicates)
      BY <1>2, <2>2 DEF StatusOf, FinishRun
    <3>2. Finished(runs[n], o, handler[h].duplicates).status = StatusOf(o)
      BY <2>1 DEF Finished, Run
    <3>. QED
      BY <3>1, <3>2
  <2>3. CASE FailRun(h)
    BY <1>2, <2>1, <2>3 DEF FailRun, Run
  <2>. QED
    BY <2>2, <2>3
<1>5. UNCHANGED sources /\ \A g \in Handler \ {h} : handler'[g] = handler[g]
  BY DEF FinishRun, FailRun, Done, IInv, HandlersAreSound
<1>. QED
  BY <1>1, <1>3, <1>4, <1>5 DEF RunsAreServed, RunExists, IsRegistered

\* Without faults every action keeps the runs served.
LEMMA NextKeepsRunsServed ==
    ASSUME IInv, RunsAreServed, [Next]_vars, Faults = {}
    PROVE  RunsAreServed'
<1>1. CASE UNCHANGED vars
  BY <1>1 DEF vars, tables, ledger, RunsAreServed, RunExists, IsRegistered
<1>2. ASSUME NEW s \in SourceId, Register(s) PROVE RunsAreServed'
  <2>1. /\ UNCHANGED <<runs, handler>>
        /\ \A r \in DOMAIN runs : /\ sources'[runs[r].source] # "unregistered"
                                  /\ RunExists(r)' => RunExists(r)
    BY <1>2, RunsStayGone DEF Register
  <2>. QED
    BY <2>1 DEF RunsAreServed
<1>3. ASSUME NEW h \in Handler, Arrive(h) \/ Proceed(h),
             ~ CreateRun(h), ~ FinishRun(h), ~ FailRun(h)
      PROVE  RunsAreServed'
  <2>1. /\ UNCHANGED runs
        /\ UNCHANGED sources \/ DeleteSource(h)
        /\ \A g \in Handler \ {h} : handler'[g] = handler[g]
    BY <1>3, StepWritesOneHandler
  <2>2. DeleteSource(h) =>
            \E s \in SourceId : sources' = [sources EXCEPT ![s] = "removed"]
    BY DEF DeleteSource, IInv, HandlersAreSound, LocalIsSound
  <2>. QED
    BY <1>3, <2>1, <2>2, ProceedKeepsRun, MoveServes
<1>. QED
  BY <1>1, <1>2, <1>3, CreateRunServes, EndedRunServes DEF Next, Crash, DatabaseFails

\* Without faults a run that says RUNNING is worked on by exactly one request,
\* whatever is removed, refused or stored meanwhile (sources.service.ts:154-263).
THEOREM RunsHaveOneRequest == Faults = {} => (Spec => []EachRunHasOneRequest)
<1>. SUFFICES ASSUME Faults = {} PROVE Spec => []EachRunHasOneRequest
  OBVIOUS
<1>1. Init => RunsAreServed
  BY EmptySeq DEF Init, RunsAreServed
<1>2. IInv /\ RunsAreServed => EachRunHasOneRequest
  <2>. SUFFICES ASSUME IInv, RunsAreServed,
                       NEW r \in DOMAIN runs, runs[r].status = "RUNNING", RunExists(r)
                PROVE  Cardinality({h \in Handler : handler[h].run = r}) = 1
    BY DEF EachRunHasOneRequest, RunningRunIsServed, IInv, HandlersAreSound
  <2>1. PICK h \in Handler : handler[h].run = r
    BY DEF RunsAreServed
  <2>2. r # Null
    BY NullIsNoData, LenProperties DEF IInv, HandlersAreSound
  <2>3. {g \in Handler : handler[g].run = r} = {h}
    BY <2>1, <2>2 DEF IInv, HandlersAreSound, RunsAreOwned, IsCollecting
  <2>. QED
    BY <2>3, FS_Singleton
<1>3. IInv /\ RunsAreServed /\ [Next]_vars => RunsAreServed'
  BY NextKeepsRunsServed
<1>. QED
  BY <1>1, <1>2, <1>3, IInvIsInvariant, PTL DEF Spec

(***************************************************************************)
(* What a run says of its records.                                         *)
(***************************************************************************)
BeforeStoring == {"collect", "known", "store"}
AfterStoring == {"master", "read", "rebuild", "finish"}

\* How a request moves on when it neither creates a run nor stores rows.
GoesOn(l, m) ==
    \/ m = Idle
    \/ l.run # Null /\ m.run = l.run /\ m.pc = "fail"
    \/ /\ l.pc \in {"idle", "delete"}
       /\ m.run = Null /\ m.pc \in {"create", "delete", "read"} /\ m.duplicates = l.duplicates
    \/ /\ l.pc = "collect"
       /\ m.run = l.run /\ m.source = l.source /\ m.duplicates = l.duplicates
       /\ \/ m.pc = "known"
          \/ m.pc = "read" /\ m.outcome.records = <<>>
    \/ /\ l.pc = "known"
       /\ m.run = l.run /\ m.source = l.source /\ m.outcome = l.outcome /\ m.pc = "store"
       /\ m.duplicates = Cardinality(Duplicates(l.outcome.records, KnownIds(l.source)))
    \/ /\ l.pc \in AfterStoring /\ m.pc \in AfterStoring
       /\ m.run = l.run /\ m.source = l.source /\ m.outcome = l.outcome
       /\ m.duplicates = l.duplicates

\* Every action of a request but those two moves it on so.
LEMMA RequestGoesOn ==
    ASSUME IInv, NEW h \in Handler, Arrive(h) \/ Proceed(h) \/ DatabaseFails(h),
           ~ CreateRun(h), ~ StoreRecords(h)
    PROVE  /\ GoesOn(handler[h], handler'[h])
           /\ \A g \in Handler \ {h} : handler'[g] = handler[g]
<1>. DEFINE l == handler[h]
            m == handler'[h]
            Others == \A g \in Handler \ {h} : handler'[g] = handler[g]
<1>1. /\ handler \in [Handler -> Local] /\ LocalIsSound(handler[h])
      /\ handler[h] \in Local
  BY DEF IInv, HandlersAreSound
<1>2. CASE Done(h)
  BY <1>1, <1>2 DEF Done, GoesOn
<1>3. CASE Throw(h)
  BY <1>1, <1>2, <1>3 DEF Throw, IsCollecting, GoesOn, Local
<1>4. CASE RebuildReturns(h) /\ l.pc \in {"read", "rebuild"}
  BY <1>1, <1>2, <1>4 DEF RebuildReturns, GoesOn, Local, AfterStoring
<1>5. CASE Arrive(h)
  <2>1. l.pc = "idle" /\ l.run = Null
    BY <1>1, <1>5 DEF Arrive, Reconcile, Remove, Collect, LocalIsSound
  <2>2. CASE Reconcile(h)
    BY <1>1, <2>1, <2>2 DEF Reconcile, GoesOn, Local
  <2>3. ASSUME NEW s \in SourceId, Remove(h, s) \/ Collect(h, s)
        PROVE  GoesOn(l, m) /\ Others
    BY <1>1, <2>1, <2>3 DEF Remove, Collect, GoesOn, Local
  <2>. QED
    BY <1>5, <2>2, <2>3 DEF Arrive
<1>6. CASE ReadRecords(h)
  <2>1. l.pc = "read"
    BY <1>6 DEF ReadRecords
  <2>2. ASSUME NEW ids, NEW bs,
               handler' = [handler EXCEPT ![h].pc = "rebuild", ![h].snapshot = ids,
                                          ![h].pending = bs]
        PROVE  GoesOn(l, m) /\ Others
    BY <1>1, <2>1, <2>2 DEF GoesOn, Local, AfterStoring
  <2>. QED
    BY <1>4, <1>6, <2>1, <2>2 DEF ReadRecords
<1>7. ASSUME NEW b \in Batch, RebuildBatch(h, b) PROVE GoesOn(l, m) /\ Others
  BY <1>1, <1>4, <1>7 DEF RebuildBatch, GoesOn, Local, AfterStoring
<1>8. CASE DeleteSource(h)
  <2>1. l.pc = "delete" /\ l.run = Null
    BY <1>1, <1>8 DEF DeleteSource, LocalIsSound
  <2>. QED
    BY <1>1, <1>8, <2>1 DEF DeleteSource, GoesOn, Local
<1>9. CASE CollectorReturns(h)
  BY <1>1, <1>9 DEF CollectorReturns, GoesOn, Local
<1>10. CASE ReadKnownRecordIds(h)
  BY <1>1, <1>10 DEF ReadKnownRecordIds, GoesOn, Local
<1>11. CASE ApplyMasterData(h)
  BY <1>1, <1>11 DEF ApplyMasterData, GoesOn, Local, AfterStoring
<1>12. CASE FinishRun(h) \/ FailRun(h)
  BY <1>2, <1>12 DEF FinishRun, FailRun
<1>. QED
  BY <1>3, <1>5, <1>6, <1>7, <1>8, <1>9, <1>10, <1>11, <1>12
     DEF Proceed, DatabaseFails, RebuildAborts, DeleteFindsNothing, CreateRunFails,
         CollectorThrows, StoreFails, UpdateFindsNoRun

\* Every record belongs to a run of its source, and no source of a run is unknown.
RecordsHaveRuns ==
    /\ \A r \in DOMAIN runs : sources[runs[r].source] # "unregistered"
    /\ \A i \in DOMAIN records : /\ records[i].run \in DOMAIN runs
                                 /\ records[i].source = runs[records[i].run].source

\* The records of run r are the rows, one behind the other.
Holds(r, rows) ==
    \E n \in Nat : /\ RecordsOfRun(r) = {n + j : j \in DOMAIN rows}
                   /\ \A j \in DOMAIN rows : records[n + j].row = rows[j]

\* A run has no records until its request stores the rows, and then just those.
RunHoldsItsRows(l) ==
    l.run # Null =>
        /\ l.pc \in BeforeStoring => RecordsOfRun(l.run) = {}
        /\ l.pc \in AfterStoring => Holds(l.run, l.outcome.records)

RunsInv ==
    /\ RecordsHaveRuns
    /\ \A h \in Handler : RunHoldsItsRows(handler[h])
    /\ RunsAccountForTheirRecords

\* A request that moves on leaves its run with the rows it had.
LEMMA GoesOnHoldsRows ==
    ASSUME NEW l \in Local, NEW m, GoesOn(l, m), RunHoldsItsRows(l)
    PROVE  RunHoldsItsRows(m)
<1>1. CASE m = Idle
  BY <1>1 DEF RunHoldsItsRows, Idle
<1>2. CASE l.pc = "collect" /\ m.run = l.run /\ m.pc = "read" /\ m.outcome.records = <<>>
  <2>1. Holds(l.run, m.outcome.records) <=> RecordsOfRun(l.run) = {}
    BY <1>2 DEF Holds
  <2>. QED
    BY <1>2, <2>1 DEF RunHoldsItsRows, BeforeStoring, AfterStoring
<1>. QED
  BY <1>1, <1>2 DEF GoesOn, RunHoldsItsRows, BeforeStoring, AfterStoring

\* The records of a run are where they were while nothing is stored.
LEMMA SameRecords ==
    ASSUME UNCHANGED records
    PROVE  /\ \A r : RecordsOfRun(r)' = RecordsOfRun(r)
           /\ \A r, rows : Holds(r, rows)' <=> Holds(r, rows)
           /\ \A l : RunHoldsItsRows(l)' <=> RunHoldsItsRows(l)
BY DEF RecordsOfRun, Holds, RunHoldsItsRows

\* Sources come and go, but none is forgotten.
LEMMA SourcesAreKept ==
    ASSUME IInv, [Next]_vars, NEW s \in SourceId, sources[s] # "unregistered"
    PROVE  /\ sources'[s] # "unregistered"
           /\ IsRegistered(s)' => IsRegistered(s)
           /\ sources[s] = "removed" => sources'[s] = "removed"
<1>1. [LedgerNext]_ledger
  BY StepRefines
<1>2. sources \in [SourceId -> SourceState]
  BY DEF IInv, LInv, LedgerTypeOK
<1>. QED
  BY <1>1, <1>2 DEF LedgerNext, RegisterSource, RemoveSource, StoreRows, Publish, Rebuild,
                    ledger, SourceState, IsRegistered

\* A run has an id and belongs to a source.
LEMMA RunsAreTyped ==
    ASSUME IInv, NEW r \in DOMAIN runs
    PROVE  r \in Nat /\ r # Null /\ runs[r] \in Run /\ runs[r].source \in SourceId
<1>1. runs \in Seq(Run)
  BY DEF IInv, HandlersAreSound
<1>2. r \in 1..Len(runs) /\ Len(runs) \in Nat
  BY <1>1, LenProperties
<1>3. runs[r] \in Run
  BY <1>1, <1>2, ElementOfSeq
<1>. QED
  BY <1>2, <1>3, NullIsNoData DEF Run

\* Nothing is said anew of a run whose row and records stay as they were.
LEMMA SameRuns ==
    ASSUME IInv, RunsInv, [Next]_vars, UNCHANGED <<runs, records>>
    PROVE  RecordsHaveRuns' /\ RunsAccountForTheirRecords'
<1>1. \A r \in DOMAIN runs : runs[r].source \in SourceId
  BY RunsAreTyped
<1>2. RecordsHaveRuns'
  BY <1>1, SourcesAreKept DEF RunsInv, RecordsHaveRuns
<1>3. RunsAccountForTheirRecords'
  <2>1. RunsAccountForTheirRecords
    BY DEF RunsInv
  <2>2. \A r : /\ RecordsOfRun(r)' = RecordsOfRun(r)
               /\ {i \in RecordsOfRun(r) : records[i].row.parseError}'
                    = {i \in RecordsOfRun(r) : records[i].row.parseError}
    BY DEF RecordsOfRun
  <2>. QED
    BY <2>1, <2>2 DEF RunsAccountForTheirRecords
<1>. QED
  BY <1>2, <1>3

\* A new run has no records.
LEMMA CreateRunKeepsRunsInv ==
    ASSUME IInv, RunsInv, NEW h \in Handler, CreateRun(h)
    PROVE  RunsInv'
<1>. DEFINE n == Len(runs) + 1
<1>1. /\ IsRegistered(handler[h].source) /\ UNCHANGED <<sources, records>>
      /\ DOMAIN runs = 1..Len(runs) /\ DOMAIN runs' = 1..n /\ Len(runs) \in Nat
      /\ \A r \in DOMAIN runs : runs'[r] = runs[r]
      /\ runs'[n].source = handler[h].source /\ runs'[n].status = "RUNNING" /\ Len(runs') = n
  BY AppendProperties, LenProperties DEF CreateRun, IInv, HandlersAreSound
<1>2. handler'[h].run = n /\ handler'[h].pc = "collect"
  <2>1. handler[h] \in Local /\ handler \in [Handler -> Local]
    BY DEF IInv, HandlersAreSound
  <2>2. handler' = [handler EXCEPT ![h].pc = "collect", ![h].run = n]
    BY <1>1 DEF CreateRun
  <2>. QED
    BY <2>1, <2>2 DEF Local
<1>3. \A g \in Handler \ {h} : handler'[g] = handler[g]
  BY DEF CreateRun, IInv, HandlersAreSound
<1>4. RecordsHaveRuns'
  BY <1>1 DEF RunsInv, RecordsHaveRuns, IsRegistered
<1>5. ASSUME NEW g \in Handler PROVE RunHoldsItsRows(handler[g])'
  <2>1. CASE g = h
    <3>1. RecordsOfRun(n) = {}
      BY <1>1 DEF RunsInv, RecordsHaveRuns, RecordsOfRun
    <3>2. RunHoldsItsRows(handler'[h])
      BY <1>2, <3>1 DEF RunHoldsItsRows, AfterStoring
    <3>. QED
      BY <1>1, <2>1, <3>2, SameRecords
  <2>2. CASE g # h
    BY <1>1, <1>3, <2>2, SameRecords DEF RunsInv
  <2>. QED
    BY <2>1, <2>2
<1>6. RunsAccountForTheirRecords'
  <2>1. ASSUME NEW r \in DOMAIN runs', runs'[r].status \in {"SUCCEEDED", "PARTIAL"}
        PROVE  r \in DOMAIN runs /\ runs'[r] = runs[r]
    BY <1>1, <2>1
  <2>2. \A r : /\ RecordsOfRun(r)' = RecordsOfRun(r)
               /\ {i \in RecordsOfRun(r) : records[i].row.parseError}'
                    = {i \in RecordsOfRun(r) : records[i].row.parseError}
    BY <1>1 DEF RecordsOfRun
  <2>. QED
    BY <2>1, <2>2 DEF RunsInv, RunsAccountForTheirRecords
<1>. QED
  BY <1>4, <1>5, <1>6 DEF RunsInv

\* Where the rows of a request go when they are stored: behind the others.
LEMMA RowsAreAppended ==
    ASSUME IInv, NEW h \in Handler, StoreRecords(h),
           NEW rows, rows = handler[h].outcome.records,
           NEW n, n = Len(records)
    PROVE  /\ n \in Nat /\ DOMAIN records = 1..n
           /\ Len(rows) \in Nat /\ DOMAIN rows = 1..Len(rows)
           /\ DOMAIN records' = 1..(n + Len(rows))
           /\ \A i \in 1..n : records'[i] = records[i]
           /\ \A j \in DOMAIN rows : /\ records'[n + j].source = handler[h].source
                                   /\ records'[n + j].run = handler[h].run
                                   /\ records'[n + j].row = rows[j]
           /\ \A i \in DOMAIN records' : i \in 1..n \/ \E j \in DOMAIN rows : i = n + j
<1>. DEFINE new == [i \in DOMAIN rows |->
                       [source |-> handler[h].source, run |-> handler[h].run,
                        row |-> rows[i]]]
<1>1. /\ records' \in Seq(Record)
      /\ \A i \in DOMAIN records : records'[i] = records[i]
      /\ Len(records') = Len(records) + Len(rows)
      /\ \A i \in DOMAIN rows : records'[Len(records) + i] = new[i]
  BY StoredRows
<1>2. \A i \in DOMAIN rows : /\ new[i].source = handler[h].source
                             /\ new[i].run = handler[h].run /\ new[i].row = rows[i]
  OBVIOUS
<1>. HIDE DEF new
<1>3. LocalIsSound(handler[h]) /\ handler[h].pc = "store"
  BY DEF IInv, HandlersAreSound, StoreRecords
<1>4. handler[h].outcome \in Outcome
  BY <1>3, OutcomesAreTyped DEF LocalIsSound
<1>5. rows \in Seq(Row) /\ records \in Seq(Record)
  BY <1>4 DEF Outcome, IInv, LInv, LedgerTypeOK
<1>6. /\ n \in Nat /\ DOMAIN records = 1..n
      /\ Len(rows) \in Nat /\ DOMAIN rows = 1..Len(rows)
      /\ DOMAIN records' = 1..(n + Len(rows))
  BY <1>1, <1>5, LenProperties
<1>7. \A j \in DOMAIN rows : /\ records'[n + j].source = handler[h].source
                           /\ records'[n + j].run = handler[h].run
                           /\ records'[n + j].row = rows[j]
  BY <1>1, <1>2
<1>8. ASSUME NEW i \in DOMAIN records'
      PROVE  i \in 1..n \/ \E j \in DOMAIN rows : i = n + j
  <2>1. i \in 1..n \/ (i - n \in DOMAIN rows /\ i = n + (i - n))
    BY <1>6
  <2>. QED
    BY <2>1
<1>. QED
  BY <1>1, <1>6, <1>7, <1>8

\* They are the records of its run, and of no other.
LEMMA RowsAreOfTheRun ==
    ASSUME IInv, RunsInv, NEW h \in Handler, StoreRecords(h)
    PROVE  LET rows == handler[h].outcome.records
               run == handler[h].run
           IN  /\ run \in DOMAIN runs /\ run # Null /\ handler[h].source = runs[run].source
               /\ runs[run].status = "RUNNING"
               /\ {i \in DOMAIN records' : records'[i].run = run}
                    = {Len(records) + j : j \in DOMAIN rows}
               /\ \A r : r # run =>
                      {i \in DOMAIN records' : records'[i].run = r} = RecordsOfRun(r)
<1>0. PICK rows, n, run : /\ rows = handler[h].outcome.records
                          /\ n = Len(records)
                          /\ run = handler[h].run
  OBVIOUS
<1>1. /\ n \in Nat /\ DOMAIN records = 1..n
      /\ Len(rows) \in Nat /\ DOMAIN rows = 1..Len(rows)
      /\ DOMAIN records' = 1..(n + Len(rows))
      /\ \A i \in 1..n : records'[i] = records[i]
      /\ \A j \in DOMAIN rows : records'[n + j].run = run
      /\ \A i \in DOMAIN records' : i \in 1..n \/ \E j \in DOMAIN rows : i = n + j
  BY <1>0, RowsAreAppended
<1>2. LocalIsSound(handler[h]) /\ handler[h].pc = "store"
  BY DEF IInv, HandlersAreSound, StoreRecords
<1>3. run \in DOMAIN runs /\ run # Null /\ handler[h].source = runs[run].source
      /\ runs[run].status = "RUNNING" /\ RecordsOfRun(run) = {}
  BY <1>0, <1>2 DEF IInv, HandlersAreSound, RunsAreOwned, IsCollecting, LocalIsSound, RunsInv,
              RunHoldsItsRows, BeforeStoring
<1>4. ASSUME NEW r, r # run
      PROVE  {i \in DOMAIN records' : records'[i].run = r} = RecordsOfRun(r)
  BY <1>1, <1>4 DEF RecordsOfRun
<1>5. {i \in DOMAIN records' : records'[i].run = run} = {n + j : j \in DOMAIN rows}
  <2>1. ASSUME NEW i \in DOMAIN records', records'[i].run = run
        PROVE  i \in {n + j : j \in DOMAIN rows}
    BY <1>1, <1>3, <2>1 DEF RecordsOfRun
  <2>2. ASSUME NEW j \in DOMAIN rows
        PROVE  n + j \in DOMAIN records' /\ records'[n + j].run = run
    BY <1>1
  <2>. QED
    BY <2>1, <2>2
<1>. QED
  BY <1>0, <1>3, <1>4, <1>5

\* A request goes on from storing with what it stored, and alone.
LEMMA StoreRecordsGoesOn ==
    ASSUME IInv, NEW h \in Handler, StoreRecords(h)
    PROVE  /\ UNCHANGED <<sources, runs, master, canonical, contributions>>
           /\ handler[h].pc = "store" /\ RunExists(handler[h].run)
           /\ \A g \in Handler \ {h} : handler'[g] = handler[g]
           /\ handler'[h].run = handler[h].run
           /\ handler'[h].source = handler[h].source
           /\ handler'[h].outcome = handler[h].outcome
           /\ handler'[h].duplicates = handler[h].duplicates
           /\ handler'[h].pc \in {"read", "master"}
<1>1. handler[h] \in Local /\ handler \in [Handler -> Local]
  BY DEF IInv, HandlersAreSound
<1>. QED
  BY <1>1 DEF StoreRecords, Local

\* The rows become the records of this run, and of no other.
LEMMA StoreRecordsKeepsRunsInv ==
    ASSUME IInv, RunsInv, NEW h \in Handler, StoreRecords(h)
    PROVE  RunsInv'
<1>0. PICK rows, n, run : /\ rows = handler[h].outcome.records
                          /\ n = Len(records)
                          /\ run = handler[h].run
  OBVIOUS
<1>1. /\ n \in Nat /\ DOMAIN records = 1..n
      /\ Len(rows) \in Nat /\ DOMAIN rows = 1..Len(rows)
      /\ \A i \in 1..n : records'[i] = records[i]
      /\ \A j \in DOMAIN rows : /\ records'[n + j].source = handler[h].source
                              /\ records'[n + j].run = run
                              /\ records'[n + j].row = rows[j]
      /\ \A i \in DOMAIN records' : i \in 1..n \/ \E j \in DOMAIN rows : i = n + j
  BY <1>0, RowsAreAppended
<1>2. /\ run \in DOMAIN runs /\ run # Null /\ handler[h].source = runs[run].source
      /\ runs[run].status = "RUNNING"
      /\ RecordsOfRun(run)' = {n + j : j \in DOMAIN rows}
      /\ \A r : r # run => /\ RecordsOfRun(r)' = RecordsOfRun(r)
                           /\ RecordsOfRun(r) \subseteq 1..n
  <2>1. /\ run \in DOMAIN runs /\ run # Null /\ handler[h].source = runs[run].source
        /\ runs[run].status = "RUNNING"
        /\ {i \in DOMAIN records' : records'[i].run = run} = {n + j : j \in DOMAIN rows}
        /\ \A r : r # run =>
               {i \in DOMAIN records' : records'[i].run = r} = RecordsOfRun(r)
    BY <1>0, RowsAreOfTheRun
  <2>2. \A r : RecordsOfRun(r)' = {i \in DOMAIN records' : records'[i].run = r}
    BY DEF RecordsOfRun
  <2>3. \A r : RecordsOfRun(r) \subseteq 1..n
    BY <1>1 DEF RecordsOfRun
  <2>. QED
    BY <2>1, <2>2, <2>3
<1>3. /\ UNCHANGED <<sources, runs>>
      /\ \A g \in Handler \ {h} : handler'[g] = handler[g]
      /\ handler'[h].run = run /\ handler'[h].outcome = handler[h].outcome
      /\ handler'[h].pc \in {"read", "master"}
  BY <1>0, StoreRecordsGoesOn
<1>4. RecordsHaveRuns'
  BY <1>1, <1>2, <1>3 DEF RunsInv, RecordsHaveRuns
<1>5. ASSUME NEW g \in Handler PROVE RunHoldsItsRows(handler[g])'
  <2>1. CASE g = h
    <3>1. Holds(run, rows)'
      BY <1>1, <1>2 DEF Holds
    <3>2. Holds(handler[h].run, handler[h].outcome.records)'
      BY <1>0, <1>3, <3>1
    <3>. QED
      BY <1>3, <2>1, <3>2 DEF RunHoldsItsRows, BeforeStoring
  <2>2. CASE g # h
    <3>1. handler[g].run # Null => handler[g].run # run
      BY <1>0, <1>2, <2>2 DEF IInv, HandlersAreSound, RunsAreOwned, IsCollecting
    <3>2. ASSUME handler[g].run # Null, Holds(handler[g].run, handler[g].outcome.records)
          PROVE  Holds(handler[g].run, handler[g].outcome.records)'
      <4>1. PICK k \in Nat :
                /\ RecordsOfRun(handler[g].run)
                     = {k + j : j \in DOMAIN handler[g].outcome.records}
                /\ \A j \in DOMAIN handler[g].outcome.records :
                       records[k + j].row = handler[g].outcome.records[j]
        BY <3>2 DEF Holds
      <4>2. \A j \in DOMAIN handler[g].outcome.records : records'[k + j] = records[k + j]
        BY <1>1, <1>2, <3>1, <3>2, <4>1
      <4>. QED
        BY <1>3, <1>2, <2>2, <3>1, <3>2, <4>1, <4>2 DEF Holds
    <3>3. RunHoldsItsRows(handler[g])
      BY DEF RunsInv
    <3>. QED
      BY <1>3, <1>2, <2>2, <3>1, <3>2, <3>3 DEF RunHoldsItsRows
  <2>. QED
    BY <2>1, <2>2
<1>6. RunsAccountForTheirRecords'
  <2>1. ASSUME NEW r \in DOMAIN runs, runs[r].status \in {"SUCCEEDED", "PARTIAL"}
        PROVE  /\ RecordsOfRun(r)' = RecordsOfRun(r)
               /\ {i \in RecordsOfRun(r) : records[i].row.parseError}'
                    = {i \in RecordsOfRun(r) : records[i].row.parseError}
    BY <1>1, <1>2, <2>1
  <2>. QED
    BY <1>3, <2>1 DEF RunsInv, RunsAccountForTheirRecords
<1>. QED
  BY <1>4, <1>5, <1>6 DEF RunsInv

\* A request that finishes reports the rows its run holds.
LEMMA FinishedRunAccounts ==
    ASSUME IInv, RunsInv, NEW h \in Handler, FinishRun(h)
    PROVE  LET r == handler[h].run
           IN  /\ runs'[r].stored = Cardinality(RecordsOfRun(r))
               /\ runs'[r].rejected
                    = Cardinality({i \in RecordsOfRun(r) : records[i].row.parseError})
               /\ runs'[r].status = "SUCCEEDED" => runs'[r].rejected = 0
<1>0. PICK rows, r, outcome : /\ outcome = handler[h].outcome
                              /\ rows = handler[h].outcome.records
                              /\ r = handler[h].run
  OBVIOUS
<1>1. LocalIsSound(handler[h]) /\ RunHoldsItsRows(handler[h]) /\ handler[h].pc = "finish"
  BY DEF IInv, HandlersAreSound, RunsInv, FinishRun
<1>2. /\ r # Null /\ r \in DOMAIN runs /\ handler[h].source \in SourceId
      /\ outcome \in Outcomes[handler[h].source] /\ outcome \in Outcome
  BY <1>0, <1>1, OutcomesAreTyped DEF LocalIsSound
<1>3. rows \in Seq(Row) /\ Len(rows) \in Nat /\ DOMAIN rows = 1..Len(rows)
  BY <1>0, <1>2, LenProperties DEF Outcome
<1>4. PICK n \in Nat : /\ RecordsOfRun(r) = {n + j : j \in DOMAIN rows}
                       /\ \A j \in DOMAIN rows : records[n + j].row = rows[j]
  BY <1>0, <1>1, <1>2 DEF RunHoldsItsRows, AfterStoring, Holds
<1>5. Cardinality(RecordsOfRun(r)) = Len(rows)
  <2>1. RecordsOfRun(r) = {n + j : j \in 1..Len(rows)}
    BY <1>3, <1>4
  <2>2. PICK m \in Nat : m = Len(rows)
    BY <1>3
  <2>3. 1..m \in SUBSET (1..m) /\ Cardinality(1..m) = m
    BY FS_Interval
  <2>4. Cardinality({n + j : j \in 1..m}) = Cardinality(1..m)
    BY <1>4, <2>2, <2>3, ShiftKeepsCount
  <2>. QED
    BY <2>1, <2>2, <2>3, <2>4
<1>6. Cardinality({i \in RecordsOfRun(r) : records[i].row.parseError})
        = Cardinality(Rejected(rows))
  <2>1. Rejected(rows) \in SUBSET (1..Len(rows))
    BY <1>3 DEF Rejected
  <2>2. Cardinality({n + j : j \in Rejected(rows)}) = Cardinality(Rejected(rows))
    BY <1>3, <1>4, <2>1, ShiftKeepsCount
  <2>3. {i \in RecordsOfRun(r) : records[i].row.parseError} = {n + j : j \in Rejected(rows)}
    BY <1>4 DEF Rejected
  <2>. QED
    BY <2>2, <2>3
<1>7. StatusOf(outcome) = "SUCCEEDED" => Cardinality(Rejected(rows)) = 0
  <2>1. Cardinality(Rejected(rows)) <= outcome.errors
    BY <1>0, <1>2, OutcomesKeepTheContract DEF Rejected
  <2>2. Cardinality(Rejected(rows)) \in Nat
    BY <1>3, CountIsNatural DEF Rejected
  <2>3. StatusOf(outcome) = "SUCCEEDED" => outcome.errors = 0
    BY DEF StatusOf
  <2>. QED
    BY <2>1, <2>2, <2>3
<1>8. /\ runs'[r].stored = Len(rows) /\ runs'[r].status = StatusOf(outcome)
      /\ runs'[r].rejected = Cardinality(Rejected(rows))
  <2>1. runs[r] \in Run
    BY <1>2, RunsAreTyped
  <2>2. runs'[r] = Finished(runs[r], outcome, handler[h].duplicates)
    BY <1>0, <1>2 DEF FinishRun
  <2>. QED
    BY <1>0, <2>1, <2>2 DEF Finished, Run
<1>. QED
  BY <1>0, <1>5, <1>6, <1>7, <1>8

\* The updates that end a run say nothing of another.
LEMMA EndedRunKeepsRunsInv ==
    ASSUME IInv, RunsInv, NEW h \in Handler, FinishRun(h) \/ FailRun(h)
    PROVE  RunsInv'
<1>0. PICK n : n = handler[h].run
  OBVIOUS
<1>1. PICK ended \in Run : /\ ended.source = runs[n].source
                           /\ runs' = [runs EXCEPT ![n] = ended]
  BY <1>0, RunEnds
<1>2. n \in DOMAIN runs /\ runs \in Seq(Run)
  BY <1>0, RunEnds DEF IInv, HandlersAreSound, LocalIsSound, IsCollecting
<1>3. /\ DOMAIN runs' = DOMAIN runs /\ runs'[n] = ended
      /\ \A r \in DOMAIN runs \ {n} : runs'[r] = runs[r]
  BY <1>1, <1>2
<1>4. /\ UNCHANGED <<sources, records>> /\ handler' = [handler EXCEPT ![h] = Idle]
      /\ handler \in [Handler -> Local]
  BY DEF FinishRun, FailRun, Done, IInv, HandlersAreSound
<1>5. RecordsHaveRuns'
  BY <1>1, <1>3, <1>4 DEF RunsInv, RecordsHaveRuns
<1>6. ASSUME NEW g \in Handler PROVE RunHoldsItsRows(handler[g])'
  BY <1>4, SameRecords DEF RunsInv, RunHoldsItsRows, Idle
<1>7. RunsAccountForTheirRecords'
  <2>1. \A r : /\ RecordsOfRun(r)' = RecordsOfRun(r)
               /\ {i \in RecordsOfRun(r) : records[i].row.parseError}'
                    = {i \in RecordsOfRun(r) : records[i].row.parseError}
    BY <1>4 DEF RecordsOfRun
  <2>2. FailRun(h) => runs'[n].status = "FAILED"
    <3>1. runs[n] \in Run
      BY <1>2, RunsAreTyped
    <3>2. FailRun(h) => runs'[n] = [runs[n] EXCEPT !.status = "FAILED", !.errors = 1]
      BY <1>0, <1>2 DEF FailRun
    <3>. QED
      BY <3>1, <3>2 DEF Run
  <2>3. runs'[n].status \in {"SUCCEEDED", "PARTIAL"} =>
            /\ runs'[n].stored = Cardinality(RecordsOfRun(n))
            /\ runs'[n].rejected
                 = Cardinality({i \in RecordsOfRun(n) : records[i].row.parseError})
            /\ runs'[n].status = "SUCCEEDED" => runs'[n].rejected = 0
    BY <1>0, <2>2, FinishedRunAccounts
  <2>4. ASSUME NEW r \in DOMAIN runs, runs'[r].status \in {"SUCCEEDED", "PARTIAL"}
        PROVE  /\ runs'[r].stored = Cardinality(RecordsOfRun(r))
               /\ runs'[r].rejected
                    = Cardinality({i \in RecordsOfRun(r) : records[i].row.parseError})
               /\ runs'[r].status = "SUCCEEDED" => runs'[r].rejected = 0
    <3>1. CASE r = n
      BY <2>3, <2>4, <3>1
    <3>2. CASE r # n
      BY <1>3, <2>4, <3>2 DEF RunsInv, RunsAccountForTheirRecords
    <3>. QED
      BY <3>1, <3>2
  <2>. QED
    BY <1>3, <2>1, <2>4 DEF RunsAccountForTheirRecords
<1>. QED
  BY <1>5, <1>6, <1>7 DEF RunsInv

\* Those four are the actions that write runs or records.
LEMMA OnlyTheseWriteRuns ==
    ASSUME NEW h \in Handler, Arrive(h) \/ Proceed(h) \/ DatabaseFails(h),
           ~ (CreateRun(h) \/ StoreRecords(h) \/ FinishRun(h) \/ FailRun(h))
    PROVE  UNCHANGED <<runs, records>>
BY DEF Arrive, Reconcile, Remove, Collect, DatabaseFails, Proceed, tables, ledger,
       ReadRecords, RebuildBatch, RebuildAborts, DeleteSource, DeleteFindsNothing,
       CreateRunFails, CollectorReturns, CollectorThrows, ReadKnownRecordIds,
       StoreFails, ApplyMasterData, UpdateFindsNoRun

\* Every step keeps runs and records together.
LEMMA NextKeepsRunsInv ==
    ASSUME IInv, RunsInv, [Next]_vars
    PROVE  RunsInv'
<1>1. ASSUME UNCHANGED <<runs, records>>,
             \A h \in Handler : RunHoldsItsRows(handler'[h])
      PROVE  RunsInv'
  BY <1>1, SameRuns, SameRecords DEF RunsInv
<1>2. CASE UNCHANGED handler /\ UNCHANGED <<runs, records>>
  BY <1>1, <1>2 DEF RunsInv
<1>3. CASE Crash
  BY <1>1, <1>3 DEF Crash, Idle, RunHoldsItsRows, tables, ledger
<1>4. ASSUME NEW h \in Handler, Arrive(h) \/ Proceed(h) \/ DatabaseFails(h)
      PROVE  RunsInv'
  <2>1. CASE CreateRun(h)
    BY <2>1, CreateRunKeepsRunsInv
  <2>2. CASE StoreRecords(h)
    BY <2>2, StoreRecordsKeepsRunsInv
  <2>3. CASE FinishRun(h) \/ FailRun(h)
    BY <2>3, EndedRunKeepsRunsInv
  <2>4. CASE ~ (CreateRun(h) \/ StoreRecords(h) \/ FinishRun(h) \/ FailRun(h))
    <3>1. UNCHANGED <<runs, records>>
      BY <1>4, <2>4, OnlyTheseWriteRuns
    <3>2. /\ GoesOn(handler[h], handler'[h])
          /\ \A g \in Handler \ {h} : handler'[g] = handler[g]
      BY <1>4, <2>4, RequestGoesOn
    <3>3. handler[h] \in Local
      BY DEF IInv, HandlersAreSound
    <3>4. RunHoldsItsRows(handler'[h])
      BY <3>2, <3>3, GoesOnHoldsRows DEF RunsInv
    <3>. QED
      BY <1>1, <3>1, <3>2, <3>4 DEF RunsInv
  <2>. QED
    BY <2>1, <2>2, <2>3, <2>4
<1>. QED
  BY <1>2, <1>3, <1>4 DEF Next, Register, vars, tables, ledger

\* There are neither runs nor records at first.
LEMMA InitEstablishesRunsInv == Init => RunsInv
BY EmptySeq, IdleIsSound DEF Init, LedgerInit, RunsInv, RecordsHaveRuns, RunHoldsItsRows,
       RunsAccountForTheirRecords

\* So runs and records always agree.
LEMMA RunsInvIsInvariant == Spec => []RunsInv
BY InitEstablishesRunsInv, NextKeepsRunsInv, IInvIsInvariant, PTL DEF Spec

\* Whatever requests interleave and whatever fails, a run that ended well counts
\* the records it left in the audit trail, and no rejected row hides behind a
\* SUCCEEDED (sources.service.ts:171-244).
THEOREM RunsAccount == Spec => []RunsAccountForTheirRecords
BY RunsInvIsInvariant, PTL DEF RunsInv

(***************************************************************************)
(* What holds when requests come one at a time.                            *)
(***************************************************************************)
\* There is one handler, so that a request ends before the next one begins.
OneAtATime == \A g, h \in Handler : g = h

\* The records of a run that repeat an earlier record of their source.
DuplicatesOf(r) ==
    {i \in RecordsOfRun(r) :
        \E j \in 1..(i - 1) :
            /\ records[j].source = records[i].source
            /\ records[j].row.sourceRecordId = records[i].row.sourceRecordId}

\* Every id the source ever delivered; while it is registered, those that are known.
IdsFrom(s) ==
    {records[i].row.sourceRecordId : i \in {j \in DOMAIN records : records[j].source = s}}

\* What a request counts before it stores the rows is what it has stored afterwards.
CountsDuplicates(l) ==
    /\ l.pc \in {"idle", "create", "delete", "collect", "known"} => l.duplicates = 0
    /\ l.pc = "store" /\ RunExists(l.run) =>
           l.duplicates = Cardinality(Duplicates(l.outcome.records, IdsFrom(l.source)))
    /\ l.run # Null /\ l.pc \in AfterStoring => l.duplicates = Cardinality(DuplicatesOf(l.run))

CountsInv ==
    /\ \A h \in Handler : CountsDuplicates(handler[h])
    /\ DuplicatesAreCounted

\* While the source of a run is there, so are all records it ever delivered.
LEMMA KnownIdsAreAll ==
    ASSUME NEW s, IsRegistered(s)
    PROVE  KnownIds(s) = IdsFrom(s)
BY DEF KnownIds, IdsFrom, Stored

\* A run that exists after a step existed before it.
LEMMA RunsExistedBefore ==
    ASSUME IInv, RunsInv, [Next]_vars, UNCHANGED runs, NEW r, RunExists(r)'
    PROVE  RunExists(r)
BY RunsAreTyped, SourcesAreKept DEF RunExists, RunsInv, RecordsHaveRuns

\* A request that goes on keeps its count, or takes it from what is known.
LEMMA GoesOnCounts ==
    ASSUME IInv, RunsInv, NEW h \in Handler, NEW m, GoesOn(handler[h], m),
           CountsDuplicates(handler[h])
    PROVE  CountsDuplicates(m)
<1>0. PICK l : l = handler[h]
  OBVIOUS
<1>1. /\ l \in Local /\ LocalIsSound(l) /\ RunHoldsItsRows(l) /\ CountsDuplicates(l)
      /\ GoesOn(l, m)
  BY <1>0 DEF IInv, HandlersAreSound, RunsInv
<1>2. CASE m = Idle
  BY <1>2 DEF CountsDuplicates, Idle, AfterStoring
<1>3. CASE l.run # Null /\ m.pc = "fail"
  BY <1>3 DEF CountsDuplicates, AfterStoring
<1>4. CASE l.pc \in {"idle", "delete"} /\ m.run = Null /\ m.pc \in {"create", "delete", "read"}
           /\ m.duplicates = l.duplicates
  BY <1>1, <1>4 DEF CountsDuplicates, AfterStoring
<1>5. CASE l.pc = "collect" /\ m.run = l.run /\ m.duplicates = l.duplicates /\ m.pc = "known"
  BY <1>1, <1>5 DEF CountsDuplicates, AfterStoring
<1>6. CASE l.pc = "collect" /\ m.run = l.run /\ m.duplicates = l.duplicates /\ m.pc = "read"
  <2>1. m.duplicates = 0 /\ RecordsOfRun(m.run) = {}
    BY <1>1, <1>6 DEF CountsDuplicates, RunHoldsItsRows, BeforeStoring, LocalIsSound
  <2>2. DuplicatesOf(m.run) = {}
    BY <2>1 DEF DuplicatesOf
  <2>. QED
    BY <1>6, <2>1, <2>2, FS_EmptySet DEF CountsDuplicates
<1>7. CASE l.pc = "known" /\ m.run = l.run /\ m.source = l.source /\ m.outcome = l.outcome
           /\ m.pc = "store"
           /\ m.duplicates = Cardinality(Duplicates(l.outcome.records, KnownIds(l.source)))
  <2>1. ASSUME RunExists(m.run)
        PROVE  KnownIds(m.source) = IdsFrom(m.source)
    BY <1>1, <1>7, <2>1, KnownIdsAreAll DEF LocalIsSound, RunExists
  <2>. QED
    BY <1>7, <2>1 DEF CountsDuplicates, AfterStoring
<1>8. CASE l.pc \in AfterStoring /\ m.pc \in AfterStoring /\ m.run = l.run
           /\ m.duplicates = l.duplicates
  BY <1>1, <1>8 DEF CountsDuplicates, AfterStoring
<1>. QED
  BY <1>1, <1>2, <1>3, <1>4, <1>5, <1>6, <1>7, <1>8 DEF GoesOn

\* What a request has counted stays true while no records are stored.
LEMMA SameCounts ==
    ASSUME IInv, RunsInv, [Next]_vars, UNCHANGED records
    PROVE  /\ UNCHANGED runs => \A l : CountsDuplicates(l) => CountsDuplicates(l)'
           /\ \A r : DuplicatesOf(r)' = DuplicatesOf(r)
<1>1. \A r : DuplicatesOf(r)' = DuplicatesOf(r)
  BY DEF DuplicatesOf, RecordsOfRun
<1>2. \A s : IdsFrom(s)' = IdsFrom(s)
  BY DEF IdsFrom
<1>3. UNCHANGED runs => \A l : CountsDuplicates(l) => CountsDuplicates(l)'
  BY <1>1, <1>2, RunsExistedBefore DEF CountsDuplicates
<1>. QED
  BY <1>1, <1>3

\* The repeats among the rows are the repeats among the records they become.
LEMMA RepeatsAreStored ==
    ASSUME IInv, RunsInv, NEW h \in Handler, StoreRecords(h),
           NEW rows, rows = handler[h].outcome.records,
           NEW run, run = handler[h].run,
           NEW s, s = handler[h].source
    PROVE  /\ Cardinality(DuplicatesOf(run)') = Cardinality(Duplicates(rows, IdsFrom(s)))
           /\ \A r : r # run => DuplicatesOf(r)' = DuplicatesOf(r)
<1>0. PICK n : n = Len(records)
  OBVIOUS
<1>1. /\ n \in Nat /\ DOMAIN records = 1..n
      /\ Len(rows) \in Nat /\ DOMAIN rows = 1..Len(rows)
      /\ \A i \in 1..n : records'[i] = records[i]
      /\ \A j \in DOMAIN rows : /\ records'[n + j].source = s
                              /\ records'[n + j].run = run
                              /\ records'[n + j].row = rows[j]
  BY <1>0, RowsAreAppended
<1>2. /\ RecordsOfRun(run)' = {n + j : j \in DOMAIN rows}
      /\ \A r : r # run => /\ RecordsOfRun(r)' = RecordsOfRun(r)
                           /\ RecordsOfRun(r) \subseteq 1..n
  <2>1. /\ run \in DOMAIN runs /\ run # Null /\ handler[h].source = runs[run].source
        /\ runs[run].status = "RUNNING"
        /\ {i \in DOMAIN records' : records'[i].run = run} = {n + j : j \in DOMAIN rows}
        /\ \A r : r # run =>
               {i \in DOMAIN records' : records'[i].run = r} = RecordsOfRun(r)
    BY <1>0, RowsAreOfTheRun
  <2>2. \A r : RecordsOfRun(r)' = {i \in DOMAIN records' : records'[i].run = r}
    BY DEF RecordsOfRun
  <2>3. \A r : RecordsOfRun(r) \subseteq 1..n
    BY <1>1 DEF RecordsOfRun
  <2>. QED
    BY <2>1, <2>2, <2>3
<1>3. PICK ids : ids = IdsFrom(s)
  OBVIOUS
<1>4. ASSUME NEW j \in DOMAIN rows, NEW i, i = n + j
      PROVE  i \in DuplicatesOf(run)' <=> j \in Duplicates(rows, ids)
  <2>1. i \in DuplicatesOf(run)'
          <=> \E k \in 1..(i - 1) : /\ records'[k].source = s
                                    /\ records'[k].row.sourceRecordId = rows[j].sourceRecordId
    <3>1. /\ i \in RecordsOfRun(run)' /\ records'[i].source = s
          /\ records'[i].row.sourceRecordId = rows[j].sourceRecordId
      BY <1>1, <1>2, <1>4
    <3>2. DuplicatesOf(run)' = {k \in RecordsOfRun(run)' :
              \E m \in 1..(k - 1) :
                  /\ records'[m].source = records'[k].source
                  /\ records'[m].row.sourceRecordId = records'[k].row.sourceRecordId}
      BY DEF DuplicatesOf
    <3>. QED
      BY <3>1, <3>2, Zenon
  <2>2. \A k \in 1..(i - 1) : k \in 1..n \/ \E m \in 1..(j - 1) : k = n + m
    <3>1. \A k \in 1..(i - 1) : k \in 1..n \/ (k - n \in 1..(j - 1) /\ k = n + (k - n))
      BY <1>1, <1>4
    <3>. QED
      BY <3>1
  <2>3. \A k \in 1..n : k \in 1..(i - 1)
    BY <1>1, <1>4
  <2>4. \A m \in 1..(j - 1) : n + m \in 1..(i - 1) /\ m \in DOMAIN rows
    BY <1>1, <1>4
  <2>5. rows[j].sourceRecordId \in ids
          <=> \E k \in 1..n : /\ records[k].source = s
                              /\ records[k].row.sourceRecordId = rows[j].sourceRecordId
    BY <1>1, <1>3 DEF IdsFrom
  <2>6. ASSUME NEW k \in 1..n
        PROVE  records'[k] = records[k]
    BY <1>1
  <2>7. ASSUME NEW m \in 1..(j - 1)
        PROVE  /\ records'[n + m].source = s
               /\ records'[n + m].row.sourceRecordId = rows[m].sourceRecordId
    BY <1>1, <2>4
  <2>8. (\E k \in 1..(i - 1) : /\ records'[k].source = s
                               /\ records'[k].row.sourceRecordId = rows[j].sourceRecordId)
          <=> \/ rows[j].sourceRecordId \in ids
              \/ \E m \in 1..(j - 1) : rows[m].sourceRecordId = rows[j].sourceRecordId
    BY <2>2, <2>3, <2>4, <2>5, <2>6, <2>7
  <2>. QED
    BY <2>1, <2>8 DEF Duplicates
<1>5. DuplicatesOf(run)' = {n + j : j \in Duplicates(rows, ids)}
  <2>1. DuplicatesOf(run)' \subseteq {n + j : j \in DOMAIN rows}
    BY <1>2 DEF DuplicatesOf
  <2>2. Duplicates(rows, ids) \subseteq DOMAIN rows
    BY DEF Duplicates
  <2>. QED
    BY <1>4, <2>1, <2>2
<1>6. Cardinality(DuplicatesOf(run)') = Cardinality(Duplicates(rows, ids))
  <2>1. Duplicates(rows, ids) \in SUBSET (1..Len(rows))
    BY <1>1 DEF Duplicates
  <2>2. Cardinality({n + j : j \in Duplicates(rows, ids)}) = Cardinality(Duplicates(rows, ids))
    BY <1>1, <2>1, ShiftKeepsCount
  <2>. QED
    BY <1>5, <2>2
<1>7. ASSUME NEW r, r # run PROVE DuplicatesOf(r)' = DuplicatesOf(r)
  <2>1. ASSUME NEW i \in RecordsOfRun(r), NEW j \in 1..(i - 1)
        PROVE  records'[i] = records[i] /\ records'[j] = records[j]
    <3>1. i \in 1..n /\ j \in 1..n
      BY <1>1, <1>2, <1>7
    <3>. QED
      BY <1>1, <3>1
  <2>. QED
    BY <1>2, <1>7, <2>1 DEF DuplicatesOf
<1>. QED
  BY <1>3, <1>6, <1>7

\* No step comes between counting the duplicates of a run and storing its rows.
LEMMA NextKeepsCountsInv ==
    ASSUME OneAtATime, IInv, RunsInv, CountsInv, [Next]_vars
    PROVE  CountsInv'
<1>1. DuplicatesAreCounted <=>
          \A r \in DOMAIN runs : runs[r].status \in {"SUCCEEDED", "PARTIAL"} =>
              runs[r].duplicate = Cardinality(DuplicatesOf(r))
  BY DEF DuplicatesAreCounted, DuplicatesOf
<1>2. ASSUME UNCHANGED <<runs, records>>,
             \A h \in Handler : CountsDuplicates(handler'[h])
      PROVE  CountsInv'
  <2>1. \A h \in Handler : CountsDuplicates(handler[h])'
    BY <1>2, SameCounts
  <2>2. DuplicatesAreCounted'
    BY <1>2, SameCounts DEF CountsInv, DuplicatesAreCounted, RecordsOfRun
  <2>. QED
    BY <2>1, <2>2 DEF CountsInv
<1>3. CASE UNCHANGED handler /\ UNCHANGED <<runs, records>>
  BY <1>2, <1>3 DEF CountsInv
<1>4. CASE Crash
  BY <1>2, <1>4 DEF Crash, Idle, CountsDuplicates, AfterStoring, tables, ledger
<1>5. ASSUME NEW h \in Handler, CreateRun(h)
      PROVE  CountsInv'
  <2>1. /\ handler[h] \in Local /\ handler \in [Handler -> Local]
        /\ runs \in Seq(Run) /\ CountsDuplicates(handler[h])
    BY DEF IInv, HandlersAreSound, CountsInv
  <2>2. handler'[h].duplicates = 0 /\ handler'[h].pc = "collect"
    BY <1>5, <2>1 DEF CreateRun, Local, CountsDuplicates
  <2>3. CountsDuplicates(handler[h])'
    BY <2>2 DEF CountsDuplicates, AfterStoring
  <2>4. \A r \in DOMAIN runs' : runs'[r].status \in {"SUCCEEDED", "PARTIAL"} =>
            r \in DOMAIN runs /\ runs'[r] = runs[r]
    <3>1. /\ DOMAIN runs = 1..Len(runs) /\ DOMAIN runs' = 1..(Len(runs) + 1)
          /\ \A r \in DOMAIN runs : runs'[r] = runs[r]
          /\ runs'[Len(runs) + 1].status = "RUNNING" /\ Len(runs) \in Nat
      BY <1>5, <2>1, AppendProperties, LenProperties DEF CreateRun
    <3>. QED
      BY <3>1
  <2>5. \A r : DuplicatesOf(r)' = DuplicatesOf(r)
    BY <1>5, SameCounts DEF CreateRun
  <2>6. DuplicatesAreCounted'
    BY <1>1, <2>4, <2>5 DEF CountsInv, DuplicatesAreCounted, DuplicatesOf
  <2>. QED
    BY <2>3, <2>6 DEF CountsInv, OneAtATime
<1>6. ASSUME NEW h \in Handler, StoreRecords(h)
      PROVE  CountsInv'
  <2>0. PICK rows, run, s : /\ rows = handler[h].outcome.records
                            /\ run = handler[h].run
                            /\ s = handler[h].source
    OBVIOUS
  <2>1. /\ Cardinality(DuplicatesOf(run)') = Cardinality(Duplicates(rows, IdsFrom(s)))
        /\ \A r : r # run => DuplicatesOf(r)' = DuplicatesOf(r)
    BY <1>6, <2>0, RepeatsAreStored
  <2>2. /\ UNCHANGED runs /\ handler'[h].run = run
        /\ handler'[h].duplicates = handler[h].duplicates
        /\ handler'[h].pc \in {"read", "master"}
        /\ handler[h].pc = "store" /\ RunExists(run)
    BY <1>6, <2>0, StoreRecordsGoesOn
  <2>3. handler'[h].duplicates = Cardinality(DuplicatesOf(run)')
    BY <2>0, <2>1, <2>2 DEF CountsInv, CountsDuplicates
  <2>4. CountsDuplicates(handler[h])'
    BY <2>2, <2>3 DEF CountsDuplicates
  <2>5. runs[run].status = "RUNNING"
    BY <1>6, <2>0, <2>2 DEF IInv, HandlersAreSound, RunsAreOwned, IsCollecting, LocalIsSound
  <2>6. DuplicatesAreCounted'
    BY <1>1, <2>1, <2>2, <2>5 DEF CountsInv, DuplicatesAreCounted, DuplicatesOf
  <2>. QED
    BY <2>4, <2>6 DEF CountsInv, OneAtATime
<1>7. ASSUME NEW h \in Handler, FinishRun(h) \/ FailRun(h)
      PROVE  CountsInv'
  <2>0. PICK n : n = handler[h].run
    OBVIOUS
  <2>1. n \in DOMAIN runs /\ n # Null /\ runs \in Seq(Run)
    BY <1>7, <2>0, RunEnds DEF IInv, HandlersAreSound, LocalIsSound, IsCollecting
  <2>2. /\ UNCHANGED records /\ handler' = [handler EXCEPT ![h] = Idle]
        /\ handler \in [Handler -> Local]
    BY <1>7 DEF FinishRun, FailRun, Done, IInv, HandlersAreSound
  <2>3. DOMAIN runs' = DOMAIN runs /\ \A r \in DOMAIN runs \ {n} : runs'[r] = runs[r]
    BY <1>7, <2>0, <2>1, RunEnds
  <2>4. runs'[n].status \in {"SUCCEEDED", "PARTIAL"} =>
            runs'[n].duplicate = Cardinality(DuplicatesOf(n))
    <3>1. runs[n] \in Run
      BY <2>1, RunsAreTyped
    <3>2. CASE FailRun(h)
      BY <2>0, <2>1, <3>1, <3>2 DEF FailRun, Run
    <3>3. CASE FinishRun(h)
      <4>1. handler[h].duplicates = Cardinality(DuplicatesOf(n))
        BY <2>0, <2>1, <3>3 DEF FinishRun, CountsInv, CountsDuplicates, AfterStoring
      <4>2. runs'[n] = Finished(runs[n], handler[h].outcome, handler[h].duplicates)
        BY <2>0, <2>1, <3>3 DEF FinishRun
      <4>3. runs'[n].duplicate = handler[h].duplicates
        BY <3>1, <4>2 DEF Finished, Run
      <4>. QED
        BY <4>1, <4>3
    <3>. QED
      BY <1>7, <3>2, <3>3
  <2>5. \A r : DuplicatesOf(r)' = DuplicatesOf(r)
    BY <2>2, SameCounts
  <2>6. DuplicatesAreCounted'
    BY <1>1, <2>3, <2>4, <2>5 DEF CountsInv, DuplicatesAreCounted, DuplicatesOf
  <2>7. CountsDuplicates(handler[h])'
    BY <2>2 DEF CountsDuplicates, Idle, AfterStoring
  <2>. QED
    BY <2>6, <2>7 DEF CountsInv, OneAtATime
<1>8. ASSUME NEW h \in Handler, Arrive(h) \/ Proceed(h) \/ DatabaseFails(h),
             ~ (CreateRun(h) \/ StoreRecords(h) \/ FinishRun(h) \/ FailRun(h))
      PROVE  CountsInv'
  <2>1. UNCHANGED <<runs, records>>
    BY <1>8, OnlyTheseWriteRuns
  <2>2. GoesOn(handler[h], handler'[h])
    BY <1>8, RequestGoesOn
  <2>3. CountsDuplicates(handler'[h])
    BY <2>2, GoesOnCounts DEF CountsInv
  <2>. QED
    BY <1>2, <2>1, <2>3 DEF OneAtATime
<1>. QED
  BY <1>3, <1>4, <1>5, <1>6, <1>7, <1>8 DEF Next, Register, vars, tables, ledger

\* When requests come one at a time, whatever fails, a run counts as duplicates
\* exactly the records whose id an earlier record of the source carries
\* (schema.prisma:127, sources.service.ts:171-205).
THEOREM DuplicatesCounted == OneAtATime => (Spec => []DuplicatesAreCounted)
<1>. SUFFICES ASSUME OneAtATime PROVE Spec => []DuplicatesAreCounted
  OBVIOUS
<1>1. Init => CountsInv
  BY EmptySeq, IdleIsSound DEF Init, CountsInv, CountsDuplicates, DuplicatesAreCounted, Idle,
                           AfterStoring
<1>2. IInv /\ RunsInv /\ CountsInv /\ [Next]_vars => CountsInv'
  BY NextKeepsCountsInv
<1>. QED
  BY <1>1, <1>2, IInvIsInvariant, RunsInvIsInvariant, PTL DEF Spec, CountsInv

\* The canonical events of a batch are those derived from its stored records.
IsFresh(b) == \A s \in Reported(Usable, b) : IsDerived(b, s)

\* What was derived depends on nothing but the records of the batch.
LEMMA SameRecordsSameEvents ==
    ASSUME NEW b, NEW ids, NEW jds, IdsOfBatch(ids, b) = IdsOfBatch(jds, b)
    PROVE  /\ Reported(ids, b) = Reported(jds, b)
           /\ \A s : /\ EventOf(ids, b, s) = EventOf(jds, b, s)
                     /\ ContributionsOf(ids, b, s) = ContributionsOf(jds, b, s)
<1>1. \A s : ObservationsAt(ids, b, s) = ObservationsAt(jds, b, s)
  BY DEF ObservationsAt
<1>2. Reported(ids, b) = Reported(jds, b)
  BY <1>1 DEF Reported
<1>3. \A s : WinnerAt(ids, b, s) = WinnerAt(jds, b, s)
  BY <1>1 DEF WinnerAt
<1>4. \A s : IsLate(ids, b, s) = IsLate(jds, b, s)
  BY <1>2, <1>3 DEF IsLate
<1>5. \A s : EventOf(ids, b, s) = EventOf(jds, b, s)
  BY <1>1, <1>3, <1>4 DEF EventOf
<1>6. \A s : ContributionsOf(ids, b, s) = ContributionsOf(jds, b, s)
  BY <1>1 DEF ContributionsOf
<1>. QED
  BY <1>2, <1>5, <1>6

\* Nor does it change while these records stay.
LEMMA BatchStaysReported ==
    ASSUME NEW b, IdsOfBatch(Usable, b)' = IdsOfBatch(Usable, b),
           \A i \in IdsOfBatch(Usable, b) : records'[i] = records[i]
    PROVE  /\ Reported(Usable, b)' = Reported(Usable, b)
           /\ \A s : /\ EventOf(Usable, b, s)' = EventOf(Usable, b, s)
                     /\ ContributionsOf(Usable, b, s)' = ContributionsOf(Usable, b, s)
<1>1. \A i \in IdsOfBatch(Usable, b) : ObservationOf(i)' = ObservationOf(i)
  BY DEF ObservationOf
<1>2. ASSUME NEW s
      PROVE  ObservationsAt(Usable, b, s)' = ObservationsAt(Usable, b, s)
  BY <1>1 DEF ObservationsAt
<1>3. Reported(Usable, b)' = Reported(Usable, b)
  BY <1>2 DEF Reported
<1>4. \A s : WinnerAt(Usable, b, s)' = WinnerAt(Usable, b, s)
  BY <1>2 DEF WinnerAt
<1>5. \A s : IsLate(Usable, b, s)' = IsLate(Usable, b, s)
  BY <1>3, <1>4 DEF IsLate
<1>6. \A s : EventOf(Usable, b, s)' = EventOf(Usable, b, s)
  BY <1>2, <1>4, <1>5 DEF EventOf
<1>7. \A s : ContributionsOf(Usable, b, s)' = ContributionsOf(Usable, b, s)
  BY <1>2 DEF ContributionsOf
<1>. QED
  BY <1>3, <1>6, <1>7

\* So a batch is as fresh as it was while its records and its events stay.
LEMMA StaysFresh ==
    ASSUME NEW b, IdsOfBatch(Usable, b)' = IdsOfBatch(Usable, b),
           \A i \in IdsOfBatch(Usable, b) : records'[i] = records[i],
           UNCHANGED <<canonical, contributions>>
    PROVE  IsFresh(b)' <=> IsFresh(b)
BY BatchStaysReported DEF IsFresh, IsDerived

\* A rebuild from all records of a batch makes it fresh, and leaves the others.
LEMMA RebuildMakesFresh ==
    ASSUME LedgerTypeOK, NEW b \in Batch, NEW ids \in SUBSET UsableRows, Rebuild(b, ids)
    PROVE  /\ IdsOfBatch(ids, b) = IdsOfBatch(Usable, b) => IsFresh(b)'
           /\ \A a \in Batch \ {b} : IsFresh(a)' <=> IsFresh(a)
<1>1. sources' = sources /\ records' = records
  BY DEF Rebuild
<1>2. \A a : IdsOfBatch(Usable, a)' = IdsOfBatch(Usable, a)
  BY <1>1 DEF IdsOfBatch, Usable, Stored, IsRegistered
<1>3. ASSUME NEW a
      PROVE  /\ Reported(Usable, a)' = Reported(Usable, a)
             /\ \A s : /\ EventOf(Usable, a, s)' = EventOf(Usable, a, s)
                       /\ ContributionsOf(Usable, a, s)' = ContributionsOf(Usable, a, s)
  BY <1>1, <1>2, BatchStaysReported
<1>4. ASSUME IdsOfBatch(ids, b) = IdsOfBatch(Usable, b), NEW s \in Reported(Usable, b)
      PROVE  /\ canonical'[b][s] = EventOf(Usable, b, s)
             /\ {c \in contributions' : c.batchId = b /\ c.station = s}
                  = ContributionsOf(Usable, b, s)
  <2>1. /\ Reported(ids, b) = Reported(Usable, b)
        /\ EventOf(ids, b, s) = EventOf(Usable, b, s)
        /\ ContributionsOf(ids, b, s) = ContributionsOf(Usable, b, s)
    BY <1>4, SameRecordsSameEvents
  <2>. QED
    BY <2>1, RebuildWrites
<1>5. ASSUME NEW a \in Batch \ {b}, NEW s \in Station
      PROVE  /\ canonical'[a][s] = canonical[a][s]
             /\ {c \in contributions' : c.batchId = a /\ c.station = s}
                  = {c \in contributions : c.batchId = a /\ c.station = s}
  BY RebuildWrites
<1>6. IdsOfBatch(ids, b) = IdsOfBatch(Usable, b) => IsFresh(b)'
  BY <1>3, <1>4 DEF IsFresh, IsDerived
<1>7. ASSUME NEW a \in Batch \ {b} PROVE IsFresh(a)' <=> IsFresh(a)
  <2>1. Reported(Usable, a) \subseteq Station
    BY DEF Reported
  <2>. QED
    BY <1>3, <1>5, <2>1 DEF IsFresh, IsDerived
<1>. QED
  BY <1>6, <1>7

\* What a rebuild in progress has read is still all there is, and what it is done
\* with is fresh.
RebuildIsCurrent(h) ==
    /\ handler[h].pc = "rebuild" =>
           /\ \A b \in handler[h].pending :
                  IdsOfBatch(handler[h].snapshot, b) = IdsOfBatch(Usable, b)
           /\ \A b \in Scope(h) \ handler[h].pending : IsFresh(b)
    /\ handler[h].pc = "finish" => \A b \in Scope(h) : IsFresh(b)

RebuildsAreCurrent == \A h \in Handler : RebuildIsCurrent(h)

\* While no source comes or goes and nothing is stored or rebuilt, what is fresh
\* stays fresh.
LEMMA TablesStayFresh ==
    ASSUME UNCHANGED <<sources, records, canonical, contributions>>
    PROVE  /\ Usable' = Usable /\ Stored' = Stored
           /\ \A b : IdsOfBatch(Usable, b)' = IdsOfBatch(Usable, b)
           /\ \A b : IsFresh(b)' <=> IsFresh(b)
<1>1. Usable' = Usable /\ Stored' = Stored
  BY DEF Usable, Stored, IsRegistered
<1>2. \A b : IdsOfBatch(Usable, b)' = IdsOfBatch(Usable, b)
  BY <1>1 DEF IdsOfBatch
<1>3. ASSUME NEW b PROVE IsFresh(b)' <=> IsFresh(b)
  BY <1>2, StaysFresh
<1>. QED
  BY <1>1, <1>2, <1>3

\* A new source has no records, so that what is stored and fresh stays so.
LEMMA RegisterStaysFresh ==
    ASSUME IInv, RunsInv, NEW s \in SourceId, Register(s)
    PROVE  /\ Usable' = Usable /\ Stored' = Stored
           /\ \A b : IsFresh(b)' <=> IsFresh(b)
<1>1. \A i \in DOMAIN records : sources[records[i].source] # "unregistered"
  BY DEF RunsInv, RecordsHaveRuns
<1>2. \A i \in DOMAIN records : records[i].source \in SourceId
  BY RecordsAreTyped DEF IInv, LInv, Record
<1>3. sources \in [SourceId -> SourceState]
  BY DEF IInv, LInv, LedgerTypeOK
<1>4. \A i \in DOMAIN records :
          IsRegistered(records[i].source)' <=> IsRegistered(records[i].source)
  BY <1>1, <1>2, <1>3 DEF Register, IsRegistered
<1>5. /\ UNCHANGED <<records, canonical, contributions>>
  BY DEF Register
<1>6. Stored' = Stored
  BY <1>4, <1>5 DEF Stored
<1>7. Usable' = Usable
  BY <1>5, <1>6 DEF Usable
<1>8. ASSUME NEW b PROVE IsFresh(b)' <=> IsFresh(b)
  <2>1. IdsOfBatch(Usable, b)' = IdsOfBatch(Usable, b)
    BY <1>5, <1>7 DEF IdsOfBatch
  <2>. QED
    BY <1>5, <2>1, StaysFresh
<1>. QED
  BY <1>6, <1>7, <1>8

\* Rows of other batches leave a batch as fresh as it was; and each batch that rows
\* were stored for is in the scope of the rebuild that follows.
LEMMA StoreStaysFresh ==
    ASSUME IInv, RunsInv, NEW h \in Handler, StoreRecords(h),
           NEW b \in Batch, b \notin TouchedBatches(handler[h].outcome)
    PROVE  IsFresh(b)' <=> IsFresh(b)
<1>0. PICK rows, n, run : /\ rows = handler[h].outcome.records
                          /\ n = Len(records)
                          /\ run = handler[h].run
  OBVIOUS
<1>1. /\ n \in Nat /\ DOMAIN records = 1..n
      /\ DOMAIN records' = 1..(n + Len(rows)) /\ Len(rows) \in Nat
      /\ \A i \in 1..n : records'[i] = records[i]
      /\ \A j \in DOMAIN rows : records'[n + j].row = rows[j]
      /\ \A i \in DOMAIN records' : i \in 1..n \/ \E j \in DOMAIN rows : i = n + j
  BY <1>0, RowsAreAppended
<1>2. /\ UNCHANGED <<sources, canonical, contributions>>
  BY DEF StoreRecords
<1>3. b # Null
  BY NullIsNoData
<1>4. \A j \in DOMAIN rows : rows[j].batchId # b
  BY <1>0, <1>3 DEF TouchedBatches
<1>5. ASSUME NEW i \in DOMAIN records', records'[i].row.batchId = b
      PROVE  i \in DOMAIN records /\ records'[i] = records[i]
  BY <1>1, <1>4, <1>5
<1>6. ASSUME NEW i \in DOMAIN records
      PROVE  i \in DOMAIN records' /\ records'[i] = records[i]
  BY <1>1
<1>7. IdsOfBatch(Usable, b)' = IdsOfBatch(Usable, b)
  <2>1. ASSUME NEW i \in IdsOfBatch(Usable, b)' PROVE i \in IdsOfBatch(Usable, b)
    BY <1>2, <1>5 DEF IdsOfBatch, Usable, Stored, IsRegistered
  <2>2. ASSUME NEW i \in IdsOfBatch(Usable, b) PROVE i \in IdsOfBatch(Usable, b)'
    BY <1>2, <1>6 DEF IdsOfBatch, Usable, Stored, IsRegistered
  <2>. QED
    BY <2>1, <2>2
<1>8. \A i \in IdsOfBatch(Usable, b) : records'[i] = records[i]
  BY <1>6 DEF IdsOfBatch, Usable, Stored
<1>. QED
  BY <1>2, <1>7, <1>8, StaysFresh

\* Only reading the records and rebuilding a batch lead to a rebuild or its end.
LEMMA OnlyTheseRebuild ==
    ASSUME IInv, NEW h \in Handler, Arrive(h) \/ Proceed(h) \/ DatabaseFails(h),
           ~ ReadRecords(h), \A b \in Batch : ~ RebuildBatch(h, b)
    PROVE  handler'[h].pc \notin {"rebuild", "finish"}
<1>1. handler \in [Handler -> Local] /\ handler[h] \in Local /\ LocalIsSound(handler[h])
  BY DEF IInv, HandlersAreSound
<1>2. CASE Done(h)
  BY <1>1, <1>2 DEF Done, Idle
<1>3. CASE Throw(h)
  BY <1>1, <1>2, <1>3 DEF Throw, Local
<1>4. CASE Arrive(h)
  <2>1. CASE Reconcile(h)
    BY <1>1, <2>1 DEF Reconcile, Local
  <2>2. ASSUME NEW s \in SourceId, Remove(h, s) \/ Collect(h, s)
        PROVE  handler'[h].pc \notin {"rebuild", "finish"}
    BY <1>1, <2>2 DEF Remove, Collect, Local
  <2>. QED
    BY <1>4, <2>1, <2>2 DEF Arrive
<1>5. CASE DeleteSource(h)
  BY <1>1, <1>5 DEF DeleteSource, Local
<1>6. CASE CreateRun(h)
  BY <1>1, <1>6 DEF CreateRun, Local
<1>7. CASE CollectorReturns(h)
  BY <1>1, <1>7 DEF CollectorReturns, Local
<1>8. CASE ReadKnownRecordIds(h)
  BY <1>1, <1>8 DEF ReadKnownRecordIds, Local
<1>9. CASE StoreRecords(h)
  BY <1>9, StoreRecordsGoesOn
<1>10. CASE ApplyMasterData(h)
  BY <1>1, <1>10 DEF ApplyMasterData, Local
<1>11. CASE FinishRun(h) \/ FailRun(h)
  BY <1>2, <1>11 DEF FinishRun, FailRun
<1>. QED
  BY <1>3, <1>4, <1>5, <1>6, <1>7, <1>8, <1>9, <1>10, <1>11
     DEF Proceed, DatabaseFails, RebuildAborts, DeleteFindsNothing, CreateRunFails,
         CollectorThrows, StoreFails, UpdateFindsNoRun

\* Where a rebuild that returns leaves its request.
LEMMA RebuildReturnsTo ==
    ASSUME IInv, NEW h \in Handler, RebuildReturns(h)
    PROVE  /\ IsCollecting(h) => /\ handler'[h].pc = "finish"
                                 /\ Scope(h)' = Scope(h)
           /\ ~ IsCollecting(h) => handler'[h].pc = "idle"
<1>1. handler \in [Handler -> Local] /\ handler[h] \in Local
  BY DEF IInv, HandlersAreSound
<1>2. CASE IsCollecting(h)
  <2>1. handler'[h].pc = "finish" /\ handler'[h].run = handler[h].run
        /\ handler'[h].outcome = handler[h].outcome
    BY <1>1, <1>2 DEF RebuildReturns, Local
  <2>. QED
    BY <1>2, <2>1 DEF Scope, IsCollecting
<1>3. CASE ~ IsCollecting(h)
  BY <1>1, <1>3 DEF RebuildReturns, Done, Idle
<1>. QED
  BY <1>2, <1>3

\* Reading the records begins a rebuild from all there is of its batches, and has
\* nothing to rebuild of the others.
LEMMA ReadRecordsIsCurrent ==
    ASSUME IInv, NEW h \in Handler, ReadRecords(h)
    PROVE  /\ RebuildIsCurrent(h)'
           /\ handler'[h].pc # "idle" => Scope(h)' = Scope(h)
           /\ \A b \in Scope(h) :
                  \/ IsFresh(b)
                  \/ handler'[h].pc = "rebuild" /\ b \in handler'[h].pending
<1>0. PICK ids, bs, scope : /\ ids = {i \in Usable : records[i].row.batchId \in Scope(h)}
                            /\ bs = {records[i].row.batchId : i \in ids}
                            /\ scope = Scope(h)
  OBVIOUS
<1>1. handler \in [Handler -> Local] /\ handler[h] \in Local
  BY DEF IInv, HandlersAreSound
<1>2. UNCHANGED <<sources, records, canonical, contributions>>
  BY DEF ReadRecords, tables, ledger
<1>3. \A b : /\ IdsOfBatch(Usable, b)' = IdsOfBatch(Usable, b)
             /\ IsFresh(b)' <=> IsFresh(b)
  BY <1>2, TablesStayFresh
<1>4. ASSUME NEW b \in scope \ bs PROVE IsFresh(b)
  <2>1. IdsOfBatch(Usable, b) = {}
    BY <1>0, <1>4 DEF IdsOfBatch
  <2>2. Reported(Usable, b) = {}
    BY <2>1 DEF Reported, ObservationsAt
  <2>. QED
    BY <2>2 DEF IsFresh
<1>5. ASSUME NEW b \in bs PROVE b \in scope /\ IdsOfBatch(ids, b) = IdsOfBatch(Usable, b)
  BY <1>0, <1>5 DEF IdsOfBatch
<1>6. CASE ids = {}
  <2>1. RebuildReturns(h) /\ bs = {}
    BY <1>0, <1>6 DEF ReadRecords
  <2>2. \A b \in scope : IsFresh(b) /\ IsFresh(b)'
    BY <1>3, <1>4, <2>1
  <2>3. CASE IsCollecting(h)
    BY <1>0, <2>1, <2>2, <2>3, RebuildReturnsTo DEF RebuildIsCurrent
  <2>4. CASE ~ IsCollecting(h)
    BY <1>0, <2>1, <2>2, <2>4, RebuildReturnsTo DEF RebuildIsCurrent
  <2>. QED
    BY <2>3, <2>4
<1>7. CASE ids # {}
  <2>1. handler' = [handler EXCEPT ![h].pc = "rebuild", ![h].snapshot = ids, ![h].pending = bs]
    BY <1>0, <1>7 DEF ReadRecords
  <2>2. /\ handler'[h].pc = "rebuild" /\ handler'[h].snapshot = ids /\ handler'[h].pending = bs
        /\ handler'[h].run = handler[h].run /\ handler'[h].outcome = handler[h].outcome
    BY <1>1, <2>1 DEF Local
  <2>3. Scope(h)' = scope
    BY <1>0, <2>2 DEF Scope, IsCollecting
  <2>4. /\ \A b \in bs : IdsOfBatch(handler[h].snapshot, b)' = IdsOfBatch(Usable, b)'
        /\ \A b \in scope \ bs : IsFresh(b)'
    <3>1. \A b : IdsOfBatch(handler[h].snapshot, b)' = IdsOfBatch(ids, b)
      BY <1>2, <2>2 DEF IdsOfBatch
    <3>. QED
      BY <1>3, <1>4, <1>5, <3>1
  <2>5. RebuildIsCurrent(h)'
    BY <2>2, <2>3, <2>4 DEF RebuildIsCurrent
  <2>. QED
    BY <1>0, <1>4, <2>2, <2>3, <2>5
<1>. QED
  BY <1>6, <1>7

\* Rebuilding a batch makes it fresh and leaves the others of the rebuild current.
LEMMA RebuildBatchIsCurrent ==
    ASSUME IInv, NEW h \in Handler, NEW b \in Batch, RebuildBatch(h, b), RebuildIsCurrent(h)
    PROVE  /\ RebuildIsCurrent(h)'
           /\ IsFresh(b)'
           /\ \A a \in Batch \ {b} : IsFresh(a)' <=> IsFresh(a)
           /\ \A a \in handler[h].pending \ {b} : /\ handler'[h].pc = "rebuild"
                                                  /\ a \in handler'[h].pending
<1>0. PICK ids, bs, scope : /\ ids = handler[h].snapshot /\ bs = handler[h].pending
                            /\ scope = Scope(h)
  OBVIOUS
<1>1. /\ handler \in [Handler -> Local] /\ handler[h] \in Local
      /\ ids \in SUBSET UsableRows /\ handler[h].pc = "rebuild"
      /\ b \in bs
  BY <1>0 DEF IInv, HandlersAreSound, LocalIsSound, RebuildBatch
<1>2. Rebuild(b, ids)
  BY <1>0 DEF RebuildBatch, Rebuild
<1>3. UNCHANGED <<sources, records>>
  BY <1>2 DEF Rebuild
<1>4. \A a : /\ IdsOfBatch(Usable, a)' = IdsOfBatch(Usable, a)
             /\ IdsOfBatch(ids, a)' = IdsOfBatch(ids, a)
  BY <1>3 DEF IdsOfBatch, Usable, Stored, IsRegistered
<1>5. /\ \A a \in bs : IdsOfBatch(ids, a) = IdsOfBatch(Usable, a)
      /\ \A a \in scope \ bs : IsFresh(a)
  BY <1>0, <1>1 DEF RebuildIsCurrent
<1>6. IsFresh(b)' /\ \A a \in Batch \ {b} : IsFresh(a)' <=> IsFresh(a)
  BY <1>1, <1>2, <1>5, RebuildMakesFresh DEF IInv, LInv
<1>7. scope \subseteq Batch
  <2>1. IsCollecting(h) => TouchedBatches(handler[h].outcome) \subseteq Batch
    <3>. SUFFICES ASSUME IsCollecting(h)
                  PROVE  TouchedBatches(handler[h].outcome) \subseteq Batch
      OBVIOUS
    <3>1. handler[h].outcome.records \in Seq(Row)
      BY <1>1, OutcomesAreTyped DEF IInv, HandlersAreSound, LocalIsSound, IsCollecting, Outcome
    <3>2. \A i \in DOMAIN handler[h].outcome.records : handler[h].outcome.records[i] \in Row
      BY <3>1, ElementOfSeq, LenProperties
    <3>. QED
      BY <3>2 DEF TouchedBatches, Row
  <2>. QED
    BY <1>0, <2>1 DEF Scope
<1>8. \A a \in scope \ (bs \ {b}) : IsFresh(a)'
  BY <1>5, <1>6, <1>7
<1>9. CASE bs = {b}
  <2>1. RebuildReturns(h)
    BY <1>0, <1>9 DEF RebuildBatch
  <2>2. CASE IsCollecting(h)
    BY <1>0, <1>6, <1>8, <1>9, <2>1, <2>2, RebuildReturnsTo DEF RebuildIsCurrent
  <2>3. CASE ~ IsCollecting(h)
    BY <1>0, <1>6, <1>8, <1>9, <2>1, <2>3, RebuildReturnsTo DEF RebuildIsCurrent
  <2>. QED
    BY <2>2, <2>3
<1>10. CASE bs # {b}
  <2>1. handler' = [handler EXCEPT ![h].pending = bs \ {b}]
    BY <1>0, <1>10 DEF RebuildBatch
  <2>2. /\ handler'[h].pc = "rebuild" /\ handler'[h].snapshot = ids
        /\ handler'[h].pending = bs \ {b}
        /\ handler'[h].run = handler[h].run /\ handler'[h].outcome = handler[h].outcome
    BY <1>0, <1>1, <2>1 DEF Local
  <2>3. Scope(h)' = scope
    BY <1>0, <2>2 DEF Scope, IsCollecting
  <2>4. \A a \in bs \ {b} : IdsOfBatch(ids, a)' = IdsOfBatch(Usable, a)'
    BY <1>4, <1>5
  <2>5. RebuildIsCurrent(h)'
    <3>1. \A a \in handler'[h].pending :
              IdsOfBatch(handler[h].snapshot, a)' = IdsOfBatch(Usable, a)'
      BY <2>2, <2>4 DEF IdsOfBatch
    <3>2. \A a \in Scope(h)' \ handler'[h].pending : IsFresh(a)'
      BY <1>8, <2>2, <2>3
    <3>. QED
      BY <2>2, <3>1, <3>2 DEF RebuildIsCurrent
  <2>. QED
    BY <1>0, <1>6, <2>2, <2>5
<1>. QED
  BY <1>9, <1>10

\* With one request at a time nothing else changes what a rebuild has read.
LEMMA NextKeepsRebuildsCurrent ==
    ASSUME OneAtATime, IInv, RunsInv, RebuildsAreCurrent, [Next]_vars
    PROVE  RebuildsAreCurrent'
<1>1. ASSUME NEW h \in Handler, UNCHANGED handler, UNCHANGED records,
             Usable' = Usable, \A b : IsFresh(b)' <=> IsFresh(b)
      PROVE  RebuildIsCurrent(h)'
  <2>1. Scope(h)' = Scope(h)
    BY <1>1 DEF Scope, IsCollecting
  <2>2. \A b : /\ IdsOfBatch(Usable, b)' = IdsOfBatch(Usable, b)
               /\ IdsOfBatch(handler[h].snapshot, b)' = IdsOfBatch(handler[h].snapshot, b)
    BY <1>1 DEF IdsOfBatch
  <2>. QED
    BY <1>1, <2>1, <2>2 DEF RebuildsAreCurrent, RebuildIsCurrent
<1>2. CASE UNCHANGED vars
  BY <1>1, <1>2, TablesStayFresh DEF vars, tables, ledger, RebuildsAreCurrent
<1>3. ASSUME NEW s \in SourceId, Register(s)
      PROVE  RebuildsAreCurrent'
  <2>1. UNCHANGED <<handler, records>>
    BY <1>3 DEF Register
  <2>. QED
    BY <1>1, <1>3, <2>1, RegisterStaysFresh DEF RebuildsAreCurrent
<1>4. CASE Crash
  BY <1>4, IdleIsSound DEF Crash, RebuildsAreCurrent, RebuildIsCurrent
<1>5. ASSUME NEW h \in Handler, Arrive(h) \/ Proceed(h) \/ DatabaseFails(h)
      PROVE  RebuildsAreCurrent'
  <2>1. RebuildIsCurrent(h)'
    <3>1. CASE ReadRecords(h)
      BY <3>1, ReadRecordsIsCurrent
    <3>2. ASSUME NEW b \in Batch, RebuildBatch(h, b) PROVE RebuildIsCurrent(h)'
      BY <3>2, RebuildBatchIsCurrent DEF RebuildsAreCurrent
    <3>3. CASE ~ ReadRecords(h) /\ \A b \in Batch : ~ RebuildBatch(h, b)
      BY <1>5, <3>3, OnlyTheseRebuild DEF RebuildIsCurrent
    <3>. QED
      BY <3>1, <3>2, <3>3
  <2>. QED
    BY <2>1 DEF OneAtATime, RebuildsAreCurrent
<1>. QED
  BY <1>2, <1>3, <1>4, <1>5 DEF Next

(***************************************************************************)
(* Without faults, nothing stays stale.                                    *)
(***************************************************************************)
\* The batches a request is going to make fresh.
ToRebuild(h) ==
    {b \in Batch : \/ handler[h].pc \in {"master", "read"} /\ b \in Scope(h)
                   \/ handler[h].pc = "rebuild" /\ b \in handler[h].pending}

StaleIsRebuilt == \A b \in Batch : IsFresh(b) \/ \E h \in Handler : b \in ToRebuild(h)

\* These actions leave every batch as fresh as it is.
LEMMA OtherActionsStayFresh ==
    ASSUME NEW h \in Handler, Arrive(h) \/ Proceed(h) \/ DatabaseFails(h),
           ~ StoreRecords(h), ~ DeleteSource(h), \A b \in Batch : ~ RebuildBatch(h, b)
    PROVE  /\ UNCHANGED <<sources, records, canonical, contributions>>
           /\ \A b : IsFresh(b)' <=> IsFresh(b)
<1>1. UNCHANGED <<sources, records, canonical, contributions>>
  BY DEF Arrive, Reconcile, Remove, Collect, DatabaseFails, Proceed, tables, ledger,
         ReadRecords, RebuildAborts, DeleteFindsNothing, CreateRun, CreateRunFails,
         CollectorReturns, CollectorThrows, ReadKnownRecordIds, StoreFails,
         ApplyMasterData, FinishRun, FailRun, UpdateFindsNoRun
<1>. QED
  BY <1>1, TablesStayFresh

\* A request with nothing stored yet, or with everything rebuilt, has nothing to rebuild.
LEMMA OnlyTheseHaveToRebuild ==
    ASSUME IInv, RebuildsAreCurrent, OneAtATime,
           NEW h \in Handler, Arrive(h) \/ Proceed(h) \/ DatabaseFails(h), Faults = {},
           ToRebuild(h) # {}
    PROVE  ReadRecords(h) \/ ApplyMasterData(h) \/ \E b \in Batch : RebuildBatch(h, b)
<1>1. handler[h].pc \in {"master", "read", "rebuild"}
  BY DEF ToRebuild
<1>2. ~ RebuildAborts(h)
  <2>1. SUFFICES ASSUME handler[h].pc = "rebuild", NEW b \in handler[h].pending
                 PROVE  IdsOfBatch(handler[h].snapshot, b) \subseteq Stored
    BY DEF RebuildAborts, OneAtATime
  <2>2. IdsOfBatch(handler[h].snapshot, b) = IdsOfBatch(Usable, b)
    BY <2>1 DEF RebuildsAreCurrent, RebuildIsCurrent
  <2>. QED
    BY <2>2 DEF IdsOfBatch, Usable
<1>. QED
  BY <1>1, <1>2
     DEF Arrive, Reconcile, Remove, Collect, DatabaseFails, Proceed, DeleteSource,
         DeleteFindsNothing, CreateRun, CreateRunFails, CollectorReturns, CollectorThrows,
         ReadKnownRecordIds, StoreRecords, StoreFails, FinishRun, FailRun, UpdateFindsNoRun

\* What a step makes stale, the request it is a step of is going to rebuild.
LEMMA NextKeepsStaleRebuilt ==
    ASSUME OneAtATime, Faults = {}, IInv, RunsInv, RebuildsAreCurrent, StaleIsRebuilt,
           [Next]_vars
    PROVE  StaleIsRebuilt'
<1>1. ASSUME UNCHANGED handler, \A b : IsFresh(b)' <=> IsFresh(b)
      PROVE  StaleIsRebuilt'
  <2>1. \A h \in Handler : ToRebuild(h)' = ToRebuild(h)
    BY <1>1 DEF ToRebuild, Scope, IsCollecting
  <2>. QED
    BY <1>1, <2>1 DEF StaleIsRebuilt
<1>2. CASE UNCHANGED vars
  BY <1>1, <1>2, TablesStayFresh DEF vars, tables, ledger
<1>3. ASSUME NEW s \in SourceId, Register(s)
      PROVE  StaleIsRebuilt'
  BY <1>1, <1>3, RegisterStaysFresh DEF Register
<1>4. ~ Crash
  BY DEF Crash
<1>5. ASSUME NEW h \in Handler, Arrive(h) \/ Proceed(h) \/ DatabaseFails(h),
             NEW b \in Batch, ~ IsFresh(b)'
      PROVE  b \in ToRebuild(h)'
  <2>1. /\ handler \in [Handler -> Local] /\ handler[h] \in Local /\ LocalIsSound(handler[h])
    BY DEF IInv, HandlersAreSound
  <2>2. IsFresh(b) \/ b \in ToRebuild(h)
    BY DEF StaleIsRebuilt, OneAtATime
  <2>3. CASE DeleteSource(h)
    <3>1. handler'[h].pc = "read" /\ handler'[h].run = Null
      BY <2>1, <2>3 DEF DeleteSource, LocalIsSound, Local
    <3>. QED
      BY <3>1 DEF ToRebuild, Scope, IsCollecting
  <2>4. CASE StoreRecords(h)
    <3>1. /\ handler'[h].pc \in {"read", "master"} /\ handler[h].pc = "store"
          /\ handler'[h].run = handler[h].run /\ handler'[h].outcome = handler[h].outcome
      BY <2>4, StoreRecordsGoesOn
    <3>2. Scope(h)' = Scope(h) /\ handler[h].run # Null
      BY <2>1, <3>1 DEF Scope, IsCollecting, LocalIsSound
    <3>3. IsFresh(b)
      BY <2>2, <3>1 DEF ToRebuild
    <3>4. b \in TouchedBatches(handler[h].outcome)
      BY <1>5, <2>4, <3>3, StoreStaysFresh
    <3>5. b \in Scope(h)
      BY <3>2, <3>4 DEF Scope, IsCollecting
    <3>. QED
      BY <3>1, <3>2, <3>5 DEF ToRebuild
  <2>5. ASSUME NEW a \in Batch, RebuildBatch(h, a) PROVE b \in ToRebuild(h)'
    <3>1. /\ a # b => (IsFresh(b)' <=> IsFresh(b))
          /\ IsFresh(a)'
          /\ b \in handler[h].pending \ {a} => /\ handler'[h].pc = "rebuild"
                                               /\ b \in handler'[h].pending
      BY <2>5, RebuildBatchIsCurrent DEF RebuildsAreCurrent
    <3>2. a # b /\ b \in handler[h].pending
      BY <1>5, <2>2, <2>5, <3>1 DEF ToRebuild, RebuildBatch
    <3>. QED
      BY <3>1, <3>2 DEF ToRebuild
  <2>6. CASE ReadRecords(h)
    <3>1. ~ IsFresh(b)
      BY <1>5, <2>6, TablesStayFresh DEF ReadRecords, tables, ledger
    <3>2. b \in Scope(h)
      BY <2>2, <2>6, <3>1 DEF ToRebuild, ReadRecords
    <3>3. handler'[h].pc = "rebuild" /\ b \in handler'[h].pending
      BY <2>6, <3>1, <3>2, ReadRecordsIsCurrent
    <3>. QED
      BY <3>3 DEF ToRebuild
  <2>7. CASE ApplyMasterData(h)
    <3>1. ~ IsFresh(b)
      BY <1>5, <2>7, TablesStayFresh DEF ApplyMasterData
    <3>2. b \in Scope(h)
      BY <2>2, <2>7, <3>1 DEF ToRebuild, ApplyMasterData
    <3>3. /\ handler'[h].pc \in {"read", "master"}
          /\ handler'[h].run = handler[h].run /\ handler'[h].outcome = handler[h].outcome
      BY <2>1, <2>7 DEF ApplyMasterData, Local
    <3>. QED
      BY <3>2, <3>3 DEF ToRebuild, Scope, IsCollecting
  <2>8. CASE /\ ~ DeleteSource(h) /\ ~ StoreRecords(h)
             /\ ~ ReadRecords(h) /\ ~ ApplyMasterData(h)
             /\ \A a \in Batch : ~ RebuildBatch(h, a)
    <3>1. ~ IsFresh(b)
      BY <1>5, <2>8, OtherActionsStayFresh
    <3>2. ToRebuild(h) # {}
      BY <2>2, <3>1
    <3>. QED
      BY <1>5, <2>8, <3>2, OnlyTheseHaveToRebuild
  <2>. QED
    BY <2>3, <2>4, <2>5, <2>6, <2>7, <2>8
<1>. QED
  BY <1>2, <1>3, <1>4, <1>5 DEF Next, StaleIsRebuilt

\* A rebuild that nothing runs beside always works on current records.
LEMMA RebuildsStayCurrent == OneAtATime => (Spec => []RebuildsAreCurrent)
<1>. SUFFICES ASSUME OneAtATime PROVE Spec => []RebuildsAreCurrent
  OBVIOUS
<1>1. Init => RebuildsAreCurrent
  BY IdleIsSound DEF Init, RebuildsAreCurrent, RebuildIsCurrent
<1>. QED
  BY <1>1, NextKeepsRebuildsCurrent, IInvIsInvariant, RunsInvIsInvariant, PTL DEF Spec

\* When requests come one at a time, whatever fails, a collection whose rebuild is over
\* has left what it touched with the events the stored records imply
\* (normalization.service.ts:10-15, sources.service.ts:214-217).
THEOREM RebuildsRepair == OneAtATime => (Spec => []RebuildRepairs)
<1>. SUFFICES ASSUME OneAtATime PROVE Spec => []RebuildRepairs
  OBVIOUS
<1>1. RebuildsAreCurrent => RebuildRepairs
  BY DEF RebuildsAreCurrent, RebuildIsCurrent, IsFresh, RebuildRepairs
<1>. QED
  BY <1>1, RebuildsStayCurrent, PTL

\* When requests come one at a time and nothing fails, every batch has, at each station
\* that a stored record still reports, the event derived from its stored records,
\* whatever is collected, removed or reconciled (normalization.service.ts:10-15,
\* sources.service.ts:107-264).  Nothing is said of the events a removal leaves behind
\* without a record (normalization.service.ts:103-105).
THEOREM CanonicalDerived ==
    OneAtATime /\ Faults = {} => (Spec => []CanonicalIsDerived)
<1>. SUFFICES ASSUME OneAtATime, Faults = {} PROVE Spec => []CanonicalIsDerived
  OBVIOUS
<1>1. Init => StaleIsRebuilt
  BY EmptySeq DEF Init, LedgerInit, StaleIsRebuilt, IsFresh, Reported, ObservationsAt,
                  IdsOfBatch, Usable, Stored
<1>2. IInv /\ RunsInv /\ RebuildsAreCurrent /\ StaleIsRebuilt /\ [Next]_vars => StaleIsRebuilt'
  BY NextKeepsStaleRebuilt
<1>3. StaleIsRebuilt => CanonicalIsDerived
  BY DEF StaleIsRebuilt, ToRebuild, CanonicalIsDerived, Quiescent, IsFresh
<1>. QED
  BY <1>1, <1>2, <1>3, IInvIsInvariant, RunsInvIsInvariant, RebuildsStayCurrent, PTL DEF Spec

(***************************************************************************)
(* With faults, staleness has a reason.                                    *)
(***************************************************************************)
StaleIsExcused == \A b \in Batch : IsFresh(b) \/ RunWentWrong(b) \/ LostRecords(b)

\* Records are only added, and stay as they are.
LEMMA RecordsAreKept ==
    ASSUME IInv, [Next]_vars, NEW i \in DOMAIN records
    PROVE  i \in DOMAIN records' /\ records'[i] = records[i]
<1>1. [LedgerNext]_ledger
  BY StepRefines
<1>2. CASE UNCHANGED records
  BY <1>2
<1>3. ASSUME NEW s \in SourceId, StoreRows(s)
      PROVE  i \in DOMAIN records' /\ records'[i] = records[i]
  <2>1. /\ records' \in Seq(Record) /\ records \in Seq(Record)
        /\ \A j \in DOMAIN records : records'[j] = records[j]
    BY <1>3 DEF StoreRows, IInv, LInv, LedgerTypeOK
  <2>2. PICK outcome \in Outcomes[s] : Len(records') = Len(records) + Len(outcome.records)
    BY <1>3 DEF StoreRows
  <2>3. Len(outcome.records) \in Nat
    BY OutcomesAreTyped, LenProperties DEF Outcome
  <2>4. /\ DOMAIN records' = 1..Len(records') /\ DOMAIN records = 1..Len(records)
        /\ Len(records) \in Nat
    BY <2>1, LenProperties
  <2>. QED
    BY <2>1, <2>2, <2>3, <2>4
<1>. QED
  BY <1>1, <1>2, <1>3 DEF LedgerNext, RegisterSource, RemoveSource, Publish, Rebuild, ledger

\* What went with its source does not come back.
LEMMA LostStaysLost ==
    ASSUME IInv, [Next]_vars, NEW b, LostRecords(b)
    PROVE  LostRecords(b)'
<1>1. PICK i \in DOMAIN records : /\ records[i].row.batchId = b
                                  /\ sources[records[i].source] = "removed"
  BY DEF LostRecords, IdsOfBatch
<1>2. i \in DOMAIN records' /\ records'[i] = records[i]
  BY RecordsAreKept
<1>3. records[i].source \in SourceId
  BY RecordsAreTyped DEF IInv, LInv, Record
<1>4. sources'[records[i].source] = "removed"
  BY <1>1, <1>3, SourcesAreKept
<1>. QED
  BY <1>1, <1>2, <1>4 DEF LostRecords, IdsOfBatch

\* The records of a run that is finished are of batches its rebuild has made fresh.
LEMMA FinishedRunIsFresh ==
    ASSUME IInv, RunsInv, RebuildsAreCurrent, NEW h \in Handler, FinishRun(h),
           NEW b \in Batch, NEW i \in IdsOfBatch(Stored, b), records[i].run = handler[h].run
    PROVE  IsFresh(b)
<1>1. LocalIsSound(handler[h]) /\ RunHoldsItsRows(handler[h]) /\ handler[h].pc = "finish"
  BY DEF IInv, HandlersAreSound, RunsInv, FinishRun
<1>2. handler[h].run # Null
  BY <1>1 DEF LocalIsSound
<1>3. PICK rows : rows = handler[h].outcome.records
  OBVIOUS
<1>4. PICK n \in Nat :
          /\ RecordsOfRun(handler[h].run) = {n + j : j \in DOMAIN rows}
          /\ \A j \in DOMAIN rows : records[n + j].row = rows[j]
  BY <1>1, <1>2, <1>3 DEF RunHoldsItsRows, AfterStoring, Holds
<1>5. i \in RecordsOfRun(handler[h].run) /\ records[i].row.batchId = b
  BY DEF IdsOfBatch, Stored, RecordsOfRun
<1>6. PICK j \in DOMAIN rows : rows[j].batchId = b
  BY <1>4, <1>5
<1>7. b \in TouchedBatches(handler[h].outcome)
  BY <1>3, <1>6, NullIsNoData DEF TouchedBatches
<1>8. b \in Scope(h)
  BY <1>2, <1>7 DEF Scope, IsCollecting
<1>. QED
  BY <1>1, <1>8 DEF RebuildsAreCurrent, RebuildIsCurrent

\* A batch that rows are stored for is excused until their run ends.
LEMMA StoredIsExcused ==
    ASSUME IInv, RunsInv, NEW h \in Handler, StoreRecords(h),
           NEW b \in TouchedBatches(handler[h].outcome)
    PROVE  RunWentWrong(b)'
<1>0. PICK rows, n, run : /\ rows = handler[h].outcome.records
                          /\ n = Len(records)
                          /\ run = handler[h].run
  OBVIOUS
<1>1. PICK j \in DOMAIN rows : rows[j].batchId = b
  BY <1>0 DEF TouchedBatches
<1>2. /\ n \in Nat /\ DOMAIN records = 1..n
      /\ Len(rows) \in Nat /\ DOMAIN rows = 1..Len(rows)
      /\ DOMAIN records' = 1..(n + Len(rows))
      /\ \A k \in DOMAIN rows : /\ records'[n + k].source = handler[h].source
                              /\ records'[n + k].run = handler[h].run
                              /\ records'[n + k].row = rows[k]
  BY <1>0, RowsAreAppended
<1>3. /\ run \in DOMAIN runs /\ runs[run].status = "RUNNING"
      /\ handler[h].source = runs[run].source
  BY <1>0, RowsAreOfTheRun
<1>4. UNCHANGED <<sources, runs>> /\ RunExists(run)
  BY <1>0 DEF StoreRecords
<1>5. PICK i : i = n + j
  OBVIOUS
<1>6. /\ i \in DOMAIN records' /\ records'[i].row.batchId = b /\ records'[i].run = run
      /\ IsRegistered(records'[i].source)
  <2>1. i \in 1..(n + Len(rows))
    BY <1>1, <1>2, <1>5
  <2>2. /\ records'[i].source = handler[h].source
        /\ records'[i].run = run /\ records'[i].row = rows[j]
    BY <1>0, <1>1, <1>2, <1>5
  <2>3. IsRegistered(handler[h].source)
    BY <1>3, <1>4 DEF RunExists
  <2>. QED
    BY <1>1, <1>2, <2>1, <2>2, <2>3
<1>7. i \in IdsOfBatch(Stored, b)'
  BY <1>4, <1>6 DEF IdsOfBatch, Stored, IsRegistered
<1>. QED
  BY <1>3, <1>4, <1>6, <1>7 DEF RunWentWrong

\* Records that are stored excuse as before while their runs stay as they are.
LEMMA StaysExcused ==
    ASSUME NEW b, Stored \subseteq Stored',
           \A i \in IdsOfBatch(Stored, b) :
               /\ records'[i] = records[i]
               /\ runs[records[i].run].status \in {"RUNNING", "FAILED"} =>
                      runs'[records[i].run].status \in {"RUNNING", "FAILED"},
           RunWentWrong(b)
    PROVE  RunWentWrong(b)'
<1>1. PICK i \in IdsOfBatch(Stored, b) : runs[records[i].run].status \in {"RUNNING", "FAILED"}
  BY DEF RunWentWrong
<1>2. i \in IdsOfBatch(Stored, b)'
  BY <1>1 DEF IdsOfBatch
<1>. QED
  BY <1>1, <1>2 DEF RunWentWrong

\* A batch that loses no record to a removal is left as it was.
LEMMA RemovalOfOthers ==
    ASSUME IInv, NEW h \in Handler, DeleteSource(h), NEW b \in Batch, ~ LostRecords(b)'
    PROVE  /\ IsFresh(b)' <=> IsFresh(b)
           /\ RunWentWrong(b) => RunWentWrong(b)'
<1>1. PICK s \in SourceId : s = handler[h].source
  BY DEF DeleteSource, IInv, HandlersAreSound, LocalIsSound
<1>2. /\ sources' = [sources EXCEPT ![s] = "removed"]
      /\ contributions' = {c \in contributions : records[c.recordId].source # s}
      /\ UNCHANGED <<runs, records, canonical>>
      /\ sources \in [SourceId -> SourceState]
  BY <1>1 DEF DeleteSource, IInv, LInv, LedgerTypeOK
<1>3. \A i \in DOMAIN records : records[i].source \in SourceId
  BY RecordsAreTyped DEF IInv, LInv, Record
<1>4. \A i \in IdsOfBatch(DOMAIN records, b) : records[i].source # s
  BY <1>2 DEF LostRecords, IdsOfBatch
<1>5. ASSUME NEW i \in DOMAIN records, records[i].row.batchId = b
      PROVE  IsRegistered(records[i].source)' <=> IsRegistered(records[i].source)
  BY <1>2, <1>3, <1>4, <1>5 DEF IsRegistered, IdsOfBatch
<1>6. IdsOfBatch(Stored, b)' = IdsOfBatch(Stored, b)
  BY <1>2, <1>5 DEF IdsOfBatch, Stored
<1>7. IdsOfBatch(Usable, b)' = IdsOfBatch(Usable, b)
  BY <1>2, <1>5 DEF IdsOfBatch, Usable, Stored
<1>8. ASSUME NEW t
      PROVE  {c \in contributions' : c.batchId = b /\ c.station = t}
               = {c \in contributions : c.batchId = b /\ c.station = t}
  <2>1. ASSUME NEW c \in contributions, c.batchId = b PROVE records[c.recordId].source # s
    <3>1. c.recordId \in DOMAIN records /\ records[c.recordId].row.batchId = b
      BY <2>1 DEF IInv, LInv, ContributionsAreSound, Usable, Stored
    <3>. QED
      BY <1>4, <3>1 DEF IdsOfBatch
  <2>. QED
    BY <1>2, <2>1
<1>9. /\ Reported(Usable, b)' = Reported(Usable, b)
      /\ \A t : /\ EventOf(Usable, b, t)' = EventOf(Usable, b, t)
                /\ ContributionsOf(Usable, b, t)' = ContributionsOf(Usable, b, t)
  BY <1>2, <1>7, BatchStaysReported
<1>10. IsFresh(b)' <=> IsFresh(b)
  BY <1>2, <1>8, <1>9 DEF IsFresh, IsDerived
<1>11. RunWentWrong(b) => RunWentWrong(b)'
  BY <1>2, <1>6 DEF RunWentWrong
<1>. QED
  BY <1>10, <1>11

\* A batch with neither fresh events, nor a run that went wrong, nor records lost to a
\* removal is never left behind.
LEMMA NextKeepsStaleExcused ==
    ASSUME OneAtATime, IInv, RunsInv, RebuildsAreCurrent, StaleIsExcused, [Next]_vars
    PROVE  StaleIsExcused'
<1>. SUFFICES ASSUME NEW b \in Batch, ~ LostRecords(b)'
              PROVE  IsFresh(b)' \/ RunWentWrong(b)'
  BY DEF StaleIsExcused
<1>1. IsFresh(b) \/ RunWentWrong(b)
  BY LostStaysLost DEF StaleIsExcused
<1>2. ASSUME UNCHANGED <<records, runs>>, Stored' = Stored, IsFresh(b)' <=> IsFresh(b)
      PROVE  IsFresh(b)' \/ RunWentWrong(b)'
  BY <1>1, <1>2, StaysExcused
<1>3. CASE UNCHANGED vars
  BY <1>2, <1>3, TablesStayFresh DEF vars, tables, ledger
<1>4. ASSUME NEW s \in SourceId, Register(s)
      PROVE  IsFresh(b)' \/ RunWentWrong(b)'
  BY <1>2, <1>4, RegisterStaysFresh DEF Register
<1>5. CASE Crash
  BY <1>2, <1>5, TablesStayFresh DEF Crash, tables, ledger
<1>6. ASSUME NEW h \in Handler, Arrive(h) \/ Proceed(h) \/ DatabaseFails(h)
      PROVE  IsFresh(b)' \/ RunWentWrong(b)'
  <2>1. CASE DeleteSource(h)
    BY <1>1, <2>1, RemovalOfOthers
  <2>2. CASE StoreRecords(h)
    <3>1. CASE b \in TouchedBatches(handler[h].outcome)
      BY <2>2, <3>1, StoredIsExcused
    <3>2. CASE b \notin TouchedBatches(handler[h].outcome)
      <4>1. IsFresh(b)' <=> IsFresh(b)
        BY <2>2, <3>2, StoreStaysFresh
      <4>2. /\ UNCHANGED <<sources, runs>>
            /\ \A i \in DOMAIN records : i \in DOMAIN records' /\ records'[i] = records[i]
        BY <2>2, StoredRows DEF StoreRecords
      <4>3. /\ Stored \subseteq Stored'
            /\ \A i \in IdsOfBatch(Stored, b) : records'[i] = records[i]
        BY <4>2 DEF Stored, IdsOfBatch, IsRegistered
      <4>. QED
        BY <1>1, <4>1, <4>2, <4>3, StaysExcused
    <3>. QED
      BY <3>1, <3>2
  <2>3. ASSUME NEW a \in Batch, RebuildBatch(h, a) PROVE IsFresh(b)' \/ RunWentWrong(b)'
    <3>1. IsFresh(a)' /\ (a # b => (IsFresh(b)' <=> IsFresh(b)))
      BY <2>3, RebuildBatchIsCurrent DEF RebuildsAreCurrent
    <3>2. UNCHANGED <<sources, records, runs>>
      BY <2>3 DEF RebuildBatch
    <3>3. Stored' = Stored
      BY <3>2 DEF Stored, IsRegistered
    <3>. QED
      BY <1>2, <3>1, <3>2, <3>3
  <2>4. CASE ~ StoreRecords(h) /\ ~ DeleteSource(h) /\ \A a \in Batch : ~ RebuildBatch(h, a)
    <3>1. /\ UNCHANGED <<sources, records, canonical, contributions>>
          /\ IsFresh(b)' <=> IsFresh(b)
      BY <1>6, <2>4, OtherActionsStayFresh
    <3>2. Stored' = Stored
      BY <3>1 DEF Stored, IsRegistered
    <3>3. CASE UNCHANGED runs
      BY <1>2, <3>1, <3>2, <3>3
    <3>4. CASE CreateRun(h)
      <4>1. \A r \in DOMAIN runs : runs'[r] = runs[r]
        BY <3>4, AppendProperties, LenProperties DEF CreateRun, IInv, HandlersAreSound
      <4>2. \A i \in IdsOfBatch(Stored, b) : records[i].run \in DOMAIN runs
        BY DEF IdsOfBatch, Stored, RunsInv, RecordsHaveRuns
      <4>. QED
        BY <1>1, <3>1, <3>2, <4>1, <4>2, StaysExcused
    <3>5. CASE FailRun(h) \/ FinishRun(h)
      <4>1. PICK n : n = handler[h].run
        OBVIOUS
      <4>2. n \in DOMAIN runs /\ \A r \in DOMAIN runs \ {n} : runs'[r] = runs[r]
        BY <3>5, <4>1, RunEnds DEF IInv, HandlersAreSound, LocalIsSound, IsCollecting
      <4>3. FailRun(h) => runs'[n].status = "FAILED"
        BY <4>1, <4>2, RunsAreTyped DEF FailRun, Run
      <4>4. \A i \in IdsOfBatch(Stored, b) : records[i].run \in DOMAIN runs
        BY DEF IdsOfBatch, Stored, RunsInv, RecordsHaveRuns
      <4>5. CASE FinishRun(h) /\ \E i \in IdsOfBatch(Stored, b) : records[i].run = n
        BY <3>1, <4>1, <4>5, FinishedRunIsFresh
      <4>6. CASE FailRun(h) \/ \A i \in IdsOfBatch(Stored, b) : records[i].run # n
        BY <1>1, <3>1, <3>2, <4>2, <4>3, <4>4, <4>6, StaysExcused
      <4>. QED
        BY <3>5, <4>5, <4>6
    <3>6. UNCHANGED runs \/ CreateRun(h) \/ FailRun(h) \/ FinishRun(h)
      BY <1>6, <2>4, OnlyTheseWriteRuns
    <3>. QED
      BY <3>3, <3>4, <3>5, <3>6
  <2>. QED
    BY <2>1, <2>2, <2>3, <2>4
<1>. QED
  BY <1>3, <1>4, <1>5, <1>6 DEF Next

\* Every event was reported by some record, which may be gone with its source.
EventsWereReported ==
    \A b \in Batch : \A s \in Station : canonical[b][s] # Null =>
        \E i \in UsableRows : records[i].row.batchId = b /\ records[i].row.station = s

LEMMA NextKeepsEventsReported ==
    ASSUME IInv, EventsWereReported, [Next]_vars
    PROVE  EventsWereReported'
<1>. SUFFICES ASSUME NEW b \in Batch, NEW s \in Station, canonical'[b][s] # Null
              PROVE  \E i \in UsableRows' : /\ records'[i].row.batchId = b
                                            /\ records'[i].row.station = s
  BY DEF EventsWereReported
<1>1. SUFFICES \E i \in UsableRows : /\ records[i].row.batchId = b
                                     /\ records[i].row.station = s
  BY RecordsAreKept DEF UsableRows
<1>2. CASE canonical[b][s] # Null
  BY <1>2 DEF EventsWereReported
<1>3. ASSUME NEW a \in Batch, NEW ids \in SUBSET UsableRows, Rebuild(a, ids),
             canonical[b][s] = Null
      PROVE  \E i \in UsableRows : /\ records[i].row.batchId = b
                                   /\ records[i].row.station = s
  <2>1. a = b /\ s \in Reported(ids, b)
    BY <1>3, RebuildWrites DEF IInv, LInv
  <2>. QED
    BY <2>1 DEF Reported, ObservationsAt, IdsOfBatch
<1>4. CASE UNCHANGED canonical
  BY <1>2, <1>4
<1>5. [LedgerNext]_ledger
  BY StepRefines
<1>. QED
  BY <1>2, <1>3, <1>4, <1>5
     DEF LedgerNext, RegisterSource, RemoveSource, StoreRows, Publish, ledger

LEMMA EventsReportedIsInvariant == Spec => []EventsWereReported
<1>1. Init => EventsWereReported
  BY DEF Init, LedgerInit, EventsWereReported
<1>. QED
  BY <1>1, NextKeepsEventsReported, IInvIsInvariant, PTL DEF Spec

\* While a batch has all its records, an event that none of them reports is no event.
LEMMA UnreportedIsNull ==
    ASSUME IInv, RunsInv, EventsWereReported, NEW b \in Batch, NEW s \in Station,
           ~ LostRecords(b), s \notin Reported(Usable, b)
    PROVE  canonical[b][s] = Null
<1>. SUFFICES ASSUME canonical[b][s] # Null PROVE FALSE
  OBVIOUS
<1>1. PICK i \in UsableRows : records[i].row.batchId = b /\ records[i].row.station = s
  BY DEF EventsWereReported
<1>2. i \in DOMAIN records /\ IsUsable(records[i].row)
  BY DEF UsableRows
<1>3. records[i].source \in SourceId /\ sources \in [SourceId -> SourceState]
  BY <1>2, RecordsAreTyped DEF IInv, LInv, LedgerTypeOK, Record
<1>4. sources[records[i].source] # "removed"
  BY <1>1, <1>2 DEF LostRecords, IdsOfBatch
<1>5. sources[records[i].source] # "unregistered"
  BY <1>2 DEF RunsInv, RecordsHaveRuns
<1>6. i \in Usable
  BY <1>2, <1>3, <1>4, <1>5 DEF Usable, Stored, IsRegistered, SourceState
<1>7. ObservationOf(i) \in ObservationsAt(Usable, b, s)
  BY <1>1, <1>6 DEF ObservationsAt, IdsOfBatch
<1>. QED
  BY <1>7 DEF Reported

\* When requests come one at a time, whatever fails, and however often the process
\* dies, an event that is not the one its batch's records imply belongs to a batch with
\* a record of a run that did not end well, or with records that were removed with
\* their source (sources.service.ts:78-84 and 151-264).
THEOREM StaleOnlyAfterFailures == OneAtATime => (Spec => []StaleOnlyAfterFailure)
<1>. SUFFICES ASSUME OneAtATime PROVE Spec => []StaleOnlyAfterFailure
  OBVIOUS
<1>1. Init => StaleIsExcused
  BY EmptySeq DEF Init, LedgerInit, StaleIsExcused, IsFresh, Reported, ObservationsAt,
                  IdsOfBatch, Usable, Stored
<1>2. IInv /\ RunsInv /\ RebuildsAreCurrent /\ StaleIsExcused /\ [Next]_vars => StaleIsExcused'
  BY NextKeepsStaleExcused
<1>3. IInv /\ RunsInv /\ EventsWereReported /\ StaleIsExcused => StaleOnlyAfterFailure
  BY UnreportedIsNull DEF StaleIsExcused, StaleOnlyAfterFailure, IsFresh, IsDerived
<1>. QED
  BY <1>1, <1>2, <1>3, IInvIsInvariant, RunsInvIsInvariant, RebuildsStayCurrent,
     EventsReportedIsInvariant, PTL DEF Spec
=============================================================================
