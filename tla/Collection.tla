----------------------------- MODULE Collection -----------------------------
(***************************************************************************)
(* Collecting from sources, and deriving canonical events from what was    *)
(* collected (apps/api/src/sources/sources.service.ts,                     *)
(* apps/api/src/normalization/normalization.service.ts), over the tables   *)
(* of Ledger.tla and the CollectionRun table.                              *)
(*                                                                         *)
(* The API serves requests concurrently and every `await` of a handler is  *)
(* a point where others run, so a request is a Handler that moves through  *)
(* one action per round trip to the database or to the source.  Nothing    *)
(* but rebuildBatch runs in a transaction, and nothing is locked.          *)
(***************************************************************************)
EXTENDS Ledger

CONSTANTS Handler,      \* requests that can be in progress at once
          Faults,       \* what may go wrong outside the code
          MaxRuns       \* bound: how many runs are ever created

ASSUME BoundsAreSound == Faults \subseteq {"database", "crash"} /\ MaxRuns \in Nat

\* Collector.tla: no row is rejected without an error.
ASSUME OutcomesKeepTheContract ==
    \A s \in SourceId : \A outcome \in Outcomes[s] :
        Cardinality({i \in DOMAIN outcome.records : outcome.records[i].parseError})
            <= outcome.errors

VARIABLES
    runs,           \* every CollectionRun created, in creation order
    handler         \* the requests in progress, in memory only

tables == <<ledger, runs>>
vars == <<tables, handler>>

RunStatus == {"RUNNING", "SUCCEEDED", "PARTIAL", "FAILED"}

Run == [source : SourceId, status : RunStatus, stored : Nat,
        duplicate : Nat, rejected : Nat, errors : Nat]

PC == {"idle", "create", "collect", "known", "store", "master", "read",
       "rebuild", "finish", "fail", "delete"}

\* The variables of a request handler that live across its awaits.  A snapshot
\* is kept as record ids: the code never updates a row.
Local == [pc         : PC,
          source     : SourceId \cup {Null},
          run        : Nat \cup {Null},
          outcome    : Outcome \cup {Null},
          duplicates : Nat,
          todo       : SUBSET Nat,
          snapshot   : SUBSET Nat,
          pending    : SUBSET Batch]

Idle == [pc |-> "idle", source |-> Null, run |-> Null, outcome |-> Null,
         duplicates |-> 0, todo |-> {}, snapshot |-> {}, pending |-> {}]

Init ==
    /\ LedgerInit
    /\ runs = <<>>
    /\ handler = [h \in Handler |-> Idle]
-----------------------------------------------------------------------------
\* Runs are deleted only by the cascade from their source.
RunExists(r) == r \in DOMAIN runs /\ IsRegistered(runs[r].source)
-----------------------------------------------------------------------------
(***************************************************************************)
(* The steps shared by the request handlers.                               *)
(***************************************************************************)
IsCollecting(h) == handler[h].run # Null

Done(h) == handler' = [handler EXCEPT ![h] = Idle]

\* normalization.rebuild has returned.
RebuildReturns(h) ==
    IF IsCollecting(h)
    THEN handler' = [handler EXCEPT ![h].pc = "finish", ![h].snapshot = {},
                                    ![h].pending = {}]
    ELSE Done(h)

\* Mutant: no catch block.
ThrowUncaught(h) == Done(h)

\* Mutant: a failed rebuild is logged and forgotten.
ThrowIgnoredInRebuild(h) ==
    IF handler[h].pc = "rebuild" THEN RebuildReturns(h)
    ELSE IF IsCollecting(h) /\ handler[h].pc # "fail"
    THEN handler' = [handler EXCEPT ![h].pc = "fail"]
    ELSE Done(h)

\* An exception: collect has a catch block, the other handlers answer 500.
Throw(h) ==
    IF IsCollecting(h) /\ handler[h].pc # "fail"
    THEN handler' = [handler EXCEPT ![h].pc = "fail"]
    ELSE Done(h)

TouchedBatches(outcome) ==
    {outcome.records[i].batchId : i \in DOMAIN outcome.records} \ {Null}

\* An empty list of batches means no restriction.
Scope(h) ==
    IF IsCollecting(h) /\ TouchedBatches(handler[h].outcome) # {}
    THEN TouchedBatches(handler[h].outcome)
    ELSE Batch

\* Mutant: only the records of this run are normalised.
ReadRecordsOfRun(h) ==
    LET ids == {i \in Usable : /\ records[i].row.batchId \in Scope(h)
                               /\ IsCollecting(h) => records[i].run = handler[h].run}
    IN  /\ handler[h].pc = "read"
        /\ IF ids = {}
           THEN RebuildReturns(h)
           ELSE handler' = [handler EXCEPT
                    ![h].pc = "rebuild",
                    ![h].snapshot = ids,
                    ![h].pending = {records[i].row.batchId : i \in ids}]
        /\ UNCHANGED tables


ReadRecords(h) ==
    LET ids == {i \in Usable : records[i].row.batchId \in Scope(h)}
    IN  /\ handler[h].pc = "read"
        /\ IF ids = {}
           THEN RebuildReturns(h)
           ELSE handler' = [handler EXCEPT
                    ![h].pc = "rebuild",
                    ![h].snapshot = ids,
                    ![h].pending = {records[i].row.batchId : i \in ids}]
        /\ UNCHANGED tables

\* Mutant: the contributions are left as they were.
RebuildBatchUnexplained(h, b) ==
    LET ids == handler[h].snapshot
    IN  /\ handler[h].pc = "rebuild"
        /\ b \in handler[h].pending
        /\ IdsOfBatch(ids, b) \subseteq Stored
        /\ canonical' = [canonical EXCEPT ![b] = UpsertEvents(ids, b)]
        /\ UNCHANGED contributions
        /\ IF handler[h].pending = {b}
           THEN RebuildReturns(h)
           ELSE handler' = [handler EXCEPT ![h].pending = @ \ {b}]
        /\ UNCHANGED <<sources, runs, records, master>>

\* One transaction per batch; a contribution to a deleted record would violate
\* its foreign key.
RebuildBatch(h, b) ==
    LET ids == handler[h].snapshot
    IN  /\ handler[h].pc = "rebuild"
        /\ b \in handler[h].pending
        /\ IdsOfBatch(ids, b) \subseteq Stored
        /\ canonical' = [canonical EXCEPT ![b] = UpsertEvents(ids, b)]
        /\ contributions' = RewriteContributions(ids, b)
        /\ IF handler[h].pending = {b}
           THEN RebuildReturns(h)
           ELSE handler' = [handler EXCEPT ![h].pending = @ \ {b}]
        /\ UNCHANGED <<sources, runs, records, master>>

\* The transaction is refused: by a foreign key, or because another request
\* is writing the same rows (a deadlock, a duplicate key on creation).
RebuildAborts(h) ==
    /\ handler[h].pc = "rebuild"
    /\ \E b \in handler[h].pending :
           \/ ~ IdsOfBatch(handler[h].snapshot, b) \subseteq Stored
           \/ \E g \in Handler \ {h} :
                  handler[g].pc = "rebuild" /\ b \in handler[g].pending
    /\ Throw(h)
    /\ UNCHANGED tables
-----------------------------------------------------------------------------
(***************************************************************************)
(* POST /sources, POST /reconcile and DELETE /sources/:id.                 *)
(***************************************************************************)
Register(s) ==
    /\ sources[s] = "unregistered"
    /\ sources' = [sources EXCEPT ![s] = "registered"]
    /\ UNCHANGED <<runs, records, master, canonical, contributions, handler>>

Reconcile(h) ==
    /\ handler[h].pc = "idle"
    /\ handler' = [handler EXCEPT ![h].pc = "read"]
    /\ UNCHANGED tables

\* findSource: an unknown source is answered 404 and changes nothing.
Remove(h, s) ==
    /\ handler[h].pc = "idle"
    /\ IsRegistered(s)
    /\ handler' = [handler EXCEPT ![h].pc = "delete", ![h].source = s]
    /\ UNCHANGED tables

\* Mutant: the contributions are not deleted with their records.
DeleteWithoutCascade(h) ==
    LET s == handler[h].source
    IN  /\ handler[h].pc = "delete"
        /\ IsRegistered(s)
        /\ sources' = [sources EXCEPT ![s] = "removed"]
        /\ handler' = [handler EXCEPT ![h].pc = "read"]
        /\ UNCHANGED <<runs, records, master, canonical, contributions>>

\* The delete cascades to runs, records and contributions in one statement.
DeleteSource(h) ==
    LET s == handler[h].source
    IN  /\ handler[h].pc = "delete"
        /\ IsRegistered(s)
        /\ sources' = [sources EXCEPT ![s] = "removed"]
        /\ contributions' = {c \in contributions : records[c.recordId].source # s}
        /\ handler' = [handler EXCEPT ![h].pc = "read"]
        /\ UNCHANGED <<runs, records, master, canonical>>

DeleteFindsNothing(h) ==
    /\ handler[h].pc = "delete"
    /\ ~ IsRegistered(handler[h].source)
    /\ Throw(h)
    /\ UNCHANGED tables
-----------------------------------------------------------------------------
(***************************************************************************)
(* POST /sources/:id/collect.                                              *)
(***************************************************************************)
Collect(h, s) ==
    /\ handler[h].pc = "idle"
    /\ IsRegistered(s)
    /\ Len(runs) + Cardinality({g \in Handler : handler[g].pc = "create"}) < MaxRuns
    /\ handler' = [handler EXCEPT ![h].pc = "create", ![h].source = s]
    /\ UNCHANGED tables

CreateRun(h) ==
    /\ handler[h].pc = "create"
    /\ IsRegistered(handler[h].source)
    /\ runs' = Append(runs, [source |-> handler[h].source, status |-> "RUNNING",
                             stored |-> 0, duplicate |-> 0, rejected |-> 0,
                             errors |-> 0])
    /\ handler' = [handler EXCEPT ![h].pc = "collect", ![h].run = Len(runs')]
    /\ UNCHANGED <<sources, records, master, canonical, contributions>>

\* The run has no source to belong to: outside the try block.
CreateRunFails(h) ==
    /\ handler[h].pc = "create"
    /\ ~ IsRegistered(handler[h].source)
    /\ Throw(h)
    /\ UNCHANGED tables

\* The collector returns; without rows there is nothing to look up or store.
CollectorReturns(h) ==
    /\ handler[h].pc = "collect"
    /\ \E outcome \in Outcomes[handler[h].source] :
           handler' = [handler EXCEPT
               ![h].pc = IF outcome.records = <<>> THEN "read" ELSE "known",
               ![h].outcome = outcome]
    /\ UNCHANGED tables

\* The source is unreachable, or its credential does not resolve.
CollectorThrows(h) ==
    /\ handler[h].pc = "collect"
    /\ Throw(h)
    /\ UNCHANGED tables

KnownIds(s) ==
    {records[i].row.sourceRecordId : i \in {j \in Stored : records[j].source = s}}

\* Mutant: a row repeated within the run is not noticed.
DuplicatesOfEarlierRuns(rows, known) ==
    {i \in DOMAIN rows : rows[i].sourceRecordId \in known}

\* Rows whose id is known already, or repeats an earlier row of this run.
Duplicates(rows, known) ==
    {i \in DOMAIN rows :
        \/ rows[i].sourceRecordId \in known
        \/ \E j \in 1..(i - 1) : rows[j].sourceRecordId = rows[i].sourceRecordId}

\* The work orders and batch links among the rows.
MasterRows(rows) == {i \in DOMAIN rows : rows[i].master # Null}

\* Mutant: master data is applied before the rows are stored.
ReadKnownThenApply(h) ==
    /\ handler[h].pc = "known"
    /\ handler' = [handler EXCEPT
           ![h].pc = IF MasterRows(handler[h].outcome.records) = {}
                     THEN "store" ELSE "master",
           ![h].todo = MasterRows(handler[h].outcome.records)]
    /\ UNCHANGED tables

ReadKnownRecordIds(h) ==
    /\ handler[h].pc = "known"
    /\ handler' = [handler EXCEPT
           ![h].pc = "store",
           ![h].duplicates = Cardinality(Duplicates(handler[h].outcome.records,
                                                    KnownIds(handler[h].source)))]
    /\ UNCHANGED tables

\* createMany: one statement, every row or none.
StoreRecords(h) ==
    LET rows == handler[h].outcome.records
        todo == MasterRows(rows)
    IN  /\ handler[h].pc = "store"
        /\ RunExists(handler[h].run)
        /\ records' = records \o [i \in DOMAIN rows |->
               [source |-> handler[h].source, run |-> handler[h].run, row |-> rows[i]]]
        /\ handler' = [handler EXCEPT
               ![h].pc = IF todo = {} THEN "read" ELSE "master",
               ![h].todo = todo]
        /\ UNCHANGED <<sources, runs, master, canonical, contributions>>

StoreFails(h) ==
    /\ handler[h].pc = "store"
    /\ ~ RunExists(handler[h].run)
    /\ Throw(h)
    /\ UNCHANGED tables

\* One upsert; the rows are written one at a time, in order, in no transaction.
ApplyMasterData(h) ==
    /\ handler[h].pc = "master"
    /\ \E i \in handler[h].todo :
           /\ \A j \in handler[h].todo : i <= j
           /\ LET data == handler[h].outcome.records[i].master
              IN  master' = [master EXCEPT ![data.key] = data.value]
           /\ handler' = [handler EXCEPT
                  ![h].pc = IF handler[h].todo = {i} THEN "read" ELSE "master",
                  ![h].todo = @ \ {i}]
    /\ UNCHANGED <<sources, runs, records, canonical, contributions>>

Rejected(rows) == {i \in DOMAIN rows : rows[i].parseError}

StatusOf(outcome) ==
    IF outcome.errors = 0 THEN "SUCCEEDED"
    ELSE IF Len(outcome.records) > Cardinality(Rejected(outcome.records))
         THEN "PARTIAL" ELSE "FAILED"

\* Mutant: repeats are not counted as stored.
FinishedWithoutRepeats(run, outcome, duplicates) ==
    [run EXCEPT !.status    = StatusOf(outcome),
                !.stored    = Len(outcome.records) - duplicates,
                !.duplicate = duplicates,
                !.rejected  = Cardinality(Rejected(outcome.records)),
                !.errors    = outcome.errors]

Finished(run, outcome, duplicates) ==
    [run EXCEPT !.status    = StatusOf(outcome),
                !.stored    = Len(outcome.records),
                !.duplicate = duplicates,
                !.rejected  = Cardinality(Rejected(outcome.records)),
                !.errors    = outcome.errors]

\* Mutant: the update selects the runs of the source, not the run.
FinishRunsOfSource(h) ==
    /\ handler[h].pc = "finish"
    /\ RunExists(handler[h].run)
    /\ runs' = [r \in DOMAIN runs |->
           IF runs[r].source = handler[h].source
           THEN Finished(runs[r], handler[h].outcome, handler[h].duplicates)
           ELSE runs[r]]
    /\ Done(h)
    /\ UNCHANGED <<sources, records, master, canonical, contributions>>

FinishRun(h) ==
    /\ handler[h].pc = "finish"
    /\ RunExists(handler[h].run)
    /\ runs' = [runs EXCEPT ![handler[h].run] =
           Finished(@, handler[h].outcome, handler[h].duplicates)]
    /\ Done(h)
    /\ UNCHANGED <<sources, records, master, canonical, contributions>>

\* The catch block: the counters keep what the row held, which is 0.
FailRun(h) ==
    /\ handler[h].pc = "fail"
    /\ RunExists(handler[h].run)
    /\ runs' = [runs EXCEPT ![handler[h].run].status = "FAILED",
                            ![handler[h].run].errors = 1]
    /\ Done(h)
    /\ UNCHANGED <<sources, records, master, canonical, contributions>>

\* The run was deleted with its source: both updates throw.
UpdateFindsNoRun(h) ==
    /\ handler[h].pc \in {"finish", "fail"}
    /\ ~ RunExists(handler[h].run)
    /\ Throw(h)
    /\ UNCHANGED tables
-----------------------------------------------------------------------------
(***************************************************************************)
(* The environment.                                                        *)
(***************************************************************************)
\* Any statement may be refused; a transaction is then rolled back whole.
DatabaseFails(h) ==
    /\ "database" \in Faults
    /\ handler[h].pc \notin {"idle", "collect"}
    /\ Throw(h)
    /\ UNCHANGED tables

\* The API process dies and is restarted; only the tables survive.
Crash ==
    /\ "crash" \in Faults
    /\ \E h \in Handler : handler[h].pc # "idle"
    /\ handler' = [h \in Handler |-> Idle]
    /\ UNCHANGED tables
-----------------------------------------------------------------------------
Arrive(h) ==
    \/ Reconcile(h)
    \/ \E s \in SourceId : Remove(h, s) \/ Collect(h, s)

Proceed(h) ==
    \/ ReadRecords(h)
    \/ \E b \in Batch : RebuildBatch(h, b)
    \/ RebuildAborts(h)
    \/ DeleteSource(h)
    \/ DeleteFindsNothing(h)
    \/ CreateRun(h)
    \/ CreateRunFails(h)
    \/ CollectorReturns(h)
    \/ CollectorThrows(h)
    \/ ReadKnownRecordIds(h)
    \/ StoreRecords(h)
    \/ StoreFails(h)
    \/ ApplyMasterData(h)
    \/ FinishRun(h)
    \/ FailRun(h)
    \/ UpdateFindsNoRun(h)

Next ==
    \/ \E s \in SourceId : Register(s)
    \/ \E h \in Handler : Arrive(h) \/ Proceed(h) \/ DatabaseFails(h)
    \/ Crash

Spec == Init /\ [][Next]_vars

\* Every request in progress is carried on: each round trip is answered, each
\* collector returns or throws.
FairSpec == Spec /\ \A h \in Handler : WF_vars(Proceed(h))
-----------------------------------------------------------------------------
(***************************************************************************)
(* What holds in every interleaving: the ledger's specification (LedgerSpec *)
(* of Ledger.tla, which this module implements) and what follows.          *)
(***************************************************************************)
\* What the awaits of a handler rely on, by where it has got to.
LocalIsSound(l) ==
    /\ l.pc \in {"idle", "create", "delete"} => l.run = Null
    /\ l.pc \in {"collect", "known", "store", "master", "finish", "fail"} => l.run # Null
    /\ l.pc \in {"create", "delete"} => l.source \in SourceId
    /\ l.run # Null => /\ l.run \in DOMAIN runs
                       /\ l.source \in SourceId
                       /\ l.source = runs[l.run].source
                       /\ l.pc \notin {"collect", "fail"} => l.outcome \in Outcomes[l.source]
    /\ l.pc = "master" => l.todo \subseteq MasterRows(l.outcome.records)
    /\ l.snapshot \subseteq UsableRows

TypeOK ==
    /\ LedgerTypeOK
    /\ runs \in Seq(Run)
    /\ handler \in [Handler -> Local]
    /\ \A h \in Handler : LocalIsSound(handler[h])

RecordsOfRun(r) == {i \in DOMAIN records : records[i].run = r}

\* A run that ended well counts what it wrote to the audit trail, and a run with
\* a rejected row never says SUCCEEDED.
RunsAccountForTheirRecords ==
    \A r \in DOMAIN runs : runs[r].status \in {"SUCCEEDED", "PARTIAL"} =>
        /\ runs[r].stored = Cardinality(RecordsOfRun(r))
        /\ runs[r].rejected
             = Cardinality({i \in RecordsOfRun(r) : records[i].row.parseError})
        /\ runs[r].status = "SUCCEEDED" => runs[r].rejected = 0

\* While the database and the process stay up, a run that says RUNNING is
\* being worked on by exactly one request, so no run is ever forgotten.
RunningRunIsServed ==
    \A r \in DOMAIN runs : runs[r].status = "RUNNING" /\ RunExists(r) =>
        Cardinality({h \in Handler : handler[h].run = r}) = 1

\* A request works on a run of its own, which says RUNNING until that request
\* ends it.
RunsAreOwned ==
    \A h \in Handler : IsCollecting(h) =>
        /\ runs[handler[h].run].status = "RUNNING"
        /\ \A g \in Handler \ {h} : handler[g].run # handler[h].run

\* So, without faults, requests and the runs that say RUNNING are one to one.
EachRunHasOneRequest == RunningRunIsServed /\ RunsAreOwned

\* What a finished run reported is never rewritten.
FinishedRunsAreKept ==
    [][\A r \in DOMAIN runs : runs[r].status # "RUNNING" => runs'[r] = runs[r]]_vars

-----------------------------------------------------------------------------
(***************************************************************************)
(* What holds when requests come one at a time.                            *)
(***************************************************************************)
Quiescent == \A h \in Handler : handler[h].pc = "idle"

\* The canonical event of b at s is the one derived from the stored records.
IsDerived(b, s) ==
    IF s \in Reported(Usable, b)
    THEN /\ canonical[b][s] = EventOf(Usable, b, s)
         /\ {c \in contributions : c.batchId = b /\ c.station = s}
              = ContributionsOf(Usable, b, s)
    ELSE canonical[b][s] = Null

\* For every batch and station that still has records, the canonical event is a
\* pure function of the stored records (normalization.service.ts:10-15).  Of
\* stations whose records were all removed, EventsHaveRecords speaks.
CanonicalIsDerived ==
    Quiescent =>
        \A b \in Batch : \A s \in Reported(Usable, b) : IsDerived(b, s)

\* A collection whose rebuild is over has left the batches it brought rows of, or all if
\* it brought none of any, with the events their stored records imply, whatever failed
\* before it and however stale they were (sources.service.ts:214-217,
\* normalization.service.ts:10-15).
RebuildRepairs ==
    \A h \in Handler : handler[h].pc = "finish" =>
        \A b \in Scope(h) : \A s \in Reported(Usable, b) : IsDerived(b, s)

\* A run that touched the batch has not ended well, and its source says so.
RunWentWrong(b) ==
    \E i \in IdsOfBatch(Stored, b) : runs[records[i].run].status \in {"RUNNING", "FAILED"}

\* Records of the batch went with their source.
LostRecords(b) ==
    \E i \in IdsOfBatch(DOMAIN records, b) : sources[records[i].source] = "removed"

\* Whatever fails, canonical state lags behind the records of a batch only while
\* a run that touched the batch did not end well, or once a source that had
\* reported the batch was removed: the rebuild that follows a removal may fail or
\* be forgotten, and no rebuild withdraws an event (sources.service.ts:78-84).
StaleOnlyAfterFailure ==
    Quiescent => \A b \in Batch :
        (\A s \in Station : IsDerived(b, s)) \/ RunWentWrong(b) \/ LostRecords(b)

\* "Canonical state is derived, so it has to be rebuilt once the source's
\* observations are gone" (sources.service.ts:81-82): what no stored record
\* reports is no event.
EventsHaveRecords ==
    Quiescent => \A b \in Batch : \A s \in Station :
        canonical[b][s] # Null => s \in Reported(Usable, b)

\* recordsDuplicate counts the rows whose stable id the platform had already
\* accepted (schema.prisma:127): those whose id an earlier record carries.
DuplicatesAreCounted ==
    \A r \in DOMAIN runs : runs[r].status \in {"SUCCEEDED", "PARTIAL"} =>
        runs[r].duplicate =
            Cardinality({i \in RecordsOfRun(r) :
                \E j \in 1..(i - 1) :
                    /\ records[j].source = records[i].source
                    /\ records[j].row.sourceRecordId = records[i].row.sourceRecordId})
=============================================================================
