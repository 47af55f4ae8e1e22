------------------------------ MODULE Database ------------------------------
(***************************************************************************)
(* Reading the factory's production database                               *)
(* (apps/api/src/sources/collectors/database.collector.ts): one connection *)
(* for each call of test, discover or collect, whose queries are separate  *)
(* statements between which the schema may change.                         *)
(***************************************************************************)
EXTENDS Naturals, FiniteSets, Sequences

CONSTANTS Null,
          Request, OpOf,    \* the calls there will be, and of what
          Schema, Name, Column,
          Mapping,          \* the column mappings that may be chosen
          ColumnsOf,        \* the columns a table may have; none is no table
          Contents          \* what a SELECT may return

Table == Schema \X Name

\* The fields without which a row is rejected, and how each has to be readable.
Needs == [sourceRecordId |-> "present", batchId |-> "text",
          station |-> "station", occurredAt |-> "time"]

RequiredField == DOMAIN Needs

Field == RequiredField \cup {"quantity", "recordedAt"}

\* A row, by what each of its values can be read as.
Row == [Column -> SUBSET {"present", "text", "station", "time"}]

\* What was stored with a source: a table and a mapping, if they were chosen.
Config == [table : Table \cup {Null}, mapping : Mapping \cup {Null}]

ASSUME DatabaseIsSound ==
    /\ OpOf \in [Request -> {"test", "discover", "collect", "select"}]
    /\ Mapping \subseteq [Field -> Column \cup {Null}]
    /\ ColumnsOf \in [Table -> SUBSET SUBSET Column]
    /\ Contents \subseteq Seq(Row)
    /\ Null \notin Column \cup Table \cup Mapping \cup Config

VARIABLES
    columns,    \* the columns the database has, of each table
    call        \* each request, from its first read to its answer

\* "asked" once the source was read, "connecting", "first" and "select" while a query
\* is awaited, "ending", "over" once the collector is done, "storing" while the source
\* is updated, and "lost" once the process that was to answer has died.
PC == {"idle", "asked", "connecting", "first", "select", "ending", "over", "storing",
       "answered", "lost"}

Call == [pc       : PC,
         id       : Nat,                      \* the source it was asked of
         config   : Config \cup {Null},       \* as it was read when the call began
         open     : BOOLEAN,                  \* whether a connection is held
         reported : [Table -> SUBSET Column], \* what the database said it has
         result   : {"pending", "returned", "thrown"},
         ok       : BOOLEAN,                  \* what a test found
         shown    : Nat,                      \* the rows the database returned
         records  : Seq([parseError : BOOLEAN, usable : BOOLEAN]),
         errors   : Nat]

NothingReported == [t \in Table |-> {}]

NotMade == [pc |-> "idle", id |-> 0, config |-> Null, open |-> FALSE,
            reported |-> NothingReported, result |-> "pending", ok |-> FALSE,
            shown |-> 0, records |-> <<>>, errors |-> 0]
-----------------------------------------------------------------------------
\* Mutant: the connection is only closed when all went well.
ThrowWithoutEnd(q) ==
    call' = [call EXCEPT ![q].pc = "over", ![q].result = "thrown"]

\* An exception: a connection that is open is closed first.
Throw(q) ==
    call' = [call EXCEPT ![q].pc     = IF @ \in {"first", "select"} THEN "ending" ELSE "over",
                         ![q].result = IF OpOf[q] = "test" THEN "returned" ELSE "thrown"]

\* Where to connect, and the credential, may be missing; without a table and a mapping
\* there is nothing to collect.
Begin(q) ==
    /\ call[q].pc = "asked"
    /\ \/ Throw(q)
       \/ /\ OpOf[q] = "collect" => Null \notin {call[q].config.table, call[q].config.mapping}
          /\ call' = [call EXCEPT ![q].pc = "connecting"]
    /\ UNCHANGED columns

Connect(q) ==
    /\ call[q].pc = "connecting"
    /\ call' = [call EXCEPT ![q].pc = "first", ![q].open = TRUE]
    /\ UNCHANGED columns

Mapped(mapping) == {mapping[f] : f \in Field} \ {Null}

\* Mutant: only the required columns are looked up.
ResolveRequired(mapping, available) ==
    {mapping[f] : f \in RequiredField} \subseteq available

\* A table that does not exist has no columns; every mapped column must be one.
ResolveMapping(mapping, available) ==
    available # {} /\ Mapped(mapping) \subseteq available

\* The first query; test sends another, and collect decides on it whether to.
Query(q) ==
    LET config == call[q].config
    IN  /\ call[q].pc = "first"
        /\ CASE OpOf[q] = "test" ->
                  call' = [call EXCEPT ![q].pc = "select"]
             [] OpOf[q] = "discover" ->
                  call' = [call EXCEPT ![q].pc = "ending", ![q].result = "returned",
                                       ![q].reported = columns]
             [] OTHER ->
                  IF ResolveMapping(config.mapping, columns[config.table])
                  THEN call' = [call EXCEPT ![q].pc = "select",
                            ![q].reported[config.table] = columns[config.table]]
                  ELSE Throw(q)
        /\ UNCHANGED columns

IsRejected(row, mapping) ==
    \E f \in RequiredField : mapping[f] = Null \/ Needs[f] \notin row[mapping[f]]

\* Mutant: an unreadable event time is not reported.
RejectsIfTimed(rows, mapping) ==
    {i \in DOMAIN rows : IsRejected(rows[i], mapping) /\ "time" \in rows[i][mapping["occurredAt"]]}

Rejects(rows, mapping) == {i \in DOMAIN rows : IsRejected(rows[i], mapping)}

\* What rebuild selects: a record that says which batch was where, and when.
IsUsable(row, mapping) ==
    \A f \in RequiredField \ {"sourceRecordId"} : Needs[f] \in row[mapping[f]]

ToRecord(row, mapping) ==
    LET rejected == IsRejected(row, mapping)
    IN  [parseError |-> rejected, usable |-> ~ rejected /\ IsUsable(row, mapping)]

\* The second query of a test counts the tables.
CountTables(q) ==
    /\ call[q].pc = "select"
    /\ OpOf[q] = "test"
    /\ call' = [call EXCEPT ![q].pc = "ending", ![q].result = "returned", ![q].ok = TRUE]
    /\ UNCHANGED columns

\* The statement names what was selected; it fails on a column that is gone by now.
Select(q) ==
    LET config == call[q].config
    IN  /\ call[q].pc = "select"
        /\ OpOf[q] = "collect"
        /\ IF Mapped(config.mapping) \subseteq columns[config.table]
           THEN \E rows \in Contents :
                    call' = [call EXCEPT
                        ![q].pc = "ending",
                        ![q].result = "returned",
                        ![q].shown = Len(rows),
                        ![q].records = [i \in DOMAIN rows |-> ToRecord(rows[i], config.mapping)],
                        ![q].errors = Cardinality(Rejects(rows, config.mapping))]
           ELSE Throw(q)
        /\ UNCHANGED columns

\* The connection is refused or times out; a statement is refused, cancelled by the
\* server after its 30 seconds, or lost.
DatabaseFails(q) ==
    /\ call[q].pc \in {"connecting", "first", "select"}
    /\ Throw(q)
    /\ UNCHANGED columns

\* Whatever became of the call, and whether or not closing fails.
End(q) ==
    /\ call[q].pc = "ending"
    /\ call' = [call EXCEPT ![q].pc = "over", ![q].open = FALSE]
    /\ UNCHANGED columns

\* The owner of the database changes a table, creates or drops it.
AlterTable(t) ==
    /\ \E c \in ColumnsOf[t] \ {columns[t]} : columns' = [columns EXCEPT ![t] = c]
    /\ UNCHANGED call

Work(q) ==
    \/ Begin(q) \/ Connect(q) \/ Query(q) \/ CountTables(q) \/ Select(q)
    \/ DatabaseFails(q) \/ End(q)
-----------------------------------------------------------------------------
DatabaseTypeOK ==
    /\ columns \in [Table -> SUBSET Column]
    /\ call \in [Request -> Call]
    /\ \A q \in Request : call[q].open <=> call[q].pc \in {"first", "select", "ending"}

\* The statement of a collection names a table and columns that the database itself
\* reported to this very call, although the selection comes from a form and the
\* schema changes under it (database.collector.ts:24-28).
OnlyReportedIdentifiers ==
    \A q \in Request : OpOf[q] = "collect" /\ call[q].pc = "select" =>
        Mapped(call[q].config.mapping) \subseteq call[q].reported[call[q].config.table]

\* What came of the call of the collector: one whose process died has no answer.
Outcome(q) ==
    LET records == call[q].records
        over == call[q].pc \in {"over", "answered", "lost"}
    IN  IF over /\ call[q].result = "returned"
        THEN [state    |-> "returned",
              shown    |-> call[q].shown,
              rejected |-> Cardinality({i \in DOMAIN records : records[i].parseError}),
              usable   |-> Cardinality({i \in DOMAIN records : records[i].usable}),
              errors   |-> call[q].errors]
        ELSE [state |-> IF call[q].config = Null THEN "uncalled"
                        ELSE IF ~ over THEN "pending"
                        ELSE IF call[q].result = "thrown" THEN "thrown" ELSE "lost"]

Contract(q) == INSTANCE Collector WITH outcome <- Outcome(q)
=============================================================================
