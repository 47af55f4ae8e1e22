------------------------------- MODULE AppApi -------------------------------
(***************************************************************************)
(* Collecting from the laundry's application                               *)
(* (apps/api/src/sources/collectors/app-api.collector.ts): the selected    *)
(* datasets one after the other, each page by page, each page fetched as   *)
(* HttpFetch.tla says, while the application goes on adding rows.  Rows    *)
(* are told apart by identity and by which fields can be read.             *)
(***************************************************************************)
EXTENDS HttpFetch, FiniteSets, SequencesExt

CONSTANTS Selected,     \* the datasets to collect, in order
          RowsOf,       \* the rows that may come to be in each dataset
          Scalars,      \* those among them that are no objects
          Initially,    \* the rows of each dataset when collection starts
          PageSize, PageCeiling,
          Strange,      \* what the application may get wrong
          MaxRows       \* bound: rows of a dataset

DATASETS == <<"work-orders", "batches", "receiving", "dispatch">>

Dataset == {DATASETS[i] : i \in 1..4}

Field == {"batchId", "workOrderId", "lineId", "at"}

Row == UNION {RowsOf[d] : d \in Dataset}

\* The fields without which a row is rejected.
Required ==
    [d \in Dataset |-> CASE d = "work-orders" -> {"workOrderId", "lineId"}
                         [] d = "batches"     -> {"batchId", "workOrderId", "lineId"}
                         [] OTHER             -> {"batchId", "at"}]

ASSUME PagesAreSound ==
    /\ Selected \in Seq(Dataset) /\ IsInjective(Selected)
    /\ \A row \in Row : row.has \subseteq Field
    /\ DOMAIN RowsOf = Dataset
    /\ Scalars \subseteq Row
    /\ Initially \in [Dataset -> Seq(Row)]
    /\ PageSize \in Nat \ {0} /\ PageCeiling \in Nat \ {0}
    /\ Strange \subseteq {"no array", "always more", "no pagination"}
    /\ MaxRows \in Nat

VARIABLES
    stored,     \* the rows of the application, in the order it lists them
    pc,         \* "begin", "dataset", "page" while one is awaited, "done", "thrown"
    begun,      \* how many datasets were begun
    page,
    rows,       \* the rows read from the dataset so far
    records,
    errors,     \* how many rows were rejected, which datasets were given up
    shown,      \* for the properties only: every row a page has held,
    cut,        \* the datasets that ended before their last page,
    begunWith   \* and the rows a dataset had when it was begun

result == <<records, errors>>
history == <<shown, cut, begunWith>>
pager == <<pc, begun, page, rows, result, history>>
vars == <<fetch, stored, pager>>

\* A row where it was read: one that others push from page to page is read again.
Occurrence == [dataset : Dataset, page : Nat, index : Nat, row : Row]

Record == [read : Occurrence, parseError : BOOLEAN]

Init ==
    /\ FetchInit
    /\ stored = Initially
    /\ pc = "begin"
    /\ begun = 0
    /\ page = 0
    /\ rows = {}
    /\ records = {}
    /\ errors = [parse |-> 0, fetch |-> {}]
    /\ shown = {}
    /\ cut = {}
    /\ begunWith = [d \in Dataset |-> {}]

Current == Selected[begun]
-----------------------------------------------------------------------------
(***************************************************************************)
(* The application.                                                        *)
(***************************************************************************)
\* A row is listed anywhere among the others; none is withdrawn.
AddRow(d, row) ==
    /\ Len(stored[d]) < MaxRows
    /\ row \notin ToSet(stored[d])
    /\ \E i \in 1..(Len(stored[d]) + 1) :
           stored' = [stored EXCEPT ![d] = InsertAt(@, i, row)]
    /\ UNCHANGED <<fetch, pager>>

\* The page as it is when it is served.
ServePage(d, p) ==
    LET last == IF p * PageSize < Len(stored[d]) THEN p * PageSize ELSE Len(stored[d])
    IN  [data    |-> SubSeq(stored[d], (p - 1) * PageSize + 1, last),
         hasMore |-> p * PageSize < Len(stored[d])]

\* What a page may say of there being another.
SaysMore(hasMore) ==
    {hasMore} \cup (IF "always more" \in Strange THEN {TRUE} ELSE {})
              \cup (IF "no pagination" \in Strange THEN {FALSE} ELSE {})
-----------------------------------------------------------------------------
(***************************************************************************)
(* The collector.                                                          *)
(***************************************************************************)
\* A source without a base URL is not collected.
ReadConfig ==
    /\ pc = "begin"
    /\ pc' \in {"dataset", "thrown"}
    /\ UNCHANGED <<fetch, stored, begun, page, rows, result, history>>

IsRejected(d, row) == ~ Required[d] \subseteq row.has

ToRecord(read) == [read |-> read, parseError |-> IsRejected(read.dataset, read.row)]

\* Mutant: the page number is not reset between datasets.
BeginDatasetAtPage ==
    /\ pc = "dataset"
    /\ begun < Len(Selected)
    /\ begun' = begun + 1
    /\ page' = IF begun = 0 THEN 1 ELSE page
    /\ rows' = {}
    /\ begunWith' = [begunWith EXCEPT ![Selected[begun + 1]] =
                         ToSet(stored[Selected[begun + 1]])]
    /\ FetchWithRetry
    /\ pc' = "page"
    /\ UNCHANGED <<stored, result, shown, cut>>

BeginDataset ==
    /\ pc = "dataset"
    /\ begun < Len(Selected)
    /\ begun' = begun + 1
    /\ page' = 1
    /\ rows' = {}
    /\ begunWith' = [begunWith EXCEPT ![Selected[begun + 1]] =
                         ToSet(stored[Selected[begun + 1]])]
    /\ FetchWithRetry
    /\ pc' = "page"
    /\ UNCHANGED <<stored, result, shown, cut>>

EndDataset(read) ==
    /\ records' = records \cup {ToRecord(r) : r \in read}
    /\ errors' = [errors EXCEPT !.parse =
           @ + Cardinality({r \in read : IsRejected(r.dataset, r.row)})]
    /\ request' = NoRequest
    /\ pc' = "dataset"
    /\ UNCHANGED <<attempts, stored, begun, page, begunWith>>

\* Mutant: pages are followed while the application claims another.
IsLastWithoutCeiling(more, data) == ~ more \/ data = <<>>

\* The page ceiling ends a dataset as its last page does, without a word.
IsLast(more, data) == ~ more \/ data = <<>> \/ page = PageCeiling

Occurrences(data) ==
    {[dataset |-> Current, page |-> page, index |-> i, row |-> data[i]] : i \in DOMAIN data}

\* A row that is no object is passed over without a word.
Objects(read) == {r \in read : r.row \notin Scalars}

ReadPage ==
    /\ pc = "page"
    /\ request.state = "body"
    /\ \E more \in SaysMore(ServePage(Current, page).hasMore) :
          LET data == ServePage(Current, page).data
          IN  /\ rows' = rows \cup Objects(Occurrences(data))
              /\ shown' = shown \cup Occurrences(data)
              /\ \/ /\ IsLast(more, data)
                    /\ cut' = IF ServePage(Current, page).hasMore THEN cut \cup {Current}
                              ELSE cut
                    /\ EndDataset(rows')
                 \/ /\ ~ IsLast(more, data)
                    /\ page' = page + 1
                    /\ request' = FirstAttempt
                    /\ UNCHANGED <<attempts, stored, pc, begun, result, cut, begunWith>>

\* A page that fails or holds no array: what was read of the dataset is lost,
\* the other datasets are not.
GiveUp ==
    /\ pc = "page"
    /\ request.state = "failed" \/ (request.state = "body" /\ "no array" \in Strange)
    /\ errors' = [errors EXCEPT !.fetch = @ \cup {Current}]
    /\ request' = NoRequest
    /\ pc' = "dataset"
    /\ UNCHANGED <<attempts, stored, begun, page, rows, records, history>>

Finish ==
    /\ pc = "dataset"
    /\ begun = Len(Selected)
    /\ pc' = "done"
    /\ UNCHANGED <<fetch, stored, begun, page, rows, result, history>>

Collect ==
    \/ ReadConfig \/ BeginDataset \/ ReadPage \/ GiveUp \/ Finish
    \/ FetchNext /\ UNCHANGED <<stored, pager>>

Next ==
    \/ Collect
    \/ \E d \in Dataset : \E row \in RowsOf[d] : AddRow(d, row)

Spec == Init /\ [][Next]_vars

\* The collector runs on, whatever is added meanwhile: the timer bounds each
\* attempt, and a body ends or breaks.
FairSpec == Spec /\ WF_vars(Collect)
-----------------------------------------------------------------------------
TypeOK ==
    /\ FetchTypeOK
    /\ stored \in [Dataset -> Seq(Row)]
    /\ pc \in {"begin", "dataset", "page", "done", "thrown"}
    /\ begun \in 0..Len(Selected)
    /\ page \in 0..PageCeiling
    /\ rows \subseteq Occurrence
    /\ records \subseteq Record
    /\ errors \in [parse : Nat, fetch : SUBSET Dataset]
    /\ shown \subseteq Occurrence
    /\ cut \subseteq Dataset
    /\ begunWith \in [Dataset -> SUBSET Row]
    /\ pc = "page" <=> request.state # "none"
    /\ pc = "page" => begun > 0

Collected(d) == {r.read.row : r \in {q \in records : q.read.dataset = d}}

\* Rows added between two pages shift the others, yet no object that was listed when a
\* dataset was begun is missed, unless the dataset was given up, which is reported, or
\* was cut off: the page ceiling, or an application that does not say that there is
\* another page, end a dataset without a word (app-api.collector.ts:183-206).
NothingMissed ==
    pc = "done" =>
        \A i \in DOMAIN Selected :
            LET d == Selected[i]
            IN  \/ d \in errors.fetch \cup cut
                \/ begunWith[d] \ Scalars \subseteq Collected(d)

\* Stored as it is, a query of rebuild can use the row.
IsUsable(record) ==
    ~ record.parseError /\ Required[record.read.dataset] \subseteq record.read.row.has

\* The rows of a dataset that is given up are reported with it.  Those that are no
\* objects do not count: nothing is reported of them (app-api.collector.ts:193).
Outcome ==
    CASE pc = "done"   -> [state    |-> "returned",
                           shown    |-> Cardinality({r \in Objects(shown) :
                                                        r.dataset \notin errors.fetch}),
                           rejected |-> Cardinality({r \in records : r.parseError}),
                           usable   |-> Cardinality({r \in records : IsUsable(r)}),
                           errors   |-> errors.parse + Cardinality(errors.fetch)]
      [] pc = "thrown" -> [state |-> "thrown"]
      [] OTHER         -> [state |-> "pending"]

Contract == INSTANCE Collector WITH outcome <- Outcome

\* The collection is answered once, whatever the application answers or adds, also
\* when it always claims another page: every object that a page has shown is a record,
\* usable or rejected with an error, unless its dataset is reported as a whole
\* (app-api.collector.ts:212-214).  collector.types.ts:127-129 says so of every row; the
\* code does not keep it of a row that is no object.
KeepsContract == Contract!Spec
=============================================================================
