------------------------------- MODULE Crawler -------------------------------
(***************************************************************************)
(* Collecting from the supplier portal                                     *)
(* (apps/api/src/sources/collectors/crawler.collector.ts): pages are       *)
(* followed by their next link, each fetched as HttpFetch.tla says.  The   *)
(* portal may answer a request for one URL differently each time.          *)
(***************************************************************************)
EXTENDS HttpFetch, FiniteSets, Sequences

CONSTANTS Null,        \* absent, or not readable as what it should be
          Malformed,   \* a next link that is no URL
          StartUrl,
          Normal,      \* a URL as new URL(..).toString() writes it
          MaxPages,
          Text, Quantity,
          Portal       \* the pages that a URL may show

\* A row as it is read off the page.
RawDeliveryRow == [recordId       : Text \cup {Null},
                   deliveryNumber : Text \cup {Null},
                   batchId        : Text \cup {Null},
                   quantity       : Quantity \cup {Null},
                   deliveredAt    : Nat \cup {Null}]

Page == [rows : Seq(RawDeliveryRow), next : Url \cup {Null, Malformed}]

ASSUME CrawlIsSound ==
    /\ StartUrl \in Url
    /\ Normal \in [Url -> Url] /\ \A url \in Url : Normal[Normal[url]] = Normal[url]
    /\ MaxPages \in Nat
    /\ Portal \in [Url -> SUBSET Page]
    /\ Null \notin Url \cup Text \cup Quantity \cup Nat \cup {Malformed, "RECEIVING"}
    /\ Malformed \notin Url

VARIABLES
    pc,             \* "begin", "loop", "page" while it is awaited, "done" or "thrown"
    currentUrl,
    visited,
    pageNumber,
    records,
    errors,         \* how many of each stage
    stopReason,
    shown           \* for the properties only: the rows of every page that was read

crawl == <<pc, currentUrl, visited, pageNumber, records, errors, stopReason, shown>>
vars == <<fetch, crawl>>

StopReason == {"NO_NEXT_LINK", "PAGINATION_LOOP_DETECTED", "PAGE_LIMIT_REACHED"}

\* What becomes of a row: an event at RECEIVING, or a rejected row.
Record == [sourceRecordId : Text \cup (Nat \X Nat),
           parseError     : BOOLEAN,
           batchId        : Text \cup {Null},
           station        : {"RECEIVING", Null},
           quantity       : Quantity \cup {Null},
           occurredAt     : Nat \cup {Null}]

Init ==
    /\ FetchInit
    /\ pc = "begin"
    /\ currentUrl = StartUrl
    /\ visited = {}
    /\ pageNumber = 0
    /\ records = <<>>
    /\ errors = [fetch |-> 0, parse |-> 0]
    /\ stopReason = "NO_NEXT_LINK"
    /\ shown = <<>>
-----------------------------------------------------------------------------
\* Without an identifier of its own a row is known by its position.
SourceRecordId(raw, page, index) ==
    IF raw.recordId # Null THEN raw.recordId
    ELSE IF raw.deliveryNumber # Null THEN raw.deliveryNumber
    ELSE <<page, index>>

\* Mutant: the delivery time is not looked at.
IsRejectedWithoutTime(raw) ==
    \/ raw.recordId = Null
    \/ raw.batchId = Null
    \/ raw.quantity = Null

IsRejected(raw) ==
    \/ raw.recordId = Null
    \/ raw.batchId = Null
    \/ raw.quantity = Null
    \/ raw.deliveredAt = Null

NormaliseDeliveryRow(raw, page, index) ==
    LET rejected == IsRejected(raw)
    IN  [sourceRecordId |-> SourceRecordId(raw, page, index),
         parseError     |-> rejected,
         batchId        |-> IF rejected THEN Null ELSE raw.batchId,
         station        |-> IF rejected THEN Null ELSE "RECEIVING",
         quantity       |-> IF rejected THEN Null ELSE raw.quantity,
         occurredAt     |-> IF rejected THEN Null ELSE raw.deliveredAt]
-----------------------------------------------------------------------------
\* A source without a start URL is not crawled.
ReadConfig ==
    /\ pc = "begin"
    /\ pc' \in {"loop", "thrown"}
    /\ UNCHANGED <<fetch, currentUrl, visited, pageNumber, records, errors, stopReason, shown>>

\* A reason for stopping that is reported with the outcome.
StopAtLoopTop(reason) ==
    /\ stopReason' = reason
    /\ errors' = [errors EXCEPT !.fetch = @ + 1]
    /\ pc' = "done"
    /\ UNCHANGED <<fetch, currentUrl, visited, pageNumber, records, shown>>

LoopDetected ==
    /\ pc = "loop"
    /\ currentUrl \in visited
    /\ StopAtLoopTop("PAGINATION_LOOP_DETECTED")

\* Mutant: the page ceiling ends the crawl without a word.
PageLimitSilent ==
    /\ pc = "loop"
    /\ currentUrl \notin visited \cup {Null}
    /\ Cardinality(visited) >= MaxPages
    /\ pc' = "done"
    /\ UNCHANGED <<fetch, currentUrl, visited, pageNumber, records, errors, stopReason, shown>>

PageLimitReached ==
    /\ pc = "loop"
    /\ currentUrl \notin visited \cup {Null}
    /\ Cardinality(visited) >= MaxPages
    /\ StopAtLoopTop("PAGE_LIMIT_REACHED")

Visit ==
    /\ pc = "loop"
    /\ currentUrl \notin visited \cup {Null}
    /\ Cardinality(visited) < MaxPages
    /\ visited' = visited \cup {currentUrl}
    /\ pageNumber' = pageNumber + 1
    /\ FetchWithRetry
    /\ pc' = "page"
    /\ UNCHANGED <<currentUrl, records, errors, stopReason, shown>>

\* Mutant: the call that failed is not forgotten.
PageFailsUnnoticed ==
    /\ pc = "page"
    /\ request.state = "failed"
    /\ errors' = [errors EXCEPT !.fetch = @ + 1]
    /\ pc' = "done"
    /\ UNCHANGED <<fetch, currentUrl, visited, pageNumber, records, stopReason, shown>>

\* A page that will not load ends the crawl; the reason keeps its initial value.
PageFails ==
    /\ pc = "page"
    /\ request.state = "failed"
    /\ request' = NoRequest
    /\ errors' = [errors EXCEPT !.fetch = @ + 1]
    /\ pc' = "done"
    /\ UNCHANGED <<attempts, currentUrl, visited, pageNumber, records, stopReason, shown>>

\* The link is resolved and normalised; one that is no URL throws what was collected
\* away.
Follow(next) ==
    IF next = Malformed THEN pc' = "thrown" /\ UNCHANGED currentUrl
    ELSE pc' = "loop" /\ currentUrl' = IF next = Null THEN Null ELSE Normal[next]

Rejects(rows) == {i \in DOMAIN rows : IsRejected(rows[i])}

\* The rows of the page are added; a first page without rows is an error.
ReadPage ==
    /\ pc = "page"
    /\ request.state = "body"
    /\ request' = NoRequest
    /\ \E page \in Portal[Normal[currentUrl]] :
          LET rows  == page.rows
              empty == rows = <<>> /\ pageNumber = 1
          IN  /\ records' = records \o [i \in DOMAIN rows |->
                     NormaliseDeliveryRow(rows[i], pageNumber, i - 1)]
              /\ errors' = [errors EXCEPT !.parse =
                     @ + Cardinality(Rejects(rows)) + (IF empty THEN 1 ELSE 0)]
              /\ shown' = shown \o rows
              /\ Follow(page.next)
    /\ UNCHANGED <<attempts, visited, pageNumber, stopReason>>

Finish ==
    /\ pc = "loop"
    /\ currentUrl = Null
    /\ pc' = "done"
    /\ UNCHANGED <<fetch, currentUrl, visited, pageNumber, records, errors, stopReason, shown>>

Next ==
    \/ ReadConfig \/ LoopDetected \/ PageLimitReached \/ Visit
    \/ PageFails \/ ReadPage \/ Finish
    \/ FetchNext /\ UNCHANGED crawl

Spec == Init /\ [][Next]_vars

\* The loop runs on; the timer bounds each attempt, and a body ends or breaks.
FairSpec == Spec /\ WF_vars(Next)
-----------------------------------------------------------------------------
TypeOK ==
    /\ FetchTypeOK
    /\ pc \in {"begin", "loop", "page", "done", "thrown"}
    /\ currentUrl \in Url \cup {Null}
    /\ visited \subseteq Url
    /\ pageNumber \in Nat
    /\ records \in Seq(Record)
    /\ errors \in [fetch : Nat, parse : Nat]
    /\ stopReason \in StopReason
    /\ shown \in Seq(RawDeliveryRow)
    /\ pc = "page" <=> request.state # "none"

\* A crawl that leaves a link unfollowed or a page unread says so among its
\* errors, so the run is never recorded as SUCCEEDED.
IncompleteIsReported ==
    pc = "done" /\ errors.fetch = 0 =>
        /\ currentUrl = Null
        /\ stopReason = "NO_NEXT_LINK"

\* A portal that links back, answers nothing or never ends costs a bounded
\* number of requests.  No URL is asked for twice, and no page is asked for by two
\* URLs, unless one is the start URL, which is taken as it was entered.
RequestsAreBounded ==
    /\ pageNumber = Cardinality(visited)
    /\ pageNumber <= MaxPages
    /\ attempts.made <= pageNumber * TotalAttempts
    /\ \A u, v \in visited : Normal[u] = Normal[v] => u = v \/ StartUrl \in {u, v}

\* The record says what its row said, and the query of rebuild selects it.
IsUsable(record, raw) ==
    /\ ~ record.parseError
    /\ record.batchId # Null /\ record.station # Null /\ record.occurredAt # Null
    /\ record.batchId = raw.batchId
    /\ record.quantity = raw.quantity
    /\ record.occurredAt = raw.deliveredAt

Outcome ==
    CASE pc = "done"   -> [state    |-> "returned",
                           shown    |-> Len(shown),
                           rejected |-> Cardinality({i \in DOMAIN records :
                                                        records[i].parseError}),
                           usable   |-> Cardinality({i \in DOMAIN records :
                                                        IsUsable(records[i], shown[i])}),
                           errors   |-> errors.fetch + errors.parse]
      [] pc = "thrown" -> [state |-> "thrown"]
      [] OTHER         -> [state |-> "pending"]

Contract == INSTANCE Collector WITH outcome <- Outcome

\* The crawl is answered once, whatever the portal does, and it always terminates: of
\* a crawl that returns, every row of every page it read is a record, usable as it was
\* shown or rejected with an error (collector.types.ts:127-129,
\* crawler.collector.ts:24-32).  A crawl that throws returns no row at all, also those of
\* the pages before the one whose next link is no URL (crawler.collector.ts:222).
KeepsContract == Contract!Spec
=============================================================================
