---------------------------- MODULE Crawler_proofs ----------------------------
(***************************************************************************)
(* What holds of a crawl for any portal, any number of pages and retries:  *)
(* its cost is bounded, what it did not read is reported, and no row is    *)
(* lost or passed off as usable.                                           *)
(***************************************************************************)
EXTENDS Crawler, Counting, SequenceTheorems

\* What the attempts of the pages asked for so far may cost: those of the page that
\* is being asked for are counted as they are made.
CostIsBounded ==
    LET made == attempts.made
        all  == pageNumber * TotalAttempts
    IN  CASE request.state = "sent" ->
               /\ request.attempt \in 1..TotalAttempts
               /\ made + (TotalAttempts - request.attempt) + 1 <= all
          [] request.state = "backoff" ->
               /\ request.attempt \in 1..(TotalAttempts - 1)
               /\ made + (TotalAttempts - request.attempt) <= all
          [] OTHER -> made <= all

PagesAreCounted ==
    /\ IsFiniteSet(visited)
    /\ pageNumber = Cardinality(visited)
    /\ pageNumber <= MaxPages

StopsAreReported ==
    /\ pc = "page" => currentUrl \in Url
    /\ errors.fetch = 0 => stopReason = "NO_NEXT_LINK"
    /\ pc = "done" /\ errors.fetch = 0 => currentUrl = Null

RejectedRecords == {i \in DOMAIN records : records[i].parseError}

\* Each rejected row was reported, and each of the others can be used.
RowsAreAccountedFor ==
    /\ Cardinality(RejectedRecords) <= errors.parse
    /\ Len(records) = Len(shown)
    /\ \A i \in DOMAIN records :
           records[i].parseError <=> ~ IsUsable(records[i], shown[i])

\* The URLs of links are asked for as they are normalised.
LinksAreNormal ==
    \A url \in visited \cup ({currentUrl} \ {Null}) : url = StartUrl \/ Normal[url] = url

\* The inductive invariant.
IInv ==
    /\ TypeOK
    /\ CostIsBounded
    /\ PagesAreCounted
    /\ StopsAreReported
    /\ LinksAreNormal
    /\ RowsAreAccountedFor

(***************************************************************************)
(* Rows become records.                                                    *)
(***************************************************************************)
LEMMA NormalisedRow ==
    ASSUME NEW raw \in RawDeliveryRow, NEW page \in Nat, NEW index \in Nat
    PROVE  LET record == NormaliseDeliveryRow(raw, page, index)
           IN  /\ record \in Record
               /\ record.parseError = IsRejected(raw)
               /\ record.parseError <=> ~ IsUsable(record, raw)
<1>. DEFINE record == NormaliseDeliveryRow(raw, page, index)
<1>1. SourceRecordId(raw, page, index) \in Text \cup (Nat \X Nat)
  BY DEF SourceRecordId, RawDeliveryRow
<1>2. IsRejected(raw) \in BOOLEAN
  BY DEF IsRejected
<1>3. record \in Record /\ record.parseError = IsRejected(raw)
  BY <1>1, <1>2 DEF NormaliseDeliveryRow, Record, RawDeliveryRow
<1>4. CASE IsRejected(raw)
  BY <1>3, <1>4, Zenon DEF IsUsable
<1>5. CASE ~ IsRejected(raw)
  <2>1. /\ record.batchId = raw.batchId /\ record.station = "RECEIVING"
        /\ record.occurredAt = raw.deliveredAt /\ record.quantity = raw.quantity
    BY <1>5 DEF NormaliseDeliveryRow
  <2>2. raw.batchId # Null /\ raw.deliveredAt # Null
    BY <1>5 DEF IsRejected
  <2>3. ~ record.parseError
    BY <1>3, <1>5, Zenon
  <2>. HIDE DEF record
  <2>4. IsUsable(record, raw)
    BY <2>1, <2>2, <2>3, CrawlIsSound DEF IsUsable
  <2>. QED
    BY <1>3, <2>3, <2>4 DEF record
<1>. QED
  BY <1>3, <1>4, <1>5

\* The rows of a page are counted and appended.
LEMMA PageIsRead ==
    ASSUME IInv, NEW rows \in Seq(RawDeliveryRow),
           records' = records \o [i \in DOMAIN rows |->
                                     NormaliseDeliveryRow(rows[i], pageNumber, i - 1)],
           shown' = shown \o rows
    PROVE  /\ records' \in Seq(Record) /\ shown' \in Seq(RawDeliveryRow)
           /\ Len(records') = Len(shown')
           /\ Cardinality(Rejects(rows)) \in Nat
           /\ Cardinality(RejectedRecords') =
                  Cardinality(RejectedRecords) + Cardinality(Rejects(rows))
           /\ \A i \in DOMAIN records' :
                  records'[i].parseError <=> ~ IsUsable(records'[i], shown'[i])
<1>. DEFINE new == [i \in DOMAIN rows |-> NormaliseDeliveryRow(rows[i], pageNumber, i - 1)]
            n == Len(records)
            m == Len(rows)
<1>1. /\ records \in Seq(Record) /\ n \in Nat /\ DOMAIN records = 1..n
      /\ m \in Nat /\ DOMAIN rows = 1..m /\ pageNumber \in Nat
  BY LenProperties DEF IInv, TypeOK
<1>2. ASSUME NEW i \in 1..m
      PROVE  /\ NormaliseDeliveryRow(rows[i], pageNumber, i - 1) \in Record
             /\ new[i].parseError = IsRejected(rows[i])
             /\ new[i].parseError <=> ~ IsUsable(new[i], rows[i])
  <2>1. rows[i] \in RawDeliveryRow /\ i - 1 \in Nat
    BY <1>1, ElementOfSeq
  <2>2. new[i] = NormaliseDeliveryRow(rows[i], pageNumber, i - 1)
    BY <1>1
  <2>. QED
    BY <1>1, <2>1, <2>2, NormalisedRow
<1>3. new \in Seq(Record) /\ Len(new) = m
  BY <1>1, <1>2, IsASeq, LenProperties
<1>. HIDE DEF new
<1>4. /\ records' \in Seq(Record) /\ Len(records') = n + m /\ DOMAIN records' = 1..(n + m)
      /\ \A i \in 1..(n + m) : records'[i] = IF i <= n THEN records[i] ELSE new[i - n]
  BY <1>1, <1>3, ConcatProperties, LenProperties DEF new
<1>5. /\ shown \in Seq(RawDeliveryRow) /\ Len(shown) = n
       /\ shown' \in Seq(RawDeliveryRow) /\ Len(shown') = n + m
       /\ \A i \in 1..(n + m) : shown'[i] = IF i <= n THEN shown[i] ELSE rows[i - n]
  <2>1. shown \in Seq(RawDeliveryRow) /\ Len(shown) = n
    BY DEF IInv, TypeOK, RowsAreAccountedFor
  <2>2. PICK before \in Seq(RawDeliveryRow) : before = shown /\ Len(before) = n
    BY <2>1
  <2>3. Len(before) = n /\ Len(rows) = m
    BY <2>2
  <2>. HIDE DEF n, m
  <2>4. /\ before \o rows \in Seq(RawDeliveryRow) /\ Len(before \o rows) = n + m
        /\ \A i \in 1..(n + m) :
               (before \o rows)[i] = IF i <= n THEN before[i] ELSE rows[i - n]
    BY <2>3, ConcatProperties
  <2>. QED
    BY <2>1, <2>2, <2>4
<1>6. Rejects(rows) \in SUBSET (1..m) /\ RejectedRecords \in SUBSET (1..n)
  BY <1>1 DEF Rejects, RejectedRecords
<1>7. ASSUME NEW i \in 1..n
      PROVE  i \in RejectedRecords' <=> i \in RejectedRecords
  BY <1>1, <1>4 DEF RejectedRecords
<1>8. ASSUME NEW j \in 1..m
      PROVE  n + j \in RejectedRecords' <=> j \in Rejects(rows)
  <2>1. n + j \in 1..(n + m) /\ ~ (n + j <= n) /\ (n + j) - n = j
    BY <1>1
  <2>2. records'[n + j] = new[j]
    BY <1>4, <2>1
  <2>. QED
    BY <1>1, <1>2, <1>4, <2>1, <2>2 DEF RejectedRecords, Rejects
<1>9. /\ Cardinality(Rejects(rows)) \in Nat
      /\ Cardinality(RejectedRecords') = Cardinality(RejectedRecords) + Cardinality(Rejects(rows))
  <2>1. RejectedRecords' \in SUBSET (1..(n + m)) /\ n \in Nat /\ m \in Nat
    BY <1>1, <1>4 DEF RejectedRecords
  <2>2. IsJoined(RejectedRecords', n, RejectedRecords, m, Rejects(rows))
    BY <1>6, <1>7, <1>8, <2>1 DEF IsJoined
  <2>. QED
    BY <2>2, CountsAddUp
<1>10. ASSUME NEW i \in DOMAIN records'
      PROVE  records'[i].parseError <=> ~ IsUsable(records'[i], shown'[i])
  <2>1. CASE i <= n
    <3>1. i \in DOMAIN records /\ records'[i] = records[i] /\ shown'[i] = shown[i]
      BY <1>1, <1>4, <1>5, <2>1
    <3>2. records[i].parseError <=> ~ IsUsable(records[i], shown[i])
      BY <3>1 DEF IInv, RowsAreAccountedFor
    <3>. QED
      BY <3>1, <3>2
  <2>2. CASE ~ (i <= n)
    <3>1. i - n \in 1..m /\ records'[i] = new[i - n] /\ shown'[i] = rows[i - n]
      <4>1. i \in 1..(n + m)
        BY <1>4
      <4>2. i - n \in 1..m
        BY <1>1, <2>2, <4>1
      <4>3. records'[i] = new[i - n]
        BY <1>4, <2>2, <4>1
      <4>4. shown'[i] = rows[i - n]
        BY <1>5, <2>2, <4>1
      <4>. QED
        BY <4>2, <4>3, <4>4
    <3>. QED
      BY <1>2, <3>1 DEF new
  <2>. QED
    BY <2>1, <2>2
<1>. QED
  BY <1>4, <1>5, <1>9, <1>10

(***************************************************************************)
(* The invariant.                                                          *)
(***************************************************************************)
\* One page more may cost the attempts of one page more.
LEMMA OnePageMore ==
    ASSUME NEW n \in Nat
    PROVE  /\ TotalAttempts \in Nat \ {0}
           /\ n * TotalAttempts \in Nat
           /\ (n + 1) * TotalAttempts = n * TotalAttempts + TotalAttempts
BY FetchIsSound DEF TotalAttempts

\* Before the call nothing has been read.
LEMMA InitEstablishesIInv == Init => IInv
<1>. SUFFICES ASSUME Init PROVE IInv
  OBVIOUS
<1>1. /\ records = <<>> /\ <<>> \in Seq(Record) /\ Len(records) = 0 /\ RejectedRecords = {}
      /\ shown = <<>> /\ <<>> \in Seq(RawDeliveryRow)
  BY EmptySeq, LenProperties DEF Init, RejectedRecords
<1>2. TypeOK
  BY <1>1, CrawlIsSound
     DEF Init, TypeOK, FetchInit, FetchTypeOK, Request, NoRequest, StopReason
<1>3. CostIsBounded
  BY OnePageMore DEF Init, CostIsBounded, FetchInit, NoRequest
<1>4. PagesAreCounted /\ StopsAreReported /\ LinksAreNormal
  BY FS_EmptySet, CrawlIsSound
     DEF Init, PagesAreCounted, StopsAreReported, LinksAreNormal
<1>5. Cardinality(RejectedRecords) = 0
  BY <1>1, FS_EmptySet, Zenon
<1>6. RowsAreAccountedFor
  BY <1>1, <1>5, LenProperties DEF Init, RowsAreAccountedFor
<1>. QED
  BY <1>2, <1>3, <1>4, <1>6 DEF IInv

\* An attempt is made only when it has been allowed for.
LEMMA FetchKeepsIInv ==
    ASSUME IInv, FetchNext, UNCHANGED crawl
    PROVE  IInv'
<1>. DEFINE all == pageNumber * TotalAttempts
<1>1. /\ request \in Request /\ attempts \in [made : Nat, retried : Nat]
      /\ pageNumber \in Nat /\ all \in Nat /\ TotalAttempts \in Nat \ {0}
  BY OnePageMore DEF IInv, TypeOK, FetchTypeOK
<1>2. /\ request' \in Request /\ attempts' \in [made : Nat, retried : Nat]
      /\ CostIsBounded' /\ request.state # "none" /\ request'.state # "none"
  <2>. HIDE DEF all
  <2>0. UNCHANGED pageNumber
    BY DEF crawl
  <2>1. CASE Retry
    <3>1. /\ request.state = "sent" /\ request.attempt < TotalAttempts
          /\ request' = [request EXCEPT !.state = "backoff"]
          /\ attempts' = [made |-> attempts.made + 1, retried |-> attempts.retried + 1]
      BY <2>1 DEF Retry, MayRetry, OnAttempt
    <3>2. /\ request'.state = "backoff" /\ request'.attempt = request.attempt
          /\ request' \in Request /\ attempts'.made = attempts.made + 1
          /\ attempts' \in [made : Nat, retried : Nat]
      BY <1>1, <3>1 DEF Request
    <3>3. /\ request.attempt \in 1..TotalAttempts
          /\ attempts.made + (TotalAttempts - request.attempt) + 1 <= all
      BY <3>1 DEF IInv, CostIsBounded, all
    <3>. QED
      BY <1>1, <2>0, <3>1, <3>2, <3>3 DEF CostIsBounded, all
  <2>2. ASSUME NEW state \in {"body", "failed"}, EndWith(state)
        PROVE  /\ request' \in Request /\ attempts' \in [made : Nat, retried : Nat]
               /\ CostIsBounded' /\ request.state # "none" /\ request'.state # "none"
    <3>1. /\ request.state = "sent" /\ request' = [request EXCEPT !.state = state]
          /\ attempts' = [made |-> attempts.made + 1, retried |-> attempts.retried + 0]
      BY <2>2 DEF EndWith, OnAttempt
    <3>2. /\ request'.state = state /\ request' \in Request
          /\ attempts'.made = attempts.made + 1
          /\ attempts' \in [made : Nat, retried : Nat]
      BY <1>1, <3>1 DEF Request
    <3>3. /\ request.attempt \in 1..TotalAttempts
          /\ attempts.made + (TotalAttempts - request.attempt) + 1 <= all
      BY <3>1 DEF IInv, CostIsBounded, all
    <3>. QED
      BY <1>1, <2>0, <3>1, <3>2, <3>3 DEF CostIsBounded, all
  <2>3. CASE Wake
    <3>1. /\ request.state = "backoff" /\ UNCHANGED attempts
          /\ request' = [state |-> "sent", attempt |-> request.attempt + 1]
      BY <2>3 DEF Wake
    <3>2. /\ request.attempt \in 1..(TotalAttempts - 1)
          /\ attempts.made + (TotalAttempts - request.attempt) <= all
      BY <3>1 DEF IInv, CostIsBounded, all
    <3>3. request' \in Request /\ request'.state = "sent" /\ request'.attempt = request.attempt + 1
      BY <1>1, <3>1 DEF Request
    <3>. QED
      BY <1>1, <2>0, <3>1, <3>2, <3>3 DEF CostIsBounded, all
  <2>4. CASE BodyBreaks
    <3>1. /\ request.state = "body" /\ UNCHANGED attempts
          /\ request' = [request EXCEPT !.state = "failed"]
      BY <2>4 DEF BodyBreaks
    <3>2. request' \in Request /\ request'.state = "failed"
      BY <1>1, <3>1 DEF Request
    <3>3. attempts.made <= all
      BY <3>1 DEF IInv, CostIsBounded, all
    <3>. QED
      BY <1>1, <2>0, <3>1, <3>2, <3>3 DEF CostIsBounded, all
  <2>. QED
    BY <2>1, <2>2, <2>3, <2>4 DEF FetchNext, Answer, NoAnswer
<1>3. TypeOK'
  BY <1>2 DEF IInv, TypeOK, FetchTypeOK, crawl
<1>4. PagesAreCounted' /\ StopsAreReported' /\ LinksAreNormal' /\ RowsAreAccountedFor'
  BY DEF IInv, PagesAreCounted, StopsAreReported, LinksAreNormal, RowsAreAccountedFor,
         RejectedRecords, crawl
<1>. QED
  BY <1>2, <1>3, <1>4 DEF IInv

\* A page is asked for once, if the ceiling allows one more.
LEMMA VisitKeepsIInv ==
    ASSUME IInv, Visit
    PROVE  IInv'
<1>1. /\ currentUrl \in Url \ visited /\ Cardinality(visited) < MaxPages
      /\ visited' = visited \cup {currentUrl} /\ pageNumber' = pageNumber + 1
      /\ request.state = "none" /\ request' = [state |-> "sent", attempt |-> 1]
      /\ UNCHANGED <<attempts, currentUrl, records, errors, stopReason, shown>> /\ pc' = "page"
  BY DEF Visit, FetchWithRetry, FirstAttempt, IInv, TypeOK
<1>2. /\ pageNumber \in Nat /\ attempts \in [made : Nat, retried : Nat]
      /\ pageNumber * TotalAttempts \in Nat /\ TotalAttempts \in Nat \ {0}
      /\ (pageNumber + 1) * TotalAttempts = pageNumber * TotalAttempts + TotalAttempts
      /\ attempts.made <= pageNumber * TotalAttempts
  BY <1>1, OnePageMore DEF IInv, TypeOK, FetchTypeOK, CostIsBounded
<1>3. PagesAreCounted'
  BY <1>1, <1>2, FS_AddElement, CrawlIsSound DEF IInv, PagesAreCounted
<1>4. CostIsBounded'
  <2>. DEFINE before == pageNumber * TotalAttempts
              after == pageNumber' * TotalAttempts
  <2>1. after = before + TotalAttempts /\ before \in Nat
    BY <1>1, <1>2
  <2>2. request'.state = "sent" /\ request'.attempt = 1 /\ attempts'.made = attempts.made
    BY <1>1
  <2>. HIDE DEF before, after
  <2>3. attempts.made + (TotalAttempts - 1) + 1 <= after
    <3>1. attempts.made <= before
      BY <1>2 DEF before
    <3>. QED
      BY <1>2, <2>1, <3>1
  <2>. QED
    BY <1>2, <2>2, <2>3 DEF CostIsBounded, after
<1>5. TypeOK'
  BY <1>1, <1>2 DEF IInv, TypeOK, FetchTypeOK, Request
<1>6. StopsAreReported' /\ RowsAreAccountedFor'
  BY <1>1 DEF IInv, StopsAreReported, RowsAreAccountedFor, RejectedRecords
<1>7. LinksAreNormal'
  <2>1. currentUrl # Null
    BY <1>1, CrawlIsSound
  <2>. QED
    BY <1>1, <2>1 DEF IInv, LinksAreNormal
<1>. QED
  BY <1>3, <1>4, <1>5, <1>6, <1>7 DEF IInv

\* The page is forgotten once it was read, and its rows are there.
LEMMA ReadPageKeepsIInv ==
    ASSUME IInv, ReadPage
    PROVE  IInv'
<1>1. PICK page \in Portal[Normal[currentUrl]] :
          LET rows  == page.rows
              empty == rows = <<>> /\ pageNumber = 1
          IN  /\ records' = records \o [i \in DOMAIN rows |->
                     NormaliseDeliveryRow(rows[i], pageNumber, i - 1)]
              /\ errors' = [errors EXCEPT !.parse =
                     @ + Cardinality(Rejects(rows)) + (IF empty THEN 1 ELSE 0)]
              /\ shown' = shown \o rows
              /\ Follow(page.next)
  BY DEF ReadPage
<1>2. /\ pc = "page" /\ request.state = "body" /\ request' = NoRequest
      /\ UNCHANGED <<attempts, visited, pageNumber, stopReason>>
  BY DEF ReadPage
<1>3. page \in Page /\ currentUrl \in Url /\ Normal[currentUrl] \in Url
  BY <1>2, CrawlIsSound DEF IInv, StopsAreReported
<1>4. page.rows \in Seq(RawDeliveryRow) /\ page.next \in Url \cup {Null, Malformed}
  BY <1>3 DEF Page
<1>5. /\ records' \in Seq(Record) /\ shown' \in Seq(RawDeliveryRow)
      /\ Len(records') = Len(shown') /\ Cardinality(Rejects(page.rows)) \in Nat
      /\ Cardinality(RejectedRecords') =
             Cardinality(RejectedRecords) + Cardinality(Rejects(page.rows))
      /\ \A i \in DOMAIN records' :
             records'[i].parseError <=> ~ IsUsable(records'[i], shown'[i])
  BY <1>1, <1>4, PageIsRead
<1>6. PICK k \in {0, 1} :
          errors' = [errors EXCEPT !.parse = @ + Cardinality(Rejects(page.rows)) + k]
  BY <1>1
<1>7. /\ errors' \in [fetch : Nat, parse : Nat] /\ errors'.fetch = errors.fetch
      /\ errors'.parse = errors.parse + Cardinality(Rejects(page.rows)) + k
  BY <1>5, <1>6 DEF IInv, TypeOK
<1>8. /\ pc' \in {"thrown", "loop"} /\ currentUrl' \in Url \cup {Null}
      /\ currentUrl' \in {currentUrl, Null} \/ Normal[currentUrl'] = currentUrl'
  BY <1>1, <1>3, <1>4, CrawlIsSound DEF Follow
<1>9. TypeOK'
  BY <1>2, <1>5, <1>7, <1>8 DEF IInv, TypeOK, FetchTypeOK, Request, NoRequest
<1>10. PagesAreCounted' /\ StopsAreReported' /\ CostIsBounded' /\ LinksAreNormal'
  <2>1. PagesAreCounted' /\ StopsAreReported' /\ CostIsBounded'
    BY <1>2, <1>7, <1>8
       DEF IInv, PagesAreCounted, StopsAreReported, CostIsBounded, NoRequest
  <2>2. LinksAreNormal'
    BY <1>2, <1>3, <1>8 DEF IInv, LinksAreNormal
  <2>. QED
    BY <2>1, <2>2
<1>11. RowsAreAccountedFor'
  <2>1. /\ Cardinality(RejectedRecords) <= errors.parse /\ errors.parse \in Nat
        /\ IsFiniteSet(RejectedRecords)
    <3>1. DOMAIN records = 1..Len(records) /\ Len(records) \in Nat
      BY LenProperties DEF IInv, TypeOK
    <3>2. IsFiniteSet(1..Len(records))
      BY <3>1, FS_Interval
    <3>3. IsFiniteSet(RejectedRecords)
      BY <3>1, <3>2, FS_Subset DEF RejectedRecords
    <3>. QED
      BY <3>3 DEF IInv, TypeOK, RowsAreAccountedFor
  <2>2. Cardinality(RejectedRecords) \in Nat
    BY <2>1, FS_CardinalityType
  <2>3. Cardinality(RejectedRecords') <= errors'.parse
    BY <1>5, <1>7, <2>1, <2>2
  <2>. QED
    BY <1>5, <2>3 DEF RowsAreAccountedFor
<1>. QED
  BY <1>9, <1>10, <1>11 DEF IInv

\* A crawl that stops keeps what it has.
LEMMA StopKeepsIInv ==
    ASSUME IInv, LoopDetected \/ PageLimitReached \/ PageFails \/ Finish
    PROVE  IInv'
<1>1. /\ UNCHANGED <<attempts, currentUrl, visited, pageNumber, records, shown>>
      /\ request.state \in {"none", "failed"} /\ request' \in {request, NoRequest}
      /\ request'.state = "none" /\ pc' = "done" /\ errors'.parse = errors.parse
      /\ errors' \in [fetch : Nat, parse : Nat] /\ stopReason' \in StopReason
      /\ errors'.fetch = 0 => stopReason' = "NO_NEXT_LINK" /\ currentUrl = Null
  BY DEF LoopDetected, PageLimitReached, PageFails, Finish, StopAtLoopTop, fetch, IInv, TypeOK,
         FetchTypeOK, Request, NoRequest, StopReason, StopsAreReported
<1>2. TypeOK'
  BY <1>1 DEF IInv, TypeOK, FetchTypeOK, Request, NoRequest
<1>3. PagesAreCounted' /\ StopsAreReported' /\ LinksAreNormal' /\ RowsAreAccountedFor'
  BY <1>1 DEF IInv, PagesAreCounted, StopsAreReported, LinksAreNormal, RowsAreAccountedFor,
              RejectedRecords
<1>4. CostIsBounded'
  BY <1>1 DEF IInv, CostIsBounded
<1>. QED
  BY <1>2, <1>3, <1>4 DEF IInv

\* A configuration that is read changes nothing of the crawl.
LEMMA ReadConfigKeepsIInv ==
    ASSUME IInv, ReadConfig
    PROVE  IInv'
<1>1. /\ UNCHANGED <<request, attempts, currentUrl, visited, pageNumber>>
      /\ UNCHANGED <<records, errors, stopReason, shown>>
      /\ pc = "begin" /\ pc' \in {"loop", "thrown"}
  BY DEF ReadConfig, fetch
<1>2. TypeOK'
  BY <1>1 DEF IInv, TypeOK, FetchTypeOK
<1>3. PagesAreCounted' /\ StopsAreReported' /\ LinksAreNormal' /\ RowsAreAccountedFor'
  BY <1>1 DEF IInv, PagesAreCounted, StopsAreReported, LinksAreNormal, RowsAreAccountedFor,
              RejectedRecords
<1>4. CostIsBounded'
  BY <1>1 DEF IInv, CostIsBounded
<1>. QED
  BY <1>2, <1>3, <1>4 DEF IInv

\* Every step keeps the invariant.
LEMMA NextKeepsIInv == IInv /\ [Next]_vars => IInv'
<1>. SUFFICES ASSUME IInv, [Next]_vars PROVE IInv'
  OBVIOUS
<1>1. CASE UNCHANGED vars
  BY <1>1 DEF vars, fetch, crawl, IInv, TypeOK, FetchTypeOK, CostIsBounded, PagesAreCounted,
              StopsAreReported, LinksAreNormal, RowsAreAccountedFor, RejectedRecords
<1>. QED
  BY <1>1, ReadConfigKeepsIInv, VisitKeepsIInv, ReadPageKeepsIInv, StopKeepsIInv, FetchKeepsIInv DEF Next

\* So it holds throughout.
LEMMA IInvIsInvariant == Spec => []IInv
BY InitEstablishesIInv, NextKeepsIInv, PTL DEF Spec
-----------------------------------------------------------------------------
\* The crawl, its request and its outcome hold what their types say
\* (crawler.collector.ts:133-243).
THEOREM TypeCorrect == Spec => []TypeOK
<1>1. IInv => TypeOK
  BY DEF IInv
<1>. QED
  BY <1>1, IInvIsInvariant, PTL

\* A crawl that did not follow its links to the end says so among its errors
\* (crawler.collector.ts:147-189).
THEOREM IncompleteReported == Spec => []IncompleteIsReported
<1>1. IInv => IncompleteIsReported
  BY DEF IInv, StopsAreReported, IncompleteIsReported
<1>. QED
  BY <1>1, IInvIsInvariant, PTL

\* Whatever the portal answers, each URL is asked for once, and each page by one URL
\* besides the one that was entered; at most MaxPages are, and each costs at most its
\* attempts (crawler.collector.ts:150-172 and 222, http.ts:69-122).
THEOREM CostBounded == Spec => []RequestsAreBounded
<1>1. ASSUME IInv PROVE RequestsAreBounded
  <2>. DEFINE all == pageNumber * TotalAttempts
  <2>1. /\ pageNumber = Cardinality(visited) /\ pageNumber <= MaxPages
        /\ request \in Request /\ attempts.made \in Nat
        /\ all \in Nat /\ TotalAttempts \in Nat \ {0}
    BY <1>1, OnePageMore DEF IInv, PagesAreCounted, TypeOK, FetchTypeOK
  <2>2. \A u, v \in visited : Normal[u] = Normal[v] => u = v \/ StartUrl \in {u, v}
    BY <1>1 DEF IInv, LinksAreNormal
  <2>. HIDE DEF all
  <2>3. CASE request.state = "sent"
    <3>1. /\ request.attempt \in 1..TotalAttempts
          /\ attempts.made + (TotalAttempts - request.attempt) + 1 <= all
      BY <1>1, <2>3 DEF IInv, CostIsBounded, all
    <3>. QED
      BY <2>1, <2>2, <3>1 DEF RequestsAreBounded, all
  <2>4. CASE request.state = "backoff"
    <3>1. /\ request.attempt \in 1..(TotalAttempts - 1)
          /\ attempts.made + (TotalAttempts - request.attempt) <= all
      BY <1>1, <2>4 DEF IInv, CostIsBounded, all
    <3>. QED
      BY <2>1, <2>2, <3>1 DEF RequestsAreBounded, all
  <2>5. CASE request.state \notin {"sent", "backoff"}
    <3>1. attempts.made <= all
      BY <1>1, <2>5 DEF IInv, CostIsBounded, all
    <3>. QED
      BY <2>1, <2>2, <3>1 DEF RequestsAreBounded, all
  <2>. QED
    BY <2>3, <2>4, <2>5
<1>. QED
  BY <1>1, IInvIsInvariant, PTL
-----------------------------------------------------------------------------
\* What is answered accounts for the rows that were shown.
Accounts ==
    pc = "done" =>
        /\ Outcome \in Contract!Outcome
        /\ Outcome.shown = Outcome.usable + Outcome.rejected
        /\ Outcome.rejected <= Outcome.errors

\* Every row that was read is usable or rejected, and a rejected one is reported.
LEMMA OutcomeAccounts == IInv => Accounts
<1>. SUFFICES ASSUME IInv, pc = "done" PROVE Accounts
  BY DEF Accounts
<1>. DEFINE U == {i \in DOMAIN records : IsUsable(records[i], shown[i])}
            R == {i \in DOMAIN records : records[i].parseError}
<1>1. Outcome = [state |-> "returned", shown |-> Len(shown), rejected |-> Cardinality(R),
                 usable |-> Cardinality(U), errors |-> errors.fetch + errors.parse]
  BY DEF Outcome
<1>2. /\ Len(records) \in Nat /\ DOMAIN records = 1..Len(records)
      /\ errors.fetch \in Nat /\ errors.parse \in Nat /\ Len(records) = Len(shown)
  BY LenProperties DEF IInv, TypeOK, RowsAreAccountedFor
<1>3. U \cup R = 1..Len(records) /\ U \cap R = {}
  BY <1>2 DEF IInv, RowsAreAccountedFor
<1>4. Cardinality(R) <= errors.parse
  BY DEF IInv, RowsAreAccountedFor, RejectedRecords
<1>. HIDE DEF U, R
<1>5. /\ Cardinality(U) \in Nat /\ Cardinality(R) \in Nat
      /\ Len(records) = Cardinality(U) + Cardinality(R)
  BY <1>2, <1>3, PartsAddUp
<1>. QED
  BY <1>1, <1>2, <1>4, <1>5 DEF Accounts, Contract!Outcome

\* An answer is given once, and nothing changes it.
LEMMA NextKeepsContract ==
    ASSUME TypeOK, Accounts', [Next]_vars
    PROVE  [Contract!Next]_Outcome
<1>1. CASE pc \in {"done", "thrown"}
  <2>1. UNCHANGED <<pc, records, errors, shown>>
    BY <1>1 DEF Next, ReadConfig, LoopDetected, PageLimitReached, Visit, PageFails, ReadPage, Finish,
                crawl, vars
  <2>. QED
    BY <2>1 DEF Outcome, IsUsable
<1>2. CASE pc \notin {"done", "thrown"}
  <2>1. Outcome = [state |-> "pending"]
    BY <1>2 DEF Outcome
  <2>2. CASE pc' = "done"
    <3>1. Outcome'.state = "returned"
      BY <2>2 DEF Outcome
    <3>. QED
      BY <2>1, <2>2, <3>1 DEF Accounts, Contract!Next, Contract!Returns
  <2>3. CASE pc' = "thrown"
    BY <2>1, <2>3 DEF Outcome, Contract!Next, Contract!Throws
  <2>4. CASE pc' \notin {"done", "thrown"}
    BY <2>1, <2>4 DEF Outcome
  <2>. QED
    BY <2>2, <2>3, <2>4
<1>. QED
  BY <1>1, <1>2

\* The crawl is answered at most once, and if it returns, no row of a page it read is
\* unaccounted for, and none comes back other than it was shown
\* (collector.types.ts:127-129): the safety half of KeepsContract.
THEOREM CallKeepsTheContract == Spec => Contract!Init /\ [][Contract!Next]_Outcome
<1>1. Init => Contract!Init
  BY DEF Init, Contract!Init, Outcome
<1>. QED
  BY <1>1, IInvIsInvariant, TypeCorrect, OutcomeAccounts, NextKeepsContract, PTL DEF Spec
=============================================================================
