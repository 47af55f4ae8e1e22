---------------------------- MODULE AppApi_proofs ----------------------------
(***************************************************************************)
(* What holds of collecting from the application for any datasets, pages   *)
(* and retries, whatever rows are added meanwhile: no object is skipped    *)
(* unless its dataset is reported or cut off, and of pages of objects none *)
(* is lost or passed off as usable.                                        *)
(***************************************************************************)
EXTENDS AppApi, Counting, SequenceTheorems

\* How many rows the pages before this one held.
Offset == (page - 1) * PageSize

\* An object that was there when the dataset was begun is read, or on a page that is
\* still to be read.
PagesMissNothing ==
    pc = "page" =>
        \A row \in begunWith[Current] \ Scalars :
            \/ \E r \in rows : r.row = row
            \/ \E i \in DOMAIN stored[Current] : i > Offset /\ stored[Current][i] = row

IsCollected(d) ==
    \/ d \in errors.fetch \cup cut
    \/ begunWith[d] \ Scalars \subseteq Collected(d)

\* The datasets before the one that is being read are collected.
DatasetsAreCollected ==
    \A i \in 1..begun : (pc = "page" /\ i = begun) \/ IsCollected(Selected[i])

PagerIsSound ==
    /\ pc = "page" => page >= 1
    /\ pc = "done" => begun = Len(Selected)

RejectedRecords == {r \in records : r.parseError}

\* Each rejected row was reported.
RowsAreCounted ==
    /\ IsFiniteSet(rows) /\ IsFiniteSet(records)
    /\ Cardinality(RejectedRecords) <= errors.parse

IsOfEarlier(d) == \E i \in 1..begun : Selected[i] = d /\ (pc = "page" => i # begun)

\* What has come of the rows shown: a record of a dataset that has ended, a dataset
\* given up, or a row still to become one.
RowsAreAccountedFor ==
    /\ \A d \in errors.fetch : IsOfEarlier(d)
    /\ \A r \in records :
           /\ r = ToRecord(r.read)
           /\ r.read \in shown /\ r.read.row \notin Scalars
           /\ r.read.dataset \notin errors.fetch
           /\ IsOfEarlier(r.read.dataset)
    /\ \A o \in shown :
           \/ o.row \in Scalars \/ o.dataset \in errors.fetch
           \/ ToRecord(o) \in records
           \/ pc = "page" /\ o \in rows
    /\ pc = "page" =>
           \A o \in rows : o \in shown /\ o.dataset = Current /\ o.row \notin Scalars

\* The inductive invariant.
IInv ==
    /\ TypeOK
    /\ PagerIsSound
    /\ PagesMissNothing
    /\ DatasetsAreCollected
    /\ RowsAreCounted
    /\ RowsAreAccountedFor

(***************************************************************************)
(* Pages.                                                                  *)
(***************************************************************************)
\* The datasets selected are datasets, each selected once.
LEMMA SelectionIsSound ==
    /\ Len(Selected) \in Nat /\ DOMAIN Selected = 1..Len(Selected)
    /\ \A i \in 1..Len(Selected) : Selected[i] \in Dataset
    /\ \A i, j \in 1..Len(Selected) : Selected[i] = Selected[j] => i = j
<1>1. Selected \in Seq(Dataset) /\ IsInjective(Selected)
  BY Zenon, PagesAreSound
<1>2. Len(Selected) \in Nat /\ DOMAIN Selected = 1..Len(Selected)
  BY <1>1, LenProperties
<1>3. \A i \in 1..Len(Selected) : Selected[i] \in Dataset
  BY <1>1, ElementOfSeq
<1>. QED
  BY <1>1, <1>2, <1>3, Zenon DEF IsInjective

\* A page later is a page's rows further.
LEMMA OnePageMore ==
    ASSUME NEW p \in Nat, p >= 1
    PROVE  /\ PageSize \in Nat \ {0} /\ PageCeiling \in Nat \ {0}
           /\ (p - 1) * PageSize \in Nat
           /\ p * PageSize = (p - 1) * PageSize + PageSize
           /\ ((p + 1) - 1) * PageSize = p * PageSize
<1>1. PageSize \in Nat \ {0} /\ PageCeiling \in Nat \ {0}
  BY Zenon, PagesAreSound
<1>2. p - 1 \in Nat
  OBVIOUS
<1>. QED
  BY <1>1, <1>2

\* A row that is added moves another by one position at most, and never forward.
LEMMA RowsOnlyShift ==
    ASSUME NEW s \in Seq(Row), NEW k \in 1..(Len(s) + 1), NEW row \in Row
    PROVE  /\ InsertAt(s, k, row) \in Seq(Row)
           /\ Len(InsertAt(s, k, row)) = Len(s) + 1
           /\ \A i \in 1..Len(s) : \E j \in {i, i + 1} : InsertAt(s, k, row)[j] = s[i]
<1>. DEFINE u == SubSeq(s, 1, k - 1)
            v == SubSeq(s, k, Len(s))
            w == u \o <<row>>
<1>1. Len(s) \in Nat /\ \A i \in 1..Len(s) : s[i] \in Row
  BY LenProperties, ElementOfSeq
<1>2. /\ u \in Seq(Row) /\ Len(u) = k - 1
      /\ \A i \in 1..(k - 1) : u[i] = s[i]
  BY <1>1, SubSeqProperties
<1>3. /\ v \in Seq(Row) /\ Len(v) = Len(s) - k + 1
      /\ \A i \in 1..(Len(s) - k + 1) : v[i] = s[k + i - 1]
  BY <1>1, SubSeqProperties
<1>4. <<row>> \in Seq(Row) /\ Len(<<row>>) = 1
  OBVIOUS
<1>. HIDE DEF u, v
<1>5. /\ w \in Seq(Row) /\ Len(w) = k
      /\ \A i \in 1..(k - 1) : w[i] = s[i]
  BY <1>1, <1>2, <1>4, ConcatProperties
<1>. HIDE DEF w
<1>6. /\ w \o v \in Seq(Row) /\ Len(w \o v) = Len(s) + 1
      /\ \A i \in 1..(Len(s) + 1) :
             (w \o v)[i] = IF i <= k THEN w[i] ELSE v[i - k]
  BY <1>1, <1>3, <1>5, ConcatProperties
<1>7. ASSUME NEW i \in 1..Len(s)
      PROVE  \E j \in {i, i + 1} : (w \o v)[j] = s[i]
  <2>1. CASE i < k
    <3>1. (w \o v)[i] = s[i]
      BY <1>1, <1>5, <1>6, <2>1
    <3>. QED
      BY <3>1
  <2>2. CASE ~ (i < k)
    <3>1. i + 1 \in 1..(Len(s) + 1) /\ ~ (i + 1 <= k)
          /\ (i + 1) - k \in 1..(Len(s) - k + 1) /\ k + ((i + 1) - k) - 1 = i
      BY <1>1, <2>2
    <3>2. (w \o v)[i + 1] = v[(i + 1) - k]
      BY <1>6, <3>1
    <3>3. v[(i + 1) - k] = s[i]
      BY <1>3, <3>1
    <3>. QED
      BY <3>2, <3>3
  <2>. QED
    BY <2>1, <2>2
<1>. QED
  BY <1>6, <1>7 DEF InsertAt, u, v, w

\* A page holds all rows from its offset to the next one's.
LEMMA RowsOfAPage ==
    ASSUME NEW s \in Seq(Row), NEW lo \in Nat, NEW size \in Nat \ {0},
           NEW last, last = IF lo + size < Len(s) THEN lo + size ELSE Len(s)
    PROVE  /\ SubSeq(s, lo + 1, last) \in Seq(Row)
           /\ \A i \in 1..Len(s) : i > lo /\ i <= lo + size =>
                  s[i] \in ToSet(SubSeq(s, lo + 1, last))
           /\ SubSeq(s, lo + 1, last) = <<>> => Len(s) <= lo
<1>. DEFINE data == SubSeq(s, lo + 1, last)
<1>1. Len(s) \in Nat /\ \A i \in 1..Len(s) : s[i] \in Row
  BY LenProperties, ElementOfSeq
<1>2. lo + 1 \in Int /\ last \in Int /\ \A i \in (lo + 1)..last : s[i] \in Row
  BY <1>1
<1>3. /\ data \in Seq(Row)
      /\ Len(data) = IF lo + 1 <= last THEN last - (lo + 1) + 1 ELSE 0
      /\ \A i \in 1..(last - (lo + 1) + 1) : data[i] = s[lo + 1 + i - 1]
  BY <1>2, SubSeqProperties
<1>4. DOMAIN data = 1..Len(data)
  BY <1>3, LenProperties
<1>. HIDE DEF data
<1>5. ASSUME NEW i \in 1..Len(s), i > lo, i <= lo + size
      PROVE  s[i] \in ToSet(data)
  <2>1. /\ i - lo \in 1..(last - (lo + 1) + 1) /\ lo + 1 <= last
        /\ lo + 1 + (i - lo) - 1 = i
    BY <1>1, <1>5
  <2>2. data[i - lo] = s[i] /\ i - lo \in DOMAIN data
    BY <1>2, <1>3, <1>4, <2>1
  <2>. QED
    BY <2>2 DEF ToSet
<1>6. data = <<>> => Len(s) <= lo
  <2>1. data = <<>> => Len(data) = 0
    OBVIOUS
  <2>. QED
    BY <1>1, <1>2, <1>3, <2>1
<1>. QED
  BY <1>3, <1>5, <1>6 DEF data

\* While a page is awaited, it is a page of a dataset that is selected.
LEMMA PageIsOfADataset ==
    ASSUME IInv, pc = "page"
    PROVE  /\ begun \in 1..Len(Selected) /\ Current \in Dataset
           /\ stored[Current] \in Seq(Row) /\ rows \subseteq Occurrence
           /\ page \in Nat /\ page >= 1 /\ page <= PageCeiling
           /\ PageSize \in Nat \ {0} /\ PageCeiling \in Nat \ {0} /\ Offset \in Nat
           /\ page * PageSize = Offset + PageSize
           /\ ((page + 1) - 1) * PageSize = Offset + PageSize
<1>1. PageCeiling \in Nat \ {0}
  BY Zenon, PagesAreSound
<1>2. begun \in 1..Len(Selected) /\ page \in Nat /\ page >= 1 /\ page <= PageCeiling
  BY <1>1, SelectionIsSound DEF IInv, TypeOK, PagerIsSound
<1>3. Current \in Dataset
  BY <1>2, SelectionIsSound DEF Current
<1>. QED
  BY <1>1, <1>2, <1>3, OnePageMore DEF IInv, TypeOK, Offset

\* What a page that is served adds to what was read.
LEMMA PageIsServed ==
    ASSUME IInv, pc = "page"
    PROVE  LET served == ServePage(Current, page)
           IN  /\ served.data \in Seq(Row)
               /\ \A i \in 1..Len(stored[Current]) :
                      i > Offset /\ i <= Offset + PageSize =>
                          stored[Current][i] \in ToSet(served.data)
               /\ served.data = <<>> => Len(stored[Current]) <= Offset
               /\ ~ served.hasMore => Len(stored[Current]) <= Offset + PageSize
<1>. DEFINE s == stored[Current]
            last == IF page * PageSize < Len(s) THEN page * PageSize ELSE Len(s)
<1>1. /\ s \in Seq(Row) /\ Offset \in Nat /\ PageSize \in Nat \ {0}
      /\ page * PageSize = Offset + PageSize
  BY PageIsOfADataset
<1>2. Len(s) \in Nat
  BY <1>1, LenProperties
<1>3. /\ ServePage(Current, page).data = SubSeq(s, Offset + 1, last)
      /\ ServePage(Current, page).hasMore = (page * PageSize < Len(s))
  BY DEF ServePage, Offset
<1>. HIDE DEF s
<1>4. last = IF Offset + PageSize < Len(s) THEN Offset + PageSize ELSE Len(s)
  BY <1>1
<1>. HIDE DEF last
<1>5. ~ (page * PageSize < Len(s)) => Len(s) <= Offset + PageSize
  BY <1>1, <1>2
<1>. QED
  BY <1>1, <1>3, <1>4, <1>5, RowsOfAPage DEF s

(***************************************************************************)
(* The invariant.                                                          *)
(***************************************************************************)
LEMMA InitEstablishesIInv == Init => IInv
<1>. SUFFICES ASSUME Init PROVE IInv
  OBVIOUS
<1>1. /\ Initially \in [Dataset -> Seq(Row)] /\ PageCeiling \in Nat \ {0}
  BY Zenon, PagesAreSound
<1>2. /\ records = {} /\ rows = {} /\ shown = {} /\ cut = {}
      /\ errors = [parse |-> 0, fetch |-> {}]
      /\ RejectedRecords = {}
  BY DEF Init, RejectedRecords
<1>3. TypeOK
  BY <1>1, <1>2, SelectionIsSound
     DEF Init, TypeOK, FetchInit, FetchTypeOK, Request, NoRequest
<1>4. PagerIsSound /\ PagesMissNothing /\ DatasetsAreCollected /\ RowsAreAccountedFor
  BY <1>2 DEF Init, PagerIsSound, PagesMissNothing, DatasetsAreCollected,
              RowsAreAccountedFor
<1>5. IsFiniteSet({}) /\ Cardinality({}) = 0
  BY FS_EmptySet, Zenon
<1>6. RowsAreCounted
  BY <1>2, <1>5 DEF RowsAreCounted
<1>. QED
  BY <1>3, <1>4, <1>6 DEF IInv

\* A request that goes on is still a request.
LEMMA FetchKeepsTypes ==
    ASSUME FetchTypeOK, FetchNext
    PROVE  FetchTypeOK' /\ request.state # "none" /\ request'.state # "none"
<1>. USE DEF FetchTypeOK, Request
<1>1. CASE Retry
  BY <1>1 DEF Retry, OnAttempt
<1>2. ASSUME NEW state \in {"body", "failed"}, EndWith(state)
      PROVE  FetchTypeOK' /\ request.state # "none" /\ request'.state # "none"
  BY <1>2 DEF EndWith, OnAttempt
<1>3. CASE Wake \/ BodyBreaks
  BY <1>3 DEF Wake, BodyBreaks
<1>. QED
  BY <1>1, <1>2, <1>3 DEF FetchNext, Answer, NoAnswer

\* What a step that leaves the pages and their rows alone keeps.
LEMMA RowsAreKept ==
    ASSUME IInv, UNCHANGED <<stored, pager>>
    PROVE  PagerIsSound' /\ PagesMissNothing' /\ DatasetsAreCollected'
               /\ RowsAreCounted' /\ RowsAreAccountedFor'
<1>1. UNCHANGED <<stored, pc, begun, page, rows, records, errors, shown, cut, begunWith>>
  BY DEF pager, result, history
<1>2. PagerIsSound' /\ PagesMissNothing'
  BY <1>1 DEF IInv, PagerIsSound, PagesMissNothing, Offset, Current
<1>3. DatasetsAreCollected'
  BY <1>1 DEF IInv, DatasetsAreCollected, IsCollected, Collected
<1>4. RowsAreCounted'
  BY <1>1 DEF IInv, RowsAreCounted, RejectedRecords
<1>5. RowsAreAccountedFor'
  BY <1>1 DEF IInv, RowsAreAccountedFor, IsOfEarlier, Current
<1>. QED
  BY <1>2, <1>3, <1>4, <1>5

\* An attempt, a retry or a timeout of the client leaves what was read alone.
LEMMA FetchKeepsIInv ==
    ASSUME IInv, FetchNext, UNCHANGED <<stored, pager>>
    PROVE  IInv'
<1>1. FetchTypeOK' /\ request.state # "none" /\ request'.state # "none"
  BY FetchKeepsTypes DEF IInv, TypeOK
<1>2. TypeOK'
  BY <1>1 DEF IInv, TypeOK, pager, result, history
<1>. QED
  BY <1>2, RowsAreKept DEF IInv

\* A row that is added pushes none onto a page that was read already.
LEMMA AddRowKeepsIInv ==
    ASSUME IInv, NEW d \in Dataset, NEW row \in RowsOf[d], AddRow(d, row)
    PROVE  IInv'
<1>1. PICK k \in 1..(Len(stored[d]) + 1) :
          stored' = [stored EXCEPT ![d] = InsertAt(@, k, row)]
  BY DEF AddRow
<1>2. UNCHANGED <<fetch, pager>> /\ stored \in [Dataset -> Seq(Row)] /\ row \in Row
  BY DEF AddRow, IInv, TypeOK, Row
<1>3. /\ stored'[d] \in Seq(Row) /\ Len(stored'[d]) = Len(stored[d]) + 1
      /\ \A i \in 1..Len(stored[d]) : \E j \in {i, i + 1} : stored'[d][j] = stored[d][i]
      /\ \A e \in Dataset \ {d} : stored'[e] = stored[e]
      /\ stored' \in [Dataset -> Seq(Row)]
  <2>1. stored'[d] = InsertAt(stored[d], k, row)
    BY <1>1, <1>2
  <2>2. stored[d] \in Seq(Row)
    BY <1>2
  <2>3. PICK after : after = InsertAt(stored[d], k, row)
    OBVIOUS
  <2>4. /\ after \in Seq(Row) /\ Len(after) = Len(stored[d]) + 1
        /\ \A i \in 1..Len(stored[d]) : \E j \in {i, i + 1} : after[j] = stored[d][i]
    BY <1>2, <2>2, <2>3, RowsOnlyShift
  <2>5. stored' = [stored EXCEPT ![d] = after]
    BY <1>1, <1>2, <2>3
  <2>6. /\ \A e \in Dataset \ {d} : stored'[e] = stored[e]
        /\ stored' \in [Dataset -> Seq(Row)]
    BY <1>2, <2>4, <2>5
  <2>. QED
    BY <2>1, <2>3, <2>4, <2>6
<1>4. TypeOK'
  BY <1>2, <1>3 DEF IInv, TypeOK, FetchTypeOK, fetch, pager, result, history
<1>5. ASSUME pc = "page", NEW r \in begunWith[Current] \ Scalars,
              ~ \E read \in rows : read.row = r
      PROVE  \E j \in DOMAIN stored'[Current] : j > Offset /\ stored'[Current][j] = r
  <2>1. PICK i \in DOMAIN stored[Current] : i > Offset /\ stored[Current][i] = r
    BY <1>5 DEF IInv, PagesMissNothing
  <2>2. Current \in Dataset /\ Offset \in Nat
    BY <1>5, PageIsOfADataset
  <2>3. CASE Current = d
    <3>1. /\ DOMAIN stored[d] = 1..Len(stored[d]) /\ Len(stored[d]) \in Nat
          /\ DOMAIN stored'[d] = 1..(Len(stored[d]) + 1)
      BY <1>2, <1>3, LenProperties
    <3>2. PICK j \in {i, i + 1} : stored'[d][j] = stored[d][i]
      BY <1>3, <2>1, <2>3, <3>1
    <3>3. j \in 1..(Len(stored[d]) + 1) /\ j > Offset
      BY <2>1, <2>2, <2>3, <3>1
    <3>. QED
      BY <2>1, <2>3, <3>1, <3>2, <3>3
  <2>4. CASE Current # d
    BY <1>3, <2>1, <2>2, <2>4
  <2>. QED
    BY <2>3, <2>4
<1>6. PagesMissNothing'
  BY <1>2, <1>5 DEF PagesMissNothing, Offset, Current, pager, history
<1>7. UNCHANGED <<pc, begun, page, rows, records, errors, shown, cut, begunWith>>
  BY <1>2 DEF pager, result, history
<1>8. PagerIsSound' /\ RowsAreCounted'
  BY <1>7 DEF IInv, PagerIsSound, RowsAreCounted, RejectedRecords
<1>9. DatasetsAreCollected'
  BY <1>7 DEF IInv, DatasetsAreCollected, IsCollected, Collected
<1>10. RowsAreAccountedFor'
  BY <1>7 DEF IInv, RowsAreAccountedFor, IsOfEarlier, Current
<1>. QED
  BY <1>4, <1>6, <1>8, <1>9, <1>10 DEF IInv

\* A dataset is begun at its first page, with its rows yet to be read.
LEMMA BeginDatasetKeepsIInv ==
    ASSUME IInv, BeginDataset
    PROVE  IInv'
<1>1. /\ pc = "dataset" /\ begun < Len(Selected) /\ begun' = begun + 1 /\ page' = 1
      /\ rows' = {} /\ pc' = "page"
      /\ UNCHANGED <<stored, records, errors, shown, cut, attempts>>
      /\ request' = [state |-> "sent", attempt |-> 1]
  BY DEF BeginDataset, FetchWithRetry, FirstAttempt, result
<1>2. /\ begun \in Nat /\ begun + 1 \in 1..Len(Selected) /\ PageCeiling \in Nat \ {0}
      /\ Selected[begun + 1] \in Dataset
  <2>1. PageCeiling \in Nat \ {0}
    BY Zenon, PagesAreSound
  <2>. QED
    BY <1>1, <2>1, SelectionIsSound DEF IInv, TypeOK
<1>3. PICK d \in Dataset : d = Selected[begun + 1]
  BY <1>2
<1>4. begunWith' = [begunWith EXCEPT ![d] = ToSet(stored[d])]
  BY <1>3 DEF BeginDataset
<1>5. stored[d] \in Seq(Row) /\ DOMAIN stored[d] = 1..Len(stored[d])
  BY LenProperties DEF IInv, TypeOK
<1>6. ToSet(stored[d]) \subseteq Row
  BY <1>5, ElementOfSeq DEF ToSet
<1>7. /\ begunWith' \in [Dataset -> SUBSET Row] /\ begunWith'[d] = ToSet(stored[d])
      /\ \A e \in Dataset \ {d} : begunWith'[e] = begunWith[e]
  BY <1>4, <1>6 DEF IInv, TypeOK
<1>8. TypeOK'
  BY <1>1, <1>2, <1>7 DEF IInv, TypeOK, FetchTypeOK, Request
<1>9. PagesMissNothing'
  <2>1. Current' = d
    BY <1>1, <1>3 DEF Current
  <2>2. Offset' = 0
    <3>1. PageSize \in Nat
      BY Zenon, PagesAreSound
    <3>. QED
      BY <1>1, <3>1 DEF Offset
  <2>3. \A r \in begunWith'[d] : \E i \in DOMAIN stored[d] : i > 0 /\ stored[d][i] = r
    BY <1>5, <1>7 DEF ToSet
  <2>. QED
    BY <1>1, <2>1, <2>2, <2>3 DEF PagesMissNothing
<1>10. DatasetsAreCollected'
  <2>1. SUFFICES ASSUME NEW i \in 1..begun', i # begun'
                 PROVE  IsCollected(Selected[i])'
    BY <1>1 DEF DatasetsAreCollected
  <2>2. i \in 1..begun /\ i \in 1..Len(Selected) /\ i # begun + 1
    BY <1>1, <1>2, <2>1
  <2>3. Selected[i] \in Dataset \ {d}
    BY <1>2, <1>3, <2>2, SelectionIsSound
  <2>4. IsCollected(Selected[i])
    BY <1>1, <2>2 DEF IInv, DatasetsAreCollected
  <2>. QED
    BY <1>1, <1>7, <2>3, <2>4 DEF IsCollected, Collected
<1>11. PagerIsSound' /\ RowsAreCounted'
  <2>1. IsFiniteSet({})
    BY FS_EmptySet
  <2>. QED
    BY <1>1, <2>1 DEF IInv, PagerIsSound, RowsAreCounted, RejectedRecords
<1>12. RowsAreAccountedFor'
  <2>1. \A e : IsOfEarlier(e) => IsOfEarlier(e)'
    <3>1. \A i \in 1..begun : i \in 1..(begun + 1) /\ i # begun + 1
      BY <1>2
    <3>. QED
      BY <1>1, <3>1 DEF IsOfEarlier
  <2>. QED
    BY <1>1, <2>1 DEF IInv, RowsAreAccountedFor
<1>. QED
  BY <1>8, <1>9, <1>10, <1>11, <1>12 DEF IInv

\* The records of what was read are no more than that.
LEMMA RecordsAreCounted ==
    ASSUME NEW S, IsFiniteSet(S)
    PROVE  /\ IsFiniteSet({ToRecord(o) : o \in S})
           /\ Cardinality(S) \in Nat /\ Cardinality({ToRecord(o) : o \in S}) \in Nat
           /\ Cardinality({ToRecord(o) : o \in S}) = Cardinality(S)
<1>. DEFINE T == {ToRecord(o) : o \in S}
            f == [o \in S |-> ToRecord(o)]
<1>1. f \in Bijection(S, T)
  <2>1. f \in [S -> T] /\ \A t \in T : \E o \in S : f[o] = t
    OBVIOUS
  <2>2. \A o, p \in S : f[o] = f[p] => o = p
    BY DEF ToRecord
  <2>. QED
    BY <2>1, <2>2, Fun_IsBij
<1>2. ExistsBijection(S, T)
  BY <1>1 DEF ExistsBijection
<1>3. IsFiniteSet(T) /\ Cardinality(T) = Cardinality(S)
  BY <1>2, FS_Bijection
<1>. QED
  BY <1>3, FS_CardinalityType

\* The rows of a dataset become records, each of the rejected ones with an error.
LEMMA RowsBecomeRecords ==
    ASSUME IInv, NEW read, read \subseteq Occurrence, IsFiniteSet(read),
           records' = records \cup {ToRecord(r) : r \in read}
    PROVE  LET rejects == {r \in read : IsRejected(r.dataset, r.row)}
           IN  /\ records' \subseteq Record /\ IsFiniteSet(records')
               /\ Cardinality(rejects) \in Nat
               /\ Cardinality(RejectedRecords') <= errors.parse + Cardinality(rejects)
<1>. DEFINE rejects == {r \in read : IsRejected(r.dataset, r.row)}
            new == {ToRecord(r) : r \in rejects}
<1>1. \A r \in read : IsRejected(r.dataset, r.row) \in BOOLEAN
  BY DEF IsRejected
<1>2. records' \subseteq Record
  <2>1. records \subseteq Record
    BY DEF IInv, TypeOK
  <2>2. \A r \in read : ToRecord(r) \in Record
    BY <1>1 DEF ToRecord, Record
  <2>. QED
    BY <2>1, <2>2
<1>3. IsFiniteSet(records')
  BY RecordsAreCounted, FS_Union DEF IInv, RowsAreCounted
<1>4. IsFiniteSet(rejects) /\ Cardinality(rejects) \in Nat
  BY FS_Subset, FS_CardinalityType
<1>5. /\ IsFiniteSet(new) /\ Cardinality(new) = Cardinality(rejects)
  BY <1>4, RecordsAreCounted
<1>6. RejectedRecords' = RejectedRecords \cup new
  BY DEF RejectedRecords, ToRecord
<1>7. IsFiniteSet(RejectedRecords) /\ Cardinality(RejectedRecords) <= errors.parse
  <2>1. RejectedRecords \in SUBSET records
    BY DEF RejectedRecords
  <2>. QED
    BY <2>1, FS_Subset DEF IInv, RowsAreCounted
<1>. HIDE DEF new, rejects
<1>8. /\ Cardinality(RejectedRecords) \in Nat /\ Cardinality(RejectedRecords \cap new) \in Nat
      /\ Cardinality(RejectedRecords')
            = Cardinality(RejectedRecords) + Cardinality(new) - Cardinality(RejectedRecords \cap new)
  <2>1. IsFiniteSet(RejectedRecords \cap new)
    BY <1>5, FS_Subset
  <2>. QED
    BY <1>5, <1>6, <1>7, <2>1, FS_Union, FS_CardinalityType
<1>9. errors.parse \in Nat
  BY DEF IInv, TypeOK
<1>10. Cardinality(RejectedRecords') <= errors.parse + Cardinality(rejects)
  BY <1>4, <1>5, <1>7, <1>8, <1>9
<1>. QED
  BY <1>2, <1>3, <1>4, <1>10 DEF rejects

\* A dataset ends with every object it had when it was begun, unless it is cut off.
LEMMA EndDatasetKeepsIInv ==
    ASSUME IInv, pc = "page", NEW read, EndDataset(read), rows' = read,
           read \subseteq Occurrence, IsFiniteSet(read), rows \subseteq read,
           shown' \subseteq Occurrence, shown \subseteq shown', read \subseteq shown',
           \A o \in shown' \ shown : o.row \in Scalars \/ o \in read,
           \A o \in read : o.dataset = Current /\ o.row \notin Scalars,
           cut' \subseteq Dataset, cut \subseteq cut',
           \/ Current \in cut'
           \/ \A row \in begunWith[Current] \ Scalars : \E r \in read : r.row = row
    PROVE  IInv'
<1>. DEFINE rejects == {r \in read : IsRejected(r.dataset, r.row)}
<1>1. /\ records' = records \cup {ToRecord(r) : r \in read}
      /\ errors' = [errors EXCEPT !.parse = @ + Cardinality(rejects)]
      /\ request' = NoRequest /\ pc' = "dataset"
      /\ UNCHANGED <<attempts, stored, begun, page, begunWith>>
  BY DEF EndDataset
<1>2. Current \in Dataset /\ begun \in 1..Len(Selected) /\ Current = Selected[begun]
  BY PageIsOfADataset DEF Current
<1>3. PICK d \in Dataset : d = Current
  BY <1>2
<1>4. /\ records' \subseteq Record /\ IsFiniteSet(records') /\ Cardinality(rejects) \in Nat
      /\ Cardinality(RejectedRecords') <= errors.parse + Cardinality(rejects)
  BY <1>1, RowsBecomeRecords
<1>. HIDE DEF rejects
<1>5. /\ errors' \in [parse : Nat, fetch : SUBSET Dataset] /\ errors'.fetch = errors.fetch
      /\ errors'.parse = errors.parse + Cardinality(rejects)
  <2>1. PICK count \in Nat : count = Cardinality(rejects)
    BY <1>4
  <2>2. errors' = [errors EXCEPT !.parse = @ + count]
    BY <1>1, <2>1
  <2>3. errors \in [parse : Nat, fetch : SUBSET Dataset]
    BY DEF IInv, TypeOK
  <2>4. errors' \in [parse : Nat, fetch : SUBSET Dataset] /\ errors'.fetch = errors.fetch
    BY <2>2, <2>3
  <2>5. errors'.parse = errors.parse + count
    BY <2>2, <2>3
  <2>. QED
    BY <2>1, <2>4, <2>5
<1>6. TypeOK'
  BY <1>1, <1>4, <1>5 DEF IInv, TypeOK, FetchTypeOK, Request, NoRequest
<1>7. PagerIsSound' /\ PagesMissNothing'
  BY <1>1 DEF PagerIsSound, PagesMissNothing
<1>8. /\ \A e : Collected(e) \subseteq Collected(e)'
      /\ \A r \in read : r.row \in Collected(d)'
  <2>1. records \subseteq records' /\ \A r \in read : ToRecord(r) \in records'
    BY <1>1
  <2>2. \A r \in read : ToRecord(r).read = r /\ r.dataset = d
    BY <1>3 DEF ToRecord
  <2>. QED
    BY <2>1, <2>2 DEF Collected
<1>9. IsCollected(d)'
  BY <1>1, <1>3, <1>8 DEF IsCollected
<1>10. ASSUME NEW i \in 1..begun, i # begun
       PROVE  IsCollected(Selected[i])'
  <2>1. IsCollected(Selected[i])
    BY <1>10 DEF IInv, DatasetsAreCollected
  <2>. QED
    BY <1>1, <1>5, <1>8, <2>1 DEF IsCollected
<1>11. DatasetsAreCollected'
  BY <1>1, <1>2, <1>3, <1>9, <1>10 DEF DatasetsAreCollected
<1>12. RowsAreCounted'
  BY <1>4, <1>5 DEF RowsAreCounted
<1>13. RowsAreAccountedFor'
  <2>1. \A e : IsOfEarlier(e) => IsOfEarlier(e)'
    BY <1>1 DEF IsOfEarlier
  <2>2. IsOfEarlier(d)' /\ d \notin errors.fetch
    <3>1. IsOfEarlier(d)'
      BY <1>1, <1>2, <1>3 DEF IsOfEarlier
    <3>2. ~ IsOfEarlier(d)
      <4>1. \A i \in 1..begun : i \in 1..Len(Selected)
        BY <1>2, SelectionIsSound
      <4>. QED
        BY <1>2, <1>3, <4>1, SelectionIsSound DEF IsOfEarlier
    <3>. QED
      BY <3>1, <3>2 DEF IInv, RowsAreAccountedFor
  <2>3. \A r \in read : ToRecord(r).read = r
    BY DEF ToRecord
  <2>4. ASSUME NEW r \in records'
        PROVE  /\ r = ToRecord(r.read) /\ r.read \in shown' /\ r.read.row \notin Scalars
               /\ r.read.dataset \notin errors'.fetch /\ IsOfEarlier(r.read.dataset)'
    <3>1. CASE r \in records
      BY <1>5, <2>1, <3>1 DEF IInv, RowsAreAccountedFor
    <3>2. CASE \E o \in read : r = ToRecord(o)
      BY <1>3, <1>5, <2>2, <2>3, <3>2
    <3>. QED
      BY <1>1, <3>1, <3>2
  <2>5. ASSUME NEW o \in shown'
        PROVE  \/ o.row \in Scalars \/ o.dataset \in errors'.fetch
               \/ ToRecord(o) \in records'
    BY <1>1, <1>5 DEF IInv, RowsAreAccountedFor
  <2>6. \A e \in errors'.fetch : IsOfEarlier(e)'
    BY <1>5, <2>1 DEF IInv, RowsAreAccountedFor
  <2>. QED
    BY <1>1, <2>4, <2>5, <2>6 DEF RowsAreAccountedFor
<1>. QED
  BY <1>6, <1>7, <1>11, <1>12, <1>13 DEF IInv

\* What a page holds, where it was read.
LEMMA PageIsRead ==
    ASSUME IInv, pc = "page", NEW data \in Seq(Row)
    PROVE  /\ Occurrences(data) \subseteq Occurrence /\ IsFiniteSet(Occurrences(data))
           /\ \A o \in Occurrences(data) : o.dataset = Current
           /\ \A row \in ToSet(data) : \E o \in Occurrences(data) : o.row = row
<1>1. Current \in Dataset /\ page \in Nat /\ DOMAIN data = 1..Len(data) /\ Len(data) \in Nat
  BY PageIsOfADataset, LenProperties
<1>2. \A i \in DOMAIN data : data[i] \in Row /\ i \in Nat
  BY <1>1, ElementOfSeq
<1>. DEFINE At(i) == [dataset |-> Current, page |-> page, index |-> i, row |-> data[i]]
            f == [i \in DOMAIN data |-> At(i)]
<1>3. Occurrences(data) \subseteq Occurrence
  BY <1>1, <1>2 DEF Occurrences, Occurrence
<1>4. f \in Surjection(DOMAIN data, Occurrences(data))
  <2>1. f \in [DOMAIN data -> Occurrences(data)]
    BY DEF Occurrences
  <2>2. \A o \in Occurrences(data) : \E i \in DOMAIN data : f[i] = o
    BY DEF Occurrences
  <2>. QED
    BY <2>1, <2>2, Fun_IsSurj
<1>5. IsFiniteSet(DOMAIN data)
  BY <1>1, FS_Interval
<1>6. IsFiniteSet(Occurrences(data))
  BY <1>4, <1>5, FS_Surjection
<1>7. \A i \in DOMAIN data : At(i) \in Occurrences(data) /\ At(i).row = data[i]
  BY DEF Occurrences
<1>8. \A o \in Occurrences(data) : o.dataset = Current
  BY DEF Occurrences
<1>9. \A row \in ToSet(data) : \E i \in DOMAIN data : row = data[i]
  BY DEF ToSet
<1>. QED
  BY <1>3, <1>6, <1>7, <1>8, <1>9

\* What is read after a page is everything up to the next page's rows.
LEMMA ReadPageKeepsIInv ==
    ASSUME IInv, ReadPage
    PROVE  IInv'
<1>. DEFINE served == ServePage(Current, page)
            s == stored[Current]
            on == Occurrences(served.data)
<1>1. /\ rows' = rows \cup Objects(on) /\ shown' = shown \cup on
      /\ \/ /\ EndDataset(rows')
            /\ cut' = IF served.hasMore THEN cut \cup {Current} ELSE cut
         \/ /\ page # PageCeiling /\ page' = page + 1 /\ request' = FirstAttempt
            /\ UNCHANGED <<attempts, stored, pc, begun, result, cut, begunWith>>
  BY Zenon DEF ReadPage, IsLast
<1>2. pc = "page"
  BY DEF ReadPage
<1>3. /\ begun \in 1..Len(Selected) /\ s \in Seq(Row) /\ rows \subseteq Occurrence
      /\ page \in Nat /\ page >= 1 /\ page <= PageCeiling /\ Current \in Dataset
      /\ PageSize \in Nat \ {0} /\ PageCeiling \in Nat \ {0} /\ Offset \in Nat
  BY <1>2, PageIsOfADataset
<1>4. /\ served.data \in Seq(Row)
      /\ \A i \in 1..Len(s) :
             i > Offset /\ i <= Offset + PageSize => s[i] \in ToSet(served.data)
      /\ ~ served.hasMore => Len(s) <= Offset + PageSize
  BY <1>2, PageIsServed
<1>5. /\ on \subseteq Occurrence /\ IsFiniteSet(on) /\ \A o \in on : o.dataset = Current
      /\ \A row \in ToSet(served.data) : \E o \in on : o.row = row
  BY <1>2, <1>4, PageIsRead
<1>. HIDE DEF served, s, on
<1>6. /\ rows' \subseteq Occurrence /\ IsFiniteSet(rows') /\ shown' \subseteq Occurrence
      /\ rows' \subseteq shown'
      /\ \A o \in rows' : o.dataset = Current /\ o.row \notin Scalars
      /\ \A o \in shown' \ shown : o.row \in Scalars \/ o \in rows'
  <2>1. Objects(on) \in SUBSET on /\ \A o \in Objects(on) : o.row \notin Scalars
    BY DEF Objects
  <2>2. IsFiniteSet(rows')
    BY <1>1, <1>5, <2>1, FS_Subset, FS_Union DEF IInv, RowsAreCounted
  <2>3. \A o \in rows : o \in shown /\ o.dataset = Current /\ o.row \notin Scalars
    BY <1>2 DEF IInv, RowsAreAccountedFor
  <2>4. shown \subseteq Occurrence
    BY DEF IInv, TypeOK
  <2>5. \A o \in on : o.row \in Scalars \/ o \in Objects(on)
    BY DEF Objects
  <2>. QED
    BY <1>1, <1>3, <1>5, <2>1, <2>2, <2>3, <2>4, <2>5
<1>7. Len(s) \in Nat /\ DOMAIN s = 1..Len(s)
  BY <1>3, LenProperties
<1>8. \A row \in begunWith[Current] \ Scalars :
          \/ \E r \in rows' : r.row = row
          \/ \E i \in DOMAIN s : i > Offset + PageSize /\ s[i] = row
  <2>1. SUFFICES ASSUME NEW row \in begunWith[Current] \ Scalars,
                        ~ \E r \in rows' : r.row = row
                 PROVE  \E i \in DOMAIN s : i > Offset + PageSize /\ s[i] = row
    OBVIOUS
  <2>2. PICK i \in DOMAIN s : i > Offset /\ s[i] = row
    BY <1>1, <1>2, <2>1 DEF IInv, PagesMissNothing, s
  <2>3. row \notin ToSet(served.data)
    <3>1. \A o \in on : o.row = row => o \in Objects(on)
      BY <2>1 DEF Objects
    <3>. QED
      BY <1>1, <1>5, <2>1, <3>1
  <2>4. ~ (i <= Offset + PageSize)
    BY <1>4, <1>7, <2>2, <2>3
  <2>5. i > Offset + PageSize
    BY <1>3, <1>7, <2>4
  <2>. QED
    BY <2>2, <2>5
<1>9. CASE /\ EndDataset(rows')
           /\ cut' = IF served.hasMore THEN cut \cup {Current} ELSE cut
  <2>1. \/ Current \in cut'
        \/ \A row \in begunWith[Current] \ Scalars : \E r \in rows' : r.row = row
    <3>1. CASE served.hasMore
      BY <1>9, <3>1
    <3>2. CASE ~ served.hasMore
      <4>1. ~ \E i \in DOMAIN s : i > Offset + PageSize
        BY <1>3, <1>4, <1>7, <3>2
      <4>. QED
        BY <1>8, <4>1
    <3>. QED
      BY <3>1, <3>2
  <2>2. cut' \subseteq Dataset /\ cut \subseteq cut'
    BY <1>3, <1>9 DEF IInv, TypeOK
  <2>3. PICK read : read = rows'
    OBVIOUS
  <2>4. /\ EndDataset(read) /\ read \subseteq Occurrence /\ IsFiniteSet(read)
        /\ rows \subseteq read /\ read \subseteq shown' /\ shown \subseteq shown'
    BY <1>1, <1>6, <1>9, <2>3
  <2>. QED
    BY <1>2, <1>6, <2>1, <2>2, <2>3, <2>4, EndDatasetKeepsIInv
<1>10. CASE /\ page # PageCeiling /\ page' = page + 1 /\ request' = FirstAttempt
            /\ UNCHANGED <<attempts, stored, pc, begun, result, cut, begunWith>>
  <2>1. /\ page' = page + 1 /\ request' = [state |-> "sent", attempt |-> 1]
        /\ UNCHANGED <<attempts, stored, pc, begun, records, errors, cut, begunWith>>
    BY <1>10 DEF FirstAttempt, result
  <2>2. page' \in 0..PageCeiling
    BY <1>3, <1>10
  <2>3. TypeOK'
    BY <1>2, <1>6, <2>1, <2>2 DEF IInv, TypeOK, FetchTypeOK, Request
  <2>4. Offset' = Offset + PageSize
    <3>1. ((page + 1) - 1) * PageSize = Offset + PageSize
      BY <1>2, PageIsOfADataset
    <3>2. Offset' = ((page + 1) - 1) * PageSize
      BY <2>1 DEF Offset
    <3>. QED
      BY <3>1, <3>2
  <2>5. PagesMissNothing'
    BY <1>8, <2>1, <2>4 DEF PagesMissNothing, Current, s
  <2>6. PagerIsSound'
    BY <1>3, <2>1 DEF IInv, PagerIsSound
  <2>7. DatasetsAreCollected'
    BY <2>1 DEF IInv, DatasetsAreCollected, IsCollected, Collected
  <2>8. RowsAreCounted'
    BY <1>6, <2>1 DEF IInv, RowsAreCounted, RejectedRecords
  <2>9. RowsAreAccountedFor'
    <3>1. \A e : IsOfEarlier(e) <=> IsOfEarlier(e)'
      BY <2>1 DEF IsOfEarlier
    <3>2. Current' = Current /\ shown \subseteq shown' /\ rows \subseteq rows'
      BY <1>1, <2>1 DEF Current
    <3>. QED
      BY <1>2, <1>6, <2>1, <3>1, <3>2 DEF IInv, RowsAreAccountedFor
  <2>. QED
    BY <2>3, <2>5, <2>6, <2>7, <2>8, <2>9 DEF IInv
<1>. QED
  BY <1>1, <1>9, <1>10

\* A dataset that is given up is reported, and the others are kept.
LEMMA GiveUpKeepsIInv ==
    ASSUME IInv, GiveUp
    PROVE  IInv'
<1>1. /\ pc = "page" /\ request' = NoRequest /\ pc' = "dataset"
      /\ errors' = [errors EXCEPT !.fetch = @ \cup {Current}]
      /\ UNCHANGED <<attempts, stored, begun, page, rows, records, shown, cut, begunWith>>
  BY DEF GiveUp, history
<1>2. Current \in Dataset /\ Current = Selected[begun] /\ begun \in 1..Len(Selected)
  BY <1>1, PageIsOfADataset DEF Current
<1>3. /\ errors' \in [parse : Nat, fetch : SUBSET Dataset] /\ errors'.parse = errors.parse
      /\ errors'.fetch = errors.fetch \cup {Current}
  BY <1>1, <1>2 DEF IInv, TypeOK
<1>4. TypeOK'
  BY <1>1, <1>3 DEF IInv, TypeOK, FetchTypeOK, Request, NoRequest
<1>5. DatasetsAreCollected'
  BY <1>1, <1>2, <1>3 DEF IInv, DatasetsAreCollected, IsCollected, Collected
<1>6. PagerIsSound' /\ PagesMissNothing'
  BY <1>1 DEF IInv, PagerIsSound, PagesMissNothing
<1>7. RowsAreCounted'
  BY <1>1, <1>3 DEF IInv, RowsAreCounted, RejectedRecords
<1>8. RowsAreAccountedFor'
  <2>1. /\ \A e : IsOfEarlier(e) => IsOfEarlier(e)' /\ e # Current
        /\ IsOfEarlier(Current)'
    <3>1. \A i \in 1..begun : i \in 1..Len(Selected)
      BY <1>2, SelectionIsSound
    <3>2. begun' = begun /\ pc' # "page" /\ begun \in 1..begun
      BY <1>1, <1>2
    <3>3. ASSUME NEW e, IsOfEarlier(e)
          PROVE  IsOfEarlier(e)' /\ e # Current
      BY <1>1, <1>2, <3>1, <3>2, <3>3, SelectionIsSound DEF IsOfEarlier
    <3>4. \E i \in 1..begun : Selected[i] = Current
      BY <1>2, <3>2
    <3>5. PICK d : d = Current
      OBVIOUS
    <3>6. IsOfEarlier(d)'
      BY <3>2, <3>4, <3>5 DEF IsOfEarlier
    <3>7. Current' = Current
      BY <1>1 DEF Current
    <3>. QED
      BY <3>3, <3>5, <3>6, <3>7
  <2>2. Current' = Current
    BY <1>1 DEF Current
  <2>3. ASSUME NEW o \in shown
        PROVE  o.row \in Scalars \/ o.dataset \in errors'.fetch \/ ToRecord(o) \in records
    BY <1>1, <1>3 DEF IInv, RowsAreAccountedFor
  <2>. QED
    BY <1>1, <1>3, <2>1, <2>2, <2>3 DEF IInv, RowsAreAccountedFor
<1>. QED
  BY <1>4, <1>5, <1>6, <1>7, <1>8 DEF IInv

\* A step between datasets leaves what was read alone.
LEMMA BetweenDatasetsKeepsIInv ==
    ASSUME IInv, ReadConfig \/ Finish
    PROVE  IInv'
<1>1. /\ UNCHANGED <<request, attempts, stored, begun, page, rows>>
      /\ UNCHANGED <<records, errors, shown, cut, begunWith>>
      /\ pc \in {"begin", "dataset"} /\ pc' \in {"dataset", "thrown", "done"}
      /\ pc' = "done" => begun = Len(Selected)
  BY DEF ReadConfig, Finish, fetch, result, history
<1>2. TypeOK'
  BY <1>1 DEF IInv, TypeOK, FetchTypeOK
<1>3. PagerIsSound' /\ PagesMissNothing'
  BY <1>1 DEF PagerIsSound, PagesMissNothing
<1>4. DatasetsAreCollected'
  BY <1>1 DEF IInv, DatasetsAreCollected, IsCollected, Collected
<1>5. RowsAreCounted'
  BY <1>1 DEF IInv, RowsAreCounted, RejectedRecords
<1>6. RowsAreAccountedFor'
  BY <1>1 DEF IInv, RowsAreAccountedFor, IsOfEarlier
<1>. QED
  BY <1>2, <1>3, <1>4, <1>5, <1>6 DEF IInv

\* Every step keeps the invariant.
LEMMA NextKeepsIInv == IInv /\ [Next]_vars => IInv'
<1>. SUFFICES ASSUME IInv, [Next]_vars PROVE IInv'
  OBVIOUS
<1>1. CASE UNCHANGED vars
  <2>1. UNCHANGED <<request, attempts>> /\ UNCHANGED <<stored, pager>>
    BY <1>1 DEF vars, fetch
  <2>2. TypeOK'
    BY <2>1 DEF IInv, TypeOK, FetchTypeOK, pager, result, history
  <2>. QED
    BY <2>1, <2>2, RowsAreKept DEF IInv
<1>2. CASE Collect
  BY <1>2, BetweenDatasetsKeepsIInv, BeginDatasetKeepsIInv, ReadPageKeepsIInv,
     GiveUpKeepsIInv, FetchKeepsIInv DEF Collect
<1>3. CASE \E d \in Dataset : \E row \in RowsOf[d] : AddRow(d, row)
  BY <1>3, AddRowKeepsIInv
<1>. QED
  BY <1>1, <1>2, <1>3 DEF Next

\* So it holds throughout.
LEMMA IInvIsInvariant == Spec => []IInv
BY InitEstablishesIInv, NextKeepsIInv, PTL DEF Spec
-----------------------------------------------------------------------------
\* The pages, the request and the records hold what their types say, and a request is in
\* progress exactly while a page is awaited (app-api.collector.ts:119-208, http.ts:69-122).
THEOREM TypeCorrect == Spec => []TypeOK
<1>1. IInv => TypeOK
  BY DEF IInv
<1>. QED
  BY <1>1, IInvIsInvariant, PTL

\* However many rows are added between two pages, and wherever they are listed, no object
\* that was listed when its dataset was begun is skipped, unless the dataset is reported,
\* or was cut off by the page ceiling or for want of its pagination
\* (app-api.collector.ts:129-207).  Rows that are no objects are passed over (line 193).
THEOREM RowsAreNotMissed == Spec => []NothingMissed
<1>1. ASSUME IInv, pc = "done", NEW i \in DOMAIN Selected
      PROVE  IsCollected(Selected[i])
  <2>1. i \in 1..begun
    BY <1>1, SelectionIsSound DEF IInv, PagerIsSound
  <2>. QED
    BY <1>1, <2>1 DEF IInv, DatasetsAreCollected
<1>2. IInv => NothingMissed
  BY <1>1 DEF NothingMissed, IsCollected
<1>. QED
  BY <1>2, IInvIsInvariant, PTL
-----------------------------------------------------------------------------
\* What is answered accounts for the rows that were shown.
Accounts ==
    pc = "done" =>
        /\ Outcome \in Contract!Outcome
        /\ Outcome.shown = Outcome.usable + Outcome.rejected
        /\ Outcome.rejected <= Outcome.errors

\* There are as many datasets given up as there are.
LEMMA DatasetsAreFinite == IsFiniteSet(Dataset)
<1>1. Dataset = {"work-orders", "batches", "receiving", "dispatch"}
  <2>1. 1..4 = {1, 2, 3, 4}
    OBVIOUS
  <2>. QED
    BY <2>1 DEF Dataset, DATASETS
<1>2. /\ IsFiniteSet({"work-orders"})
      /\ \A S, x : IsFiniteSet(S) => IsFiniteSet(S \cup {x})
  BY FS_Singleton, FS_AddElement
<1>3. Dataset = (({"work-orders"} \cup {"batches"}) \cup {"receiving"}) \cup {"dispatch"}
  BY <1>1
<1>. QED
  BY <1>2, <1>3, Zenon

\* Each object that was shown is usable or rejected, and a rejected one is reported.
LEMMA OutcomeAccounts == IInv => Accounts
<1>. SUFFICES ASSUME IInv, pc = "done" PROVE Accounts
  BY DEF Accounts
<1>. DEFINE U == {r \in records : IsUsable(r)}
            R == {r \in records : r.parseError}
            S == {o \in Objects(shown) : o.dataset \notin errors.fetch}
            given == Cardinality(errors.fetch)
<1>1. Outcome = [state |-> "returned", shown |-> Cardinality(S),
                 rejected |-> Cardinality(R), usable |-> Cardinality(U),
                 errors |-> errors.parse + given]
  BY DEF Outcome
<1>2. errors.parse \in Nat /\ errors.fetch \in SUBSET Dataset
  BY DEF IInv, TypeOK
<1>3. given \in Nat
  BY <1>2, DatasetsAreFinite, FS_Subset, FS_CardinalityType
<1>4. IsFiniteSet(records) /\ Cardinality(R) <= errors.parse
  BY DEF IInv, RowsAreCounted, RejectedRecords
<1>5. records = {ToRecord(o) : o \in S}
  <2>1. \A o \in S : ToRecord(o) \in records
    BY DEF IInv, RowsAreAccountedFor, Objects
  <2>2. \A r \in records : r = ToRecord(r.read) /\ r.read \in S
    BY DEF IInv, RowsAreAccountedFor, Objects
  <2>. QED
    BY <2>1, <2>2
<1>6. U \cup R = records /\ U \cap R = {}
  <2>1. \A r \in records : r.parseError <=> ~ IsUsable(r)
    <3>1. \A r \in records : r.parseError = IsRejected(r.read.dataset, r.read.row)
      BY DEF IInv, RowsAreAccountedFor, ToRecord
    <3>. QED
      BY <3>1 DEF IsUsable, IsRejected
  <2>. QED
    BY <2>1
<1>7. IsFiniteSet(S)
  <2>1. IsFiniteSet({r.read : r \in records})
    <3>. DEFINE f == [r \in records |-> r.read]
                T == {r.read : r \in records}
    <3>1. f \in Surjection(records, T)
      <4>1. f \in [records -> T] /\ \A t \in T : \E r \in records : f[r] = t
        OBVIOUS
      <4>. QED
        BY <4>1, Fun_IsSurj
    <3>. QED
      BY <1>4, <3>1, FS_Surjection
  <2>2. S \in SUBSET {r.read : r \in records}
    <3>1. \A o \in S : ToRecord(o) \in records /\ ToRecord(o).read = o
      BY <1>5 DEF ToRecord
    <3>. QED
      BY <3>1
  <2>. QED
    BY <2>1, <2>2, FS_Subset
<1>8. Cardinality(records) = Cardinality(S) /\ Cardinality(S) \in Nat
  BY <1>5, <1>7, RecordsAreCounted
<1>9. /\ Cardinality(U) \in Nat /\ Cardinality(R) \in Nat
      /\ Cardinality(records) = Cardinality(U) + Cardinality(R)
  <2>1. IsFiniteSet(U) /\ IsFiniteSet(R)
    BY <1>4, FS_Subset
  <2>. HIDE DEF U, R
  <2>2. Cardinality(U \cap R) = 0
    BY <1>6, FS_EmptySet
  <2>3. Cardinality(U \cup R) = Cardinality(U) + Cardinality(R) - Cardinality(U \cap R)
    BY <2>1, FS_Union
  <2>4. Cardinality(U) \in Nat /\ Cardinality(R) \in Nat
    BY <2>1, FS_CardinalityType
  <2>. QED
    BY <1>6, <2>2, <2>3, <2>4
<1>. HIDE DEF U, R, S, given
<1>. QED
  BY <1>1, <1>2, <1>3, <1>4, <1>8, <1>9 DEF Accounts, Contract!Outcome

\* An answer is given once, and rows that are added later do not change it.
LEMMA NextKeepsContract ==
    ASSUME TypeOK, Accounts', [Next]_vars
    PROVE  [Contract!Next]_Outcome
<1>1. CASE pc \in {"done", "thrown"}
  <2>1. request.state = "none"
    BY <1>1 DEF TypeOK
  <2>2. UNCHANGED pager
    BY <1>1, <2>1 DEF Next, Collect, ReadConfig, BeginDataset, ReadPage, GiveUp, Finish,
                      Retry, EndWith, Wake, BodyBreaks, FetchNext, Answer, NoAnswer, AddRow,
                      vars
  <2>3. UNCHANGED <<pc, records, errors, shown>>
    BY <2>2 DEF pager, result, history
  <2>. QED
    BY <2>3 DEF Outcome, IsUsable
<1>2. CASE pc \notin {"done", "thrown"} /\ pc' = "done"
  <2>1. Outcome = [state |-> "pending"] /\ Outcome'.state = "returned"
    BY <1>2 DEF Outcome
  <2>. QED
    BY <1>2, <2>1 DEF Accounts, Contract!Next, Contract!Returns
<1>3. CASE pc \notin {"done", "thrown"} /\ pc' = "thrown"
  BY <1>3 DEF Outcome, Contract!Next, Contract!Throws
<1>4. CASE pc \notin {"done", "thrown"} /\ pc' \notin {"done", "thrown"}
  BY <1>4 DEF Outcome
<1>. QED
  BY <1>1, <1>2, <1>3, <1>4

\* The collection is answered at most once, and no object that a page has shown is
\* unaccounted for unless its dataset is reported (app-api.collector.ts:186-214): the
\* safety half of KeepsContract.
THEOREM CallKeepsTheContract == Spec => Contract!Init /\ [][Contract!Next]_Outcome
<1>1. Init => Contract!Init
  BY DEF Init, Contract!Init, Outcome
<1>. QED
  BY <1>1, OutcomeAccounts, IInvIsInvariant, TypeCorrect, NextKeepsContract, PTL DEF Spec
=============================================================================
