----------------------- MODULE GetMetricSeriesProofs -----------------------
(***************************************************************************)
(* No duplicate series in a finished scrape, for every query definition,   *)
(* every set of column values and every bound on the rows.                 *)
(*                                                                         *)
(* Three conditions on the query definition and the data are needed,    *)
(* and each is one the code really depends on:                             *)
(*  - DistinctColumns: no statement returns two columns of the same name;  *)
(*    procRows loops over every column, so a repeated name gives two       *)
(*    samples of one series from a single row;                             *)
(*  - LabelsAligned: a label column sits at the same place in every        *)
(*    statement; getMetric reads every row with the column positions of    *)
(*    the last statement, so otherwise one statement's label is read from  *)
(*    another column of another statement's row;                          *)
(*  - LabelColumnsTyped: a label column holds values of one SQL type, not  *)
(*    NULL, and ill-formed text only where no UTF-8 check is declared;     *)
(*    int64 3 and float64 3 print alike, NULL prints like '', and decode   *)
(*    turns ill-formed texts that differ only in replaced bytes, or any    *)
(*    two of a row without a database name, into one text (run            *)
(*    getmetric_duplicate).                                                *)
(* From the last two, DecodeApart proves that decode keeps the labels of   *)
(* different rows apart.  Under all three the scrape itself adds nothing:  *)
(* the samples of one row have different names, and samples of different  *)
(* rows different labels.                                                  *)
(***************************************************************************)
EXTENDS GetMetricProofs

(* The rows the statements can return, and their column lists. *)
AllRows == UNION {RowsOf(s) : s \in 1..N}
ColumnLists == {Queries[s].cols : s \in 1..N}

(* The label columns of row r read with the column list cols. *)
RawLabelsOf(cols, r) == [k \in 1..Len(LabelNames) |-> r[ColumnIdx(cols, LabelNames[k])]]

DistinctColumns ==
  \A s \in 1..N : \A i, j \in 1..Len(Queries[s].cols) :
    i # j => Queries[s].cols[i] # Queries[s].cols[j]

(* Each label column is found at the same position in every statement. *)
LabelsAligned ==
  \A s1, s2 \in 1..N : \A k \in 1..Len(LabelNames) :
    LET i == ColumnIdx(Queries[s2].cols, LabelNames[k])
    IN  i \in 1..Len(Queries[s1].cols) => Queries[s1].cols[i] = LabelNames[k]

(* The Go types database/sql scans a non-NULL label column into. *)
LabelKinds == {"int64", "float64", "time", "bytes", "string"}

(* Each label column holds one type; ill-formed text only if unchecked. *)
LabelColumnsTyped ==
  \A k \in 1..Len(LabelNames) : \E t \in LabelKinds :
    \A v \in ColValues[LabelNames[k]] :
      /\ v.kind = t
      /\ v.form = "invalid" => ~GetColumn(LabelNames[k]).checkUTF8

(* Decode gives different label values to rows with different label columns. *)
DecodeKeepsLabelsApart ==
  \A cols \in ColumnLists, r1, r2 \in AllRows :
    (/\ ~LabelsPanic(cols, r1) /\ ~LabelsPanic(cols, r2)
     /\ RawLabelsOf(cols, r1) # RawLabelsOf(cols, r2)
     /\ \A k \in DOMAIN LabelValues(cols, r1) : ValidString(LabelValues(cols, r1)[k]))
      => LabelValues(cols, r1) # LabelValues(cols, r2)

(* The two halves of NoDuplicateSeries. *)
RawDistinct == \A i, j \in 1..Len(list) : i # j => RawLabels(list[i]) # RawLabels(list[j])

NoDup ==
  \A i, j \in 1..Len(metrics) :
    (i # j /\ metrics[i].name = metrics[j].name) => metrics[i].labels # metrics[j].labels

(* Sample m carries the valid label values of row r. *)
SampleFrom(m, r) ==
  /\ ~LabelsPanic(columnNames, list[r])
  /\ m.labels = LabelValues(columnNames, list[r])
  /\ \A k \in DOMAIN m.labels : ValidString(m.labels[k])

(***************************************************************************)
(* Every sample comes from a row procRows has passed, or from an earlier   *)
(* column of the row it is at.                                             *)
(***************************************************************************)
Origin ==
  \A i \in 1..Len(metrics) : \E r \in 1..Len(list) :
    /\ SampleFrom(metrics[i], r)
    /\ pc = "row" => r < row
    /\ pc = "col" => \/ r < row
                     \/ r = row /\ \E c \in 1..col - 1 : metrics[i].name = columnNames[c]

(***************************************************************************)
(* The inductive invariant: the type invariant and its strengthening IInv, *)
(* where the rows come from, which column list they are read with, that a *)
(* scrape starts with no samples, the labels of the current row, Origin,   *)
(* and the conclusion itself in every state.                               *)
(***************************************************************************)
SInv ==
  /\ IInv
  /\ \A s \in 1..N : \A i \in 1..Len(db[s].rows) : db[s].rows[i] \in RowsOf(s)
  /\ \A i \in 1..Len(list) : list[i] \in AllRows
  /\ columnNames \in {<<>>} \cup ColumnLists
  /\ pc \in {"query", "fetch"} => metrics = <<>>
  /\ pc = "col" => /\ ~LabelsPanic(columnNames, list[row])
                   /\ labels = LabelValues(columnNames, list[row])
  /\ Origin
  /\ RawDistinct => NoDup

-----------------------------------------------------------------------------
(* The rows of an answer come from the statement's rows. *)
LEMMA ResultsRows ==
  ASSUME NEW s \in 1..N, NEW a \in Results(s)
  PROVE  \A i \in 1..Len(a.rows) : a.rows[i] \in RowsOf(s)
<1>1. PICK rs \in ResultSets(s) :
        a \in {[ok |-> TRUE, rows |-> rs, failAt |-> f] : f \in FailPoints(rs)}
  BY DEF Results
<1>2. PICK k \in 0..MaxRows : rs \in [1..k -> RowsOf(s)]
  BY DEF ResultSets
<1>3. a.rows = rs
  BY <1>1
<1>. QED
  BY <1>2, <1>3, GetMetricAssumption

(* A scrape with no samples satisfies Origin and NoDup. *)
LEMMA NoSamples ==
  ASSUME metrics = << >>
  PROVE  Origin /\ NoDup
BY DEF Origin, NoDup

LEMMA InitSInv == Init => SInv
<1> SUFFICES ASSUME Init PROVE SInv
  OBVIOUS
<1>1. IInv
  BY InitIInv
<1>2. \A s \in 1..N : Len(db[s].rows) = 0
  BY DEF Init, QueryError
<1>3. Origin /\ NoDup
  BY NoSamples DEF Init
<1>. QED
  BY <1>1, <1>2, <1>3 DEF Init, SInv

(* The statement loop: no samples yet, rows taken from the answers. *)
LEMMA StepQueryLoop ==
  ASSUME SInv, [Next]_vars, IInv',
         Collect \/ SkipDisabled \/ QueryFailed \/ QueryOK \/ FetchRow \/ RowsDone
  PROVE  SInv'
<1>0. metrics' = << >>
  BY DEF Collect, SkipDisabled, QueryFailed, QueryOK, FetchRow, RowsDone, SInv
<1>1. (Origin /\ NoDup)'
  BY <1>0, NoSamples DEF Origin, NoDup
<1>2. pc' \in {"query", "fetch"}
  BY DEF Collect, SkipDisabled, QueryFailed, QueryOK, FetchRow, RowsDone
<1>3. (\A s \in 1..N : \A i \in 1..Len(db[s].rows) : db[s].rows[i] \in RowsOf(s))'
  <2>1. CASE QueryOK
    <3>1. stmt \in 1..N
      BY <2>1 DEF QueryOK, SInv, IInv, TypeOK
    <3>2. PICK a \in Results(stmt) : db' = [db EXCEPT ![stmt] = a]
      BY <2>1 DEF QueryOK
    <3>3. \A i \in 1..Len(a.rows) : a.rows[i] \in RowsOf(stmt)
      BY <3>1, ResultsRows
    <3>. QED
      BY <3>1, <3>2, <3>3 DEF SInv, IInv, TypeOK
  <2>2. CASE Collect
    BY <2>2 DEF Collect, QueryError
  <2>3. CASE QueryFailed
    <3>1. stmt \in 1..N
      BY <2>3 DEF QueryFailed, SInv, IInv, TypeOK
    <3>. QED
      BY <2>3, <3>1 DEF QueryFailed, QueryError, SInv, IInv, TypeOK
  <2>4. CASE SkipDisabled \/ FetchRow \/ RowsDone
    BY <2>4 DEF SkipDisabled, FetchRow, RowsDone, SInv
  <2>. QED
    BY <2>1, <2>2, <2>3, <2>4
<1>4. (\A i \in 1..Len(list) : list[i] \in AllRows)'
  <2>1. CASE FetchRow
    <3>1. stmt \in 1..N /\ fetched + 1 \in 1..Len(db[stmt].rows)
      BY <2>1 DEF FetchRow, SInv, IInv, TypeOK
    <3>2. db[stmt].rows[fetched + 1] \in AllRows
      BY <3>1 DEF SInv, AllRows
    <3>. QED
      BY <2>1, <3>2 DEF FetchRow, SInv, IInv, TypeOK
  <2>2. CASE ~FetchRow
    BY <2>2 DEF Collect, SkipDisabled, QueryFailed, QueryOK, RowsDone, SInv
  <2>. QED
    BY <2>1, <2>2
<1>5. columnNames' \in {<<>>} \cup ColumnLists
  <2>1. CASE QueryOK
    <3>1. stmt \in 1..N
      BY <2>1 DEF QueryOK, SInv, IInv, TypeOK
    <3>. QED
      BY <2>1, <3>1 DEF QueryOK, ColumnLists
  <2>2. CASE ~QueryOK
    BY <2>2 DEF Collect, SkipDisabled, QueryFailed, FetchRow, RowsDone, SInv
  <2>. QED
    BY <2>1, <2>2
<1>. QED
  BY <1>0, <1>1, <1>2, <1>3, <1>4, <1>5 DEF SInv

(* Steps that keep the rows and the samples: only Origin's position moves. *)
LEMMA StepRowLoop ==
  ASSUME SInv, IInv',
         StartProc \/ StartRow \/ EndRow \/ Emit \/ UNCHANGED vars
  PROVE  SInv'
<1>0. UNCHANGED <<db, list, columnNames, metrics>>
  BY DEF StartProc, StartRow, EndRow, Emit, vars
<1>1. (\A s \in 1..N : \A i \in 1..Len(db[s].rows) : db[s].rows[i] \in RowsOf(s))
      /\ (\A i \in 1..Len(list) : list[i] \in AllRows)
      /\ columnNames \in {<<>>} \cup ColumnLists
  BY DEF SInv
<1>2. (RawDistinct => NoDup)'
  <2>1. RawDistinct => NoDup
    BY DEF SInv
  <2>2. RawDistinct' = RawDistinct /\ NoDup' = NoDup
    BY <1>0 DEF RawDistinct, NoDup, RawLabels
  <2>. QED
    BY <2>1, <2>2
<1>3. (pc = "col" => /\ ~LabelsPanic(columnNames, list[row])
                     /\ labels = LabelValues(columnNames, list[row]))'
  BY <1>0 DEF StartProc, StartRow, EndRow, Emit, vars, SInv
<1>4. (pc \in {"query", "fetch"} => metrics = <<>>)'
  BY DEF StartProc, StartRow, EndRow, Emit, vars, SInv
<1>5. Origin'
  <2>1. CASE StartProc
    <3>1. metrics = << >>
      BY <2>1 DEF StartProc, SInv
    <3>. QED
      BY <1>0, <3>1 DEF Origin
  <2>2. ASSUME NEW i \in 1..Len(metrics), ~StartProc
        PROVE  \E r \in 1..Len(list) :
                 /\ SampleFrom(metrics[i], r)'
                 /\ pc' = "row" => r < row'
                 /\ pc' = "col" =>
                      \/ r < row'
                      \/ r = row' /\ \E c \in 1..col' - 1 : metrics[i].name = columnNames[c]
    <3>1. PICK r \in 1..Len(list) :
            /\ SampleFrom(metrics[i], r)
            /\ pc = "row" => r < row
            /\ pc = "col" => \/ r < row
                             \/ r = row /\ \E c \in 1..col - 1 : metrics[i].name = columnNames[c]
      BY DEF SInv, Origin
    <3>2. SampleFrom(metrics[i], r)'
      BY <1>0, <3>1 DEF SampleFrom
    <3>3. row \in Nat
      BY DEF SInv, IInv, TypeOK
    <3>4. CASE StartRow
      BY <3>1, <3>2, <3>4 DEF StartRow
    <3>5. CASE EndRow
      BY <3>1, <3>2, <3>3, <3>5 DEF EndRow
    <3>6. CASE Emit
      BY <3>2, <3>6 DEF Emit
    <3>7. CASE UNCHANGED vars
      BY <3>1, <3>2, <3>7 DEF vars
    <3>. QED
      BY <2>2, <3>4, <3>5, <3>6, <3>7
  <2>. QED
    BY <1>0, <2>1, <2>2 DEF Origin
<1>. QED
  BY <1>0, <1>1, <1>2, <1>3, <1>4, <1>5 DEF SInv

(***************************************************************************)
(* The sample ProcColumn adds at column col of the current row differs in  *)
(* name or labels from every sample before it: an earlier sample of the    *)
(* same row has another column's name (DistinctColumns), one of an        *)
(* earlier row other labels (RawDistinct and DecodeKeepsLabelsApart).      *)
(***************************************************************************)
LEMMA NewSampleIsNew ==
  ASSUME DistinctColumns, DecodeKeepsLabelsApart, SInv, RawDistinct,
         pc = "col", col <= Len(columnNames),
         \A k \in DOMAIN labels : ValidString(labels[k]),
         NEW i \in 1..Len(metrics), metrics[i].name = columnNames[col]
  PROVE  metrics[i].labels # labels
<1>1. row \in 1..Len(list) /\ col \in Nat \ {0}
  BY DEF SInv, IInv, TypeOK
<1>2. /\ ~LabelsPanic(columnNames, list[row])
      /\ labels = LabelValues(columnNames, list[row])
  BY DEF SInv
<1>3. PICK s \in 1..N : columnNames = Queries[s].cols
  <2>1. columnNames # << >>
    BY <1>1
  <2>. QED
    BY <2>1 DEF SInv, ColumnLists
<1>4. PICK r \in 1..Len(list) :
        /\ SampleFrom(metrics[i], r)
        /\ \/ r < row
           \/ r = row /\ \E c \in 1..col - 1 : metrics[i].name = columnNames[c]
  BY DEF SInv, Origin
<1>5. CASE r = row
  <2>1. PICK c \in 1..col - 1 : metrics[i].name = columnNames[c]
    BY <1>4, <1>5
  <2>2. c # col /\ c \in 1..Len(Queries[s].cols) /\ col \in 1..Len(Queries[s].cols)
    BY <1>1, <1>3, <2>1
  <2>3. columnNames[c] # columnNames[col]
    BY <1>3, <2>2 DEF DistinctColumns
  <2>. QED
    BY <2>1, <2>3
<1>6. CASE r # row
  <2>1. RawLabelsOf(columnNames, list[row]) # RawLabelsOf(columnNames, list[r])
    BY <1>1, <1>6 DEF RawDistinct, RawLabels, RawLabelsOf
  <2>2. columnNames \in ColumnLists /\ list[row] \in AllRows /\ list[r] \in AllRows
    BY <1>1, <1>3 DEF SInv, ColumnLists
  <2>3. ~LabelsPanic(columnNames, list[r]) /\ metrics[i].labels = LabelValues(columnNames, list[r])
    BY <1>4 DEF SampleFrom
  <2>4. LabelValues(columnNames, list[row]) # LabelValues(columnNames, list[r])
    BY <1>2, <2>1, <2>2, <2>3 DEF DecodeKeepsLabelsApart
  <2>. QED
    BY <1>2, <2>3, <2>4
<1>. QED
  BY <1>5, <1>6

LEMMA StepProcColumn ==
  ASSUME DistinctColumns, DecodeKeepsLabelsApart, SInv, IInv', ProcColumn
  PROVE  SInv'
<1>0. /\ UNCHANGED <<db, list, columnNames, row, labels>>
      /\ pc = "col" /\ col <= Len(columnNames)
  BY DEF ProcColumn
<1>1. /\ row \in 1..Len(list) /\ col \in Nat \ {0}
      /\ metrics \in Seq(Sample) /\ labels \in Seq(Str)
  BY <1>0 DEF SInv, IInv, TypeOK
<1>2. /\ (\A s \in 1..N : \A i \in 1..Len(db[s].rows) : db[s].rows[i] \in RowsOf(s))'
      /\ (\A i \in 1..Len(list) : list[i] \in AllRows)'
      /\ (columnNames \in {<<>>} \cup ColumnLists)'
      /\ (pc \in {"query", "fetch"} => metrics = <<>>)'
      /\ (pc = "col" => /\ ~LabelsPanic(columnNames, list[row])
                        /\ labels = LabelValues(columnNames, list[row]))'
      /\ RawDistinct' = RawDistinct
  BY <1>0 DEF ProcColumn, SInv, RawDistinct, RawLabels
<1>3. CASE col > Len(list[row])
  <2>1. pc' = "panic" /\ UNCHANGED <<col, metrics>>
    BY <1>3 DEF ProcColumn
  <2>2. Origin'
    BY <1>0, <2>1 DEF SInv, Origin, SampleFrom
  <2>3. (RawDistinct => NoDup)'
    BY <1>2, <2>1 DEF SInv, NoDup
  <2>. QED
    BY <1>2, <2>2, <2>3 DEF SInv
<1>4. CASE col <= Len(list[row])
  <2> DEFINE m == ConstMetric(columnNames[col], list[row][col], labels)
             res == NewMetricResult(columnNames[col], list[row][col], labels)
  <2>1. /\ pc' = "col" /\ col' = col + 1
        /\ metrics' = IF res = "metric" THEN Append(metrics, m) ELSE metrics
    BY <1>0, <1>1, <1>4 DEF ProcColumn
  <2>2. CASE res # "metric"
    <3>1. metrics' = metrics
      BY <2>1, <2>2
    <3>2. Origin'
      <4>1. ASSUME NEW i \in 1..Len(metrics)
            PROVE  \E r \in 1..Len(list) :
                     /\ SampleFrom(metrics[i], r)'
                     /\ pc' = "row" => r < row'
                     /\ pc' = "col" =>
                          \/ r < row'
                          \/ r = row' /\ \E c \in 1..col' - 1 : metrics[i].name = columnNames[c]
        <5>1. PICK r \in 1..Len(list) :
                /\ SampleFrom(metrics[i], r)
                /\ \/ r < row
                   \/ r = row /\ \E c \in 1..col - 1 : metrics[i].name = columnNames[c]
          BY <1>0 DEF SInv, Origin
        <5>2. SampleFrom(metrics[i], r)'
          BY <1>0, <3>1, <5>1 DEF SampleFrom
        <5>. QED
          BY <1>0, <1>1, <2>1, <5>1, <5>2
      <4>. QED
        BY <1>0, <3>1, <4>1 DEF Origin
    <3>3. (RawDistinct => NoDup)'
      BY <1>2, <3>1 DEF SInv, NoDup
    <3>. QED
      BY <1>2, <3>2, <3>3 DEF SInv
  <2>3. CASE res = "metric"
    <3>1. m.name = columnNames[col] /\ m.labels = labels
      BY DEF ConstMetric
    <3>2. \A k \in DOMAIN labels : ValidString(labels[k])
      BY <1>1, <2>3 DEF NewMetricResult
    <3>3. SampleFrom(m, row)
      BY <1>0, <3>1, <3>2 DEF SInv, SampleFrom
    <3>4. /\ metrics' = Append(metrics, m)
          /\ Len(metrics') = Len(metrics) + 1
          /\ \A i \in 1..Len(metrics) : metrics'[i] = metrics[i]
          /\ metrics'[Len(metrics) + 1] = m
      BY <1>1, <2>1, <2>3
    <3>5. Origin'
      <4>1. ASSUME NEW i \in 1..Len(metrics')
            PROVE  \E r \in 1..Len(list) :
                     /\ SampleFrom(metrics[i], r)'
                     /\ pc' = "row" => r < row'
                     /\ pc' = "col" =>
                          \/ r < row'
                          \/ r = row' /\ \E c \in 1..col' - 1 : metrics'[i].name = columnNames[c]
        <5>1. CASE i \in 1..Len(metrics)
          <6>1. PICK r \in 1..Len(list) :
                  /\ SampleFrom(metrics[i], r)
                  /\ \/ r < row
                     \/ r = row /\ \E c \in 1..col - 1 : metrics[i].name = columnNames[c]
            BY <1>0, <5>1 DEF SInv, Origin
          <6>2. SampleFrom(metrics[i], r)'
            BY <1>0, <3>4, <5>1, <6>1 DEF SampleFrom
          <6>. QED
            BY <1>0, <1>1, <2>1, <3>4, <5>1, <6>1, <6>2
        <5>2. CASE i = Len(metrics) + 1
          <6>1. SampleFrom(metrics[i], row)'
            BY <1>0, <3>3, <3>4, <5>2 DEF SampleFrom
          <6>. QED
            BY <1>0, <1>1, <2>1, <3>1, <3>4, <5>2, <6>1
        <5>. QED
          BY <1>1, <3>4, <5>1, <5>2
      <4>. QED
        BY <1>0, <4>1 DEF Origin
    <3>6. (RawDistinct => NoDup)'
      <4>1. SUFFICES ASSUME RawDistinct,
                            NEW i \in 1..Len(metrics'), NEW j \in 1..Len(metrics'),
                            i # j, metrics'[i].name = metrics'[j].name
                     PROVE  metrics'[i].labels # metrics'[j].labels
        BY <1>2 DEF NoDup
      <4>2. NoDup
        BY <4>1 DEF SInv
      <4>3. ASSUME NEW k \in 1..Len(metrics), metrics[k].name = m.name
            PROVE  metrics[k].labels # m.labels
        BY <1>0, <3>1, <3>2, <4>1, <4>3, NewSampleIsNew
      <4>. QED
        BY <1>1, <3>4, <4>1, <4>2, <4>3 DEF NoDup
    <3>. QED
      BY <1>2, <3>5, <3>6 DEF SInv
  <2>. QED
    BY <2>2, <2>3
<1>. QED
  BY <1>3, <1>4, <1>1

LEMMA StepSInv ==
  ASSUME DistinctColumns, DecodeKeepsLabelsApart
  PROVE  SInv /\ [Next]_vars => SInv'
<1> SUFFICES ASSUME SInv, [Next]_vars PROVE SInv'
  OBVIOUS
<1>1. IInv'
  BY StepIInv DEF SInv
<1>2. CASE Collect \/ SkipDisabled \/ QueryFailed \/ QueryOK \/ FetchRow \/ RowsDone
  BY <1>1, <1>2, StepQueryLoop
<1>3. CASE StartProc \/ StartRow \/ EndRow \/ Emit \/ UNCHANGED vars
  BY <1>1, <1>3, StepRowLoop
<1>4. CASE ProcColumn
  BY <1>1, <1>4, StepProcColumn
<1>. QED
  BY <1>2, <1>3, <1>4 DEF Next

-----------------------------------------------------------------------------
(* A label read from any row with any statement's columns is a value of  *)
(* that label's own column.                                                *)
LEMMA AlignedValue ==
  ASSUME LabelsAligned, NEW cols \in ColumnLists, NEW r \in AllRows,
         ~LabelsPanic(cols, r), NEW k \in 1..Len(LabelNames)
  PROVE  r[ColumnIdx(cols, LabelNames[k])] \in ColValues[LabelNames[k]]
<1>1. PICK s1 \in 1..N : r \in RowsOf(s1)
  BY DEF AllRows
<1>2. PICK s2 \in 1..N : cols = Queries[s2].cols
  BY DEF ColumnLists
<1> DEFINE i == ColumnIdx(cols, LabelNames[k])
<1>3. DOMAIN r = 1..Len(Queries[s1].cols) /\ i \in DOMAIN r
  BY <1>1 DEF RowsOf, LabelsPanic
<1>4. Queries[s1].cols[i] = LabelNames[k]
  BY <1>2, <1>3 DEF LabelsAligned
<1>. QED
  BY <1>1, <1>3, <1>4 DEF RowsOf

(* On a typed label column decode is the plain rendering of the value:   *)
(* well-formed text passes the UTF-8 check, ill-formed text is unchecked.  *)
LEMMA DecodeIsRendering ==
  ASSUME LabelColumnsTyped, NEW k \in 1..Len(LabelNames),
         NEW v \in ColValues[LabelNames[k]], NEW dbName
  PROVE  Decode(LabelNames[k], v, dbName) = DbToString(v, FALSE).str
<1>1. PICK t \in LabelKinds :
        /\ v.kind = t
        /\ v.form = "invalid" => ~GetColumn(LabelNames[k]).checkUTF8
  BY DEF LabelColumnsTyped
<1>2. ~GetColumn(LabelNames[k]).checkUTF8 \/ ValidString(DbToString(v, FALSE).str)
  BY <1>1 DEF LabelKinds, DbToString, ValidString, TextKinds
<1>. QED
  BY <1>2 DEF Decode

(* Two values of one label type that render alike are the same value. *)
LEMMA RenderApart ==
  ASSUME NEW v1 \in DbValue, NEW v2 \in DbValue, v1.kind = v2.kind,
         v1.kind \in LabelKinds,
         DbToString(v1, FALSE).str = DbToString(v2, FALSE).str
  PROVE  v1 = v2
BY DEF DbValue, Kinds, TextKinds, Forms, LabelKinds, DbToString, EmptyStr

(* The data conditions justify DecodeKeepsLabelsApart. *)
LEMMA DecodeApart ==
  ASSUME LabelsAligned, LabelColumnsTyped
  PROVE  DecodeKeepsLabelsApart
<1> SUFFICES ASSUME NEW cols \in ColumnLists, NEW r1 \in AllRows, NEW r2 \in AllRows,
                    ~LabelsPanic(cols, r1), ~LabelsPanic(cols, r2),
                    RawLabelsOf(cols, r1) # RawLabelsOf(cols, r2)
             PROVE  LabelValues(cols, r1) # LabelValues(cols, r2)
  BY DEF DecodeKeepsLabelsApart
<1>1. PICK k \in 1..Len(LabelNames) :
        r1[ColumnIdx(cols, LabelNames[k])] # r2[ColumnIdx(cols, LabelNames[k])]
  BY DEF RawLabelsOf
<1> DEFINE l  == LabelNames[k]
           v1 == r1[ColumnIdx(cols, l)]
           v2 == r2[ColumnIdx(cols, l)]
<1>2. v1 \in ColValues[l] /\ v2 \in ColValues[l]
  BY AlignedValue
<1>3. ColValues[l] \subseteq DbValue
  <2>1. l \in ColNames
    <3>1. LabelNames \in Seq(ColNames)
      BY RowProcessorAssumption
    <3>. QED
      BY <3>1
  <2>. QED
    BY <2>1, GetMetricAssumption
<1>4. PICK t \in LabelKinds : v1.kind = t /\ v2.kind = t
  BY <1>2 DEF LabelColumnsTyped
<1>5. DbToString(v1, FALSE).str # DbToString(v2, FALSE).str
  BY <1>1, <1>2, <1>3, <1>4, RenderApart
<1>6. /\ LabelValues(cols, r1)[k] = DbToString(v1, FALSE).str
      /\ LabelValues(cols, r2)[k] = DbToString(v2, FALSE).str
  BY <1>2, DecodeIsRendering DEF LabelValues
<1>. QED
  BY <1>5, <1>6

(***************************************************************************)
(* For every query definition whose statements return no repeated column  *)
(* name, and every set of column values that decode keeps apart, a         *)
(* finished getMetric scrape hands over no two samples of the same series  *)
(* unless two rows the database returned share their label columns: the    *)
(* registry's Gather never rejects the response for a duplicate the       *)
(* collector made (NoDuplicateSeries, checked by run getmetric).          *)
(***************************************************************************)
THEOREM NoDuplicates ==
  ASSUME DistinctColumns, LabelsAligned, LabelColumnsTyped
  PROVE  Spec => []NoDuplicateSeries
<1>0. DecodeKeepsLabelsApart
  BY DecodeApart
<1>1. Init => SInv
  BY InitSInv
<1>2. SInv /\ [Next]_vars => SInv'
  BY <1>0, StepSInv
<1>3. SInv => NoDuplicateSeries
  BY DEF SInv, NoDuplicateSeries, RawDistinct, NoDup
<1>. QED
  BY <1>1, <1>2, <1>3, PTL DEF Spec

=============================================================================
