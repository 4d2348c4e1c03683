-------------------------- MODULE GetMetricProofs --------------------------
(***************************************************************************)
(* Type correctness of a getMetric scrape, for every query definition,     *)
(* every set of column values and every bound on the rows.                 *)
(*                                                                         *)
(* TypeOK is not inductive by itself: its bound Len(list) <= N * MaxRows   *)
(* is reached only through the statement loop, one result set of at most  *)
(* MaxRows rows per statement.  IInv adds how many rows the list can hold  *)
(* at each point of that loop, and that every recorded answer has at most  *)
(* MaxRows rows.                                                           *)
(***************************************************************************)
EXTENDS GetMetric, TLAPS

(* The assumptions on the constants are cited where they are needed. *)

(***************************************************************************)
(* Lemmas on the conversions: what DbToString, Decode, LabelValues and     *)
(* ConstMetric return for values of the right type.                        *)
(***************************************************************************)
LEMMA DbToStringType ==
  ASSUME NEW v \in DbValue, NEW t \in BOOLEAN
  PROVE  DbToString(v, t).str \in Str
BY DEF DbToString, DbValue, Str, Fmts, Forms, Kinds, TextKinds, EmptyStr

LEMMA TranscodeType ==
  ASSUME NEW b \in Str, NEW cs
  PROVE  /\ Transcode(b, cs) \in Str
         /\ DecodeByte(b, cs).bytes \in Str
BY DEF Transcode, Replaced, DecodeByte, ValidString, Str, Fmts

LEMMA DecodeType ==
  ASSUME NEW label, NEW data \in DbValue, NEW dbName
  PROVE  Decode(label, data, dbName) \in Str
<1>1. DbToString(data, FALSE).str \in Str
  BY DbToStringType
<1>2. DecodeByte(DbToString(data, FALSE).str, UTF8).bytes \in Str
  BY <1>1, TranscodeType
<1>3. EmptyStr \in Str
  BY DEF EmptyStr, Str, Fmts
<1>. QED
  BY <1>1, <1>2, <1>3 DEF Decode

LEMMA LabelValuesType ==
  ASSUME NEW cols, NEW r \in Seq(DbValue), ~LabelsPanic(cols, r)
  PROVE  LabelValues(cols, r) \in Seq(Str)
<1>1. \A k \in 1..Len(LabelNames) : r[ColumnIdx(cols, LabelNames[k])] \in DbValue
  <2>1. \A k \in 1..Len(LabelNames) : ColumnIdx(cols, LabelNames[k]) \in DOMAIN r
    BY Zenon DEF LabelsPanic
  <2>. QED
    BY <2>1
<1>2. \A k \in 1..Len(LabelNames) :
        Decode(LabelNames[k], r[ColumnIdx(cols, LabelNames[k])], DbName(cols, r)) \in Str
  BY <1>1, DecodeType
<1>. QED
  BY <1>2 DEF LabelValues

LEMMA ConstMetricType ==
  ASSUME NEW name \in ColNames, NEW v \in DbValue, NEW L \in Seq(Str)
  PROVE  ConstMetric(name, v, L) \in Sample
BY DEF ConstMetric, DbToFloat64, DbValue, Sample, NaN, Kinds, TextKinds

(* Every answer a statement can get is an Answer of at most MaxRows rows. *)
LEMMA ResultsType ==
  ASSUME NEW s \in 1..N, NEW a \in Results(s)
  PROVE  a \in Answer /\ Len(a.rows) <= MaxRows
<1>1. Queries[s].cols \in Seq(ColNames)
  <2>1. Queries[s] \in QueryDef
    BY GetMetricAssumption DEF N
  <2>. QED
    BY <2>1 DEF QueryDef
<1>2. RowsOf(s) \subseteq Row
  <2>1. UNION {ColValues[c] : c \in ColNames} \subseteq DbValue
    BY GetMetricAssumption
  <2>2. Len(Queries[s].cols) \in Nat
    BY <1>1
  <2>. QED
    BY <2>1, <2>2 DEF RowsOf, Row
<1>3. PICK rs \in ResultSets(s) : a \in {[ok |-> TRUE, rows |-> rs, failAt |-> f] : f \in FailPoints(rs)}
  BY DEF Results
<1>4. PICK k \in 0..MaxRows : rs \in [1..k -> RowsOf(s)]
  BY DEF ResultSets
<1>6. rs \in Seq(Row) /\ Len(rs) = k
  BY <1>2, <1>4
<1>7. FailPoints(rs) \subseteq Int
  BY <1>6 DEF FailPoints, NoFail
<1>8. a.rows = rs /\ a.ok = TRUE /\ a.failAt \in FailPoints(rs)
  BY <1>3
<1>9. a = [ok |-> a.ok, rows |-> a.rows, failAt |-> a.failAt]
  BY <1>3
<1>10. a \in Answer
  BY <1>6, <1>7, <1>8, <1>9 DEF Answer
<1>. QED
  BY <1>4, <1>6, <1>8, <1>10

-----------------------------------------------------------------------------
(***************************************************************************)
(* The inductive strengthening of TypeOK: every answer has at most MaxRows *)
(* rows, and in the statement loop the list holds at most MaxRows rows per *)
(* statement done, plus the rows read from the current result set.         *)
(***************************************************************************)
IInv ==
  /\ TypeOK
  /\ \A s \in 1..N : Len(db[s].rows) <= MaxRows
  /\ pc = "query" => Len(list) <= (stmt - 1) * MaxRows
  /\ pc = "fetch" => /\ Len(list) <= (stmt - 1) * MaxRows + fetched
                     /\ fetched <= Len(db[stmt].rows)

LEMMA InitIInv == Init => IInv
BY GetMetricAssumption DEF Init, IInv, TypeOK, QueryError, Answer, N, NoFail

(* Multiplying by a natural number keeps an order between naturals. *)
LEMMA MulMono ==
  ASSUME NEW a \in Nat, NEW b \in Nat, NEW m \in Nat, a <= b
  PROVE  a * m <= b * m
OBVIOUS

LEMMA StepIInv == IInv /\ [Next]_vars => IInv'
<1> SUFFICES ASSUME IInv, [Next]_vars PROVE IInv'
  OBVIOUS
<1>0. /\ MaxRows \in Nat
      /\ N \in Nat
      /\ QueryError \in Answer
  BY GetMetricAssumption DEF N, QueryError, Answer, NoFail
<1>1. CASE Collect
  <2>1. db' \in [1..N -> Answer] /\ \A s \in 1..N : Len(db'[s].rows) <= MaxRows
    BY <1>0, <1>1 DEF Collect, QueryError
  <2>. QED
    BY <1>0, <1>1, <2>1 DEF Collect, IInv, TypeOK
<1>2. CASE SkipDisabled
  <2>1. (stmt + 1 - 1) * MaxRows = (stmt - 1) * MaxRows + MaxRows
    BY <1>0 DEF IInv, TypeOK
  <2>. QED
    BY <1>0, <1>2, <2>1 DEF SkipDisabled, IInv, TypeOK
<1>3. CASE QueryFailed
  <2>1. (stmt + 1 - 1) * MaxRows = (stmt - 1) * MaxRows + MaxRows
    BY <1>0 DEF IInv, TypeOK
  <2>. QED
    BY <1>0, <1>3, <2>1 DEF QueryFailed, IInv, TypeOK, QueryError
<1>4. CASE QueryOK
  <2>1. PICK a \in Results(stmt) : db' = [db EXCEPT ![stmt] = a]
    BY <1>4 DEF QueryOK
  <2>2. stmt \in 1..N
    BY <1>4 DEF QueryOK, IInv, TypeOK
  <2>3. a \in Answer /\ Len(a.rows) <= MaxRows
    BY <2>2, ResultsType
  <2>4. Queries[stmt].cols \in Seq(ColNames)
    <3>1. Queries[stmt] \in QueryDef
      BY <2>2, GetMetricAssumption DEF N
    <3>. QED
      BY <3>1 DEF QueryDef
  <2>. QED
    BY <1>0, <1>4, <2>1, <2>2, <2>3, <2>4 DEF QueryOK, IInv, TypeOK
<1>5. CASE FetchRow
  <2>1. stmt \in 1..N
    BY <1>5 DEF FetchRow, IInv, TypeOK
  <2>2. db[stmt] \in Answer /\ Len(db[stmt].rows) <= MaxRows
    BY <2>1 DEF IInv, TypeOK
  <2>3. db[stmt].rows[fetched + 1] \in Row
    BY <1>5, <2>2 DEF FetchRow, Answer, IInv, TypeOK
  <2>4. (stmt - 1) * MaxRows + MaxRows <= N * MaxRows
    BY <1>0, <2>1, MulMono
  <2>5. list' \in Seq(Row) /\ Len(list') = Len(list) + 1
    BY <1>5, <2>3 DEF FetchRow, IInv, TypeOK
  <2>6. /\ pc = "fetch" /\ fetched < Len(db[stmt].rows) /\ fetched \in Nat
        /\ stmt' = stmt /\ db' = db /\ fetched' = fetched + 1
    BY <1>5, <2>2 DEF FetchRow, IInv, TypeOK, Answer
  <2>7. fetched' \in 0..MaxRows /\ fetched' <= Len(db'[stmt'].rows)
    BY <1>0, <2>2, <2>6
  <2>8. Len(list) <= (stmt - 1) * MaxRows + fetched
    BY <2>6 DEF IInv
  <2>9. (stmt' - 1) * MaxRows = (stmt - 1) * MaxRows
    BY <2>6
  <2>10. Len(list') <= (stmt' - 1) * MaxRows + fetched'
    BY <1>0, <2>1, <2>5, <2>6, <2>8, <2>9
  <2>11. (stmt - 1) * MaxRows \in Nat
    BY <1>0, <2>1
  <2>12. Len(list') <= N * MaxRows
    BY <1>0, <2>4, <2>5, <2>6, <2>7, <2>8, <2>11
  <2>. QED
    BY <1>5, <2>1, <2>5, <2>7, <2>10, <2>12 DEF FetchRow, IInv, TypeOK
<1>6. CASE RowsDone
  <2>1. stmt \in 1..N
    BY <1>6 DEF RowsDone, IInv, TypeOK
  <2>2. fetched <= MaxRows
    BY <2>1 DEF IInv, TypeOK
  <2>3. (stmt + 1 - 1) * MaxRows = (stmt - 1) * MaxRows + MaxRows
    BY <1>0, <2>1
  <2>. QED
    BY <1>0, <1>6, <2>1, <2>2, <2>3 DEF RowsDone, IInv, TypeOK
<1>7. CASE StartProc
  BY <1>0, <1>7 DEF StartProc, IInv, TypeOK
<1>8. CASE StartRow
  <2>1. row \in 1..Len(list)
    BY <1>8 DEF StartRow, IInv, TypeOK
  <2>2. list[row] \in Seq(DbValue)
    BY <2>1 DEF IInv, TypeOK, Row
  <2>3. ~LabelsPanic(columnNames, list[row]) => LabelValues(columnNames, list[row]) \in Seq(Str)
    BY <2>2, LabelValuesType
  <2>. QED
    BY <1>8, <2>1, <2>3 DEF StartRow, IInv, TypeOK
<1>9. CASE ProcColumn
  <2>1. row \in 1..Len(list) /\ list[row] \in Seq(DbValue)
    BY <1>9 DEF ProcColumn, IInv, TypeOK, Row
  <2>2. CASE col > Len(list[row])
    BY <1>9, <2>2 DEF ProcColumn, IInv, TypeOK
  <2>3. CASE col <= Len(list[row])
    <3>1. columnNames[col] \in ColNames /\ list[row][col] \in DbValue
      BY <1>9, <2>1, <2>3 DEF ProcColumn, IInv, TypeOK
    <3>2. ConstMetric(columnNames[col], list[row][col], labels) \in Sample
      BY <3>1, ConstMetricType DEF IInv, TypeOK
    <3>3. metrics' \in Seq(Sample)
      <4>1. \/ metrics' = Append(metrics, ConstMetric(columnNames[col], list[row][col], labels))
            \/ metrics' = metrics
        BY <1>9, <2>1, <2>3 DEF ProcColumn
      <4>2. metrics \in Seq(Sample)
        BY DEF IInv, TypeOK
      <4>. QED
        BY <3>2, <4>1, <4>2
    <3>4. errs' \in Nat /\ col' \in Nat \ {0} /\ pc' = pc
      BY <1>9, <2>1, <2>3 DEF ProcColumn, IInv, TypeOK
    <3>5. UNCHANGED <<db, stmt, fetched, columnNames, list, row, labels>>
      BY <1>9 DEF ProcColumn
    <3>. QED
      BY <1>9, <3>3, <3>4, <3>5 DEF IInv, TypeOK
  <2>. QED
    BY <2>2, <2>3 DEF IInv, TypeOK
<1>10. CASE EndRow
  BY <1>10 DEF EndRow, IInv, TypeOK
<1>11. CASE Emit
  BY <1>11 DEF Emit, IInv, TypeOK
<1>12. CASE UNCHANGED vars
  BY <1>12 DEF vars, IInv, TypeOK
<1>. QED
  BY <1>1, <1>2, <1>3, <1>4, <1>5, <1>6, <1>7, <1>8, <1>9, <1>10, <1>11, <1>12 DEF Next

(***************************************************************************)
(* Type correctness: in every state of every scrape each variable of       *)
(* getMetric and procRows has its type, and the rows a scrape holds are at *)
(* most MaxRows per statement of the query definition.                     *)
(***************************************************************************)
THEOREM TypeCorrect == Spec => []TypeOK
<1>1. Init => IInv
  BY InitIInv
<1>2. IInv /\ [Next]_vars => IInv'
  BY StepIInv
<1>3. IInv => TypeOK
  BY DEF IInv
<1>. QED
  BY <1>1, <1>2, <1>3, PTL DEF Spec

====
