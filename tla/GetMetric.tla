----------------------------- MODULE GetMetric -----------------------------
(***************************************************************************)
(* One collector's scrape of one query definition: getMetric running the   *)
(* statements of the definition, reading their rows, and running procRows  *)
(* over the rows read (collector/opengauss, the file of getMetric).        *)
(*                                                                         *)
(* The database is the environment.  Each statement it is asked either     *)
(* fails (db.QueryContext returns an error) or returns a result set: a     *)
(* sequence of rows, and the point failAt (a number of rows) after which   *)
(* reading stops with an error, NoFail when it does not.  db records the   *)
(* answer each statement got in the current scrape; the loop of getMetric  *)
(* over the rows (rows.Next / rows.Scan) and the loops of procRows over    *)
(* the rows and the columns are taken one step per iteration.             *)
(***************************************************************************)
EXTENDS RowProcessor, Naturals

CONSTANTS
  Queries,      (* queryInstance.Queries: [status, cols] per statement;     *)
                (* cols is the column list the statement's SQL returns.     *)
  ColValues,    (* the values the database may hold in each column         *)
  MaxRows,      (* the most rows a statement returns                       *)
  NextMayFail   (* whether rows.Next may stop on an error mid-result       *)

Disable == "disable"
NoFail  == -1

(* A statement of a query definition: its status and the columns it returns. *)
QueryDef == [status: {"enable", Disable}, cols: Seq(ColNames)]

ASSUME GetMetricAssumption ==
  /\ Queries \in Seq(QueryDef)
  /\ ColValues \in [ColNames -> SUBSET DbValue]
  /\ MaxRows \in Nat
  /\ NextMayFail \in BOOLEAN

N == Len(Queries)

(* What a statement can get from the database. *)
Answer == [ok: BOOLEAN, rows: Seq(Row), failAt: Int]

QueryError == [ok |-> FALSE, rows |-> <<>>, failAt |-> NoFail]

(* The rows statement s can return, and the result sets made of them. *)
RowsOf(s) ==
  LET cols == Queries[s].cols
  IN  {r \in [1..Len(cols) -> UNION {ColValues[c] : c \in ColNames}] :
         \A j \in 1..Len(cols) : r[j] \in ColValues[cols[j]]}

FailPoints(rs) == IF NextMayFail THEN {NoFail} \cup (0..Len(rs)) ELSE {NoFail}

ResultSets(s) == UNION {[1..k -> RowsOf(s)] : k \in 0..MaxRows}

Results(s) ==
  UNION {{[ok |-> TRUE, rows |-> rs, failAt |-> f] : f \in FailPoints(rs)} :
           rs \in ResultSets(s)}

VARIABLES
  pc,           (* where the collector is: "idle" between scrapes, "query"  *)
                (* in the statement loop, "fetch" reading a result set,     *)
                (* "row" / "col" in the loops of procRows, "panic" crashed *)
  db,           (* the answer each statement got in this scrape            *)
  stmt,         (* the statement the loop is at                            *)
  fetched,      (* rows read from the current result set                   *)
  columnNames,  (* columnNames of getMetric                                *)
  list,         (* the rows read, all statements concatenated              *)
  row,          (* the row procRows is at                                  *)
  col,          (* the column procRows is at                               *)
  labels,       (* the label values of the current row                     *)
  metrics,      (* the samples built so far                                *)
  errs          (* the number of non-fatal errors so far                   *)

vars == <<pc, db, stmt, fetched, columnNames, list, row, col, labels, metrics, errs>>

-----------------------------------------------------------------------------
Init ==
  /\ pc = "idle"
  /\ db = [s \in 1..N |-> QueryError]
  /\ stmt = 1
  /\ fetched = 0
  /\ columnNames = <<>>
  /\ list = <<>>
  /\ row = 1
  /\ col = 1
  /\ labels = <<>>
  /\ metrics = <<>>
  /\ errs = 0

(***************************************************************************)
(* A scrape calls Update, which (after the definition lookup and check)    *)
(* calls getMetric: its locals start empty, and no statement has an answer *)
(* yet.                                                                    *)
(***************************************************************************)
Collect ==
  /\ pc = "idle"
  /\ pc' = "query"
  /\ db' = [s \in 1..N |-> QueryError]
  /\ stmt' = 1
  /\ fetched' = 0
  /\ columnNames' = <<>>
  /\ list' = <<>>
  /\ row' = 1
  /\ col' = 1
  /\ labels' = <<>>
  /\ metrics' = <<>>
  /\ errs' = 0

(* A statement whose status is "disable" is skipped. *)
SkipDisabled ==
  /\ pc = "query"
  /\ stmt <= N
  /\ Queries[stmt].status = Disable
  /\ stmt' = stmt + 1
  /\ UNCHANGED <<pc, db, fetched, columnNames, list, row, col, labels, metrics, errs>>

(* db.QueryContext fails: logged, and the loop goes on. *)
QueryFailed ==
  /\ pc = "query"
  /\ stmt <= N
  /\ Queries[stmt].status # Disable
  /\ db' = [db EXCEPT ![stmt] = QueryError]
  /\ stmt' = stmt + 1
  /\ UNCHANGED <<pc, fetched, columnNames, list, row, col, labels, metrics, errs>>

(***************************************************************************)
(* db.QueryContext returns a result set: columnNames is overwritten with   *)
(* its columns (rows.Columns cannot fail on open rows, and database/sql    *)
(* never returns nil rows without an error, so neither branch is taken).   *)
(***************************************************************************)
QueryOK ==
  /\ pc = "query"
  /\ stmt <= N
  /\ Queries[stmt].status # Disable
  /\ \E a \in Results(stmt) : db' = [db EXCEPT ![stmt] = a]
  /\ columnNames' = Queries[stmt].cols
  /\ fetched' = 0
  /\ pc' = "fetch"
  /\ UNCHANGED <<stmt, list, row, col, labels, metrics, errs>>

(***************************************************************************)
(* rows.Next returns a row and rows.Scan copies it into the list.  Scan    *)
(* into *interface{} destinations, one per column, cannot fail, so the     *)
(* break on a Scan error is never taken.                                   *)
(***************************************************************************)
(* Variant for mutation testing: the read position does not advance. *)
FetchRowNoAdvance ==
  /\ pc = "fetch"
  /\ fetched < Len(db[stmt].rows)
  /\ fetched # db[stmt].failAt
  /\ list' = Append(list, db[stmt].rows[fetched + 1])
  /\ UNCHANGED <<pc, db, stmt, fetched, columnNames, row, col, labels, metrics, errs>>

FetchRow ==
  /\ pc = "fetch"
  /\ fetched < Len(db[stmt].rows)
  /\ fetched # db[stmt].failAt
  /\ list' = Append(list, db[stmt].rows[fetched + 1])
  /\ fetched' = fetched + 1
  /\ UNCHANGED <<pc, db, stmt, columnNames, row, col, labels, metrics, errs>>

(***************************************************************************)
(* rows.Next returns false, at the end of the result or on an error: the   *)
(* code does not consult rows.Err, so both end the loop alike.             *)
(***************************************************************************)
RowsDone ==
  /\ pc = "fetch"
  /\ fetched = Len(db[stmt].rows) \/ fetched = db[stmt].failAt
  /\ stmt' = stmt + 1
  /\ pc' = "query"
  /\ UNCHANGED <<db, fetched, columnNames, list, row, col, labels, metrics, errs>>

(* All statements done: columnIdx is built from columnNames. *)
StartProc ==
  /\ pc = "query"
  /\ stmt > N
  /\ pc' = "row"
  /\ row' = 1
  /\ UNCHANGED <<db, stmt, fetched, columnNames, list, col, labels, metrics, errs>>

(* Variant for mutation testing: the label values of the first row are kept. *)
StartRowStaleLabels ==
  /\ pc = "row"
  /\ row <= Len(list)
  /\ IF LabelsPanic(columnNames, list[row])
       THEN pc' = "panic" /\ UNCHANGED <<col, labels>>
       ELSE /\ labels' = IF row = 1 THEN LabelValues(columnNames, list[row]) ELSE labels
            /\ col' = 1
            /\ pc' = "col"
  /\ UNCHANGED <<db, stmt, fetched, columnNames, list, row, metrics, errs>>

(* procRows begins a row: database name and label values, or a panic. *)
StartRow ==
  /\ pc = "row"
  /\ row <= Len(list)
  /\ IF LabelsPanic(columnNames, list[row])
       THEN pc' = "panic" /\ UNCHANGED <<col, labels>>
       ELSE /\ labels' = LabelValues(columnNames, list[row])
            /\ col' = 1
            /\ pc' = "col"
  /\ UNCHANGED <<db, stmt, fetched, columnNames, list, row, metrics, errs>>

(***************************************************************************)
(* procRows at column col: newMetric gives a sample, an error or nothing;  *)
(* reading columnData[idx] past the end of a shorter row panics.           *)
(***************************************************************************)
(* Variant for mutation testing: a rejected column is not counted. *)
ProcColumnDropsErrors ==
  /\ pc = "col"
  /\ col <= Len(columnNames)
  /\ IF col > Len(list[row])
       THEN pc' = "panic" /\ UNCHANGED <<col, metrics, errs>>
       ELSE LET name == columnNames[col]
                v    == list[row][col]
                res  == NewMetricResult(name, v, labels)
            IN  /\ metrics' = IF res = "metric"
                                THEN Append(metrics, ConstMetric(name, v, labels))
                                ELSE metrics
                /\ col' = col + 1
                /\ UNCHANGED <<pc, errs>>
  /\ UNCHANGED <<db, stmt, fetched, columnNames, list, row, labels>>

ProcColumn ==
  /\ pc = "col"
  /\ col <= Len(columnNames)
  /\ IF col > Len(list[row])
       THEN pc' = "panic" /\ UNCHANGED <<col, metrics, errs>>
       ELSE LET name == columnNames[col]
                v    == list[row][col]
                res  == NewMetricResult(name, v, labels)
            IN  /\ metrics' = IF res = "metric"
                                THEN Append(metrics, ConstMetric(name, v, labels))
                                ELSE metrics
                /\ errs' = IF res = "error" THEN errs + 1 ELSE errs
                /\ col' = col + 1
                /\ UNCHANGED pc
  /\ UNCHANGED <<db, stmt, fetched, columnNames, list, row, labels>>

EndRow ==
  /\ pc = "col"
  /\ col > Len(columnNames)
  /\ row' = row + 1
  /\ pc' = "row"
  /\ UNCHANGED <<db, stmt, fetched, columnNames, list, col, labels, metrics, errs>>

(* getMetric returns the samples and Update sends them on the channel. *)
Emit ==
  /\ pc = "row"
  /\ row > Len(list)
  /\ pc' = "idle"
  /\ UNCHANGED <<db, stmt, fetched, columnNames, list, row, col, labels, metrics, errs>>

Next ==
  \/ Collect
  \/ SkipDisabled
  \/ QueryFailed
  \/ QueryOK
  \/ FetchRow
  \/ RowsDone
  \/ StartProc
  \/ StartRow
  \/ ProcColumn
  \/ EndRow
  \/ Emit

Spec == Init /\ [][Next]_vars

-----------------------------------------------------------------------------
(***************************************************************************)
(* Every variable has the type the code gives it, and the rows a scrape    *)
(* holds are at most those its statements returned.                        *)
(***************************************************************************)
TypeOK ==
  /\ pc \in {"idle", "query", "fetch", "row", "col", "panic"}
  /\ db \in [1..N -> Answer]
  /\ stmt \in 1..(N + 1)
  /\ fetched \in 0..MaxRows
  /\ columnNames \in Seq(ColNames)
  /\ list \in Seq(Row)
  /\ Len(list) <= N * MaxRows
  /\ row \in Nat \ {0}
  /\ col \in Nat \ {0}
  /\ labels \in Seq(Str)
  /\ metrics \in Seq(Sample)
  /\ errs \in Nat
  /\ pc = "fetch" => stmt \in 1..N
  /\ pc = "col" => row \in 1..Len(list)

(***************************************************************************)
(* Row processing never panics: no label lookup and no column read goes    *)
(* past the end of a row (procRows indexes every row with the column list  *)
(* of the last statement that returned rows).                              *)
(***************************************************************************)
NoPanic == pc # "panic"

(* The label columns of a row as the database returned them. *)
RawLabels(r) == [k \in 1..Len(LabelNames) |-> r[ColumnIdx(columnNames, LabelNames[k])]]

(***************************************************************************)
(* A finished scrape never hands over two samples of the same series (the  *)
(* registry's Gather, behind promhttp.Handler, fails the whole HTTP        *)
(* response on a duplicate) unless the database itself returned two rows   *)
(* with the same label columns: decode and DbToString keep distinct label  *)
(* values distinct.                                                        *)
(***************************************************************************)
NoDuplicateSeries ==
  (pc = "idle" /\ \A i, j \in 1..Len(list) : i # j => RawLabels(list[i]) # RawLabels(list[j]))
    => \A i, j \in 1..Len(metrics) :
         (i # j /\ metrics[i].name = metrics[j].name) => metrics[i].labels # metrics[j].labels

-----------------------------------------------------------------------------
(***************************************************************************)
(* The refinement mapping: the samples and errors a scrape hands over are  *)
(* metrics and errs once it is back at "idle", nothing while it runs.      *)
(***************************************************************************)
Abs == INSTANCE ScrapeSpec
         WITH out  <- IF pc = "idle" THEN metrics ELSE <<>>,
              nerr <- IF pc = "idle" THEN errs ELSE 0

(***************************************************************************)
(* getMetric implements the scrape of the spec: whenever a scrape ends,    *)
(* the samples and the error count it hands over are those of the rows of  *)
(* the enabled statements that ran without error, in order, processed with *)
(* the columns of the last statement executed.                             *)
(***************************************************************************)
ImplementsScrapeSpec == Abs!Spec

=============================================================================
