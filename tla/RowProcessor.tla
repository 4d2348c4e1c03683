---------------------------- MODULE RowProcessor ----------------------------
(***************************************************************************)
(* Turning one result row into metric samples: procRows, newMetric and     *)
(* decode (collector/opengauss, the file of getMetric) together with the   *)
(* column lookup of the query definition they rely on.                     *)
(*                                                                         *)
(* A row is a sequence of column values (see Coercion); cols is the column *)
(* list the row is read with.  Go indexes from 0, the model from 1: the    *)
(* zero value 0 that a Go map returns for a missing key is index 1 here.   *)
(***************************************************************************)
EXTENDS Coercion, Sequences

CONSTANTS
  ColNames,     (* the column names statements can return                  *)
  LabelNames,   (* queryInstance.LabelNames, in declared order             *)
  DBNameLabel,  (* queryInstance.DBNameLabel, "" when not declared          *)
  Columns       (* the declared column descriptors, by column name         *)

(***************************************************************************)
(* A column descriptor (config.Column): its usage, the DisCard and         *)
(* Histogram flags and whether label text must be checked for UTF-8.       *)
(***************************************************************************)
Usages       == {"LABEL", "GAUGE", "COUNTER", "DISCARD", "MAPPEDMETRIC"}
MappedMETRIC == "MAPPEDMETRIC"

ColumnDesc == [usage: Usages, discard: BOOLEAN, histogram: BOOLEAN, checkUTF8: BOOLEAN]

(* The nil *Column GetColumn returns for an undeclared column. *)
NoColumn == [usage |-> "nil", discard |-> FALSE, histogram |-> FALSE, checkUTF8 |-> FALSE]

ASSUME RowProcessorAssumption ==
  /\ "" \notin ColNames
  /\ LabelNames \in Seq(ColNames)
  /\ DBNameLabel \in ColNames \cup {""}
  /\ DOMAIN Columns \subseteq ColNames
  /\ \A c \in DOMAIN Columns : Columns[c] \in ColumnDesc

(* A result row: one value per column. *)
Row == Seq(DbValue)

(* A metric sample: the column it is built for, label values, value. *)
Sample == [name: ColNames, labels: Seq(Str), value: Int]

(***************************************************************************)
(* queryInstance.GetColumn(name, serverLabels): the declared descriptor or *)
(* nil.  The server label it attaches is a constant label of every sample  *)
(* and is left out.                                                        *)
(***************************************************************************)
GetColumn(name) == IF name \in DOMAIN Columns THEN Columns[name] ELSE NoColumn

(***************************************************************************)
(* columnIdx[name] in getMetric: the map is filled in column order, so a   *)
(* repeated name maps to its last position; a name that is not a column   *)
(* maps to Go's zero value, the first column.                              *)
(***************************************************************************)
ColumnIdx(cols, name) ==
  IF \E i \in 1..Len(cols) : cols[i] = name
    THEN CHOOSE i \in 1..Len(cols) : /\ cols[i] = name
                                     /\ \A j \in 1..Len(cols) : cols[j] = name => j <= i
    ELSE 1

(***************************************************************************)
(* decode: the label text, unless its column asks for a UTF-8 check and    *)
(* the text is ill-formed; then "" when the row gave no database name,     *)
(* else the text run through DecodeByte with the charset "UTF8" ("" if     *)
(* that fails).                                                            *)
(***************************************************************************)
Decode(label, data, dbName) ==
  LET v   == DbToString(data, FALSE).str
      col == GetColumn(label)
      b   == DecodeByte(v, UTF8)
  IN  IF col = NoColumn \/ ~col.checkUTF8 \/ ValidString(v) THEN v
      ELSE IF IsEmpty(dbName) \/ b.err THEN EmptyStr
      ELSE b.bytes

(***************************************************************************)
(* The first half of procRows: the database name of the row (when the     *)
(* query declares a column for it) and the label values in declared       *)
(* order.  LabelsPanic is the index-out-of-range panic these lookups hit  *)
(* when a column index points past the end of the row.                    *)
(***************************************************************************)
DbName(cols, r) ==
  IF DBNameLabel = "" THEN EmptyStr
  ELSE DbToString(r[ColumnIdx(cols, DBNameLabel)], TRUE).str

LabelValues(cols, r) ==
  [k \in 1..Len(LabelNames) |->
     Decode(LabelNames[k], r[ColumnIdx(cols, LabelNames[k])], DbName(cols, r))]

LabelsPanic(cols, r) ==
  \/ DBNameLabel # "" /\ ColumnIdx(cols, DBNameLabel) \notin DOMAIN r
  \/ \E k \in 1..Len(LabelNames) : ColumnIdx(cols, LabelNames[k]) \notin DOMAIN r

(***************************************************************************)
(* newMetric for column name with value v: no sample for an undeclared,    *)
(* discarded, histogram or mapped-metric column; an error when the value   *)
(* is not a number, or when prometheus.MustNewConstMetric panics (a label  *)
(* value that is not valid UTF-8), the panic being turned into the error   *)
(* by RecoverErr; a sample otherwise.                                      *)
(***************************************************************************)
NewMetricResult(name, v, labels) ==
  LET col == GetColumn(name)
  IN  IF col = NoColumn \/ col.discard \/ col.histogram \/ col.usage = MappedMETRIC THEN "none"
      ELSE IF ~DbToFloat64(v).ok \/ \E k \in 1..Len(labels) : ~ValidString(labels[k]) THEN "error"
      ELSE "metric"

ConstMetric(name, v, labels) ==
  [name |-> name, labels |-> labels, value |-> DbToFloat64(v).value]

=============================================================================
