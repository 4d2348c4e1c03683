---------------------------- MODULE MCGetMetric ----------------------------
(***************************************************************************)
(* Small instances of GetMetric for TLC.                                   *)
(*                                                                         *)
(* A pg_stat_user_tables-like definition: datname and relname are label    *)
(* columns, datname also names the database, relname is declared as a      *)
(* LABEL column with a UTF-8 check, size is a gauge held in a text column, *)
(* hist a histogram column.  Three statements, the middle one disabled.    *)
(***************************************************************************)
EXTENDS GetMetric

MCColNames == {"datname", "relname", "size", "hist"}

MCLabelNames == <<"datname", "relname">>

MCDBNameLabel == "datname"

LabelCol == [usage |-> "LABEL", discard |-> FALSE, histogram |-> FALSE, checkUTF8 |-> TRUE]
GaugeCol == [usage |-> "GAUGE", discard |-> FALSE, histogram |-> FALSE, checkUTF8 |-> FALSE]
HistCol  == [usage |-> "GAUGE", discard |-> FALSE, histogram |-> TRUE, checkUTF8 |-> FALSE]

MCColumns ==
  [c \in {"relname", "size", "hist"} |->
     CASE c = "relname" -> LabelCol
       [] c = "size" -> GaugeCol
       [] OTHER -> HistCol]

Text(form, n) == [kind |-> "string", n |-> n, form |-> form]

(* datname may be NULL or ill-formed (an unchecked label: newMetric's      *)
(* panic), relname may be ill-formed, size may not be a number.            *)
MCColValues ==
  [c \in MCColNames |->
     CASE c = "datname" -> {Text("word", 1), Null, Text("invalid", 6)}
       [] c = "relname" -> {Text("word", 1), Text("invalid", 2)}
       [] c = "size" -> {Text("numeric", 3), Text("word", 4)}
       [] OTHER -> {[kind |-> "float64", n |-> 5, form |-> "na"]}]

(* relname may hold two different ill-formed texts. *)
MCColValuesTwoInvalid ==
  [c \in MCColNames |->
     IF c = "relname" THEN {Text("word", 1), Text("invalid", 2), Text("invalid", 3)}
     ELSE MCColValues[c]]

AllCols == <<"datname", "relname", "size", "hist">>

MCQueries ==
  << [status |-> "enable", cols |-> AllCols],
     [status |-> Disable, cols |-> AllCols],
     [status |-> "enable", cols |-> AllCols] >>

(* Two enabled statements of different width, the narrower one first. *)
MCQueriesMixed ==
  << [status |-> "enable", cols |-> <<"relname", "size">>],
     [status |-> "enable", cols |-> AllCols] >>

=============================================================================
