----------------------------- MODULE ScrapeSpec -----------------------------
(***************************************************************************)
(* What one scrape of a query definition promises (spec, 4.4 and 4.5), in  *)
(* one step: the samples are those of the rows of every enabled statement  *)
(* that ran without an error, in statement order, each row read with the   *)
(* column list of the most recently executed statement; a statement that   *)
(* fails contributes nothing.  Per row, every column in order that newMetric *)
(* turns into a sample gives one sample with the row's label values, and   *)
(* every column it rejects counts one non-fatal error.                     *)
(*                                                                         *)
(* db is the answer each statement got; out and nerr are the samples and   *)
(* the error count the scrape hands over, empty while it runs.            *)
(*                                                                         *)
(* The concatenations are written without recursion: a row of the scrape  *)
(* is a position <<statement, row>>, a sample a position <<row, column>>,  *)
(* and a sequence lists the values at a set of positions in lexicographic  *)
(* order.                                                                  *)
(***************************************************************************)
EXTENDS RowProcessor, FiniteSets

CONSTANT Queries

VARIABLES db, out, nerr

Disable == "disable"
NoFail  == -1
Answer  == [ok: BOOLEAN, rows: Seq(Row), failAt: Int]

Executed(d) == {s \in 1..Len(Queries) : Queries[s].status # Disable /\ d[s].ok}

Contributes(d, s) == s \in Executed(d) /\ d[s].failAt = NoFail

(* The greatest of a nonempty finite set of statement numbers. *)
Latest(S) == CHOOSE s \in S : \A t \in S : t <= s

ColumnsRead(d) == IF Executed(d) = {} THEN <<>> ELSE Queries[Latest(Executed(d))].cols

(* Position p comes before position q: by the first index, then the second. *)
Before(p, q) == p[1] < q[1] \/ (p[1] = q[1] /\ p[2] < q[2])

(* The k-th position of a finite set P: the one with k - 1 before it. *)
Nth(P, k) == CHOOSE p \in P : Cardinality({q \in P : Before(q, p)}) = k - 1

(* The rows of the statements that contribute, as <<statement, row>>. *)
RowPositions(d) ==
  UNION {{<<s, i>> : i \in 1..Len(d[s].rows)} : s \in {t \in 1..Len(Queries) : Contributes(d, t)}}

RowsAt(d, P) == [k \in 1..Cardinality(P) |-> d[Nth(P, k)[1]].rows[Nth(P, k)[2]]]

RowsRead(d) == RowsAt(d, RowPositions(d))

(* The cells <<row, column>> of rows R, read with cols, that newMetric      *)
(* (ProcessRow of the spec) answers with res: "metric" or "error".        *)
Cells(cols, R, res) ==
  {p \in (1..Len(R)) \X (1..Len(cols)) :
     NewMetricResult(cols[p[2]], R[p[1]][p[2]], LabelValues(cols, R[p[1]])) = res}

(* The sample of cell p, with the label values of its row. *)
SampleAt(cols, R, p) == ConstMetric(cols[p[2]], R[p[1]][p[2]], LabelValues(cols, R[p[1]]))

SamplesAt(cols, R, P) == [k \in 1..Cardinality(P) |-> SampleAt(cols, R, Nth(P, k))]

Samples(d) ==
  SamplesAt(ColumnsRead(d), RowsRead(d), Cells(ColumnsRead(d), RowsRead(d), "metric"))

Errors(d) == Cardinality(Cells(ColumnsRead(d), RowsRead(d), "error"))

-----------------------------------------------------------------------------
Init ==
  /\ db \in [1..Len(Queries) -> Answer]
  /\ out = <<>>
  /\ nerr = 0

(* The statements run and get their answers; nothing is handed over yet. *)
Query ==
  /\ db' \in [1..Len(Queries) -> Answer]
  /\ out' = <<>>
  /\ nerr' = 0

(* The scrape completes and hands over the samples of the answers. *)
Publish ==
  /\ out' = Samples(db)
  /\ nerr' = Errors(db)
  /\ UNCHANGED db

Next == Query \/ Publish

vars == <<db, out, nerr>>

Spec == Init /\ [][Next]_vars

=============================================================================
