----------------------- MODULE GetMetricRefinement -----------------------
(***************************************************************************)
(* getMetric implements the one-step scrape of ScrapeSpec, for every query *)
(* definition, every set of column values and every bound on the rows,     *)
(* when rows.Next does not stop on an error in the middle of a result set  *)
(* (NextMayFail = FALSE; when it does, the rows read before the error are  *)
(* kept and the run getmetric_midstream shows the spec violated).          *)
(*                                                                         *)
(* The refinement mapping (GetMetric's Abs) shows nothing while a scrape   *)
(* runs and metrics and errs once it is back at "idle".  The steps of the  *)
(* statement loop that record an answer map to Query, Emit maps to         *)
(* Publish, and every other step to a stutter.  That Emit hands over       *)
(* Samples(db) and Errors(db) rests on RInv, which says how far the loops  *)
(* have got: the list holds the rows of the positions read so far, and     *)
(* metrics and errs the samples and errors of the cells processed so far.  *)
(***************************************************************************)
EXTENDS GetMetricProofs, FiniteSetTheorems, SequenceTheorems

-----------------------------------------------------------------------------
(***************************************************************************)
(* Lemmas on the positions of ScrapeSpec.  A position after every position *)
(* of a finite set P is numbered one past the end of P, and adding it      *)
(* leaves the numbers of the positions of P as they were: the sequences    *)
(* ScrapeSpec lists at P grow by appending, as the lists of the loops do.  *)
(***************************************************************************)
Pos == Nat \X Nat

(* ScrapeSpec's Cardinality, through the instance, is that of FiniteSets. *)
LEMMA AbsCardinality ==
  ASSUME NEW S
  PROVE  Abs!Cardinality(S) = Cardinality(S)
BY DEF Abs!Cardinality, Cardinality

(* The number of positions of S before p. *)
PosRank(S, p) == Abs!Cardinality({q \in S : Abs!Before(q, p)})

(* Before is a strict order on positions. *)
LEMMA BeforeStrict ==
  ASSUME NEW p \in Pos, NEW q \in Pos
  PROVE  /\ ~Abs!Before(p, p)
         /\ Abs!Before(p, q) => ~Abs!Before(q, p)
BY DEF Abs!Before, Pos

(* The positions before p are the same in P and in P with a later x. *)
LEMMA BeforeUnchanged ==
  ASSUME NEW P \in SUBSET Pos, NEW x \in Pos, \A p \in P : Abs!Before(p, x),
         NEW p \in P
  PROVE  {q \in P \cup {x} : Abs!Before(q, p)} = {q \in P : Abs!Before(q, p)}
BY BeforeStrict

LEMMA BeforeLast ==
  ASSUME NEW P \in SUBSET Pos, NEW x \in Pos, \A p \in P : Abs!Before(p, x)
  PROVE  {q \in P \cup {x} : Abs!Before(q, x)} = P
BY BeforeStrict

LEMMA NthOld ==
  ASSUME NEW P \in SUBSET Pos, IsFiniteSet(P),
         NEW x \in Pos, \A p \in P : Abs!Before(p, x),
         NEW k \in 1..Cardinality(P)
  PROVE  Abs!Nth(P \cup {x}, k) = Abs!Nth(P, k)
<1>1. Cardinality(P) \in Nat
  BY FS_CardinalityType
<1>2. PosRank(P \cup {x}, x) # k - 1
  <2>1. PosRank(P \cup {x}, x) = Cardinality(P)
    BY BeforeLast, AbsCardinality DEF PosRank
  <2>. QED
    BY <1>1, <2>1
<1>3. \A p \in P : PosRank(P \cup {x}, p) = PosRank(P, p)
  BY BeforeUnchanged, AbsCardinality DEF PosRank
<1>4. \A p : (p \in P \cup {x} /\ PosRank(P \cup {x}, p) = k - 1)
               <=> (p \in P /\ PosRank(P, p) = k - 1)
  BY <1>2, <1>3
<1>5. (CHOOSE p \in P \cup {x} : PosRank(P \cup {x}, p) = k - 1)
        = (CHOOSE p \in P : PosRank(P, p) = k - 1)
  BY <1>4, Zenon
<1>. QED
  BY <1>5 DEF Abs!Nth, PosRank

LEMMA NthNew ==
  ASSUME NEW P \in SUBSET Pos, IsFiniteSet(P),
         NEW x \in Pos, \A p \in P : Abs!Before(p, x)
  PROVE  Abs!Nth(P \cup {x}, Cardinality(P) + 1) = x
<1>1. Cardinality(P) \in Nat
  BY FS_CardinalityType
<1>2. PosRank(P \cup {x}, x) = Cardinality(P)
  BY BeforeLast, AbsCardinality DEF PosRank
<1>3. ASSUME NEW p \in P PROVE PosRank(P \cup {x}, p) # Cardinality(P)
  <2>1. {q \in P : Abs!Before(q, p)} \subseteq P \ {p}
    BY BeforeStrict
  <2>2. IsFiniteSet(P \ {p}) /\ Cardinality(P \ {p}) = Cardinality(P) - 1
    BY FS_RemoveElement
  <2>3. Cardinality({q \in P : Abs!Before(q, p)}) <= Cardinality(P) - 1
    BY <2>1, <2>2, FS_Subset
  <2>4. PosRank(P \cup {x}, p) = Cardinality({q \in P : Abs!Before(q, p)})
    BY BeforeUnchanged, AbsCardinality DEF PosRank
  <2>. QED
    BY <1>1, <2>3, <2>4
<1>4. \A p \in P \cup {x} : PosRank(P \cup {x}, p) = (Cardinality(P) + 1) - 1 => p = x
  BY <1>1, <1>3
<1>5. x \in P \cup {x} /\ PosRank(P \cup {x}, x) = (Cardinality(P) + 1) - 1
  BY <1>1, <1>2
<1>6. (CHOOSE p \in P \cup {x} : PosRank(P \cup {x}, p) = (Cardinality(P) + 1) - 1) = x
  BY <1>4, <1>5, Zenon
<1>. QED
  BY <1>6 DEF Abs!Nth, PosRank



(* Before is total on distinct positions, and transitive. *)
LEMMA BeforeTotal ==
  ASSUME NEW p \in Pos, NEW q \in Pos, p # q
  PROVE  Abs!Before(p, q) \/ Abs!Before(q, p)
BY DEF Abs!Before, Pos

LEMMA BeforeTrans ==
  ASSUME NEW p \in Pos, NEW q \in Pos, NEW r \in Pos,
         Abs!Before(p, q), Abs!Before(q, r)
  PROVE  Abs!Before(p, r)
BY DEF Abs!Before, Pos

(* A position of P has fewer than Cardinality(P) positions before it. *)
LEMMA RankBound ==
  ASSUME NEW P \in SUBSET Pos, IsFiniteSet(P), NEW p \in P
  PROVE  PosRank(P, p) \in 0..Cardinality(P) - 1
<1>1. {q \in P : Abs!Before(q, p)} \subseteq P \ {p}
  BY BeforeStrict
<1>2. IsFiniteSet(P \ {p}) /\ Cardinality(P \ {p}) = Cardinality(P) - 1
  BY FS_RemoveElement
<1>3. IsFiniteSet({q \in P : Abs!Before(q, p)})
      /\ Cardinality({q \in P : Abs!Before(q, p)}) <= Cardinality(P) - 1
  BY <1>1, <1>2, FS_Subset
<1>4. Cardinality({q \in P : Abs!Before(q, p)}) \in Nat
  BY <1>3, FS_CardinalityType
<1>. QED
  BY <1>3, <1>4, AbsCardinality DEF PosRank

(* A later position has more positions before it. *)
LEMMA RankMonotone ==
  ASSUME NEW P \in SUBSET Pos, IsFiniteSet(P), NEW p \in P, NEW q \in P,
         Abs!Before(p, q)
  PROVE  PosRank(P, p) < PosRank(P, q)
<1> DEFINE Bp == {r \in P : Abs!Before(r, p)}
           Bq == {r \in P : Abs!Before(r, q)}
<1>1. Bp \subseteq Bq
  BY BeforeTrans
<1>2. p \in Bq /\ p \notin Bp
  BY BeforeStrict
<1>3. IsFiniteSet(Bq) /\ IsFiniteSet(Bp)
  BY FS_Subset
<1>4. Cardinality(Bp) <= Cardinality(Bq) /\ (Cardinality(Bq) = Cardinality(Bp) => Bq = Bp)
  BY <1>1, <1>3, FS_Subset
<1>5. Cardinality(Bp) \in Nat /\ Cardinality(Bq) \in Nat
  BY <1>3, FS_CardinalityType
<1>. QED
  BY <1>2, <1>4, <1>5, AbsCardinality DEF PosRank, Bp, Bq

(***************************************************************************)
(* Every number 1..Cardinality(P) names a position of P: numbering each    *)
(* position by one more than the positions before it is injective into    *)
(* 1..Cardinality(P), hence onto it.                                        *)
(***************************************************************************)
LEMMA NthIsMember ==
  ASSUME NEW P \in SUBSET Pos, IsFiniteSet(P), NEW k \in 1..Cardinality(P)
  PROVE  /\ Abs!Nth(P, k) \in P
         /\ PosRank(P, Abs!Nth(P, k)) = k - 1
<1> DEFINE f == [p \in P |-> PosRank(P, p) + 1]
           C == Cardinality(P)
<1>1. C \in Nat
  BY FS_CardinalityType
<1>2. f \in [P -> 1..C]
  BY RankBound, <1>1
<1>3. \A p, q \in P : f[p] = f[q] => p = q
  <2> SUFFICES ASSUME NEW p \in P, NEW q \in P, p # q PROVE f[p] # f[q]
    OBVIOUS
  <2>1. Abs!Before(p, q) \/ Abs!Before(q, p)
    BY BeforeTotal
  <2>2. PosRank(P, p) \in Nat /\ PosRank(P, q) \in Nat
    BY RankBound, <1>1
  <2>3. PosRank(P, p) # PosRank(P, q)
    BY <2>1, <2>2, RankMonotone
  <2>. QED
    BY <2>2, <2>3
<1>4. f \in Injection(P, 1..C)
  BY <1>2, <1>3, Zenon DEF Injection, IsInjective
<1>5. IsFiniteSet(1..C) /\ Cardinality(1..C) = C
  BY <1>1, FS_Interval
<1>6. f \in Surjection(P, 1..C)
  BY <1>4, <1>5, FS_Injection
<1>7. PICK p \in P : f[p] = k
  BY <1>6 DEF Surjection
<1>8. p \in P /\ PosRank(P, p) = k - 1
  BY <1>7, <1>2, RankBound, <1>1
<1>. QED
  BY <1>8, Zenon DEF Abs!Nth, PosRank

(* A function on 1..C + 1 that agrees with s on 1..C is s with its last
   element appended. *)
LEMMA AppendExt ==
  ASSUME NEW S, NEW C \in Nat, NEW s \in [1..C -> S], NEW t \in [1..C + 1 -> S],
         \A k \in 1..C : t[k] = s[k]
  PROVE  t = Append(s, t[C + 1])
<1>1. s \in Seq(S) /\ Len(s) = C
  OBVIOUS
<1>2. /\ Append(s, t[C + 1]) \in Seq(S)
      /\ Len(Append(s, t[C + 1])) = C + 1
      /\ \A k \in 1..C : Append(s, t[C + 1])[k] = s[k]
      /\ Append(s, t[C + 1])[C + 1] = t[C + 1]
  BY <1>1, AppendProperties
<1>3. Append(s, t[C + 1]) \in [1..C + 1 -> S]
  BY <1>2, LenProperties
<1>4. \A k \in 1..C + 1 : t[k] = Append(s, t[C + 1])[k]
  <2> SUFFICES ASSUME NEW k \in 1..C + 1 PROVE t[k] = Append(s, t[C + 1])[k]
    OBVIOUS
  <2>1. k \in 1..C \/ k = C + 1
    OBVIOUS
  <2>. QED
    BY <1>2, <2>1
<1>. QED
  BY <1>3, <1>4

(* The rows listed at P and a later position x: those at P, then x's. *)
LEMMA RowsAppend ==
  ASSUME NEW d, NEW P \in SUBSET Pos, IsFiniteSet(P),
         NEW x \in Pos, \A p \in P : Abs!Before(p, x)
  PROVE  Abs!RowsAt(d, P \cup {x}) = Append(Abs!RowsAt(d, P), d[x[1]].rows[x[2]])
<1>1. Cardinality(P) \in Nat /\ x \notin P
  BY FS_CardinalityType, BeforeStrict
<1>2. Abs!Cardinality(P \cup {x}) = Cardinality(P) + 1 /\ Abs!Cardinality(P) = Cardinality(P)
  BY <1>1, FS_AddElement, AbsCardinality
<1>3. \A k \in 1..Cardinality(P) : Abs!Nth(P \cup {x}, k) = Abs!Nth(P, k)
  BY NthOld
<1>4. Abs!Nth(P \cup {x}, Cardinality(P) + 1) = x
  BY NthNew
<1> DEFINE C == Cardinality(P)
           old == Abs!RowsAt(d, P)
           new == Abs!RowsAt(d, P \cup {x})
<1>5. old = [k \in 1..C |-> old[k]]
  BY <1>2 DEF Abs!RowsAt, old, new, C
<1>6. new = [k \in 1..C + 1 |-> new[k]]
  BY <1>2 DEF Abs!RowsAt, old, new, C
<1>7. \A k \in 1..C : new[k] = old[k]
  <2> SUFFICES ASSUME NEW k \in 1..C PROVE new[k] = old[k]
    OBVIOUS
  <2>1. k \in 1..Abs!Cardinality(P \cup {x}) /\ k \in 1..Abs!Cardinality(P)
    BY <1>1, <1>2 DEF C
  <2>2. new[k] = d[Abs!Nth(P \cup {x}, k)[1]].rows[Abs!Nth(P \cup {x}, k)[2]]
    BY <2>1 DEF Abs!RowsAt, new
  <2>3. old[k] = d[Abs!Nth(P, k)[1]].rows[Abs!Nth(P, k)[2]]
    BY <2>1 DEF Abs!RowsAt, old
  <2>. QED
    BY <2>2, <2>3, <1>3
<1>8. new[C + 1] = d[x[1]].rows[x[2]]
  <2>1. C + 1 \in 1..Abs!Cardinality(P \cup {x})
    BY <1>1, <1>2 DEF C
  <2>2. new[C + 1] = d[Abs!Nth(P \cup {x}, C + 1)[1]].rows[Abs!Nth(P \cup {x}, C + 1)[2]]
    BY <2>1 DEF Abs!RowsAt, new
  <2>. QED
    BY <2>2, <1>4 DEF C
<1>9. new = Append(old, new[C + 1])
  <2> DEFINE S == {new[k] : k \in 1..C + 1}
  <2>1. C \in Nat
    BY <1>1 DEF C
  <2>2. new \in [1..C + 1 -> S]
    BY <2>1, <1>6 DEF S
  <2>3. \A k \in 1..C : old[k] \in S
    <3> SUFFICES ASSUME NEW k \in 1..C PROVE old[k] \in S
      OBVIOUS
    <3>1. k \in 1..C + 1 /\ old[k] = new[k]
      BY <2>1, <1>7
    <3>. QED
      BY <3>1, Zenon DEF S
  <2>4. old \in [1..C -> S]
    BY <2>3, <1>2 DEF old, Abs!RowsAt, C
  <2>. QED
    BY <2>1, <2>2, <2>4, <1>7, AppendExt
<1>. QED
  BY <1>8, <1>9 DEF old, new

(* Likewise for the samples listed at a set of cells. *)
LEMMA SamplesAppend ==
  ASSUME NEW cols, NEW R, NEW P \in SUBSET Pos, IsFiniteSet(P),
         NEW x \in Pos, \A p \in P : Abs!Before(p, x)
  PROVE  Abs!SamplesAt(cols, R, P \cup {x}) = Append(Abs!SamplesAt(cols, R, P), Abs!SampleAt(cols, R, x))
<1>1. Cardinality(P) \in Nat /\ x \notin P
  BY FS_CardinalityType, BeforeStrict
<1>2. Abs!Cardinality(P \cup {x}) = Cardinality(P) + 1 /\ Abs!Cardinality(P) = Cardinality(P)
  BY <1>1, FS_AddElement, AbsCardinality
<1>3. \A k \in 1..Cardinality(P) : Abs!Nth(P \cup {x}, k) = Abs!Nth(P, k)
  BY NthOld
<1>4. Abs!Nth(P \cup {x}, Cardinality(P) + 1) = x
  BY NthNew
<1> DEFINE C == Cardinality(P)
           old == Abs!SamplesAt(cols, R, P)
           new == Abs!SamplesAt(cols, R, P \cup {x})
<1>5. old = [k \in 1..C |-> old[k]]
  BY <1>2 DEF Abs!SamplesAt, old, new, C
<1>6. new = [k \in 1..C + 1 |-> new[k]]
  BY <1>2 DEF Abs!SamplesAt, old, new, C
<1>7. \A k \in 1..C : new[k] = old[k]
  <2> SUFFICES ASSUME NEW k \in 1..C PROVE new[k] = old[k]
    OBVIOUS
  <2>1. k \in 1..Abs!Cardinality(P \cup {x}) /\ k \in 1..Abs!Cardinality(P)
    BY <1>1, <1>2 DEF C
  <2>2. new[k] = Abs!SampleAt(cols, R, Abs!Nth(P \cup {x}, k))
    BY <2>1 DEF Abs!SamplesAt, new
  <2>3. old[k] = Abs!SampleAt(cols, R, Abs!Nth(P, k))
    BY <2>1 DEF Abs!SamplesAt, old
  <2>. QED
    BY <2>2, <2>3, <1>3
<1>8. new[C + 1] = Abs!SampleAt(cols, R, x)
  <2>1. C + 1 \in 1..Abs!Cardinality(P \cup {x})
    BY <1>1, <1>2 DEF C
  <2>2. new[C + 1] = Abs!SampleAt(cols, R, Abs!Nth(P \cup {x}, C + 1))
    BY <2>1 DEF Abs!SamplesAt, new
  <2>. QED
    BY <2>2, <1>4 DEF C
<1>9. new = Append(old, new[C + 1])
  <2> DEFINE S == {new[k] : k \in 1..C + 1}
  <2>1. C \in Nat
    BY <1>1 DEF C
  <2>2. new \in [1..C + 1 -> S]
    BY <2>1, <1>6 DEF S
  <2>3. \A k \in 1..C : old[k] \in S
    <3> SUFFICES ASSUME NEW k \in 1..C PROVE old[k] \in S
      OBVIOUS
    <3>1. k \in 1..C + 1 /\ old[k] = new[k]
      BY <2>1, <1>7
    <3>. QED
      BY <3>1, Zenon DEF S
  <2>4. old \in [1..C -> S]
    BY <2>3, <1>2 DEF old, Abs!SamplesAt, C
  <2>. QED
    BY <2>1, <2>2, <2>4, <1>7, AppendExt
<1>. QED
  BY <1>8, <1>9 DEF old, new

-----------------------------------------------------------------------------
(***************************************************************************)
(* ScrapeSpec, instantiated as Abs, has its own copies of the operators of *)
(* RowProcessor and Coercion; they are the same operators.                 *)
(***************************************************************************)
LEMMA AbsRowProcessor ==
  /\ \A c, v, l : Abs!NewMetricResult(c, v, l) = NewMetricResult(c, v, l)
  /\ \A c, v, l : Abs!ConstMetric(c, v, l) = ConstMetric(c, v, l)
  /\ \A c, r : Abs!LabelValues(c, r) = LabelValues(c, r)
  /\ Abs!Answer = Answer
  /\ Abs!Disable = Disable /\ Abs!NoFail = NoFail
  BY DEF Kinds, Abs!Kinds, TextKinds, Abs!TextKinds, Forms, Abs!Forms,
          DbValue, Abs!DbValue, Null, Abs!Null, NaN, Abs!NaN,
          Fmts, Abs!Fmts, Str, Abs!Str, EmptyStr, Abs!EmptyStr,
          IsEmpty, Abs!IsEmpty, ValidString, Abs!ValidString,
          DbToFloat64, Abs!DbToFloat64, DbToString, Abs!DbToString,
          UTF8, Abs!UTF8, UTF8Underline, Abs!UTF8Underline, GBK, Abs!GBK,
          GB18030, Abs!GB18030, CharSetMap, Abs!CharSetMap,
          Charsets, Abs!Charsets, ToUpper, Abs!ToUpper,
          GetMapCharset, Abs!GetMapCharset,
          IanaEncodings, Abs!IanaEncodings, Transcode, Abs!Transcode, Replaced, Abs!Replaced,
          DecodeByte, Abs!DecodeByte, Usages, Abs!Usages,
          MappedMETRIC, Abs!MappedMETRIC, ColumnDesc, Abs!ColumnDesc,
          NoColumn, Abs!NoColumn, Row, Abs!Row, Sample, Abs!Sample,
          GetColumn, Abs!GetColumn, ColumnIdx, Abs!ColumnIdx,
          Decode, Abs!Decode, DbName, Abs!DbName,
          LabelValues, Abs!LabelValues, LabelsPanic, Abs!LabelsPanic,
          NewMetricResult, Abs!NewMetricResult,
          ConstMetric, Abs!ConstMetric,
         Abs!Answer, Answer, Abs!Disable, Disable, Abs!NoFail, NoFail

(* The rows of the contributing statements are positions <<s, i>>. *)
LEMMA RowPositionsIff ==
  ASSUME NEW d, NEW p
  PROVE  p \in Abs!RowPositions(d) <=>
           /\ p \in (1..N) \X Nat
           /\ Abs!Contributes(d, p[1])
           /\ p[2] \in 1..Len(d[p[1]].rows)
<1> DEFINE Rows(s) == {<<s, i>> : i \in 1..Len(d[s].rows)}
           Stmts == {t \in 1..Len(Queries) : Abs!Contributes(d, t)}
<1>1. Abs!RowPositions(d) = UNION {Rows(s) : s \in Stmts}
  BY DEF Abs!RowPositions, Rows, Stmts
<1>2. ASSUME p \in Abs!RowPositions(d)
      PROVE  /\ p \in (1..N) \X Nat
             /\ Abs!Contributes(d, p[1])
             /\ p[2] \in 1..Len(d[p[1]].rows)
  <2>1. PICK s \in Stmts : p \in Rows(s)
    BY <1>1, <1>2
  <2>2. PICK i \in 1..Len(d[s].rows) : p = <<s, i>>
    BY <2>1 DEF Rows
  <2>. QED
    BY <2>1, <2>2 DEF Stmts, N
<1>3. ASSUME /\ p \in (1..N) \X Nat
             /\ Abs!Contributes(d, p[1])
             /\ p[2] \in 1..Len(d[p[1]].rows)
      PROVE  p \in Abs!RowPositions(d)
  <2>1. p[1] \in Stmts /\ p = <<p[1], p[2]>>
    BY <1>3 DEF Stmts, N
  <2>2. p \in Rows(p[1])
    BY <1>3, <2>1 DEF Rows
  <2>. QED
    BY <1>1, <2>1, <2>2
<1>. QED
  BY <1>2, <1>3

(* The rows listed at P depend only on the answers of P's statements. *)
LEMMA RowsAtFrame ==
  ASSUME NEW d, NEW e, NEW P \in SUBSET Pos, IsFiniteSet(P),
         \A p \in P : d[p[1]] = e[p[1]]
  PROVE  Abs!RowsAt(d, P) = Abs!RowsAt(e, P)
<1>1. \A k \in 1..Abs!Cardinality(P) : Abs!Nth(P, k) \in P
  BY NthIsMember, AbsCardinality
<1>. QED
  BY <1>1 DEF Abs!RowsAt

(* Nothing is listed at no position. *)
LEMMA EmptyAt ==
  /\ \A d : Abs!RowsAt(d, {}) = << >>
  /\ \A cols, R : Abs!SamplesAt(cols, R, {}) = << >>
<1>1. Abs!Cardinality({}) = 0
  BY FS_EmptySet, AbsCardinality
<1>. QED
  BY <1>1 DEF Abs!RowsAt, Abs!SamplesAt

(* With at most MaxRows rows per answer, the rows of a scrape are finitely *)
(* many positions <<statement, row>>.                                      *)
LEMMA RowPositionsFinite ==
  ASSUME NEW d, \A s \in 1..N : Len(d[s].rows) \in 0..MaxRows
  PROVE  /\ Abs!RowPositions(d) \subseteq (1..N) \X (1..MaxRows)
         /\ Abs!RowPositions(d) \subseteq Pos
         /\ IsFiniteSet(Abs!RowPositions(d))
<1>1. Abs!RowPositions(d) \subseteq (1..N) \X (1..MaxRows)
  <2> SUFFICES ASSUME NEW p \in Abs!RowPositions(d) PROVE p \in (1..N) \X (1..MaxRows)
    OBVIOUS
  <2>1. p \in (1..N) \X Nat /\ p[2] \in 1..Len(d[p[1]].rows)
    BY RowPositionsIff
  <2>2. Len(d[p[1]].rows) \in 0..MaxRows
    BY <2>1
  <2>3. p = <<p[1], p[2]>> /\ p[1] \in 1..N
    BY <2>1
  <2>4. p[2] \in 1..MaxRows
    BY <2>1, <2>2, GetMetricAssumption
  <2>. QED
    BY <2>3, <2>4
<1>2. IsFiniteSet((1..N) \X (1..MaxRows))
  <2>1. N \in Nat /\ MaxRows \in Nat
    BY GetMetricAssumption DEF N
  <2>2. IsFiniteSet(1..N) /\ IsFiniteSet(1..MaxRows)
    BY <2>1, FS_Interval
  <2>. QED
    BY <2>2, FS_Product
<1>. QED
  BY <1>1, <1>2, FS_Subset DEF Pos

-----------------------------------------------------------------------------
(* The positions <<statement, row>> of the rows the list holds. *)
ReadSoFar ==
  IF pc = "fetch"
    THEN {p \in Abs!RowPositions(db) : p[1] < stmt \/ p[2] <= fetched}
    ELSE Abs!RowPositions(db)

(* Cell p = <<row, column>> has been through procRows' column loop. *)
Processed(p) == p[1] < row \/ (pc = "col" /\ p[1] = row /\ p[2] < col)

(* The cells processed so far whose newMetric answer is res. *)
DoneCells(res) == {p \in Abs!Cells(columnNames, list, res) : Processed(p)}

RInv ==
  /\ IInv
  /\ \A s \in 1..N : db[s].failAt = NoFail
  /\ pc = "query" => \A s \in stmt..N : db[s] = QueryError
  /\ pc = "fetch" => /\ \A s \in stmt + 1..N : db[s] = QueryError
                     /\ stmt \in Abs!Executed(db)
  /\ columnNames = Abs!ColumnsRead(db)
  /\ list = Abs!RowsAt(db, ReadSoFar)
  /\ pc \in {"query", "fetch"} => metrics = <<>> /\ errs = 0
  /\ pc \in {"idle", "row", "col"} =>
       /\ metrics = Abs!SamplesAt(columnNames, list, DoneCells("metric"))
       /\ errs = Cardinality(DoneCells("error"))
  /\ pc = "idle" => row > Len(list)
  /\ pc = "col" => labels = LabelValues(columnNames, list[row])

(* No statement has run yet: no statement contributes. *)
LEMMA NoneExecuted ==
  ASSUME NEW d, \A s \in 1..N : d[s] = QueryError
  PROVE  /\ Abs!Executed(d) = {}
         /\ Abs!ColumnsRead(d) = << >>
         /\ Abs!RowPositions(d) = {}
<1>1. Abs!Executed(d) = {}
  BY DEF Abs!Executed, QueryError, N
<1>2. \A p : p \notin Abs!RowPositions(d)
  BY <1>1, RowPositionsIff DEF Abs!Contributes
<1>. QED
  BY <1>1, <1>2 DEF Abs!ColumnsRead

LEMMA InitRInv == Init => RInv
<1> SUFFICES ASSUME Init PROVE RInv
  OBVIOUS
<1>1. IInv
  BY InitIInv
<1>2. /\ \A s \in 1..N : db[s] = QueryError
      /\ pc = "idle" /\ list = << >> /\ metrics = << >> /\ errs = 0
      /\ columnNames = << >> /\ row = 1
  BY DEF Init
<1>3. Abs!ColumnsRead(db) = << >> /\ Abs!RowPositions(db) = {}
  BY <1>2, NoneExecuted
<1>4. list = Abs!RowsAt(db, ReadSoFar)
  BY <1>2, <1>3, EmptyAt DEF ReadSoFar
<1>5. DoneCells("metric") = {} /\ DoneCells("error") = {}
  BY <1>2 DEF DoneCells, Abs!Cells
<1>6. metrics = Abs!SamplesAt(columnNames, list, DoneCells("metric"))
      /\ errs = Cardinality(DoneCells("error"))
  BY <1>2, <1>5, EmptyAt, FS_EmptySet
<1>. QED
  BY <1>1, <1>2, <1>3, <1>4, <1>6 DEF RInv, QueryError, NoFail

-----------------------------------------------------------------------------
(* Facts RInv gives in every state. *)

(* The latest statement of a set is its greatest element. *)
LEMMA LatestIs ==
  ASSUME NEW S \in SUBSET Int, NEW m \in S, \A t \in S : t <= m
  PROVE  Abs!Latest(S) = m
<1>1. \A s \in S : (\A t \in S : t <= s) => s = m
  OBVIOUS
<1>. QED
  BY <1>1, Zenon DEF Abs!Latest

(* Whether statement s contributes depends on its answer only. *)
LEMMA ContributesFrame ==
  ASSUME NEW d, NEW e, NEW s, d[s] = e[s]
  PROVE  Abs!Contributes(d, s) <=> Abs!Contributes(e, s)
BY DEF Abs!Contributes, Abs!Executed

(* In the statement loop no statement from stmt on has contributed rows. *)
LEMMA RowsBeforeStmt ==
  ASSUME RInv
  PROVE  /\ pc = "query" => \A p \in Abs!RowPositions(db) : p[1] < stmt
         /\ pc = "fetch" => \A p \in Abs!RowPositions(db) : p[1] <= stmt
<1>1. stmt \in 1..N + 1 /\ db \in [1..N -> Answer]
  BY DEF RInv, IInv, TypeOK
<1>2. ASSUME NEW p \in Abs!RowPositions(db)
      PROVE  p[1] \in 1..N /\ db[p[1]].ok
  BY RowPositionsIff DEF Abs!Contributes, Abs!Executed
<1>. QED
  BY <1>1, <1>2 DEF RInv, QueryError

(* The positions of the rows read, and the list, are finite. *)
LEMMA ReadFinite ==
  ASSUME RInv
  PROVE  /\ Abs!RowPositions(db) \subseteq Pos
         /\ IsFiniteSet(Abs!RowPositions(db))
         /\ ReadSoFar \subseteq Abs!RowPositions(db)
<1>1. \A s \in 1..N : Len(db[s].rows) \in 0..MaxRows
  BY DEF RInv, IInv, TypeOK, Answer
<1>. QED
  BY <1>1, RowPositionsFinite DEF ReadSoFar

(* The cells of rows R read with cols are finitely many positions. *)
LEMMA CellsFinite ==
  ASSUME NEW cols \in Seq(ColNames), NEW R \in Seq(Row), NEW res
  PROVE  /\ Abs!Cells(cols, R, res) \subseteq (1..Len(R)) \X (1..Len(cols))
         /\ Abs!Cells(cols, R, res) \subseteq Pos
         /\ IsFiniteSet(Abs!Cells(cols, R, res))
<1>1. IsFiniteSet((1..Len(R)) \X (1..Len(cols)))
  <2>1. IsFiniteSet(1..Len(R)) /\ IsFiniteSet(1..Len(cols))
    BY FS_Interval
  <2>. QED
    BY <2>1, FS_Product
<1>. QED
  BY <1>1, FS_Subset DEF Abs!Cells, Pos

-----------------------------------------------------------------------------
(* Each step of getMetric keeps RInv. *)

LEMMA StepCollect ==
  ASSUME RInv, IInv', Collect
  PROVE  RInv'
<1>1. /\ \A s \in 1..N : db'[s] = QueryError
      /\ pc' = "query" /\ stmt' = 1 /\ list' = << >> /\ columnNames' = << >>
      /\ metrics' = << >> /\ errs' = 0
  BY DEF Collect
<1>2. Abs!ColumnsRead(db') = << >> /\ Abs!RowPositions(db') = {}
  BY <1>1, NoneExecuted
<1>3. list' = Abs!RowsAt(db', ReadSoFar')
  BY <1>1, <1>2, EmptyAt DEF ReadSoFar
<1>. QED
  BY <1>1, <1>2, <1>3 DEF RInv, QueryError, NoFail

(* The steps of the statement loop that leave the answers and the list. *)
LEMMA StepSkipDisabled ==
  ASSUME RInv, IInv', SkipDisabled
  PROVE  RInv'
<1>1. ReadSoFar' = ReadSoFar
  BY DEF SkipDisabled, ReadSoFar
<1>2. /\ pc' = "query" /\ pc = "query" /\ stmt' = stmt + 1
      /\ UNCHANGED <<db, columnNames, list, metrics, errs>>
  BY DEF SkipDisabled
<1>3. \A s \in stmt'..N : db'[s] = QueryError
  <2>1. stmt \in Nat
    BY DEF RInv, IInv, TypeOK
  <2>. QED
    BY <1>2, <2>1 DEF RInv
<1>. QED
  BY <1>1, <1>2, <1>3 DEF RInv

LEMMA StepQueryFailed ==
  ASSUME RInv, IInv', QueryFailed
  PROVE  RInv'
<1>1. db' = db
  <2>1. db \in [1..N -> Answer] /\ stmt \in 1..N /\ db[stmt] = QueryError
    BY DEF QueryFailed, RInv, IInv, TypeOK
  <2>. QED
    BY <2>1 DEF QueryFailed
<1>2. ReadSoFar' = ReadSoFar
  BY <1>1 DEF QueryFailed, ReadSoFar
<1>3. /\ pc' = "query" /\ pc = "query" /\ stmt' = stmt + 1
      /\ UNCHANGED <<columnNames, list, metrics, errs>>
  BY DEF QueryFailed
<1>4. \A s \in stmt'..N : db'[s] = QueryError
  <2>1. stmt \in Nat
    BY DEF RInv, IInv, TypeOK
  <2>. QED
    BY <1>1, <1>3, <2>1 DEF RInv
<1>. QED
  BY <1>1, <1>2, <1>3, <1>4 DEF RInv

LEMMA StepRowsDone ==
  ASSUME RInv, IInv', RowsDone
  PROVE  RInv'
<1>1. fetched = Len(db[stmt].rows)
  <2>1. fetched \in Nat
    BY DEF RInv, IInv, TypeOK
  <2>2. stmt \in 1..N
    BY DEF RowsDone, RInv, IInv, TypeOK
  <2>3. db[stmt].failAt = NoFail
    BY <2>2 DEF RInv
  <2>. QED
    BY <2>1, <2>3 DEF RowsDone, NoFail
<1>2. ReadSoFar = Abs!RowPositions(db)
  <2>1. \A p \in Abs!RowPositions(db) : p[1] <= stmt
    BY RowsBeforeStmt DEF RowsDone
  <2>2. \A p \in Abs!RowPositions(db) : p[1] = stmt => p[2] <= fetched
    BY <1>1, RowPositionsIff
  <2>3. \A p \in Abs!RowPositions(db) : p[1] \in Nat
    BY RowPositionsIff
  <2>4. stmt \in Nat /\ pc = "fetch"
    BY DEF RInv, IInv, TypeOK, RowsDone
  <2>. QED
    BY <2>1, <2>2, <2>3, <2>4 DEF ReadSoFar
<1>3. ReadSoFar' = Abs!RowPositions(db)
  BY DEF RowsDone, ReadSoFar
<1>. QED
  BY <1>2, <1>3 DEF RowsDone, RInv

LEMMA StepStartProc ==
  ASSUME RInv, IInv', StartProc
  PROVE  RInv'
<1>1. ReadSoFar' = ReadSoFar
  BY DEF StartProc, ReadSoFar
<1>2. metrics = << >> /\ errs = 0
  BY DEF StartProc, RInv
<1>3. DoneCells("metric")' = {} /\ DoneCells("error")' = {}
  BY DEF StartProc, DoneCells, Processed, Abs!Cells
<1>4. metrics' = Abs!SamplesAt(columnNames', list', DoneCells("metric")')
      /\ errs' = Cardinality(DoneCells("error")')
  BY <1>2, <1>3, EmptyAt, FS_EmptySet DEF StartProc
<1>. QED
  BY <1>1, <1>4 DEF StartProc, RInv

LEMMA StepEndRow ==
  ASSUME RInv, IInv', EndRow
  PROVE  RInv'
<1>1. ReadSoFar' = ReadSoFar
  BY DEF EndRow, ReadSoFar
<1>2. ASSUME NEW res PROVE DoneCells(res)' = DoneCells(res)
  <2>1. columnNames \in Seq(ColNames) /\ list \in Seq(Row) /\ col \in Nat /\ row \in Nat
    BY DEF RInv, IInv, TypeOK
  <2>2. \A p \in Abs!Cells(columnNames, list, res) : p[2] < col /\ p[1] \in Nat
    BY <2>1, CellsFinite DEF EndRow
  <2>. QED
    BY <2>1, <2>2 DEF EndRow, DoneCells, Processed
<1>. QED
  BY <1>1, <1>2 DEF EndRow, RInv

LEMMA StepEmit ==
  ASSUME RInv, IInv', Emit
  PROVE  RInv'
<1>1. ReadSoFar' = ReadSoFar
  BY DEF Emit, ReadSoFar
<1>2. ASSUME NEW res PROVE DoneCells(res)' = DoneCells(res)
  BY DEF Emit, DoneCells, Processed
<1>. QED
  BY <1>1, <1>2 DEF Emit, RInv

LEMMA StepStartRow ==
  ASSUME RInv, IInv', StartRow
  PROVE  RInv'
<1>1. ReadSoFar' = ReadSoFar
  BY DEF StartRow, ReadSoFar
<1>2. UNCHANGED <<db, columnNames, list, row, metrics, errs>> /\ pc = "row"
  BY DEF StartRow
<1>3. CASE LabelsPanic(columnNames, list[row])
  <2>1. pc' = "panic"
    BY <1>3 DEF StartRow
  <2>. QED
    BY <1>1, <1>2, <2>1 DEF RInv
<1>4. CASE ~LabelsPanic(columnNames, list[row])
  <2>1. pc' = "col" /\ col' = 1 /\ labels' = LabelValues(columnNames, list[row])
    BY <1>4 DEF StartRow
  <2>2. ASSUME NEW res PROVE DoneCells(res)' = DoneCells(res)
    <3>0. pc' = "col" /\ col' = 1
      BY <2>1
    <3>1. columnNames \in Seq(ColNames) /\ list \in Seq(Row) /\ row \in Nat
      BY DEF RInv, IInv, TypeOK
    <3>2. \A p \in Abs!Cells(columnNames, list, res) : p[2] \in Nat \ {0} /\ p[1] \in Nat
      BY <3>1, CellsFinite
    <3>3. \A p \in Abs!Cells(columnNames, list, res) :
            (p[1] < row' \/ (pc' = "col" /\ p[1] = row' /\ p[2] < col')) <=> p[1] < row
      BY <1>2, <3>0, <3>1, <3>2
    <3>. QED
      BY <1>2, <3>3 DEF DoneCells, Processed
  <2>. QED
    BY <1>1, <1>2, <2>1, <2>2 DEF RInv
<1>. QED
  BY <1>3, <1>4

(***************************************************************************)
(* A statement that returns a result set is the latest one executed: its   *)
(* columns become the columns read, and (rows.Next never failing) none of  *)
(* its rows is read yet.                                                   *)
(***************************************************************************)
LEMMA StepQueryOK ==
  ASSUME NextMayFail = FALSE, RInv, IInv', QueryOK
  PROVE  RInv'
<1>1. /\ pc = "query" /\ stmt \in 1..N /\ stmt \in Nat
      /\ Queries[stmt].status # Disable /\ db \in [1..N -> Answer]
  BY DEF QueryOK, RInv, IInv, TypeOK
<1>2. PICK a \in Results(stmt) : db' = [db EXCEPT ![stmt] = a]
  BY DEF QueryOK
<1>3. a.ok /\ a.failAt = NoFail
  BY <1>2 DEF Results, FailPoints
<1>4. /\ \A s \in 1..N : s # stmt => db'[s] = db[s]
      /\ db'[stmt] = a
  BY <1>1, <1>2
<1>5. \A s \in Abs!Executed(db) : s < stmt
  BY <1>1 DEF RInv, Abs!Executed, QueryError, N
<1>6. Abs!Executed(db') = Abs!Executed(db) \cup {stmt}
  BY <1>1, <1>3, <1>4 DEF Abs!Executed, N, Abs!Disable, Disable
<1>7. columnNames' = Abs!ColumnsRead(db')
  <2>1. Abs!Executed(db') \subseteq Int
    BY DEF Abs!Executed
  <2>2. stmt \in Abs!Executed(db') /\ \A t \in Abs!Executed(db') : t <= stmt
    <3>1. Abs!Executed(db) \subseteq Int
      BY DEF Abs!Executed
    <3>. QED
      BY <1>1, <1>5, <1>6, <3>1
  <2>3. Abs!Latest(Abs!Executed(db')) = stmt
    BY <2>1, <2>2, LatestIs
  <2>. QED
    BY <2>2, <2>3 DEF QueryOK, Abs!ColumnsRead
<1>8. \A p \in Abs!RowPositions(db) : p[1] < stmt
  BY <1>1, RowsBeforeStmt
<1>9. ReadSoFar' = Abs!RowPositions(db)
  <2>1. ReadSoFar' = {p \in Abs!RowPositions(db') : p[1] < stmt \/ p[2] <= 0}
    BY DEF QueryOK, ReadSoFar
  <2>2. ASSUME NEW p
        PROVE  p \in ReadSoFar' <=> p \in Abs!RowPositions(db)
    <3>1. CASE p \in (1..N) \X Nat /\ p[1] # stmt
      <4>1. db'[p[1]] = db[p[1]]
        BY <1>4, <3>1
      <4>2. Abs!Contributes(db', p[1]) <=> Abs!Contributes(db, p[1])
        BY <4>1, ContributesFrame
      <4>3. p \in Abs!RowPositions(db') <=> p \in Abs!RowPositions(db)
        BY <4>1, <4>2, RowPositionsIff
      <4>4. p \in Abs!RowPositions(db') => p[2] >= 1
        BY RowPositionsIff
      <4>. QED
        BY <1>1, <1>8, <2>1, <4>3, <4>4, <3>1
    <3>2. CASE p \in (1..N) \X Nat /\ p[1] = stmt
      <4>1. p \notin Abs!RowPositions(db)
        BY <1>1, <1>8, <3>2
      <4>2. p \in Abs!RowPositions(db') => p[2] >= 1
        BY RowPositionsIff
      <4>. QED
        BY <1>1, <2>1, <3>2, <4>1, <4>2
    <3>3. CASE p \notin (1..N) \X Nat
      BY <2>1, <3>3, RowPositionsIff
    <3>. QED
      BY <3>1, <3>2, <3>3
  <2>. QED
    BY <2>2
<1>10. list' = Abs!RowsAt(db', ReadSoFar')
  <2>1. list = Abs!RowsAt(db, Abs!RowPositions(db))
    BY <1>1 DEF RInv, ReadSoFar
  <2>2. Abs!RowPositions(db) \subseteq Pos /\ IsFiniteSet(Abs!RowPositions(db))
    BY ReadFinite
  <2>3. \A p \in Abs!RowPositions(db) : db[p[1]] = db'[p[1]]
    BY <1>4, <1>8, RowPositionsIff
  <2>4. Abs!RowsAt(db, Abs!RowPositions(db)) = Abs!RowsAt(db', Abs!RowPositions(db))
    BY <2>2, <2>3, RowsAtFrame
  <2>. QED
    BY <1>9, <2>1, <2>4 DEF QueryOK
<1>11. /\ \A s \in 1..N : db'[s].failAt = NoFail
       /\ \A s \in stmt + 1..N : db'[s] = QueryError
       /\ stmt \in Abs!Executed(db')
  BY <1>1, <1>3, <1>4, <1>6 DEF RInv
<1>12. /\ pc' = "fetch" /\ stmt' = stmt
       /\ UNCHANGED <<metrics, errs>> /\ metrics = << >> /\ errs = 0
  BY <1>1 DEF QueryOK, RInv
<1>. QED
  BY <1>7, <1>10, <1>11, <1>12 DEF RInv

(* A row read is the next position of the current statement's result. *)
LEMMA StepFetchRow ==
  ASSUME RInv, IInv', FetchRow
  PROVE  RInv'
<1>1. /\ pc = "fetch" /\ stmt \in 1..N /\ fetched \in Nat /\ stmt \in Nat
      /\ fetched < Len(db[stmt].rows)
      /\ stmt \in Abs!Executed(db) /\ db[stmt].failAt = NoFail
  BY DEF FetchRow, RInv, IInv, TypeOK
<1>. DEFINE x == <<stmt, fetched + 1>>
<1>2. x \in Abs!RowPositions(db) /\ x \in Pos
  <2>1. Abs!Contributes(db, stmt)
    BY <1>1 DEF Abs!Contributes, Abs!NoFail, NoFail
  <2>. QED
    BY <1>1, <2>1, RowPositionsIff DEF Pos
<1>3. ReadSoFar' = ReadSoFar \cup {x}
  <2>1. ReadSoFar' = {p \in Abs!RowPositions(db) : p[1] < stmt \/ p[2] <= fetched + 1}
    BY DEF FetchRow, ReadSoFar
  <2>2. ReadSoFar = {p \in Abs!RowPositions(db) : p[1] < stmt \/ p[2] <= fetched}
    BY <1>1 DEF ReadSoFar
  <2>3. \A p \in Abs!RowPositions(db) : p[1] \in Nat /\ p[2] \in Nat /\ p = <<p[1], p[2]>>
    BY RowPositionsIff
  <2>4. \A p \in Abs!RowPositions(db) : p[1] <= stmt
    BY <1>1, RowsBeforeStmt
  <2>. QED
    BY <1>1, <1>2, <2>1, <2>2, <2>3, <2>4
<1>4. /\ ReadSoFar \subseteq Pos /\ IsFiniteSet(ReadSoFar)
      /\ \A p \in ReadSoFar : Abs!Before(p, x)
  <2>1. Abs!RowPositions(db) \subseteq Pos /\ IsFiniteSet(Abs!RowPositions(db))
        /\ ReadSoFar \subseteq Abs!RowPositions(db)
    BY ReadFinite
  <2>2. IsFiniteSet(ReadSoFar)
    BY <2>1, FS_Subset
  <2>3. \A p \in ReadSoFar : p[1] <= stmt /\ (p[1] < stmt \/ p[2] <= fetched)
    BY <1>1, <2>1, RowsBeforeStmt DEF ReadSoFar
  <2>4. \A p \in ReadSoFar : p[1] \in Nat /\ p[2] \in Nat
    BY <2>1, RowPositionsIff
  <2>. QED
    BY <1>1, <2>1, <2>2, <2>3, <2>4 DEF Abs!Before
<1>5. list' = Abs!RowsAt(db', ReadSoFar')
  <2>1. Abs!RowsAt(db, ReadSoFar \cup {x}) = Append(Abs!RowsAt(db, ReadSoFar), db[x[1]].rows[x[2]])
    BY <1>2, <1>4, RowsAppend
  <2>2. list = Abs!RowsAt(db, ReadSoFar)
    BY DEF RInv
  <2>. QED
    BY <1>3, <2>1, <2>2 DEF FetchRow
<1>6. /\ pc' = "fetch" /\ db' = db /\ stmt' = stmt /\ columnNames' = columnNames
      /\ metrics' = metrics /\ errs' = errs
  BY <1>1 DEF FetchRow
<1>7. /\ \A s \in 1..N : db'[s].failAt = NoFail
      /\ \A s \in stmt' + 1..N : db'[s] = QueryError
      /\ stmt' \in Abs!Executed(db')
      /\ columnNames' = Abs!ColumnsRead(db')
      /\ metrics' = << >> /\ errs' = 0
  BY <1>1, <1>6 DEF RInv
<1>. QED
  BY <1>5, <1>6, <1>7 DEF RInv

(***************************************************************************)
(* One column of procRows: cell <<row, col>> joins the processed cells,    *)
(* and its newMetric answer decides whether it adds a sample or an error.  *)
(***************************************************************************)
LEMMA StepProcColumn ==
  ASSUME RInv, IInv', ProcColumn
  PROVE  RInv'
<1>1. /\ pc = "col" /\ col \in Nat \ {0} /\ row \in Nat \ {0}
      /\ row \in 1..Len(list) /\ col <= Len(columnNames)
      /\ columnNames \in Seq(ColNames) /\ list \in Seq(Row)
      /\ labels = LabelValues(columnNames, list[row])
  BY DEF ProcColumn, RInv, IInv, TypeOK
<1>2. ReadSoFar' = ReadSoFar /\ UNCHANGED <<db, columnNames, list, row, labels>>
  BY <1>1 DEF ProcColumn, ReadSoFar
<1>3. CASE col > Len(list[row])
  <2>1. pc' = "panic"
    BY <1>3 DEF ProcColumn
  <2>. QED
    BY <1>2, <2>1 DEF RInv
<1>4. CASE ~(col > Len(list[row]))
  <2>. DEFINE x == <<row, col>>
              res == NewMetricResult(columnNames[col], list[row][col], labels)
  <2>1. /\ pc' = "col" /\ col' = col + 1
        /\ metrics' = IF res = "metric"
                        THEN Append(metrics, ConstMetric(columnNames[col], list[row][col], labels))
                        ELSE metrics
        /\ errs' = IF res = "error" THEN errs + 1 ELSE errs
    BY <1>4 DEF ProcColumn, res
  <2>2. ASSUME NEW r
        PROVE  x \in Abs!Cells(columnNames, list, r) <=> r = res
    BY <1>1, <1>4, AbsRowProcessor DEF Abs!Cells, res, x
  <2>3. ASSUME NEW r
        PROVE  DoneCells(r)' = DoneCells(r) \cup ({x} \cap Abs!Cells(columnNames, list, r))
    <3>1. \A p \in Abs!Cells(columnNames, list, r) :
            p[1] \in Nat /\ p[2] \in Nat /\ p = <<p[1], p[2]>>
      BY <1>1, CellsFinite
    <3>2. \A p \in Abs!Cells(columnNames, list, r) :
            (p[1] < row' \/ (pc' = "col" /\ p[1] = row' /\ p[2] < col'))
              <=> (Processed(p) \/ p = x)
      BY <1>1, <1>2, <2>1, <3>1 DEF Processed, x
    <3>. QED
      BY <1>2, <3>2 DEF DoneCells, Processed
  <2>4. ASSUME NEW r
        PROVE  /\ x \in Pos
               /\ DoneCells(r) \subseteq Pos /\ IsFiniteSet(DoneCells(r))
               /\ \A p \in DoneCells(r) : Abs!Before(p, x)
               /\ x \notin DoneCells(r)
    <3>1. Abs!Cells(columnNames, list, r) \subseteq Pos
          /\ IsFiniteSet(Abs!Cells(columnNames, list, r))
      BY <1>1, CellsFinite
    <3>2. IsFiniteSet(DoneCells(r))
      BY <3>1, FS_Subset DEF DoneCells
    <3>3. \A p \in DoneCells(r) : p[1] < row \/ (p[1] = row /\ p[2] < col)
      BY <1>1 DEF DoneCells, Processed
    <3>. QED
      BY <1>1, <3>1, <3>2, <3>3 DEF DoneCells, Pos, Abs!Before, x
  <2>5. /\ metrics' = Abs!SamplesAt(columnNames', list', DoneCells("metric")')
        /\ errs' = Cardinality(DoneCells("error")')
    <3>1. /\ metrics = Abs!SamplesAt(columnNames, list, DoneCells("metric"))
          /\ errs = Cardinality(DoneCells("error"))
      BY <1>1 DEF RInv
    <3>2. CASE res = "metric"
      <4>1. DoneCells("metric")' = DoneCells("metric") \cup {x}
            /\ DoneCells("error")' = DoneCells("error")
        <5>1. x \in Abs!Cells(columnNames, list, "metric")
          BY <2>2, <3>2
        <5>2. x \notin Abs!Cells(columnNames, list, "error")
          BY <2>2, <3>2
        <5>3. DoneCells("metric")' = DoneCells("metric") \cup ({x} \cap Abs!Cells(columnNames, list, "metric"))
              /\ DoneCells("error")' = DoneCells("error") \cup ({x} \cap Abs!Cells(columnNames, list, "error"))
          BY <2>3
        <5>. QED
          BY <5>1, <5>2, <5>3
      <4>2. Abs!SamplesAt(columnNames, list, DoneCells("metric") \cup {x})
              = Append(Abs!SamplesAt(columnNames, list, DoneCells("metric")),
                       Abs!SampleAt(columnNames, list, x))
        BY <2>4, SamplesAppend
      <4>3. Abs!SampleAt(columnNames, list, x)
              = ConstMetric(columnNames[col], list[row][col], labels)
        BY <1>1, AbsRowProcessor DEF Abs!SampleAt, x
      <4>4. metrics' = Append(metrics, ConstMetric(columnNames[col], list[row][col], labels))
        BY <2>1, <3>2
      <4>. QED
        BY <1>2, <2>1, <3>1, <3>2, <4>1, <4>2, <4>3, <4>4
    <3>3. CASE res = "error"
      <4>1. DoneCells("error")' = DoneCells("error") \cup {x}
            /\ DoneCells("metric")' = DoneCells("metric")
        <5>1. x \in Abs!Cells(columnNames, list, "error")
          BY <2>2, <3>3
        <5>2. x \notin Abs!Cells(columnNames, list, "metric")
          BY <2>2, <3>3
        <5>3. DoneCells("error")' = DoneCells("error") \cup ({x} \cap Abs!Cells(columnNames, list, "error"))
              /\ DoneCells("metric")' = DoneCells("metric") \cup ({x} \cap Abs!Cells(columnNames, list, "metric"))
          BY <2>3
        <5>. QED
          BY <5>1, <5>2, <5>3
      <4>2. Cardinality(DoneCells("error") \cup {x}) = Cardinality(DoneCells("error")) + 1
        BY <2>4, FS_AddElement
      <4>3. errs' = errs + 1 /\ metrics' = metrics
        BY <2>1, <3>3
      <4>. QED
        BY <1>2, <3>1, <4>1, <4>2, <4>3
    <3>4. CASE res \notin {"metric", "error"}
      <4>1. DoneCells("error")' = DoneCells("error")
            /\ DoneCells("metric")' = DoneCells("metric")
        BY <2>2, <2>3, <3>4
      <4>2. errs' = errs /\ metrics' = metrics
        BY <2>1, <3>4
      <4>. QED
        BY <1>2, <3>1, <4>1, <4>2
    <3>. QED
      BY <3>2, <3>3, <3>4
  <2>6. /\ columnNames' = Abs!ColumnsRead(db')
        /\ list' = Abs!RowsAt(db', ReadSoFar')
        /\ labels' = LabelValues(columnNames', list'[row'])
    BY <1>1, <1>2 DEF RInv
  <2>. QED
    BY <1>2, <2>1, <2>5, <2>6 DEF RInv
<1>. QED
  BY <1>3, <1>4

(* A stuttering step keeps RInv. *)
LEMMA StepStutter ==
  ASSUME RInv, UNCHANGED vars
  PROVE  RInv'
<1>1. UNCHANGED <<pc, db, stmt, fetched, columnNames, list, row, col, labels, metrics, errs>>
  BY DEF vars
<1>2. IInv'
  BY <1>1 DEF RInv, IInv, TypeOK
<1>3. ReadSoFar' = ReadSoFar
  BY <1>1 DEF ReadSoFar
<1>4. ASSUME NEW res PROVE DoneCells(res)' = DoneCells(res)
  BY <1>1 DEF DoneCells, Processed
<1>. QED
  BY <1>1, <1>2, <1>3, <1>4 DEF RInv

(* RInv is an invariant of the scrape when rows.Next never fails. *)
LEMMA StepRInv ==
  ASSUME NextMayFail = FALSE, RInv, [Next]_vars
  PROVE  RInv'
<1>1. IInv'
  BY StepIInv DEF RInv
<1>2. CASE Next
  BY <1>1, <1>2, StepCollect, StepSkipDisabled, StepQueryFailed, StepQueryOK,
     StepFetchRow, StepRowsDone, StepStartProc, StepStartRow, StepProcColumn,
     StepEndRow, StepEmit DEF Next
<1>3. CASE UNCHANGED vars
  BY <1>3, StepStutter
<1>. QED
  BY <1>2, <1>3

-----------------------------------------------------------------------------
(* The mapped initial state is an initial state of ScrapeSpec. *)
LEMMA InitAbs == Init => Abs!Init
<1> SUFFICES ASSUME Init PROVE Abs!Init
  OBVIOUS
<1>1. db \in [1..Len(Queries) -> Abs!Answer]
  <2>1. QueryError \in Answer
    BY DEF QueryError, Answer, NoFail
  <2>. QED
    BY <2>1, AbsRowProcessor DEF Init, N
<1>. QED
  BY <1>1 DEF Init, Abs!Init

(* When the scrape ends, the samples and the error count are those of the  *)
(* answers the statements got.                                             *)
LEMMA EmitPublishes ==
  ASSUME RInv, pc = "row", row > Len(list)
  PROVE  /\ metrics = Abs!Samples(db)
         /\ errs = Abs!Errors(db)
<1>1. columnNames = Abs!ColumnsRead(db) /\ list = Abs!RowsRead(db)
  BY DEF RInv, ReadSoFar, Abs!RowsRead
<1>2. ASSUME NEW res PROVE DoneCells(res) = Abs!Cells(columnNames, list, res)
  <2>1. columnNames \in Seq(ColNames) /\ list \in Seq(Row) /\ row \in Nat
    BY DEF RInv, IInv, TypeOK
  <2>2. \A p \in Abs!Cells(columnNames, list, res) : p[1] \in 1..Len(list)
    BY <2>1, CellsFinite
  <2>. QED
    BY <2>1, <2>2 DEF DoneCells, Processed
<1>3. /\ metrics = Abs!SamplesAt(columnNames, list, DoneCells("metric"))
      /\ errs = Cardinality(DoneCells("error"))
  BY DEF RInv
<1>. QED
  BY <1>1, <1>2, <1>3, AbsCardinality DEF Abs!Samples, Abs!Errors

(* Every step of getMetric is a step of ScrapeSpec or leaves its state.    *)
LEMMA StepAbs ==
  ASSUME RInv, RInv', [Next]_vars
  PROVE  [Abs!Next]_Abs!vars
<1>1. CASE pc' = "idle"
  <2>1. CASE UNCHANGED vars
    BY <2>1 DEF vars, Abs!vars
  <2>2. CASE Next
    <3>1. Emit
      BY <1>1, <2>2 DEF Next, Collect, SkipDisabled, QueryFailed, QueryOK,
         FetchRow, RowsDone, StartProc, StartRow, ProcColumn, EndRow
    <3>2. /\ metrics = Abs!Samples(db) /\ errs = Abs!Errors(db)
      BY <3>1, EmitPublishes DEF Emit
    <3>3. UNCHANGED <<db, metrics, errs>>
      BY <3>1 DEF Emit
    <3>. QED
      BY <1>1, <3>2, <3>3 DEF Abs!Next, Abs!Publish
  <2>. QED
    BY <2>1, <2>2
<1>2. CASE pc' # "idle"
  <2>1. db' \in [1..Len(Queries) -> Abs!Answer]
    BY AbsRowProcessor DEF RInv, IInv, TypeOK, N
  <2>. QED
    BY <1>2, <2>1 DEF Abs!Next, Abs!Query
<1>. QED
  BY <1>1, <1>2

(***************************************************************************)
(* Refinement: when rows.Next never stops on an error, getMetric, seen     *)
(* through the mapping of GetMetric's Abs (the samples and error count     *)
(* handed over are metrics and errs once the collector is back at idle),   *)
(* implements ScrapeSpec: every finished scrape hands over exactly the     *)
(* samples and errors procRows derives from the rows of the contributing   *)
(* statements, read with the columns of the last statement executed.       *)
(***************************************************************************)
THEOREM Implements == NextMayFail = FALSE => (Spec => ImplementsScrapeSpec)
<1> SUFFICES ASSUME NextMayFail = FALSE PROVE Spec => ImplementsScrapeSpec
  OBVIOUS
<1>1. Init => RInv
  BY InitRInv
<1>2. RInv /\ [Next]_vars => RInv'
  BY StepRInv
<1>3. Init => Abs!Init
  BY InitAbs
<1>4. RInv /\ RInv' /\ [Next]_vars => [Abs!Next]_Abs!vars
  BY StepAbs
<1>. QED
  BY <1>1, <1>2, <1>3, <1>4, PTL DEF Spec, ImplementsScrapeSpec, Abs!Spec

====
