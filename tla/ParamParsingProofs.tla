------------------------- MODULE ParamParsingProofs -------------------------
(***************************************************************************)
(* parseConstLabels and parseCSV compute, for every parameter string, the  *)
(* label map and the tag list of the reference.  The loop invariant says   *)
(* what the accumulator holds after the first i - 1 parts: the map of the *)
(* well-formed ones, each key with its last value, or the list of the      *)
(* non-empty ones in order.                                                *)
(***************************************************************************)
EXTENDS ParamParsing, FiniteSetTheorems, SequenceTheorems, WellFoundedInduction, TLAPS

(* The elements of a function, so that a list built by Split is a sequence of them. *)
Elems(f) == {f[k] : k \in DOMAIN f}

-----------------------------------------------------------------------------
(* Least and Greatest, as TrimSpace uses them, find an element of a        *)
(* non-empty set of positions.                                             *)
(* A non-empty set of naturals has an element no other is below. *)
LEMMA NatMinimal ==
  ASSUME NEW S \in SUBSET Nat, S # {}
  PROVE  \E x \in S : \A y \in S : ~(y < x)
<1>. DEFINE R == OpToRel(<, Nat)
<1>1. IsWellFoundedOn(R, Nat)
  BY NatLessThanWellFounded, Zenon DEF R
<1>2. \E x \in S : \A y \in S : ~(<<y, x>> \in R)
  BY <1>1, WFMin, Zenon
<1>3. \A x, y \in Nat : <<y, x>> \in R <=> y < x
  BY Zenon DEF R, OpToRel
<1>. QED
  BY <1>2, <1>3, Zenon

LEMMA LeastIsLeast ==
  ASSUME NEW S \in SUBSET Nat, S # {}
  PROVE  Least(S) \in S /\ \A y \in S : Least(S) <= y
<1>1. \E x \in S : \A y \in S : x <= y
  BY NatMinimal
<1>. QED
  BY <1>1 DEF Least

LEMMA GreatestIsGreatest ==
  ASSUME NEW L \in Nat, NEW S \in SUBSET (0..L), S # {}
  PROVE  Greatest(S) \in S /\ \A y \in S : y <= Greatest(S)
<1>. DEFINE T == {L - k : k \in S}
<1>1. T \in SUBSET Nat /\ T # {}
  <2>1. \A k \in S : L - k \in Nat
    OBVIOUS
  <2>2. PICK k0 \in S : TRUE
    OBVIOUS
  <2>3. L - k0 \in T
    BY DEF T
  <2>. QED
    BY <2>1, <2>3 DEF T
<1>2. Least(T) \in T /\ \A y \in T : Least(T) <= y
  BY <1>1, LeastIsLeast
<1>3. PICK k \in S : Least(T) = L - k
  BY <1>2 DEF T
<1>4. \A y \in S : L - y \in T
  BY DEF T
<1>5. \A y \in S : y <= k
  <2>. SUFFICES ASSUME NEW y \in S PROVE y <= k
    OBVIOUS
  <2>1. Least(T) <= L - y
    BY <1>2, <1>4
  <2>. QED
    BY <2>1, <1>3
<1>. QED
  BY <1>5 DEF Greatest

(* The greatest element of a set, when there is one. *)
LEMMA GreatestOfMax ==
  ASSUME NEW S \in SUBSET Nat, NEW m \in S, \A y \in S : y <= m
  PROVE  Greatest(S) = m
<1>1. Greatest(S) \in S /\ \A y \in S : y <= Greatest(S)
  BY DEF Greatest
<1>2. Greatest(S) \in Nat
  BY <1>1
<1>3. Greatest(S) <= m /\ m <= Greatest(S)
  BY <1>1
<1>. QED
  BY <1>2, <1>3

(* TrimSpace keeps a string a string. *)
LEMMA TrimSpaceType ==
  ASSUME NEW X, NEW s \in Seq(X)
  PROVE  TrimSpace(s) \in Seq(X)
<1>. DEFINE kept == {k \in 1..Len(s) : ~IsSpace(s[k])}
<1>1. CASE kept = {}
  BY <1>1 DEF TrimSpace
<1>2. CASE kept # {}
  <2>0. /\ Len(s) \in Nat
        /\ kept \in SUBSET (0..Len(s)) /\ kept \in SUBSET Nat
        /\ kept # {}
    BY <1>2 DEF kept
  <2>1. Least(kept) \in kept
    BY <2>0, LeastIsLeast, Zenon
  <2>2. Greatest(kept) \in kept
    BY <2>0, GreatestIsGreatest, Zenon
  <2>3. Least(kept) \in 1..Len(s) /\ Greatest(kept) \in 1..Len(s)
    BY <2>1, <2>2 DEF kept
  <2>4. \A j \in Least(kept)..Greatest(kept) : s[j] \in X
    BY <2>3
  <2>5. SubSeq(s, Least(kept), Greatest(kept)) \in Seq(X)
    BY <2>3, <2>4, SubSeqProperties
  <2>. QED
    BY <1>2, <2>5 DEF TrimSpace, kept
<1>. QED
  BY <1>1, <1>2

(* strings.Split of a string returns a list. *)
LEMMA SplitIsSeq ==
  ASSUME NEW s, Len(s) \in Nat, NEW sep
  PROVE  Split(s, sep) \in Seq(Elems(Split(s, sep)))
<1>. DEFINE cuts == Cuts(s, sep)
<1>1. IsFiniteSet(cuts) /\ cuts # {}
  <2>1. cuts \subseteq 0..Len(s) + 1 /\ 0 \in cuts
    BY DEF cuts, Cuts
  <2>2. IsFiniteSet(0..Len(s) + 1)
    BY FS_Interval
  <2>. QED
    BY <2>1, <2>2, FS_Subset, Zenon
<1>2. Cardinality(cuts) - 1 \in Nat
  BY <1>1, FS_EmptySet, FS_CardinalityType
<1>. DEFINE f == Split(s, sep)
            M == Cardinality(cuts) - 1
<1>3. f = [n \in 1..M |-> f[n]]
  BY DEF f, M, Split, cuts
<1>4. \A n \in 1..M : f[n] \in Elems(f)
  BY <1>3 DEF Elems
<1>5. f \in [1..M -> Elems(f)]
  BY <1>3, <1>4, Zenon
<1>. QED
  BY <1>2, <1>5 DEF f, M
-----------------------------------------------------------------------------
(* labels[key] = value for the part at position i, after all the parts    *)
(* at positions G, gives the map of G and i: the new value wins, since i   *)
(* comes last.                                                             *)
LEMMA PutLabels ==
  ASSUME NEW ps, NEW G \in SUBSET Nat, NEW q \in Nat, \A k \in G : k < q
  PROVE  Put(LabelsOf(ps, G), LabelKey(ps[q]), LabelVal(ps[q])) = LabelsOf(ps, G \cup {q})
<1>. DEFINE key == LabelKey(ps[q])
            With(H, x) == {k \in H : LabelKey(ps[k]) = x}
            old == LabelsOf(ps, G)
            new == LabelsOf(ps, G \cup {q})
<1>1. DOMAIN old \cup {key} = DOMAIN new
  BY DEF LabelsOf, old, new, key
<1>2. Greatest(With(G \cup {q}, key)) = q
  <2>1. With(G \cup {q}, key) \in SUBSET Nat
    <3>1. G \cup {q} \in SUBSET Nat
      OBVIOUS
    <3>. QED
      BY <3>1, Zenon DEF With
  <2>3. q \in With(G \cup {q}, key)
    BY Zenon DEF With, key
  <2>2. \A y \in With(G \cup {q}, key) : y <= q
    BY DEF With
  <2>. QED
    BY <2>1, <2>2, <2>3, GreatestOfMax
<1>3. ASSUME NEW x \in DOMAIN old, x # key
      PROVE  With(G \cup {q}, x) = With(G, x)
  BY <1>3 DEF With, key
<1>4. \A x \in DOMAIN new : new[x] = IF x = key THEN LabelVal(ps[q]) ELSE old[x]
  <2>. SUFFICES ASSUME NEW x \in DOMAIN new PROVE new[x] = IF x = key THEN LabelVal(ps[q]) ELSE old[x]
    OBVIOUS
  <2>1. CASE x = key
    BY <2>1, <1>2 DEF new, LabelsOf, With
  <2>2. CASE x # key
    <3>1. x \in DOMAIN old
      BY <2>2, <1>1
    <3>2. With(G \cup {q}, x) = With(G, x)
      BY <3>1, <2>2, <1>3
    <3>. QED
      BY <2>2, <3>1, <3>2 DEF new, old, LabelsOf, With
  <2>. QED
    BY <2>1, <2>2
<1>5. new = [x \in DOMAIN new |-> new[x]]
  BY DEF new, LabelsOf
<1>. QED
  BY <1>1, <1>4, <1>5 DEF Put, old, new, key
(* Appending the trimmed part at position q to the tags of the positions  *)
(* K before it gives the tags of K and q: q ranks last.                    *)
LEMMA AppendTags ==
  ASSUME NEW ps, NEW K \in SUBSET Nat, IsFiniteSet(K), NEW q \in Nat, \A k \in K : k < q
  PROVE  Append(TagsOf(ps, K), TrimSpace(ps[q])) = TagsOf(ps, K \cup {q})
<1>. DEFINE C == Cardinality(K)
            K2 == K \cup {q}
            old == TagsOf(ps, K)
            new == TagsOf(ps, K2)
            t == TrimSpace(ps[q])
<1>1. C \in Nat /\ IsFiniteSet(K2) /\ Cardinality(K2) = C + 1
  <2>1. q \notin K
    OBVIOUS
  <2>. QED
    BY <2>1, FS_CardinalityType, FS_AddElement DEF C, K2
<1>2. \A k \in K : {j \in K2 : j <= k} = {j \in K : j <= k}
  BY DEF K2
<1>3. \A k \in K : Rank(K2, k) = Rank(K, k)
  BY <1>2 DEF Rank
<1>4. \A k \in K : Rank(K, k) <= C
  <2>. SUFFICES ASSUME NEW k \in K PROVE Rank(K, k) <= C
    OBVIOUS
  <2>1. {j \in K : j <= k} \subseteq K
    OBVIOUS
  <2>. QED
    BY <2>1, FS_Subset DEF Rank, C
<1>5. Rank(K2, q) = C + 1
  <2>0. \A j \in K2 : j <= q
    BY DEF K2
  <2>1. {j \in K2 : j <= q} = K2
    BY <2>0
  <2>. QED
    BY <2>1, <1>1 DEF Rank
<1>6. ASSUME NEW n \in 1..C
      PROVE  (CHOOSE k \in K2 : Rank(K2, k) = n) = (CHOOSE k \in K : Rank(K, k) = n)
  <2>1. \A k : (k \in K2 /\ Rank(K2, k) = n) <=> (k \in K /\ Rank(K, k) = n)
    <3>. SUFFICES ASSUME NEW k
                  PROVE  (k \in K2 /\ Rank(K2, k) = n) <=> (k \in K /\ Rank(K, k) = n)
      OBVIOUS
    <3>1. CASE k = q
      <4>1. k \notin K /\ Rank(K2, k) # n
        BY <3>1, <1>1, <1>5
      <4>. QED
        BY <4>1
    <3>2. CASE k \in K
      BY <3>2, <1>3 DEF K2
    <3>3. CASE k # q /\ k \notin K
      BY <3>3 DEF K2
    <3>. QED
      BY <3>1, <3>2, <3>3
  <2>. QED
    BY <2>1, Zenon
<1>7. (CHOOSE k \in K2 : Rank(K2, k) = C + 1) = q
  <2>1. \A k \in K2 : Rank(K2, k) = C + 1 => k = q
    BY <1>1, <1>3, <1>4 DEF K2
  <2>2. q \in K2 /\ Rank(K2, q) = C + 1
    BY <1>5 DEF K2
  <2>. QED
    BY <2>1, <2>2, Zenon
<1>8. old \in Seq(Elems(old) \cup {t}) /\ Len(old) = C
  <2>1. old = [n \in 1..C |-> old[n]]
    BY DEF old, TagsOf, C
  <2>2. old \in [1..C -> Elems(old) \cup {t}]
    BY <2>1 DEF Elems
  <2>. QED
    BY <1>1, <2>1, <2>2
<1>9. /\ Append(old, t) \in Seq(Elems(old) \cup {t})
      /\ Len(Append(old, t)) = C + 1
      /\ \A n \in 1..C : Append(old, t)[n] = old[n]
      /\ Append(old, t)[C + 1] = t
  BY <1>8, AppendProperties
<1>10. new = [n \in 1..C + 1 |-> TrimSpace(ps[CHOOSE k \in K2 : Rank(K2, k) = n])]
  BY <1>1 DEF new, TagsOf
<1>11. \A n \in 1..C + 1 : Append(old, t)[n] = new[n]
  <2>. SUFFICES ASSUME NEW n \in 1..C + 1 PROVE Append(old, t)[n] = new[n]
    OBVIOUS
  <2>1. CASE n \in 1..C
    <3>1. Append(old, t)[n] = old[n]
      BY <2>1, <1>9
    <3>2. old[n] = TrimSpace(ps[CHOOSE k \in K : Rank(K, k) = n])
      BY <2>1 DEF old, TagsOf, C
    <3>3. new[n] = TrimSpace(ps[CHOOSE k \in K2 : Rank(K2, k) = n])
      BY <2>1, <1>1, <1>10
    <3>. QED
      BY <2>1, <3>1, <3>2, <3>3, <1>6
  <2>2. CASE n = C + 1
    <3>1. new[n] = TrimSpace(ps[CHOOSE k \in K2 : Rank(K2, k) = C + 1])
      BY <2>2, <1>1, <1>10
    <3>2. new[n] = t
      BY <3>1, <1>7 DEF t
    <3>. QED
      BY <3>2, <1>9, <2>2
  <2>3. n \in 1..C \/ n = C + 1
    BY <1>1
  <2>. QED
    BY <2>1, <2>2, <2>3
<1>12. DOMAIN Append(old, t) = 1..C + 1 /\ DOMAIN new = 1..C + 1
  BY <1>1, <1>9, <1>10
<1>13. Append(old, t) = [n \in 1..C + 1 |-> Append(old, t)[n]]
  BY <1>9, <1>12
<1>14. Append(old, t) = new
  <2>1. new = [n \in 1..C + 1 |-> new[n]]
    BY <1>10
  <2>. QED
    BY <1>11, <1>13, <2>1
<1>. QED
  BY <1>14 DEF old, new, t, K2
(* The empty map and list are << >>; a non-empty one is not. *)
LEMMA EmptyResults ==
  ASSUME NEW ps
  PROVE  /\ LabelsOf(ps, {}) = << >>
         /\ TagsOf(ps, {}) = << >>
         /\ \A G : G # {} => LabelsOf(ps, G) # << >>
         /\ \A K : IsFiniteSet(K) /\ K # {} => TagsOf(ps, K) # << >>
<1>1. LabelsOf(ps, {}) = << >>
  BY DEF LabelsOf
<1>2. TagsOf(ps, {}) = << >>
  BY FS_EmptySet DEF TagsOf
<1>3. ASSUME NEW G, G # {} PROVE LabelsOf(ps, G) # << >>
  <2>1. DOMAIN LabelsOf(ps, G) # {}
    BY <1>3 DEF LabelsOf
  <2>. QED
    BY <2>1
<1>4. ASSUME NEW K, IsFiniteSet(K), K # {} PROVE TagsOf(ps, K) # << >>
  <2>1. Cardinality(K) \in Nat /\ Cardinality(K) # 0
    BY <1>4, FS_EmptySet, FS_CardinalityType
  <2>2. DOMAIN TagsOf(ps, K) # {}
    BY <2>1 DEF TagsOf
  <2>. QED
    BY <2>2
<1>. QED
  BY <1>1, <1>2, <1>3, <1>4

-----------------------------------------------------------------------------
(* The positions of the first n parts that the loop keeps. *)
Good(n) == {k \in 1..n : WellFormed(parts[k])}
Kept(n) == {k \in 1..n : Len(TrimSpace(parts[k])) # 0}

(***************************************************************************)
(* The loop invariant.  While a function loops, parts is the split of its *)
(* trimmed argument and acc the map or list of the parts before i; when it *)
(* is done, its result is the reference's.                                 *)
(***************************************************************************)
PInv ==
  /\ pc \in {"start", "loop", "done"}
  /\ fn \in LabelFns => input \in Inputs
  /\ pc = "start" => acc = << >> /\ i = 1 /\ result = Nil
  /\ pc = "loop" =>
       /\ fn \in LabelFns
       /\ parts = RefParts(input)
       /\ Len(TrimSpace(input)) # 0
       /\ parts \in Seq(Elems(parts))
       /\ i \in 1..Len(parts) + 1
       /\ fn = "parseConstLabels" => acc = LabelsOf(parts, Good(i - 1))
       /\ fn = "parseCSV" => acc = TagsOf(parts, Kept(i - 1))
  /\ ParsesAsReference

LEMMA InitPInv == Init => PInv
BY DEF Init, PInv, ParsesAsReference, LabelFns

(* parseConstLabels and parseCSV start: an empty trimmed argument returns *)
(* nil at once, as the reference says; otherwise the loop starts on its    *)
(* parts with the empty map or list.                                      *)
LEMMA StepBegin ==
  ASSUME PInv, NEW f \in LabelFns, Begin(f)
  PROVE  PInv'
<1>1. /\ pc = "start" /\ fn = f /\ acc = << >> /\ i = 1 /\ result = Nil
      /\ UNCHANGED <<fn, input, i, acc, result>>
  BY DEF Begin, PInv
<1>2. input \in Seq(STRING)
  BY <1>1, InputsAssumption DEF PInv, LabelFns
<1>3. TrimSpace(input) \in Seq(STRING) /\ Len(TrimSpace(input)) \in Nat
  BY <1>2, TrimSpaceType
<1>4. CASE Len(TrimSpace(input)) = 0
  <2>1. pc' = "done"
    BY <1>4 DEF Begin
  <2>2. RefParts(input) = << >>
    BY <1>4 DEF RefParts
  <2>3. RefLabels(input) = Nil /\ RefTags(input) = Nil
    BY <2>2 DEF RefLabels, RefTags
  <2>. QED
    BY <1>1, <2>1, <2>3 DEF PInv, ParsesAsReference, LabelFns
<1>5. CASE Len(TrimSpace(input)) # 0
  <2>1. pc' = "loop" /\ parts' = Split(TrimSpace(input), ",")
    BY <1>5 DEF Begin
  <2>2. parts' = RefParts(input)
    BY <1>5, <2>1 DEF RefParts
  <2>3. parts' \in Seq(Elems(parts'))
    BY <1>3, <2>1, SplitIsSeq
  <2>4. (Good(i - 1))' = {} /\ (Kept(i - 1))' = {}
    BY <1>1 DEF Good, Kept
  <2>5. acc' = LabelsOf(parts', {}) /\ acc' = TagsOf(parts', {})
    BY <1>1, EmptyResults
  <2>6. i' \in 1..Len(parts') + 1
    BY <1>1, <2>3
  <2>. QED
    BY <1>1, <1>5, <2>1, <2>2, <2>3, <2>4, <2>5, <2>6 DEF PInv, ParsesAsReference
<1>. QED
  BY <1>3, <1>4, <1>5

(* What every loop step of either function leaves in place. *)
LEMMA LoopFrame ==
  ASSUME PInv, pc = "loop", i <= Len(parts), fn' = fn, input' = input, pc' = pc,
         parts' = parts, result' = result, i' = i + 1
  PROVE  /\ Len(parts) \in Nat /\ i \in 1..Len(parts)
         /\ (Good(i - 1))' = Good(i) /\ (Kept(i - 1))' = Kept(i)
         /\ Good(i - 1) \in SUBSET Nat /\ \A k \in Good(i - 1) : k < i
         /\ Kept(i - 1) \in SUBSET Nat /\ \A k \in Kept(i - 1) : k < i
         /\ IsFiniteSet(Kept(i - 1))
         /\ (/\ fn \in LabelFns
             /\ parts = RefParts(input)
             /\ Len(TrimSpace(input)) # 0
             /\ parts \in Seq(Elems(parts))
             /\ i \in 1..Len(parts) + 1)'
         /\ ParsesAsReference'
<1>1. Len(parts) \in Nat /\ i \in 1..Len(parts)
  BY DEF PInv
<1>2. (Good(i - 1))' = Good(i) /\ (Kept(i - 1))' = Kept(i)
  BY <1>1 DEF Good, Kept
<1>3. IsFiniteSet(Kept(i - 1))
  <2>1. Kept(i - 1) \subseteq 1..i - 1
    BY DEF Kept
  <2>2. IsFiniteSet(1..i - 1)
    BY <1>1, FS_Interval
  <2>. QED
    BY <2>1, <2>2, FS_Subset, Zenon
<1>. QED
  BY <1>1, <1>2, <1>3 DEF PInv, Good, Kept, ParsesAsReference

(* parseConstLabels' loop body: a malformed or empty part is skipped, a    *)
(* well-formed one is put in the map, so the map stays that of the parts  *)
(* read so far.                                                            *)
LEMMA StepLabelPart ==
  ASSUME PInv, LabelMalformed \/ LabelEmpty \/ LabelPut
  PROVE  PInv'
<1>1. /\ pc = "loop" /\ fn = "parseConstLabels" /\ i <= Len(parts)
      /\ fn' = fn /\ input' = input /\ pc' = pc /\ parts' = parts /\ result' = result
      /\ i' = i + 1
  BY DEF LabelMalformed, LabelEmpty, LabelPut, Next1
<1>2. /\ Len(parts) \in Nat /\ i \in 1..Len(parts)
      /\ (Good(i - 1))' = Good(i)
      /\ Good(i - 1) \in SUBSET Nat /\ \A k \in Good(i - 1) : k < i
  BY <1>1, LoopFrame
<1>3. acc = LabelsOf(parts, Good(i - 1))
  BY <1>1 DEF PInv
<1>4. KeyValue = Sides(parts[i])
  BY DEF KeyValue, Sides
<1>5. acc' = LabelsOf(parts, Good(i))
  <2>1. CASE LabelMalformed \/ LabelEmpty
    <3>1. ~WellFormed(parts[i])
      BY <2>1, <1>4 DEF LabelMalformed, LabelEmpty, WellFormed
    <3>2. Good(i) = Good(i - 1)
      BY <1>2, <3>1 DEF Good
    <3>. QED
      BY <2>1, <1>3, <3>2 DEF LabelMalformed, LabelEmpty, Next1
  <2>2. CASE LabelPut
    <3>1. WellFormed(parts[i])
      BY <2>2, <1>4 DEF LabelPut, WellFormed
    <3>2. Good(i) = Good(i - 1) \cup {i}
      BY <1>2, <3>1 DEF Good
    <3>3. acc' = Put(acc, LabelKey(parts[i]), LabelVal(parts[i]))
      BY <2>2, <1>4 DEF LabelPut, Next1, LabelKey, LabelVal
    <3>. QED
      BY <1>2, <1>3, <3>2, <3>3, PutLabels
  <2>. QED
    BY <2>1, <2>2
<1>. QED
  BY <1>1, <1>2, <1>5, LoopFrame DEF PInv

(* parseCSV's loop body: a non-empty trimmed part is appended, an empty   *)
(* one dropped, so the list stays that of the parts read so far.          *)
LEMMA StepTagPart ==
  ASSUME PInv, TagKeep \/ TagSkip
  PROVE  PInv'
<1>1. /\ pc = "loop" /\ fn = "parseCSV" /\ i <= Len(parts)
      /\ fn' = fn /\ input' = input /\ pc' = pc /\ parts' = parts /\ result' = result
      /\ i' = i + 1
  BY DEF TagKeep, TagSkip, Next1
<1>2. /\ Len(parts) \in Nat /\ i \in 1..Len(parts)
      /\ (Kept(i - 1))' = Kept(i)
      /\ Kept(i - 1) \in SUBSET Nat /\ \A k \in Kept(i - 1) : k < i
      /\ IsFiniteSet(Kept(i - 1))
  BY <1>1, LoopFrame
<1>3. acc = TagsOf(parts, Kept(i - 1))
  BY <1>1 DEF PInv
<1>4. acc' = TagsOf(parts, Kept(i))
  <2>1. CASE TagKeep
    <3>1. Kept(i) = Kept(i - 1) \cup {i}
      BY <2>1, <1>2 DEF TagKeep, Kept
    <3>2. acc' = Append(acc, TrimSpace(parts[i]))
      BY <2>1 DEF TagKeep, Next1
    <3>3. Append(TagsOf(parts, Kept(i - 1)), TrimSpace(parts[i])) = TagsOf(parts, Kept(i - 1) \cup {i})
      BY <1>2, AppendTags
    <3>. QED
      BY <1>3, <3>1, <3>2, <3>3
  <2>2. CASE TagSkip
    <3>1. Kept(i) = Kept(i - 1)
      BY <2>2, <1>2 DEF TagSkip, Kept
    <3>. QED
      BY <2>2, <1>3, <3>1 DEF TagSkip, Next1
  <2>. QED
    BY <2>1, <2>2
<1>. QED
  BY <1>1, <1>2, <1>4, LoopFrame DEF PInv

(* After the last part, the map or list of all the parts is returned, nil *)
(* when it is empty: the reference's result.                               *)
LEMMA StepEnd ==
  ASSUME PInv, NEW f \in LabelFns, End(f)
  PROVE  PInv'
<1>1. /\ pc = "loop" /\ fn = f /\ i > Len(parts) /\ pc' = "done"
      /\ result' = IF acc = << >> THEN Nil ELSE acc
      /\ UNCHANGED <<fn, input, parts, i, acc>>
  BY DEF End
<1>2. Len(parts) \in Nat /\ i = Len(parts) + 1 /\ parts = RefParts(input)
  BY <1>1 DEF PInv
<1>. DEFINE ps == RefParts(input)
<1>3. Good(i - 1) = {k \in 1..Len(ps) : WellFormed(ps[k])}
      /\ Kept(i - 1) = {k \in 1..Len(ps) : Len(TrimSpace(ps[k])) # 0}
  BY <1>2 DEF Good, Kept, ps
<1>4. CASE f = "parseConstLabels"
  <2>1. acc = LabelsOf(ps, Good(i - 1))
    BY <1>1, <1>2, <1>4 DEF PInv, ps
  <2>2. result' = RefLabels(input)
    <3>1. CASE Good(i - 1) = {}
      BY <1>1, <1>3, <2>1, <3>1, EmptyResults DEF RefLabels, ps
    <3>2. CASE Good(i - 1) # {}
      BY <1>1, <1>3, <2>1, <3>2, EmptyResults DEF RefLabels, ps
    <3>. QED
      BY <3>1, <3>2
  <2>. QED
    BY <1>1, <1>4, <2>2 DEF PInv, ParsesAsReference
<1>5. CASE f = "parseCSV"
  <2>1. acc = TagsOf(ps, Kept(i - 1))
    BY <1>1, <1>2, <1>5 DEF PInv, ps
  <2>2. IsFiniteSet(Kept(i - 1))
    <3>1. Kept(i - 1) \subseteq 1..Len(parts)
      BY <1>2 DEF Kept
    <3>2. IsFiniteSet(1..Len(parts))
      BY <1>2, FS_Interval
    <3>. QED
      BY <3>1, <3>2, FS_Subset, Zenon
  <2>3. result' = RefTags(input)
    <3>1. CASE Kept(i - 1) = {}
      BY <1>1, <1>3, <2>1, <3>1, EmptyResults DEF RefTags, ps
    <3>2. CASE Kept(i - 1) # {}
      BY <1>1, <1>3, <2>1, <2>2, <3>2, EmptyResults DEF RefTags, ps
    <3>. QED
      BY <3>1, <3>2
  <2>. QED
    BY <1>1, <1>5, <2>3 DEF PInv, ParsesAsReference
<1>. QED
  BY <1>4, <1>5 DEF LabelFns

(* ParseVersionSem and GetBaseInfo, and stuttering, leave the invariant. *)
LEMMA StepOther ==
  ASSUME PInv, ParseVersion \/ BaseInfo \/ UNCHANGED vars
  PROVE  PInv'
<1>1. CASE ParseVersion \/ BaseInfo
  <2>1. fn \notin LabelFns /\ fn' = fn /\ input' = input /\ pc' = "done"
    BY <1>1 DEF ParseVersion, BaseInfo, LabelFns
  <2>. QED
    BY <2>1 DEF PInv, ParsesAsReference
<1>2. CASE UNCHANGED vars
  BY <1>2 DEF PInv, ParsesAsReference, vars, Good, Kept
<1>. QED
  BY <1>1, <1>2

LEMMA StepPInv == PInv /\ [Next]_vars => PInv'
<1>. SUFFICES ASSUME PInv, [Next]_vars PROVE PInv'
  OBVIOUS
<1>1. CASE StartLabels \/ StartCSV
  BY <1>1, StepBegin DEF StartLabels, StartCSV, LabelFns
<1>2. CASE FinishLabels \/ FinishCSV
  BY <1>2, StepEnd DEF FinishLabels, FinishCSV, LabelFns
<1>3. CASE LabelMalformed \/ LabelEmpty \/ LabelPut
  BY <1>3, StepLabelPart
<1>4. CASE TagKeep \/ TagSkip
  BY <1>4, StepTagPart
<1>5. CASE ParseVersion \/ BaseInfo \/ UNCHANGED vars
  BY <1>5, StepOther
<1>. QED
  BY <1>1, <1>2, <1>3, <1>4, <1>5 DEF Next

(***************************************************************************)
(* For every parameter string, parseConstLabels returns the map in which   *)
(* each key of a well-formed "k=v" part has the value of its last such     *)
(* part, and parseCSV the trimmed non-empty parts in order; each returns   *)
(* nil when that is empty (ParsesAsReference, checked by run               *)
(* paramparsing on every string of up to seven characters).              *)
(***************************************************************************)
THEOREM ParsesLikeReference == Spec => []ParsesAsReference
<1>1. Init => PInv
  BY InitPInv
<1>2. PInv /\ [Next]_vars => PInv'
  BY StepPInv
<1>3. PInv => ParsesAsReference
  BY DEF PInv
<1>. QED
  BY <1>1, <1>2, <1>3, PTL DEF Spec
=============================================================================
