---------------------------- MODULE ParamParsing ----------------------------
(***************************************************************************)
(* parseConstLabels and parseCSV (collector/utils/utils.go): turn a        *)
(* parameter string "k1=v1, k2=v2" into a label map, and "a, b" into a     *)
(* list of tags.  Strings are sequences of characters from a small         *)
(* alphabet; TrimSpace removes the blanks at both ends, and Split cuts at  *)
(* every separator as strings.Split does (n separators, n + 1 pieces).     *)
(* Each function's loop runs one part per step.  ParseVersionSem and      *)
(* GetBaseInfo (VersionProbe) are one step each, on version() strings.     *)
(***************************************************************************)
EXTENDS Naturals, Sequences, FiniteSets, VersionProbe

CONSTANTS
  Inputs,     (* the parameter strings, sequences of characters            *)
  Announced   (* version() strings, each with the version it announces,
                 or ParseErr when it announces none                        *)

(* The parameters are Go strings: sequences of one-character strings. *)
ASSUME InputsAssumption == Inputs \subseteq Seq(STRING)

(* strings.Split(s, sep): the pieces between consecutive separators. *)
Cuts(s, sep) == {0, Len(s) + 1} \cup {k \in 1..Len(s) : s[k] = sep}

CutAt(s, sep, n) == CHOOSE x \in Cuts(s, sep) : Cardinality({y \in Cuts(s, sep) : y < x}) = n - 1

Split(s, sep) ==
  [n \in 1..Cardinality(Cuts(s, sep)) - 1 |-> SubSeq(s, CutAt(s, sep, n) + 1, CutAt(s, sep, n + 1) - 1)]

(* The nil a function returns for an empty result. *)
Nil == "nil"

VARIABLES
  fn,       (* which function runs: "parseConstLabels" or "parseCSV"       *)
  input,    (* its argument                                                 *)
  pc,       (* "start", "loop" or "done"                                    *)
  parts,    (* strings.Split(s, ",")                                        *)
  i,        (* the loop's position in parts                                 *)
  acc,      (* labels (a map) or tags (a list) built so far                 *)
  result,   (* what the function returned                                   *)
  db        (* GetBaseInfo's database: "up", "down" (Ping fails) or
               "noscan" (the version() query fails); "none" otherwise       *)

vars == <<fn, input, pc, parts, i, acc, result, db>>

LabelFns == {"parseConstLabels", "parseCSV"}

Init ==
  /\ fn \in LabelFns \cup {"ParseVersionSem", "GetBaseInfo"}
  /\ input \in IF fn \in LabelFns THEN Inputs ELSE DOMAIN Announced
  /\ pc = "start"
  /\ parts = << >> /\ i = 1 /\ acc = << >> /\ result = Nil /\ db = "none"

(* Both functions trim the argument, return nil when it is empty, and split it. *)
Begin(f) ==
  /\ fn = f /\ pc = "start"
  /\ LET s == TrimSpace(input)
     IN  IF Len(s) = 0
           THEN pc' = "done" /\ UNCHANGED parts
           ELSE pc' = "loop" /\ parts' = Split(s, ",")
  /\ UNCHANGED <<fn, input, i, acc, result, db>>

StartLabels == Begin("parseConstLabels")

StartCSV == Begin("parseCSV")

(* parseConstLabels: the key and value of the current part. *)
KeyValue == Split(TrimSpace(parts[i]), "=")

Next1(newAcc) ==
  /\ acc' = newAcc
  /\ i' = i + 1
  /\ UNCHANGED <<fn, input, pc, parts, result, db>>

(* A part without exactly one "=" is logged as malformed and skipped. *)
LabelMalformed ==
  /\ fn = "parseConstLabels" /\ pc = "loop" /\ i <= Len(parts)
  /\ Len(KeyValue) # 2
  /\ Next1(acc)

(* A part with an empty key or value is skipped. *)
LabelEmpty ==
  /\ fn = "parseConstLabels" /\ pc = "loop" /\ i <= Len(parts)
  /\ Len(KeyValue) = 2
  /\ TrimSpace(KeyValue[1]) = << >> \/ TrimSpace(KeyValue[2]) = << >>
  /\ Next1(acc)

(* labels[key] = value on a Go map m. *)
Put(m, key, val) == [x \in DOMAIN m \cup {key} |-> IF x = key THEN val ELSE m[x]]

(* The same assignment made only when the key is absent. *)
PutIfAbsent(m, key, val) == [x \in DOMAIN m \cup {key} |-> IF x \in DOMAIN m THEN m[x] ELSE val]

(* Variant where an earlier part for the same key wins. *)
LabelPutFirstWins ==
  /\ fn = "parseConstLabels" /\ pc = "loop" /\ i <= Len(parts)
  /\ Len(KeyValue) = 2
  /\ TrimSpace(KeyValue[1]) # << >> /\ TrimSpace(KeyValue[2]) # << >>
  /\ Next1(PutIfAbsent(acc, TrimSpace(KeyValue[1]), TrimSpace(KeyValue[2])))

(* labels[key] = value: a later part overwrites an earlier one. *)
LabelPut ==
  /\ fn = "parseConstLabels" /\ pc = "loop" /\ i <= Len(parts)
  /\ Len(KeyValue) = 2
  /\ TrimSpace(KeyValue[1]) # << >> /\ TrimSpace(KeyValue[2]) # << >>
  /\ Next1(Put(acc, TrimSpace(KeyValue[1]), TrimSpace(KeyValue[2])))

(* parseCSV: a non-empty trimmed part is appended, an empty one dropped. *)
TagKeep ==
  /\ fn = "parseCSV" /\ pc = "loop" /\ i <= Len(parts)
  /\ Len(TrimSpace(parts[i])) > 0
  /\ Next1(Append(acc, TrimSpace(parts[i])))

TagSkip ==
  /\ fn = "parseCSV" /\ pc = "loop" /\ i <= Len(parts)
  /\ Len(TrimSpace(parts[i])) = 0
  /\ Next1(acc)

(* After the loop, an empty map or list is returned as nil. *)
End(f) ==
  /\ fn = f /\ pc = "loop" /\ i > Len(parts)
  /\ pc' = "done"
  /\ result' = IF acc = << >> THEN Nil ELSE acc
  /\ UNCHANGED <<fn, input, parts, i, acc, db>>

FinishLabels == End("parseConstLabels")

FinishCSV == End("parseCSV")

(* ParseVersionSem on a version() string. *)
ParseVersion ==
  /\ fn = "ParseVersionSem" /\ pc = "start"
  /\ pc' = "done" /\ result' = ParseVersionSem(input)
  /\ UNCHANGED <<fn, input, parts, i, acc, db>>

(* GetBaseInfo against a database that is down, fails the query, or
   answers version() with the input. *)
BaseInfo ==
  /\ fn = "GetBaseInfo" /\ pc = "start"
  /\ \E d \in {"up", "down", "noscan"} :
       /\ db' = d
       /\ result' = GetBaseInfo(d, input)
  /\ pc' = "done"
  /\ UNCHANGED <<fn, input, parts, i, acc>>

Next ==
  \/ ParseVersion \/ BaseInfo
  \/ StartLabels \/ StartCSV \/ FinishLabels \/ FinishCSV
  \/ LabelMalformed \/ LabelEmpty \/ LabelPut
  \/ TagKeep \/ TagSkip

Spec == Init /\ [][Next]_vars

-----------------------------------------------------------------------------
(***************************************************************************)
(* Reference.  The well-formed label parts of s: a comma-separated part    *)
(* that, trimmed, has exactly one "=" with something on both sides.  A key *)
(* gets the value of its last well-formed part; no well-formed part means  *)
(* nil.  The tags of s are its trimmed non-empty parts, in order; none     *)
(* means nil.                                                              *)
(***************************************************************************)
RefParts(s) == IF Len(TrimSpace(s)) = 0 THEN << >> ELSE Split(TrimSpace(s), ",")

Sides(p) == Split(TrimSpace(p), "=")

WellFormed(p) ==
  /\ Len(Sides(p)) = 2
  /\ TrimSpace(Sides(p)[1]) # << >> /\ TrimSpace(Sides(p)[2]) # << >>

LabelKey(p) == TrimSpace(Sides(p)[1])
LabelVal(p) == TrimSpace(Sides(p)[2])

(* The map of the parts at positions G: each key gets its last value. *)
LabelsOf(ps, G) ==
  [key \in {LabelKey(ps[k]) : k \in G} |->
     LabelVal(ps[Greatest({k \in G : LabelKey(ps[k]) = key})])]

(* The place of k among the positions K, counting from 1. *)
Rank(K, k) == Cardinality({j \in K : j <= k})

(* The trimmed parts at positions K, in order. *)
TagsOf(ps, K) == [n \in 1..Cardinality(K) |-> TrimSpace(ps[CHOOSE k \in K : Rank(K, k) = n])]

RefLabels(s) ==
  LET ps == RefParts(s)
      good == {k \in 1..Len(ps) : WellFormed(ps[k])}
  IN  IF good = {} THEN Nil ELSE LabelsOf(ps, good)

RefTags(s) ==
  LET ps == RefParts(s)
      kept == {k \in 1..Len(ps) : Len(TrimSpace(ps[k])) # 0}
  IN  IF kept = {} THEN Nil ELSE TagsOf(ps, kept)

(***************************************************************************)
(* parseConstLabels and parseCSV return, for every input string, the map   *)
(* and the list of the reference: later duplicate keys win, malformed and  *)
(* empty parts are dropped, and an empty result is nil.                    *)
(***************************************************************************)
ParsesAsReference ==
  pc = "done" /\ fn \in LabelFns =>
    result = IF fn = "parseConstLabels" THEN RefLabels(input) ELSE RefTags(input)

(***************************************************************************)
(* The version probe reads back the version a server announces, in each   *)
(* of the forms parseVersion knows: GaussDB's VxxxRyyyCzzz (read as three *)
(* numbers), GaussDB's and openGauss's x.y.z, and Vastbase's Vx.y, amid    *)
(* the text around it in version().  ParseVersionSem fails on a string     *)
(* announcing none; GetBaseInfo then reports 0.0.0 without an error, and   *)
(* reports an error only when Ping fails.                                  *)
(***************************************************************************)
VersionAsAnnounced ==
  pc = "done" =>
    /\ fn = "ParseVersionSem" => result = Announced[input]
    /\ fn = "GetBaseInfo" =>
         result = IF db = "down" THEN ParseErr
                  ELSE IF db = "noscan" \/ Announced[input].err THEN Ok(Version(0, 0, 0))
                  ELSE Announced[input]

=============================================================================
