------------------------- MODULE VersionProbeProofs -------------------------
(***************************************************************************)
(* GetBaseInfo reports an error only when Ping fails, whatever the         *)
(* version() string.  It rests on one computation: the fallback            *)
(* semver.ParseTolerant("0.0.0") succeeds, so both recoveries (a failed    *)
(* query, an unparsable string) return success.                           *)
(***************************************************************************)
EXTENDS VersionProbe, FiniteSetTheorems, SequenceTheorems, TLAPS

ZeroText == << "0", ".", "0", ".", "0" >>

(* The three parts ParseTolerant cuts "0.0.0" into. *)
LEMMA ZeroTextShape ==
  /\ Len(ZeroText) = 5
  /\ TrimSpace(ZeroText) = ZeroText
  /\ Head(ZeroText) # "v"
  /\ {k \in 1..Len(ZeroText) : ZeroText[k] = "."} = {2, 4}
  /\ Least({2, 4}) = 2 /\ Least({2, 4} \ {2}) = 4
  /\ {2, 4} # {} /\ Cardinality({2, 4}) # 1
  /\ SubSeq(ZeroText, 1, 1) = << "0" >>
  /\ SubSeq(ZeroText, 3, 3) = << "0" >>
  /\ SubSeq(ZeroText, 5, 5) = << "0" >>
<1>0. /\ Len(ZeroText) = 5
      /\ ZeroText[1] = "0" /\ ZeroText[2] = "." /\ ZeroText[3] = "0"
      /\ ZeroText[4] = "." /\ ZeroText[5] = "0"
  BY DEF ZeroText
<1>a. ZeroText \in Seq({"0", "."})
  BY DEF ZeroText
<1>1. {k \in 1..Len(ZeroText) : ~IsSpace(ZeroText[k])} = 1..5
  <2>1. \A k \in 1..5 : ZeroText[k] \in {"0", "."}
    BY <1>0
  <2>. QED
    BY <1>0, <2>1 DEF IsSpace
<1>2. Least(1..5) = 1 /\ Greatest(1..5) = 5
  BY DEF Least, Greatest
<1>3. TrimSpace(ZeroText) = ZeroText
  <2>1. SubSeq(ZeroText, 1, 5) = ZeroText
    BY <1>0, <1>a, SubSeqFull
  <2>2. 1..5 # {}
    OBVIOUS
  <2>. QED
    BY <1>1, <1>2, <2>1, <2>2 DEF TrimSpace
<1>4. {k \in 1..Len(ZeroText) : ZeroText[k] = "."} = {2, 4}
  BY <1>0
<1>5. Least({2, 4}) = 2 /\ Least({2, 4} \ {2}) = 4
  BY DEF Least
<1>6. Cardinality({2, 4}) = 2
  <2>1. IsFiniteSet({2}) /\ Cardinality({2}) = 1
    BY FS_Singleton
  <2>2. {2, 4} = {2} \cup {4}
    OBVIOUS
  <2>. QED
    BY <2>1, <2>2, FS_AddElement
<1>7. SubSeq(ZeroText, 1, 1) = << "0" >> /\ SubSeq(ZeroText, 3, 3) = << "0" >>
      /\ SubSeq(ZeroText, 5, 5) = << "0" >>
  <2>1. ASSUME NEW i \in {1, 3, 5} PROVE SubSeq(ZeroText, i, i) = << "0" >>
    <3>1. \A j \in i..i : ZeroText[j] \in {"0", "."}
      BY <1>0
    <3>2. /\ SubSeq(ZeroText, i, i) \in Seq({"0", "."})
          /\ Len(SubSeq(ZeroText, i, i)) = 1
          /\ SubSeq(ZeroText, i, i)[1] = ZeroText[i]
      BY <3>1, SubSeqProperties
    <3>3. << "0" >> \in Seq({"0", "."}) /\ Len(<< "0" >>) = 1 /\ << "0" >>[1] = "0"
      OBVIOUS
    <3>4. ZeroText[i] = "0"
      BY <1>0
    <3>5. \A j \in 1..Len(SubSeq(ZeroText, i, i)) : SubSeq(ZeroText, i, i)[j] = << "0" >>[j]
      BY <3>2, <3>3, <3>4
    <3>. QED
      BY <3>2, <3>3, <3>5, SeqEqual
  <2>. QED
    BY <2>1
<1>. QED
  BY <1>0, <1>3, <1>4, <1>5, <1>6, <1>7

(* The fallback version parses. *)
LEMMA ZeroParses == ~ParseTolerant(ZeroText).err
<1>1. SemverText(ZeroText) = ZeroText
  BY ZeroTextShape DEF SemverText
<1>2. SplitDots(ZeroText) = << << "0" >>, << "0" >>, << "0" >> >>
  <2>1. SplitDots(ZeroText) = << SubSeq(ZeroText, 1, 2 - 1), SubSeq(ZeroText, 2 + 1, 4 - 1),
                                 SubSeq(ZeroText, 4 + 1, 5) >>
    BY ZeroTextShape DEF SplitDots
  <2>. QED
    BY <2>1, ZeroTextShape
<1>3. PadParts(<< << "0" >>, << "0" >>, << "0" >> >>) = << << "0" >>, << "0" >>, << "0" >> >>
  BY DEF PadParts
<1>4. IsNumeric(<< "0" >>)
  <2>1. IsDigit("0")
    BY DEF IsDigit, Digits
  <2>. QED
    BY <2>1 DEF IsNumeric
<1>. QED
  BY <1>1, <1>2, <1>3, <1>4 DEF ParseTolerant, Ok, ParseErr

(***************************************************************************)
(* GetBaseInfo returns an error only when db.Ping fails: a failed          *)
(* version() query and an unparsable version string both end in            *)
(* ParseTolerant("0.0.0"), whose nil error is returned.                    *)
(***************************************************************************)
THEOREM BaseInfoErrOnlyOnPing ==
  ASSUME NEW db, NEW s, GetBaseInfo(db, s).err
  PROVE  db = "down"
<1>1. ~ParseTolerant(<< "0", ".", "0", ".", "0" >>).err
  BY ZeroParses DEF ZeroText
<1>. QED
  BY <1>1 DEF GetBaseInfo

=============================================================================
