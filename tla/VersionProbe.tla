---------------------------- MODULE VersionProbe ----------------------------
(***************************************************************************)
(* Reading the server version: ParseVersionSem and parseVersion with its   *)
(* four regular expressions (collector/utils/utils.go), and GetBaseInfo    *)
(* (collector/config/gaussdb.go).  A string is a sequence of symbols: a    *)
(* single character ("0", "V", ".", " ", ...) or one of Words, a whole     *)
(* word standing for its letters.  Go's regexp finds the leftmost match    *)
(* and, among the matches starting there, the one each greedy quantifier   *)
(* makes as long as the rest of the pattern allows; the operators below    *)
(* compute exactly that match and its second submatch.                     *)
(***************************************************************************)
EXTENDS Naturals, Sequences, FiniteSets

Digits == <<"0", "1", "2", "3", "4", "5", "6", "7", "8", "9">>

(* The multi-letter words of the alphabet; every other symbol is one character. *)
Words == {"GaussDB", "MogDB", "Uqbar", "openGauss", "Vastbase", "G100", "Kernel",
          "PostgreSQL", "build", "SPC"}

(* The symbols of the alphabet that are not \w (letters, digits, "_"). *)
NonWord == {" ", ".", "(", ")", "-", "+", ":", ","}

IsDigit(x) == \E k \in 1..10 : Digits[k] = x
IsSpace(x) == x = " "
IsWord(x) == x \notin NonWord
IsChar(x) == x \notin Words

Least(S) == CHOOSE x \in S : \A y \in S : x <= y
Greatest(S) == CHOOSE x \in S : \A y \in S : y <= x

(* strings.TrimSpace. *)
TrimSpace(s) ==
  LET kept == {k \in 1..Len(s) : ~IsSpace(s[k])}
  IN  IF kept = {} THEN << >> ELSE SubSeq(s, Least(kept), Greatest(kept))

(* Membership in the character classes \s, \d and \w. *)
InClass(c, x) ==
  CASE c = "s" -> IsSpace(x) [] c = "d" -> IsDigit(x) [] c = "w" -> IsWord(x)

(* The end of the longest run of class-c symbols from i (i - 1 if none). *)
RunEnd(s, i, c) ==
  Greatest({i - 1} \cup {e \in i..Len(s) : \A k \in i..e : InClass(c, s[k])})

(* \s+ from i: the position of the symbol after the blanks; 0 if there is
   no blank or nothing after them. *)
AfterSpace(s, i) ==
  LET e == RunEnd(s, i, "s") IN IF e >= i /\ e < Len(s) THEN e + 1 ELSE 0

(* "Kernel\s+" after a product name at p: where the version starts, or 0. *)
AfterKernel(s, p) ==
  LET q == AfterSpace(s, p + 1)
  IN  IF q # 0 /\ s[q] = "Kernel" THEN AfterSpace(s, q + 1) ELSE 0

(* (\d+\.\d+.\d+) at i: the end of the group, 0 when it does not match.  The
   first \d+ ends where the digits do (a "." follows); the second is the
   longest that still lets ".\d+" match; the third is then the longest. *)
TripleEnd(s, i) ==
  LET a == RunEnd(s, i, "d")
      ok(b, c) == /\ a >= i /\ a + 1 < Len(s) /\ s[a + 1] = "."
                  /\ b >= a + 2 /\ b + 1 < Len(s) /\ IsChar(s[b + 1])
                  /\ \A k \in a + 2..b : IsDigit(s[k])
                  /\ c >= b + 2 /\ c <= Len(s) /\ \A k \in b + 2..c : IsDigit(s[k])
      bs == {b \in 1..Len(s) : \E c \in 1..Len(s) : ok(b, c)}
  IN  IF bs = {} THEN 0 ELSE Greatest({c \in 1..Len(s) : ok(Greatest(bs), c)})

(* (\d+\.\d+) at i: the end of the group, 0 when it does not match. *)
PairEnd(s, i) ==
  LET a == RunEnd(s, i, "d")
      c == RunEnd(s, a + 2, "d")
  IN  IF a >= i /\ a + 1 < Len(s) /\ s[a + 1] = "." /\ c >= a + 2 THEN c ELSE 0

(***************************************************************************)
(* The four patterns, as where their second submatch starts and ends when  *)
(* the match begins at p (end 0: no match at p).                           *)
(*   gaussDBVerRep   (GaussDB|MogDB|Uqbar)\s+Kernel\s+V(\w+)                *)
(*   gaussDBVerRep2  (GaussDB|MogDB|Uqbar)\s+Kernel\s+(\d+\.\d+.\d+)        *)
(*   openGaussVerRep (openGauss|MogDB|Uqbar)\s+(\d+\.\d+.\d+)               *)
(*   vastbaseVerRep  (Vastbase\s+G100)\s+V(\d+\.\d+)                        *)
(***************************************************************************)
GaussDBVerRep(s, p) ==
  LET r == AfterKernel(s, p)
      e == RunEnd(s, r + 1, "w")
  IN  IF s[p] \in {"GaussDB", "MogDB", "Uqbar"} /\ r # 0 /\ s[r] = "V" /\ e > r
        THEN [from |-> r + 1, to |-> e]
        ELSE [from |-> 1, to |-> 0]

GaussDBVerRep2(s, p) ==
  LET r == AfterKernel(s, p)
  IN  IF s[p] \in {"GaussDB", "MogDB", "Uqbar"} /\ r # 0
        THEN [from |-> r, to |-> TripleEnd(s, r)]
        ELSE [from |-> 1, to |-> 0]

OpenGaussVerRep(s, p) ==
  LET r == AfterSpace(s, p + 1)
  IN  IF s[p] \in {"openGauss", "MogDB", "Uqbar"} /\ r # 0
        THEN [from |-> r, to |-> TripleEnd(s, r)]
        ELSE [from |-> 1, to |-> 0]

VastbaseVerRep(s, p) ==
  LET q == AfterSpace(s, p + 1)
      r == IF q # 0 /\ s[q] = "G100" THEN AfterSpace(s, q + 1) ELSE 0
  IN  IF s[p] = "Vastbase" /\ r # 0 /\ s[r] = "V"
        THEN [from |-> r + 1, to |-> PairEnd(s, r + 1)]
        ELSE [from |-> 1, to |-> 0]

(* A pattern applied to s is given by its match at every start position. *)
(* MatchString: the pattern matches somewhere in s. *)
MatchString(re) == \E p \in DOMAIN re : re[p].to > 0

(* FindStringSubmatch(s)[2]: the group of the leftmost match. *)
Submatch2(re, s) ==
  LET m == re[Least({p \in DOMAIN re : re[p].to > 0})]
  IN  SubSeq(s, m.from, m.to)

(* strconv.Atoi of a run of digits (its error is discarded by the caller). *)
Atoi(ds) ==
  LET val(x) == CHOOSE k \in 0..9 : Digits[k + 1] = x
      f[k \in 0..Len(ds)] == IF k = 0 THEN 0 ELSE 10 * f[k - 1] + val(ds[k])
  IN  f[Len(ds)]

(* fmt's %v of a natural number: its decimal digits. *)
Decimal[n \in Nat] ==
  IF n < 10 THEN << Digits[n + 1] >> ELSE Append(Decimal[n \div 10], Digits[(n % 10) + 1])

(* Variant that prints the digit runs as found, without Atoi. *)
parseGaussDBVersionNoAtoi(w) ==
  LET at(i) == LET a == RunEnd(w, i, "d")
                   b == RunEnd(w, a + 2, "d")
                   c == RunEnd(w, b + 2, "d")
               IN  [ok |-> /\ a >= i /\ a + 1 < Len(w) /\ w[a + 1] = "R"
                           /\ b >= a + 2 /\ b + 1 < Len(w) /\ w[b + 1] = "C"
                           /\ c >= b + 2,
                    r1 |-> SubSeq(w, i, a), r2 |-> SubSeq(w, a + 2, b),
                    r3 |-> SubSeq(w, b + 2, c)]
      starts == {i \in 1..Len(w) : at(i).ok}
  IN  IF starts = {} THEN << >>
      ELSE LET r == at(Least(starts)) IN r.r1 \o << "." >> \o r.r2 \o << "." >> \o r.r3

(***************************************************************************)
(* parseGaussDBVersion: in the \w+ after "V", (\d+)R(\d+)C(\d+) read as    *)
(* three numbers, printed "%v.%v.%v"; "" when that pattern does not match. *)
(***************************************************************************)
parseGaussDBVersion(w) ==
  LET at(i) == LET a == RunEnd(w, i, "d")
                   b == RunEnd(w, a + 2, "d")
                   c == RunEnd(w, b + 2, "d")
               IN  [ok |-> /\ a >= i /\ a + 1 < Len(w) /\ w[a + 1] = "R"
                           /\ b >= a + 2 /\ b + 1 < Len(w) /\ w[b + 1] = "C"
                           /\ c >= b + 2,
                    r1 |-> SubSeq(w, i, a), r2 |-> SubSeq(w, a + 2, b),
                    r3 |-> SubSeq(w, b + 2, c)]
      starts == {i \in 1..Len(w) : at(i).ok}
  IN  IF starts = {} THEN << >>
      ELSE LET r == at(Least(starts))
           IN  Decimal[Atoi(r.r1)] \o << "." >> \o Decimal[Atoi(r.r2)] \o << "." >>
                 \o Decimal[Atoi(r.r3)]

(* parseOpenGaussVersion and parseVastbaseVersion: the group itself; their
   "" branch cannot be taken, a match has a non-empty second submatch. *)
parseOpenGaussVersion(g) == g

parseVastbaseVersion(g) == g

(* parseVersion: the patterns in order; the first that matches decides. *)
parseVersion(str) ==
  LET s == TrimSpace(str)
      gaussDBVerRep == [p \in 1..Len(s) |-> GaussDBVerRep(s, p)]
      gaussDBVerRep2 == [p \in 1..Len(s) |-> GaussDBVerRep2(s, p)]
      openGaussVerRep == [p \in 1..Len(s) |-> OpenGaussVerRep(s, p)]
      vastbaseVerRep == [p \in 1..Len(s) |-> VastbaseVerRep(s, p)]
  IN  IF MatchString(gaussDBVerRep) THEN parseGaussDBVersion(Submatch2(gaussDBVerRep, s))
      ELSE IF MatchString(gaussDBVerRep2) THEN parseOpenGaussVersion(Submatch2(gaussDBVerRep2, s))
      ELSE IF MatchString(openGaussVerRep) THEN parseOpenGaussVersion(Submatch2(openGaussVerRep, s))
      ELSE IF MatchString(vastbaseVerRep) THEN parseVastbaseVersion(Submatch2(vastbaseVerRep, s))
      ELSE << >>

(***************************************************************************)
(* semver.ParseTolerant (blang/semver v3.5.1, outside this repository):    *)
(* trim, drop a leading "v", cut at the first two dots, pad a short        *)
(* version with ".0" (an error if its last part has "+" or "-"), then      *)
(* Parse, which wants each part to be digits without a leading zero.       *)
(* Parse also accepts "-pre" and "+build" after the patch number; the      *)
(* strings parseVersion returns never have them (their third part, when    *)
(* there is one, is all digits), so that branch is left out.               *)
(***************************************************************************)
Version(ma, mi, pa) == [major |-> ma, minor |-> mi, patch |-> pa]

(* The (semver.Version, error) pair a call returns. *)
Ok(v) == [version |-> v, err |-> FALSE]
ParseErr == [version |-> Version(0, 0, 0), err |-> TRUE]

(* ParseTolerant's text: trimmed, a leading "v" dropped. *)
SemverText(v) ==
  LET t0 == TrimSpace(v)
  IN  IF t0 # << >> /\ Head(t0) = "v" THEN Tail(t0) ELSE t0

(* strings.SplitN(t, ".", 3). *)
SplitDots(t) ==
  LET dots == {k \in 1..Len(t) : t[k] = "."}
      d1 == Least(dots)
      d2 == Least(dots \ {d1})
  IN  CASE dots = {} -> << t >>
        [] Cardinality(dots) = 1 -> << SubSeq(t, 1, d1 - 1), SubSeq(t, d1 + 1, Len(t)) >>
        [] OTHER -> << SubSeq(t, 1, d1 - 1), SubSeq(t, d1 + 1, d2 - 1),
                       SubSeq(t, d2 + 1, Len(t)) >>

(* A short version is padded with "0" parts up to three. *)
PadParts(parts) == parts \o [k \in 1..3 - Len(parts) |-> << "0" >>]

(* A part Parse accepts: digits, with no leading zero. *)
IsNumeric(x) ==
  /\ x # << >> /\ \A k \in 1..Len(x) : IsDigit(x[k])
  /\ ~(Len(x) > 1 /\ x[1] = "0")

ParseTolerant(v) ==
  LET parts == SplitDots(SemverText(v))
      last == parts[Len(parts)]
      full == PadParts(parts)
  IN  IF /\ Len(parts) < 3
         /\ \E k \in 1..Len(last) : last[k] \in {"+", "-"}
        THEN ParseErr
      ELSE IF \A k \in 1..3 : IsNumeric(full[k])
        THEN Ok(Version(Atoi(full[1]), Atoi(full[2]), Atoi(full[3])))
      ELSE ParseErr

(* ParseVersionSem: the version parseVersion finds, or an error. *)
ParseVersionSem(s) ==
  LET version == parseVersion(s)
  IN  IF version # << >> THEN ParseTolerant(version) ELSE ParseErr

(***************************************************************************)
(* GetBaseInfo(db) with the database's answers: Ping fails, or the query   *)
(* of version() fails, or it returns the string s.  A failed query gives   *)
(* ParseTolerant("0.0.0"); so does a string that does not parse, and the   *)
(* second ParseTolerant's nil error replaces the parse error.              *)
(***************************************************************************)
GetBaseInfo(db, s) ==
  IF db = "down" THEN ParseErr
  ELSE IF db = "noscan" \/ ParseVersionSem(s).err
    THEN ParseTolerant(<< "0", ".", "0", ".", "0" >>)
  ELSE ParseVersionSem(s)

=============================================================================
