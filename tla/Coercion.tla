------------------------------ MODULE Coercion ------------------------------
(***************************************************************************)
(* Conversions of database column values, collector/utils/utils.go.        *)
(*                                                                         *)
(* A value scanned into an interface{} by database/sql is one of the Go    *)
(* types int64, float64, time.Time, []byte, string, bool or nil; a driver  *)
(* may hand over any other type too ("other").  A value is abstracted to   *)
(* its Go type (kind), a small natural number n standing for its content   *)
(* (the integer, the Unix second, the number a text spells, which text it  *)
(* is) and, for []byte and string, the form of the text: it spells a       *)
(* float ("numeric"), it is some other well-formed UTF-8 text ("word") or  *)
(* it is not well-formed UTF-8 ("invalid").                                *)
(*                                                                         *)
(* A Go string produced by a conversion is abstracted to the format that   *)
(* produced it and the same content number: two results are the same       *)
(* string exactly when format and number agree.  Integers and floats print *)
(* alike ("%v" of int64(3) and of float64(3) is "3"), []byte and string    *)
(* with the same content give the same string, and nil, like an unknown    *)
(* type, gives the empty string.                                           *)
(***************************************************************************)
EXTENDS Integers

Kinds     == {"int64", "float64", "time", "bytes", "string", "bool", "nil", "other"}
TextKinds == {"bytes", "string"}
Forms     == {"numeric", "word", "invalid", "na"}

(* Only []byte and string values have a text form. *)
DbValue == {v \in [kind: Kinds, n: Nat, form: Forms] : v.kind \in TextKinds <=> v.form # "na"}

Null == [kind |-> "nil", n |-> 0, form |-> "na"]

(* math.NaN(); the numbers a value stands for are naturals, so -1 is free. *)
NaN == -1

(* Formats of the strings the conversions produce. *)
Fmts == {"empty", "dec", "rfc3339", "unixms", "true", "false",
         "numeric", "word", "invalid", "fffd", "gbk"}

Str == [fmt: Fmts, n: Int]

EmptyStr == [fmt |-> "empty", n |-> 0]

IsEmpty(s) == s.fmt = "empty"

(* utf8.ValidString *)
ValidString(s) == s.fmt # "invalid"

(***************************************************************************)
(* DbToFloat64: integers, floats, times (Unix seconds) and booleans always *)
(* convert; NULL is NaN and ok; text converts when strconv.ParseFloat      *)
(* accepts it; any other type is NaN and not ok.                           *)
(***************************************************************************)
DbToFloat64(v) ==
  CASE v.kind \in {"int64", "float64", "time"} -> [value |-> v.n, ok |-> TRUE]
    [] v.kind \in TextKinds /\ v.form = "numeric" -> [value |-> v.n, ok |-> TRUE]
    [] v.kind \in TextKinds -> [value |-> NaN, ok |-> FALSE]
    [] v.kind = "bool" -> [value |-> IF v.n # 0 THEN 1 ELSE 0, ok |-> TRUE]
    [] v.kind = "nil" -> [value |-> NaN, ok |-> TRUE]
    [] OTHER -> [value |-> NaN, ok |-> FALSE]

(***************************************************************************)
(* DbToString: decimal rendering of numbers, RFC3339Nano or the compact    *)
(* "<unix><millis>" form of times, raw text of []byte and string, "true" / *)
(* "false", "" for NULL; an unknown type gives "" and not ok.              *)
(***************************************************************************)
DbToString(v, time2string) ==
  CASE v.kind \in {"int64", "float64"} -> [str |-> [fmt |-> "dec", n |-> v.n], ok |-> TRUE]
    [] v.kind = "time" ->
         [str |-> [fmt |-> IF time2string THEN "rfc3339" ELSE "unixms", n |-> v.n],
          ok  |-> TRUE]
    [] v.kind = "nil" -> [str |-> EmptyStr, ok |-> TRUE]
    [] v.kind \in TextKinds -> [str |-> [fmt |-> v.form, n |-> v.n], ok |-> TRUE]
    [] v.kind = "bool" -> [str |-> [fmt |-> IF v.n # 0 THEN "true" ELSE "false", n |-> 0],
                           ok  |-> TRUE]
    [] OTHER -> [str |-> EmptyStr, ok |-> FALSE]

(***************************************************************************)
(* Character sets.  CharSetMap maps the database's names to the names of   *)
(* golang.org/x/text decoders, GB18030 onto the GBK decoder; GetMapCharset *)
(* upper-cases the name first (strings.ToUpper, given here as a table on   *)
(* the spellings the model feeds) and returns an unmapped name unchanged.  *)
(***************************************************************************)
UTF8          == "UTF8"
UTF8Underline == "UTF-8"
GBK           == "GBK"
GB18030       == "GB18030"

CharSetMap == [c \in {UTF8, GBK, GB18030} |-> IF c = UTF8 THEN UTF8Underline ELSE GBK]

Charsets == {UTF8, GBK, GB18030, "utf8", "gbk", "gb18030", "LATIN9"}

ToUpper(s) ==
  CASE s = "utf8" -> UTF8
    [] s = "gbk" -> GBK
    [] s = "gb18030" -> GB18030
    [] OTHER -> s

GetMapCharset(s) ==
  IF ToUpper(s) \in DOMAIN CharSetMap THEN CharSetMap[ToUpper(s)] ELSE s

(* The decoder names ianaindex.MIB resolves among the names above. *)
IanaEncodings == {UTF8Underline, GBK}

(***************************************************************************)
(* What a decoder does to a string: text that is already well-formed (the  *)
(* ASCII words the model uses) passes through either decoder; the UTF-8    *)
(* decoder replaces each ill-formed byte by U+FFFD, the GBK decoder        *)
(* transcodes the bytes and replaces what it cannot decode by U+FFFD too.  *)
(* Neither reports an error.  Two ill-formed texts that differ only in     *)
(* replaced bytes decode to the same string: the content numbers 2k and    *)
(* 2k+1 of ill-formed texts stand for such a pair (Replaced).              *)
(***************************************************************************)
Replaced(n) == n \div 2

Transcode(b, cs) ==
  IF ValidString(b) THEN b
  ELSE [fmt |-> IF cs = UTF8Underline THEN "fffd" ELSE "gbk", n |-> Replaced(b.n)]

(***************************************************************************)
(* DecodeByte(b, charset): an unknown charset is an error and returns b.   *)
(***************************************************************************)
DecodeByte(b, charset) ==
  LET cs == GetMapCharset(charset)
  IN  IF cs \notin IanaEncodings
        THEN [bytes |-> b, err |-> TRUE]
        ELSE [bytes |-> Transcode(b, cs), err |-> FALSE]

=============================================================================
