--------------------------- MODULE MCParamParsing ---------------------------
(***************************************************************************)
(* Every label or tag string of up to seven characters over blank, ",",    *)
(* "=", "a" and "b"; and version() strings in each form parseVersion       *)
(* knows, with and without the text PostgreSQL-based servers put around    *)
(* it, each paired with the version it announces.                          *)
(***************************************************************************)
EXTENDS ParamParsing, SequencesExt

MCInputs == BoundedSeq({" ", ",", "=", "a", "b"}, 7)

D(str) == [k \in 1..Len(str) |-> SubSeq(str, k, k)]

(* Release numbers as printed: leading zeros in GaussDB's R and C fields. *)
Plain == {D("0"), D("2"), D("10")}
RNums == {D("002"), D("1")}
CNums == {D("00"), D("10")}

Dotted(x, y, z) == x \o << "." >> \o y \o << "." >> \o z

Announcements ==
  {<< << p, " ", "Kernel", " ", "V" >> \o D("500") \o << "R" >> \o r \o << "C" >> \o c \o sfx,
      Ok(Version(500, Atoi(r), Atoi(c))) >> :
     p \in {"GaussDB", "MogDB"}, r \in RNums, c \in CNums, sfx \in {<< >>, << "SPC" >> \o D("100")}}
  \cup
  {<< << "GaussDB", " ", "Kernel", " " >> \o Dotted(x, y, z), Ok(Version(Atoi(x), Atoi(y), Atoi(z))) >> :
     x \in Plain, y \in Plain, z \in Plain}
  \cup
  {<< << p, " " >> \o Dotted(x, y, z), Ok(Version(Atoi(x), Atoi(y), Atoi(z))) >> :
     p \in {"openGauss", "MogDB"}, x \in Plain, y \in Plain, z \in Plain}
  \cup
  {<< << "Vastbase", " ", "G100", " ", "V" >> \o x \o << "." >> \o y, Ok(Version(Atoi(x), Atoi(y), 0)) >> :
     x \in Plain, y \in Plain}
  \cup
  {<< << "openGauss" >>, ParseErr >>, << << "PostgreSQL", " " >> \o Dotted(D("9"), D("2"), D("4")), ParseErr >>}

Before == {<< >>, << "PostgreSQL", " " >> \o Dotted(D("9"), D("2"), D("4")) \o << " ", "(" >>}
After == {<< >>, << " ", "build", " " >> \o D("02c") \o << ")" >>}

Pairs == {<< pre \o a[1] \o post, a[2] >> : a \in Announcements, pre \in Before, post \in After}

MCAnnounced == [s \in {a[1] : a \in Pairs} |-> (CHOOSE a \in Pairs : a[1] = s)[2]]

=============================================================================
