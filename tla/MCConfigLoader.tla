--------------------------- MODULE MCConfigLoader ---------------------------
(***************************************************************************)
(* Small configuration trees for ConfigLoader.  Two query names, q1 and    *)
(* q2; each definition has an id so that TLC can tell which one survived.  *)
(***************************************************************************)
EXTENDS ConfigLoader, Functions

Def(id, prio, check, name) ==
  [id |-> id, name |-> name, priority |-> prio, check |-> check, path |-> ""]

File(name, yaml, readable, malformed, content) ==
  [type |-> "file", name |-> name, yaml |-> yaml, readable |-> readable,
   malformed |-> malformed, content |-> content]

Dir(name, readable, entries) ==
  [type |-> "dir", name |-> name, readable |-> readable, entries |-> entries]

(* Two good files sharing q1, one named q2 with an alias. *)
FileA == File("a.yaml", TRUE, TRUE, FALSE, "q1" :> Def(1, 0, TRUE, ""))
FileB == File("b.yaml", TRUE, TRUE, FALSE,
              ("q1" :> Def(2, 0, TRUE, "")) @@ ("q2" :> Def(3, 0, TRUE, "alias")))
(* A file whose query fails Check, a malformed one, one not named .yaml. *)
FileC == File("c.yaml", TRUE, TRUE, FALSE, "q2" :> Def(4, 0, FALSE, ""))
FileD == File("d.yaml", TRUE, TRUE, TRUE, << >>)
FileE == File("e.yml", FALSE, TRUE, FALSE, "q1" :> Def(5, 0, TRUE, ""))
(* An unreadable file, and one with a priority set by the user. *)
FileF == File("f.yaml", TRUE, FALSE, FALSE, "q2" :> Def(6, 0, TRUE, ""))
FileG == File("g.yaml", TRUE, TRUE, FALSE, "q1" :> Def(7, 200, TRUE, ""))
(* An empty q1 key next to a q2 that fails Check. *)
FileH == File("h.yaml", TRUE, TRUE, FALSE,
              ("q1" :> NullQuery) @@ ("q2" :> Def(8, 0, FALSE, "")))
(* A file with only the empty key. *)
FileN == File("n.yaml", TRUE, TRUE, FALSE, "q1" :> NullQuery)

SubS == Dir("s", TRUE, << FileB, FileA >>)
SubT == Dir("t", TRUE, << FileC, FileG >>)
SubU == Dir("u", FALSE, << FileA >>)

Entries ==
  {FileA, FileB, FileC, FileD, FileE, FileF, FileG, FileH, SubS, SubT, SubU, Missing}

(* Every directory of up to three distinct entries, and every single entry. *)
MCPaths ==
  {Dir("conf", TRUE, s) : s \in {s \in BoundedSeq(Entries, 3) : IsInjective(s)}}
    \cup Entries

(* Default priorities only: a subdirectory after two files that share q1. *)
MCNestedPaths == { Dir("conf", TRUE, << FileA, FileB, Dir("s", TRUE, << FileA >>) >>) }

(* A directory holding a good file and a file with an empty query key. *)
MCNullPaths == { Dir("conf", TRUE, << FileA, FileN >>) }

=============================================================================
