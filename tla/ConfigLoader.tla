---------------------------- MODULE ConfigLoader ----------------------------
(***************************************************************************)
(* Loading the query definitions at start-up: InitConfig, LoadConfig and   *)
(* ParseConfig (collector/config/gaussdb.go; part_004 is a copy).          *)
(*                                                                         *)
(* The configuration path is a tree of entries.  A file entry has a name,  *)
(* whether its name ends in ".yaml", whether it can be read, whether its   *)
(* YAML is malformed, and its content: a function from the query names it  *)
(* declares to query records, or to NullQuery for a key with an empty      *)
(* value (yaml.v2 stores a nil *QueryInstance for it).  A directory entry  *)
(* has a name, whether it can be listed, and its entries in ReadDir's      *)
(* order.  A path that does not exist has type "missing".  A query record  *)
(* keeps what the loader reads or writes: an id standing for the rest of   *)
(* the definition, Name, Path, Priority, and whether its Check succeeds.   *)
(***************************************************************************)
EXTENDS Naturals, FiniteSets, Sequences, SequencesExt, TLC

CONSTANT Paths  (* the configuration paths the process may be started with *)

NullQuery == [null |-> TRUE]

(* A path that does not exist, such as a dangling symlink "m.yaml". *)
Missing == [type |-> "missing", name |-> "m.yaml", yaml |-> TRUE]

(* What a load returns: the queries by name, an error, or a panic. *)
Failed == [res |-> "err", queries |-> <<>>]
Panicked == [res |-> "panic", queries |-> <<>>]
Loaded(qs) == [res |-> "ok", queries |-> qs]

(***************************************************************************)
(* ParseConfig(file, nullFirst).  Malformed YAML is an error.  The loop    *)
(* then visits the queries in Go's random map order: it writes query.Path  *)
(* (a nil pointer panics) and defaults Name to the key, and the first      *)
(* query whose Check fails ends it with an error.  Whether a nil query is  *)
(* reached before a failing Check depends on that order, which nullFirst   *)
(* chooses.                                                                *)
(***************************************************************************)
ParseConfig(f, nullFirst) ==
  LET nulls == {n \in DOMAIN f.content : f.content[n] = NullQuery}
      bad == {n \in DOMAIN f.content \ nulls : ~f.content[n].check}
  IN  IF f.malformed THEN Failed
      ELSE IF nulls # {} /\ (bad = {} \/ nullFirst) THEN Panicked
      ELSE IF bad # {} THEN Failed
      ELSE Loaded([n \in DOMAIN f.content |->
                             [f.content[n] EXCEPT !.path = f.name,
                                                  !.name = IF @ = "" THEN n ELSE @]])

(* The entries of a directory LoadConfig loads: .yaml files and directories. *)
ConfFiles(entries) == SelectSeq(entries, LAMBDA e : e.type = "dir" \/ e.yaml)

(* Off-by-one variant: the rank counted before this file is. *)
WithPriorityBeforeCount(qs, configCount) ==
  [n \in DOMAIN qs |-> IF qs[n].priority = 0
                         THEN [qs[n] EXCEPT !.priority = 100 + configCount - 1]
                         ELSE qs[n]]

(* A query keeps a priority set in its file; 0 becomes 100 + configCount. *)
WithPriority(qs, configCount) ==
  [n \in DOMAIN qs |-> IF qs[n].priority = 0
                         THEN [qs[n] EXCEPT !.priority = 100 + configCount]
                         ELSE qs[n]]

(***************************************************************************)
(* LoadConfig(entry, nullFirst).  A directory that can be listed loads     *)
(* each of its .yaml files and directories in order: one that fails is     *)
(* skipped; one that loads counts one more in configCount, its queries get *)
(* their priority, and each overwrites an earlier query of the same name.  *)
(* A panic is not recovered and unwinds the whole load.  Any other path is *)
(* read and parsed as one file.  MergeDir(files, i, queries, configCount,  *)
(* nullFirst) is the loop over confFiles from position i on.               *)
(***************************************************************************)
RECURSIVE LoadConfig(_, _), MergeDir(_, _, _, _, _)

LoadConfig(e, nullFirst) ==
  IF e.type = "missing" THEN Failed
  ELSE IF e.type = "dir" /\ ~e.readable THEN Failed
  ELSE IF e.type = "dir" THEN MergeDir(ConfFiles(e.entries), 1, <<>>, 0, nullFirst)
  ELSE IF ~e.readable THEN Failed
  ELSE ParseConfig(e, nullFirst)

MergeDir(files, i, queries, configCount, nullFirst) ==
  IF i > Len(files) THEN Loaded(queries)
  ELSE LET single == LoadConfig(files[i], nullFirst)
       IN  CASE single.res = "panic" -> Panicked
             [] single.res = "err" ->
                  MergeDir(files, i + 1, queries, configCount, nullFirst)
             [] OTHER ->
                  MergeDir(files, i + 1,
                           WithPriority(single.queries, configCount + 1) @@ queries,
                           configCount + 1, nullFirst)

VARIABLES
  path,         (* the configuration path the process was started with    *)
  MetricMap,    (* config.MetricMap: the query definitions by name        *)
  proc          (* "start"; "running", "exited" (os.Exit) or "crashed"    *)

vars == <<path, MetricMap, proc>>

(* The process starts with the package-level empty map. *)
Init ==
  /\ path \in Paths
  /\ MetricMap = <<>>
  /\ proc = "start"

(***************************************************************************)
(* main calls InitConfig: MetricMap is assigned what LoadConfig returns    *)
(* (nil on an error, after which main exits); a panic leaves it unassigned *)
(* and ends the process.                                                   *)
(***************************************************************************)
InitConfig ==
  /\ proc = "start"
  /\ \E nullFirst \in BOOLEAN :
       LET r == LoadConfig(path, nullFirst)
       IN  /\ MetricMap' = IF r.res = "panic" THEN MetricMap ELSE r.queries
           /\ proc' = CASE r.res = "ok" -> "running"
                        [] r.res = "err" -> "exited"
                        [] OTHER -> "crashed"
  /\ UNCHANGED path

Next == InitConfig

Spec == Init /\ [][Next]_vars

-----------------------------------------------------------------------------
(***************************************************************************)
(* Reference: the files a load reads, flattened depth first.  An entry     *)
(* counts as loaded, for its siblings' ranks, when it is a directory that  *)
(* can be listed or a readable file that parses.  Each loaded file comes   *)
(* with its rank among the loaded entries of its directory (0 when the     *)
(* path itself is the file).                                               *)
(***************************************************************************)
LoadsOk(e) ==
  \/ e.type = "dir" /\ e.readable
  \/ /\ e.type = "file" /\ e.readable /\ ~e.malformed
     /\ \A n \in DOMAIN e.content :
          e.content[n] # NullQuery /\ e.content[n].check

RECURSIVE LoadedFiles(_, _)
LoadedFiles(e, rank) ==
  CASE e.type = "file" /\ LoadsOk(e) -> << [file |-> e, rank |-> rank] >>
    [] e.type = "dir" /\ e.readable ->
         LET cs == ConfFiles(e.entries)
         IN  FlattenSeq([i \in 1..Len(cs) |->
                LoadedFiles(cs[i], Cardinality({j \in 1..i : LoadsOk(cs[j])}))])
    [] OTHER -> << >>

Loads == LoadedFiles(path, 0)

(* The definition of n that file entry l of Loads contributes. *)
Contributed(l, n) ==
  [l.file.content[n] EXCEPT
     !.path = l.file.name,
     !.name = IF @ = "" THEN n ELSE @,
     !.priority = IF @ = 0 /\ l.rank > 0 THEN 100 + l.rank ELSE @]

Defines(k) == DOMAIN Loads[k].file.content

(***************************************************************************)
(* The merged map is the flat, depth-first "later file overwrites former"  *)
(* merge of every file that loaded: it names exactly the queries those     *)
(* files define, and each is the definition of the last such file, with    *)
(* Path its file's name, Name defaulted to its key, and a priority left at *)
(* 0 in its file replaced by 100 + its file's rank among the loaded        *)
(* entries of its own directory (LoadConfig's configCount), not of the top *)
(* directory.                                                              *)
(***************************************************************************)
MetricMapIsLastDefinition ==
  proc = "running" =>
    /\ DOMAIN MetricMap = UNION {Defines(k) : k \in 1..Len(Loads)}
    /\ \A n \in DOMAIN MetricMap :
         \E k \in 1..Len(Loads) :
           /\ n \in Defines(k)
           /\ \A j \in k + 1..Len(Loads) : n \notin Defines(j)
           /\ MetricMap[n] = Contributed(Loads[k], n)

(***************************************************************************)
(* The comments of LoadConfig and the spec (a priority "used only for      *)
(* config merge ordering") say the priority orders the merge: the query    *)
(* that survives has the highest priority among the loaded definitions of  *)
(* its name.                                                               *)
(***************************************************************************)
MergeByPriority ==
  proc = "running" =>
    \A n \in DOMAIN MetricMap, k \in 1..Len(Loads) :
      n \in Defines(k) => MetricMap[n].priority >= Contributed(Loads[k], n).priority

(***************************************************************************)
(* LoadConfig skips a configuration file that fails to load ("skip         *)
(* config") and InitConfig reports an error: start-up never crashes on a   *)
(* bad configuration.                                                      *)
(***************************************************************************)
NoStartupCrash == proc # "crashed"

=============================================================================
