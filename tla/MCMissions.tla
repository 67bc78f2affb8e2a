------------------------------- MODULE MCMissions -------------------------------
(* The instance of Missions that TLC checks.                                 *)
EXTENDS Missions

MCOffered == {"ai-firmware-review", "custom"}
MCEdited == {"memory", "rt_perf"}

MCChosen == {{"memory"}}
MCSymmetry == Permutations(Pages)

\* A mission written by hand over a parent.
MCWritten ==
  {[mission |-> Mapping("parent", [rt_perf |-> [list |-> <<"task">>]]),
    parent |-> Mapping("none", [target |-> [value |-> "set"]])]}

-----------------------------------------------------------------------------
(* The chain a file stands for, parents first, or <<>> where it has none.    *)
Chain(table, path) ==
  LET chain[f \in DOMAIN table, n \in 0..Cardinality(DOMAIN table)] ==
        IF n = 0 \/ table[f].kind # "mapping" THEN <<>>
        ELSE IF table[f].inherit = "none" THEN <<f>>
        ELSE LET above == chain[table[f].inherit, n - 1]
             IN  IF above = <<>> THEN <<>> ELSE Append(above, f)
  IN  chain[path, Cardinality(DOMAIN table)]

\* The last file of the chain that gives a key of a section.
Nearest(table, chain, s, k) ==
  LET giving == {i \in DOMAIN chain : s \in DOMAIN table[chain[i]].body
                                        /\ k \in DOMAIN table[chain[i]].body[s]}
  IN  {table[chain[i]].body[s][k] : i \in {j \in giving : \A l \in giving : l <= j}}

\* Over every table of three files, load_config raises exactly where the
\* chain is broken or a cycle, and gives each key as the nearest file of the
\* chain has it.
Bodies == {<<>>, [hil |-> [value |-> "set"]], [hil |-> [value |-> "default", list |-> <<"fault">>]]}
Tables ==
  [{"a", "b", "c"} -> {NoMapping("absent")} \cup
                        {Mapping(up, body) : up \in {"none", "a", "b"}, body \in Bodies}]

ASSUME LoadIsNearest ==
  \A table \in Tables : \A f \in {"a", "c"} :
    LET chain == Chain(table, f)
    IN  /\ (load_config(table, f) = {}) = (chain = <<>>)
        /\ \A raw \in load_config(table, f) :
             \A s \in {"hil"}, k \in {"value", "list"} :
               Nearest(table, chain, s, k)
                 = {raw[s][k] : x \in {t \in {s} : t \in DOMAIN raw /\ k \in DOMAIN raw[t]}}

=============================================================================
