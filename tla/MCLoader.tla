------------------------------ MODULE MCLoader ------------------------------
(* Sources of at most four lines *)
EXTENDS Loader

Text(l, op, par) == [label |-> l, opcode |-> op, par |-> par]

\* An opcode of each form; jumps to a label that may be behind, in front, in front
\* of two lines, or nowhere.
Lines ==
  {Text(l, op, <<1, 2, 3>>) : l \in {NoLabel, "a"}, op \in {"SUB", "ADDI", "LW", "SWS"}}
  \cup {Text(l, "BNEZ", <<4, target>>) : l \in {NoLabel, "a", "b"}, target \in {"a", "b"}}
  \cup {Text(l, "JUMP", <<"a">>) : l \in {NoLabel, "b"}}
  \cup {Text(l, "EOP", <<>>) : l \in {NoLabel, "a"}}

LoaderSources == {Append(s, Text(NoLabel, "EOP", <<>>)) :
                    s \in {<<>>} \cup [1 .. 1 -> Lines] \cup [1 .. 2 -> Lines]
                                 \cup [1 .. 3 -> Lines]}
=============================================================================
