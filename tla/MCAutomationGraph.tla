-------------------------- MODULE MCAutomationGraph --------------------------
(* Drawings of four blocks: a trigger, a question, an action and a wait.    *)
EXTENDS AutomationGraph, TLC

CONSTANTS t, q, a, d, none

All == {t, q, a, d}
KindOf == t :> "trigger" @@ q :> "condition" @@ a :> "action" @@ d :> "delay"

\* One edge per port that leads somewhere, in the order of the ports.
Pairs == << <<t, "next">>, <<q, "true">>, <<q, "false">>, <<d, "next">>, <<a, "next">> >>
EdgesTo(to) ==
  SelectSeq([i \in 1..Len(Pairs) |-> [from |-> Pairs[i][1], port |-> Pairs[i][2], to |-> to[i]]],
            LAMBDA x : x.to # none)

Draw(to) == [nodes |-> All, kind |-> KindOf, edges |-> EdgesTo(to),
             cases |-> [n \in All |-> {}], list |-> [n \in All |-> none],
             unknown |-> {}, short |-> {}, off |-> {}]

\* Every way to draw them.
AllDrawings == {Draw(to) : to \in [1..Len(Pairs) -> {q, a, d, none}]}
NoCase == {}
=============================================================================
