--------------------------- MODULE AutomationGraph ---------------------------
(***************************************************************************)
(* What validateGraph accepts: the rules it reads off the blocks, the walk *)
(* that finds blocks nothing leads to, and the depth-first search for a    *)
(* loop without a wait, one visit at a time.                               *)
(*                                                                         *)
(* A block's configuration is reduced to what the rules ask of it: the     *)
(* cases of a switch, the list a lookup keeps or a for-each walks, and     *)
(* whether its type is unknown or its interval too short.                  *)
(***************************************************************************)
EXTENDS Naturals, Sequences

CONSTANTS Nodes,     \* ids of blocks
          Cases,     \* ports of the cases of a switch
          Lists,     \* names of lists
          Drawings,  \* drawings somebody saves
          None       \* no list, no trigger

Kinds == {"trigger", "condition", "switch", "forEach", "lookup",
          "setVariable", "delay", "action", "end"}
FixedPorts == {"next", "true", "false", "error", "default"}
Ports == FixedPorts \cup Cases
Edge == [from : Nodes, port : Ports, to : Nodes]

Drawing == [nodes : SUBSET Nodes, kind : [Nodes -> Kinds], edges : Seq(Edge),
            cases : [Nodes -> SUBSET Cases], list : [Nodes -> Lists \cup {None}],
            unknown : SUBSET Nodes, short : SUBSET Nodes, off : SUBSET Nodes]

-----------------------------------------------------------------------------
(* The rules that look at one block, one edge or a pair.                   *)

Exits(g, n) ==
  CASE g.kind[n] \in {"trigger", "forEach", "setVariable", "delay"} -> {"next"}
    [] g.kind[n] \in {"condition", "lookup"} -> {"true", "false"}
    [] g.kind[n] = "action" -> {"next", "error"}
    [] g.kind[n] = "switch" -> g.cases[n] \cup {"default"}
    [] OTHER -> {}

EdgesOf(g) == {g.edges[i] : i \in DOMAIN g.edges}
Leaving(g, n) == {x \in EdgesOf(g) : x.from = n}
Leads(g, m, n) == \E x \in EdgesOf(g) : x.from = m /\ x.to = n
OfKind(g, k) == {n \in g.nodes : g.kind[n] = k}

\* None or two triggers, one of a type nobody fires, an interval or a wait
\* below a minute, a trigger that leads nowhere.
TriggerIsWrong(g) ==
  \/ ~\E t \in g.nodes : OfKind(g, "trigger") = {t}
  \/ \E t \in OfKind(g, "trigger") :
       t \in g.unknown \/ t \in g.short \/ Leaving(g, t) = {}

EdgeIsWrong(g) ==
  \/ \E x \in EdgesOf(g) : \/ x.from \notin g.nodes \/ x.to \notin g.nodes
                           \/ x.port \notin Exits(g, x.from)
  \/ \E i, j \in DOMAIN g.edges :
       i # j /\ g.edges[i].from = g.edges[j].from /\ g.edges[i].port = g.edges[j].port

WaitIsShort(g) == \E n \in OfKind(g, "delay") : n \in g.short

\* A question with a side that leads nowhere, a choice without values.
QuestionIsOpen(g) ==
  \E n \in g.nodes :
    /\ g.kind[n] \in {"condition", "switch", "lookup"}
    /\ \/ g.kind[n] = "switch" /\ g.cases[n] = {}
       \/ \E p \in Exits(g, n) : ~\E x \in Leaving(g, n) : x.port = p

\* Two for-each, one that leads nowhere, one whose list no lookup keeps.
ForEachIsWrong(g) ==
  \/ \E m, n \in OfKind(g, "forEach") : m # n
  \/ \E n \in OfKind(g, "forEach") :
       \/ Leaving(g, n) = {}
       \/ ~\E m \in OfKind(g, "lookup") : g.list[m] # None /\ g.list[m] = g.list[n]

Wrong(g) == TriggerIsWrong(g) \/ EdgeIsWrong(g) \/ WaitIsShort(g)
            \/ QuestionIsOpen(g) \/ ForEachIsWrong(g)

-----------------------------------------------------------------------------
(* The two walks over the drawing.                                         *)

VARIABLES
  graph,    \* the drawing being validated
  start,    \* its first trigger
  stage,    \* "reach", "search", and how the search ended
  vistos,   \* alcancaveis: blocks reached
  fila,     \* alcancaveis: blocks whose edges are still to be followed
  caminho,  \* temCicloSemEspera: the blocks of the current path
  turn,     \* for each block of the path, the next edge to look at
  prontos   \* blocks the search left without finding a loop

vars == <<graph, start, stage, vistos, fila, caminho, turn, prontos>>

Stages == {"reach", "search", "loop", "clear"}

TypeOK ==
  /\ graph \in Drawings /\ start \in graph.nodes \cup {None}
  /\ stage \in Stages
  /\ vistos \in SUBSET Nodes /\ fila \in SUBSET Nodes
  /\ caminho \in Seq(Nodes) /\ turn \in [Nodes -> Nat]
  /\ prontos \in SUBSET Nodes

\* Without a trigger neither walk is made.
Init ==
  /\ graph \in Drawings
  /\ start \in IF OfKind(graph, "trigger") = {} THEN {None} ELSE OfKind(graph, "trigger")
  /\ stage = IF start = None THEN "clear" ELSE "reach"
  /\ vistos = {start} \ {None} /\ fila = {start} \ {None}
  /\ caminho = <<>> /\ turn = [n \in Nodes |-> 1] /\ prontos = {}

\* One turn of alcancaveis: a block leaves the queue, what it leads to enters.
Follows(n) ==
  /\ stage = "reach" /\ n \in fila
  /\ LET found == {m \in Nodes : Leads(graph, n, m)} \ vistos IN
       /\ vistos' = vistos \cup found
       /\ fila' = (fila \ {n}) \cup found
  /\ UNCHANGED <<graph, start, stage, caminho, turn, prontos>>

\* visitar(inicio): nothing is on the path and nothing is done yet.
Enters ==
  /\ stage = "reach" /\ fila = {}
  /\ stage' = "search" /\ caminho' = <<start>>
  /\ UNCHANGED <<graph, start, vistos, fila, turn, prontos>>

Top == caminho[Len(caminho)]
OnPath(n) == \E i \in DOMAIN caminho : caminho[i] = n
Since(n) == {i \in DOMAIN caminho : \E j \in DOMAIN caminho : caminho[j] = n /\ j <= i}
NoWaitSince(n) == \A i \in Since(n) : caminho[i] \notin OfKind(graph, "delay")

\* The search stands on the block at the end of the path, at an edge to n.
Looks(n) ==
  /\ stage = "search" /\ turn[Top] \in DOMAIN graph.edges
  /\ graph.edges[turn[Top]].from = Top /\ graph.edges[turn[Top]].to = n

\* On to the next edge of the list.
Turns == turn' = [turn EXCEPT ![Top] = @ + 1]

PassesOver ==
  /\ stage = "search" /\ turn[Top] \in DOMAIN graph.edges
  /\ graph.edges[turn[Top]].from # Top
  /\ Turns
  /\ UNCHANGED <<graph, start, stage, vistos, fila, caminho, prontos>>

\* A block of the path again: a loop, unless a wait lies between.
ClosesLoop(n) ==
  /\ Looks(n) /\ OnPath(n) /\ NoWaitSince(n)
  /\ stage' = "loop"
  /\ UNCHANGED <<graph, start, vistos, fila, caminho, turn, prontos>>

ClosesThroughWait(n) ==
  /\ Looks(n) /\ OnPath(n) /\ ~NoWaitSince(n)
  /\ Turns
  /\ UNCHANGED <<graph, start, stage, vistos, fila, caminho, prontos>>

SkipsDone(n) ==
  /\ Looks(n) /\ ~OnPath(n) /\ n \in prontos
  /\ Turns
  /\ UNCHANGED <<graph, start, stage, vistos, fila, caminho, prontos>>

Descends(n) ==
  /\ Looks(n) /\ ~OnPath(n) /\ n \notin prontos
  /\ Turns
  /\ caminho' = Append(caminho, n)
  /\ UNCHANGED <<graph, start, stage, vistos, fila, prontos>>

\* The edges are over: the block leaves the path, done.
Leaves ==
  /\ stage = "search" /\ turn[Top] \notin DOMAIN graph.edges
  /\ caminho' = SubSeq(caminho, 1, Len(caminho) - 1)
  /\ prontos' = prontos \cup {Top}
  /\ stage' = IF Len(caminho) = 1 THEN "clear" ELSE "search"
  /\ UNCHANGED <<graph, start, vistos, fila, turn>>

Next == \/ Enters \/ PassesOver \/ Leaves
        \/ \E n \in Nodes : \/ Follows(n) \/ ClosesLoop(n) \/ ClosesThroughWait(n)
                            \/ SkipsDone(n) \/ Descends(n)

Spec == Init /\ [][Next]_vars

-----------------------------------------------------------------------------
(* What the answer should mean.                                            *)

\* The list of problems is empty.
Accepted == stage = "clear" /\ ~Wrong(graph) /\ vistos = graph.nodes

\* A block at which the engine stops and waits: a wait turned off is walked over.
Waits(g, n) == n \in OfKind(g, "delay") \ g.off

\* Blocks the engine may walk round and round, in one pass and for ever: each
\* leads to one of them and none waits.
SpinsIn(g, S) ==
  /\ S # {}
  /\ \A n \in S : ~Waits(g, n) /\ \E m \in S : Leads(g, n, m)

\* A loop without a wait is refused (AU-07; graph.ts: "Sem, o motor percorre os
\* mesmos nos para sempre").
LoopsAreRefused == Accepted => ~\E S \in SUBSET graph.nodes : SpinsIn(graph, S)

\* What the search calls a loop is one: no drawing whose loops all wait is
\* refused ("Com espera, e como se escreve uma cobranca recorrente").
LoopsAreReal == stage = "loop" => \E S \in SUBSET Nodes : SpinsIn(graph, S)

\* In a drawing without waits the search finds every loop the trigger leads to.
LoopsAreFound ==
  stage = "clear" /\ OfKind(graph, "delay") = {} /\ start # None =>
    ~\E S \in SUBSET prontos : SpinsIn(graph, S)

\* The blocks reached are those every walk from the trigger may need: closed
\* under the edges, and within every set that is and has the trigger.
Closed(S) == \A m, n \in Nodes : m \in S /\ Leads(graph, m, n) => n \in S
ReachedIsLeast ==
  stage # "reach" /\ start # None =>
    /\ Closed(vistos)
    /\ \A S \in SUBSET Nodes : start \in S /\ Closed(S) => vistos \subseteq S

\* What the engine takes for granted of a drawing it walks: one trigger, edges
\* between blocks of the drawing, one way out of each port, a for-each that
\* leads somewhere (the assumption on Graphs in AutomationRuns).
Runnable(g) ==
  /\ \E t \in g.nodes : OfKind(g, "trigger") = {t}
  /\ \A m \in Nodes, n \in Nodes : Leads(g, m, n) => m \in g.nodes /\ n \in g.nodes
  /\ \A x, y \in EdgesOf(g) : x.from = y.from /\ x.port = y.port => x = y
  /\ \A n \in OfKind(g, "forEach") : \E x \in EdgesOf(g) : x.from = n /\ x.port = "next"

\* A drawing that is accepted can be walked, and everything in it is reached.
AcceptedIsRunnable ==
  Accepted =>
    /\ Runnable(graph)
    /\ \A S \in SUBSET Nodes : OfKind(graph, "trigger") \subseteq S /\ Closed(S)
                                 => graph.nodes \subseteq S
=============================================================================
