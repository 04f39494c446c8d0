------------------------ MODULE AutomationGraphProofs ------------------------
(***************************************************************************)
(* The two walks of validateGraph, for every drawing: what is reached is   *)
(* exactly what the trigger leads to, what is called a loop is one, and in *)
(* a drawing without waits no loop is missed.                              *)
(***************************************************************************)
EXTENDS AutomationGraph, SequenceTheorems, TLAPS

\* What the constants are: drawings over the blocks, and a name for "nothing".
Sensible == Drawings \subseteq Drawing /\ None \notin Nodes

\* The path is a walk over edges, and it is empty only when the search is over.
PathLeads ==
  /\ stage # "clear" => start # None
  /\ stage \in {"search", "loop"} => caminho # <<>>
  /\ \A i \in 1 .. Len(caminho) - 1 : Leads(graph, caminho[i], caminho[i + 1])

LEMMA EdgeFacts ==
  ASSUME Sensible, NEW g \in Drawings
  PROVE  /\ g.edges \in Seq(Edge) /\ DOMAIN g.edges = 1 .. Len(g.edges)
         /\ Len(g.edges) \in Nat /\ g.nodes \in SUBSET Nodes
         /\ \A i \in DOMAIN g.edges :
              /\ g.edges[i].from \in Nodes /\ g.edges[i].to \in Nodes
              /\ Leads(g, g.edges[i].from, g.edges[i].to)
<1>1. g \in Drawing BY DEF Sensible
<1>2. g.edges \in Seq(Edge) /\ g.nodes \in SUBSET Nodes BY <1>1 DEF Drawing
<1>3. DOMAIN g.edges = 1 .. Len(g.edges) /\ Len(g.edges) \in Nat BY <1>2
<1>4. ASSUME NEW i \in DOMAIN g.edges
      PROVE  /\ g.edges[i].from \in Nodes /\ g.edges[i].to \in Nodes
             /\ Leads(g, g.edges[i].from, g.edges[i].to)
  <2>1. g.edges[i] \in Edge BY <1>2, <1>3
  <2> QED BY <2>1 DEF Edge, Leads, EdgesOf
<1> QED BY <1>2, <1>3, <1>4

\* The end of a path that is not empty.
LEMMA TopFacts ==
  ASSUME TypeOK, PathLeads, stage \in {"search", "loop"}
  PROVE  /\ Len(caminho) \in Nat /\ Len(caminho) >= 1
         /\ DOMAIN caminho = 1 .. Len(caminho)
         /\ Top \in Nodes /\ turn[Top] \in Nat
         /\ \A i \in DOMAIN caminho : caminho[i] \in Nodes
<1>1. caminho \in Seq(Nodes) /\ caminho # <<>> BY DEF TypeOK, PathLeads
<1>2. Len(caminho) \in Nat /\ Len(caminho) >= 1 /\ DOMAIN caminho = 1 .. Len(caminho)
  BY <1>1
<1>3. Top \in Nodes BY <1>1, <1>2 DEF Top
<1> QED BY <1>1, <1>2, <1>3 DEF TypeOK

\* A path without its last block.
LEMMA FrontFacts ==
  ASSUME NEW p \in Seq(Nodes), p # <<>>
  PROVE  /\ SubSeq(p, 1, Len(p) - 1) \in Seq(Nodes)
         /\ Len(SubSeq(p, 1, Len(p) - 1)) = Len(p) - 1
         /\ DOMAIN SubSeq(p, 1, Len(p) - 1) = 1 .. Len(p) - 1
         /\ \A i \in 1 .. Len(p) - 1 : SubSeq(p, 1, Len(p) - 1)[i] = p[i]
<1> DEFINE last == Len(p) - 1
           front == SubSeq(p, 1, last)
<1>1. Len(p) \in Nat /\ Len(p) >= 1 OBVIOUS
<1>2. last \in Nat /\ \A i \in 1 .. last : p[i] \in Nodes BY <1>1
<1> HIDE DEF last
<1>3. /\ front \in Seq(Nodes)
      /\ Len(front) = IF 1 <= last THEN last - 1 + 1 ELSE 0
      /\ \A i \in 1 .. last - 1 + 1 : front[i] = p[1 + i - 1]
  BY <1>2, SubSeqProperties
<1> HIDE DEF front
<1>4. Len(front) = last BY <1>2, <1>3
<1>5. ASSUME NEW i \in 1 .. last PROVE front[i] = p[i]
  <2>1. i \in 1 .. last - 1 + 1 /\ 1 + i - 1 = i BY <1>2
  <2> QED BY <1>3, <2>1
<1>6. DOMAIN front = 1 .. last BY <1>3, <1>4
<1> QED BY <1>3, <1>4, <1>5, <1>6 DEF last, front

LEMMA TypeInit ==
  ASSUME Sensible, Init
  PROVE  TypeOK /\ PathLeads
<1>1. graph.nodes \in SUBSET Nodes BY EdgeFacts DEF Init
<1>2. start \in graph.nodes \cup {None} BY DEF Init, OfKind
<1> QED BY <1>1, <1>2 DEF Init, TypeOK, PathLeads, Stages

LEMMA TypeStep ==
  ASSUME Sensible, TypeOK, PathLeads, [Next]_vars
  PROVE  TypeOK' /\ PathLeads'
<1>a. /\ graph.edges \in Seq(Edge) /\ graph.nodes \in SUBSET Nodes
      /\ \A i \in DOMAIN graph.edges :
           /\ graph.edges[i].from \in Nodes /\ graph.edges[i].to \in Nodes
           /\ Leads(graph, graph.edges[i].from, graph.edges[i].to)
  BY EdgeFacts DEF TypeOK
<1>1. CASE UNCHANGED vars BY <1>1 DEF vars, TypeOK, PathLeads
<1>2. ASSUME NEW n \in Nodes, Follows(n) PROVE TypeOK' /\ PathLeads'
  <2>1. UNCHANGED <<graph, start, stage, caminho, turn, prontos>> BY <1>2 DEF Follows
  <2>2. vistos' \in SUBSET Nodes /\ fila' \in SUBSET Nodes BY <1>2 DEF Follows, TypeOK
  <2> QED BY <2>1, <2>2 DEF TypeOK, PathLeads
<1>3. CASE Enters
  <2>1. start \in Nodes BY <1>a, <1>3 DEF TypeOK, PathLeads, Enters
  <2>2. caminho' \in Seq(Nodes) /\ Len(caminho') = 1 /\ caminho' # <<>>
    BY <1>3, <2>1 DEF Enters
  <2>3. UNCHANGED <<graph, start, vistos, fila, turn, prontos>> /\ stage' = "search"
    BY <1>3 DEF Enters
  <2>4. PathLeads' BY <1>3, <2>2, <2>3 DEF PathLeads, Enters
  <2> QED BY <2>2, <2>3, <2>4 DEF TypeOK, Stages
<1>4. CASE PassesOver \/ \E n \in Nodes : ClosesThroughWait(n) \/ SkipsDone(n)
  <2>1. stage = "search" /\ Turns /\ UNCHANGED <<graph, start, stage, vistos, fila, caminho, prontos>>
    BY <1>4 DEF PassesOver, ClosesThroughWait, SkipsDone, Looks
  <2>2. turn' \in [Nodes -> Nat] BY <2>1, TopFacts DEF Turns, TypeOK
  <2> QED BY <2>1, <2>2 DEF TypeOK, PathLeads
<1>5. ASSUME NEW n \in Nodes, ClosesLoop(n) PROVE TypeOK' /\ PathLeads'
  BY <1>5 DEF ClosesLoop, Looks, TypeOK, PathLeads, Stages
<1>6. ASSUME NEW n \in Nodes, Descends(n) PROVE TypeOK' /\ PathLeads'
  <2>1. stage = "search" /\ Turns /\ caminho' = Append(caminho, n)
    BY <1>6 DEF Descends, Looks
  <2>2. turn' \in [Nodes -> Nat] BY <2>1, TopFacts DEF Turns, TypeOK
  <2>3. Leads(graph, Top, n) BY <1>6, <1>a DEF Descends, Looks
  <2>4. caminho' \in Seq(Nodes) /\ caminho' # <<>> /\ Len(caminho') = Len(caminho) + 1
    BY <2>1 DEF TypeOK
  <2>5. \A i \in 1 .. Len(caminho') - 1 : Leads(graph, caminho'[i], caminho'[i + 1])
    <3> SUFFICES ASSUME NEW i \in 1 .. Len(caminho') - 1
                 PROVE  Leads(graph, caminho'[i], caminho'[i + 1])
      OBVIOUS
    <3>1. CASE i = Len(caminho) BY <2>1, <2>3, <2>4, <3>1, TopFacts DEF Top, TypeOK
    <3>2. CASE i # Len(caminho)
      <4>1. i \in 1 .. Len(caminho) - 1 BY <2>4, <3>2, TopFacts
      <4>2. caminho'[i] = caminho[i] /\ caminho'[i + 1] = caminho[i + 1]
        BY <2>1, <4>1, TopFacts DEF TypeOK
      <4> QED BY <4>1, <4>2 DEF PathLeads
    <3> QED BY <3>1, <3>2
  <2> QED BY <1>6, <2>2, <2>4, <2>5 DEF Descends, TypeOK, PathLeads
<1>7. CASE Leaves
  <2>1. /\ caminho' = SubSeq(caminho, 1, Len(caminho) - 1)
        /\ prontos' = prontos \cup {Top} /\ stage = "search"
        /\ stage' = IF Len(caminho) = 1 THEN "clear" ELSE "search"
        /\ UNCHANGED <<graph, start, vistos, fila, turn>>
    BY <1>7 DEF Leaves
  <2>2. /\ caminho' \in Seq(Nodes) /\ Len(caminho') = Len(caminho) - 1
        /\ \A i \in 1 .. Len(caminho) - 1 : caminho'[i] = caminho[i]
    BY <2>1, FrontFacts DEF TypeOK, PathLeads
  <2>3. stage' = "search" => caminho' # <<>> BY <2>1, <2>2, TopFacts
  <2>4. \A i \in 1 .. Len(caminho') - 1 : Leads(graph, caminho'[i], caminho'[i + 1])
    BY <2>1, <2>2, TopFacts DEF PathLeads
  <2> QED BY <2>1, <2>2, <2>3, <2>4, TopFacts DEF TypeOK, PathLeads, Stages
<1> QED BY <1>1, <1>2, <1>3, <1>4, <1>5, <1>6, <1>7 DEF Next

-----------------------------------------------------------------------------
(* What is called a loop is a loop.                                        *)

LEMMA ClosingIsLoop ==
  ASSUME Sensible, TypeOK, PathLeads, NEW n \in Nodes, ClosesLoop(n)
  PROVE  \E S \in SUBSET Nodes : SpinsIn(graph, S)
<1>1. stage = "search" /\ OnPath(n) /\ NoWaitSince(n) BY DEF ClosesLoop, Looks
<1>2. Leads(graph, Top, n) BY EdgeFacts DEF ClosesLoop, Looks, TypeOK
<1>3. PICK j \in DOMAIN caminho : caminho[j] = n BY <1>1 DEF OnPath
<1> DEFINE S == {caminho[i] : i \in Since(n)}
<1>4. S \in SUBSET Nodes BY <1>1, TopFacts DEF Since
<1>5. n \in S BY <1>1, <1>3, TopFacts DEF Since
<1>6. ASSUME NEW m \in S PROVE ~Waits(graph, m) /\ \E k \in S : Leads(graph, m, k)
  <2>1. PICK i \in Since(n) : caminho[i] = m OBVIOUS
  <2>2. ~Waits(graph, m) BY <1>1, <2>1 DEF NoWaitSince, Waits
  <2>3. CASE i = Len(caminho)
    <3>1. Leads(graph, m, n) BY <1>2, <2>1, <2>3 DEF Top
    <3> QED BY <1>5, <2>2, <3>1
  <2>4. CASE i # Len(caminho)
    <3>1. i \in 1 .. Len(caminho) - 1 BY <1>1, <2>4, TopFacts DEF Since
    <3>2. i + 1 \in Since(n) BY <1>1, <2>1, <3>1, TopFacts DEF Since
    <3>3. Leads(graph, m, caminho[i + 1]) BY <2>1, <3>1 DEF PathLeads
    <3>4. caminho[i + 1] \in S BY <3>2
    <3> QED BY <2>2, <3>3, <3>4
  <2> QED BY <2>2, <2>3, <2>4
<1> QED BY <1>4, <1>5, <1>6 DEF SpinsIn

LEMMA RealStep ==
  ASSUME Sensible, TypeOK, PathLeads, LoopsAreReal, [Next]_vars
  PROVE  LoopsAreReal'
<1>1. ASSUME NEW n \in Nodes, ClosesLoop(n) PROVE LoopsAreReal'
  BY <1>1, ClosingIsLoop DEF ClosesLoop, LoopsAreReal
<1>2. CASE ~\E n \in Nodes : ClosesLoop(n)
  <2>1. graph' = graph /\ (stage' = "loop" => stage = "loop")
    BY <1>2 DEF Next, vars, Enters, PassesOver, Leaves, Follows, ClosesThroughWait,
                SkipsDone, Descends
  <2> QED BY <2>1 DEF LoopsAreReal
<1> QED BY <1>1, <1>2

\* Whatever the drawing, its edges and their order: what temCicloSemEspera
\* calls a loop without a wait is a loop the engine would walk for ever.
THEOREM ReportedLoopsAreReal == ASSUME Sensible PROVE Spec => []LoopsAreReal
<1>1. Init => TypeOK /\ PathLeads /\ LoopsAreReal
  BY TypeInit DEF Init, LoopsAreReal
<1>2. TypeOK /\ PathLeads /\ LoopsAreReal /\ [Next]_vars
      => (TypeOK /\ PathLeads /\ LoopsAreReal)'
  BY TypeStep, RealStep
<1> QED BY <1>1, <1>2, PTL DEF Spec

-----------------------------------------------------------------------------
(* Without waits no loop is missed: a block is done only when everything   *)
(* it leads to is done, so the first block of a loop to be done would have *)
(* met the next one on the path.                                           *)

Waitless == OfKind(graph, "delay") = {}

\* Edges of the path already looked at lead to what is done or to the next block.
Looked ==
  \A k \in DOMAIN caminho : \A i \in DOMAIN graph.edges :
    i < turn[caminho[k]] /\ graph.edges[i].from = caminho[k] =>
      \/ graph.edges[i].to \in prontos
      \/ k < Len(caminho) /\ graph.edges[i].to = caminho[k + 1]

PathIsNew ==
  /\ \A i, j \in DOMAIN caminho : caminho[i] = caminho[j] => i = j
  /\ \A i \in DOMAIN caminho : caminho[i] \notin prontos
  /\ \A n \in Nodes : turn[n] >= 1 /\ (~OnPath(n) /\ n \notin prontos => turn[n] = 1)
  /\ stage = "reach" => caminho = <<>> /\ prontos = {}

DoneIsClosed == \A m \in prontos : \A n \in Nodes : Leads(graph, m, n) => n \in prontos
DoneIsLoopless == ~\E S \in SUBSET prontos : SpinsIn(graph, S)

Searched == Looked /\ PathIsNew /\ DoneIsClosed /\ DoneIsLoopless

LEMMA SearchedInit ==
  ASSUME Init
  PROVE  Searched
<1>1. caminho = <<>> /\ prontos = {} /\ DOMAIN caminho = {} BY DEF Init
<1>2. turn = [n \in Nodes |-> 1] BY DEF Init
<1> QED BY <1>1, <1>2
        DEF Searched, Looked, PathIsNew, DoneIsClosed, DoneIsLoopless, SpinsIn

\* One edge more of the block at the end of the path was looked at.
LEMMA SearchedTurns ==
  ASSUME Sensible, TypeOK, PathLeads, Searched, stage = "search", Turns,
         turn[Top] \in DOMAIN graph.edges,
         graph.edges[turn[Top]].from = Top => graph.edges[turn[Top]].to \in prontos,
         UNCHANGED <<graph, stage, caminho, prontos>>
  PROVE  Searched'
<1>1. /\ turn[Top] \in Nat /\ Top \in Nodes
      /\ turn' \in [Nodes -> Nat]
      /\ turn'[Top] = turn[Top] + 1 /\ \A n \in Nodes : n # Top => turn'[n] = turn[n]
  BY TopFacts DEF Turns, TypeOK
<1>2. OnPath(Top) BY TopFacts DEF OnPath, Top
<1>3. Looked'
  <2> SUFFICES ASSUME NEW k \in DOMAIN caminho, NEW i \in DOMAIN graph.edges,
                      i < turn'[caminho[k]], graph.edges[i].from = caminho[k]
               PROVE  \/ graph.edges[i].to \in prontos
                      \/ k < Len(caminho) /\ graph.edges[i].to = caminho[k + 1]
    BY DEF Looked
  <2>1. caminho[k] \in Nodes BY TopFacts
  <2>2. i \in Nat BY EdgeFacts DEF TypeOK
  <2>3. CASE i < turn[caminho[k]] BY <2>3 DEF Searched, Looked
  <2>4. CASE ~(i < turn[caminho[k]])
    <3>1. caminho[k] = Top BY <1>1, <2>1, <2>4
    <3>2. i = turn[Top] BY <1>1, <2>2, <2>4, <3>1
    <3> QED BY <3>1, <3>2
  <2> QED BY <2>3, <2>4
<1>4. PathIsNew'
  BY <1>1, <1>2 DEF Searched, PathIsNew, OnPath
<1> QED BY <1>3, <1>4 DEF Searched, DoneIsClosed, DoneIsLoopless

LEMMA SearchedDescends ==
  ASSUME Sensible, TypeOK, PathLeads, Searched, NEW n \in Nodes, Descends(n)
  PROVE  Searched'
<1>1. /\ stage = "search" /\ Turns /\ turn[Top] \in DOMAIN graph.edges
      /\ graph.edges[turn[Top]].from = Top /\ graph.edges[turn[Top]].to = n
      /\ caminho' = Append(caminho, n) /\ ~OnPath(n) /\ n \notin prontos
      /\ UNCHANGED <<graph, stage, prontos>>
  BY DEF Descends, Looks
<1>2. /\ turn[Top] \in Nat /\ Top \in Nodes
      /\ turn' \in [Nodes -> Nat]
      /\ turn'[Top] = turn[Top] + 1 /\ \A m \in Nodes : m # Top => turn'[m] = turn[m]
  BY <1>1, TopFacts DEF Turns, TypeOK
<1> DEFINE l == Len(caminho)
<1>3. /\ l \in Nat /\ l >= 1 /\ DOMAIN caminho = 1 .. l
      /\ \A i \in 1 .. l : caminho[i] \in Nodes
  BY <1>1, TopFacts
<1>4. /\ DOMAIN caminho' = 1 .. l + 1 /\ Len(caminho') = l + 1
      /\ caminho'[l + 1] = n /\ \A i \in 1 .. l : caminho'[i] = caminho[i]
  BY <1>1, <1>3 DEF TypeOK
<1>5. Top = caminho[l] /\ OnPath(Top) BY <1>3 DEF OnPath, Top
<1>6. n # Top /\ turn[n] = 1 /\ turn'[n] = 1 BY <1>1, <1>2, <1>5 DEF Searched, PathIsNew
<1> HIDE DEF l
<1>7. Looked'
  <2> SUFFICES ASSUME NEW k \in 1 .. l + 1, NEW i \in DOMAIN graph.edges,
                      i < turn'[caminho'[k]], graph.edges[i].from = caminho'[k]
               PROVE  \/ graph.edges[i].to \in prontos
                      \/ k < l + 1 /\ graph.edges[i].to = caminho'[k + 1]
    BY <1>1, <1>4 DEF Looked
  <2>0. i \in Nat /\ i >= 1 BY EdgeFacts DEF TypeOK
  <2>1. CASE k = l + 1 BY <1>4, <1>6, <2>0, <2>1
  <2>2. CASE k # l + 1
    <3>1. k \in 1 .. l /\ caminho'[k] = caminho[k] BY <1>3, <1>4, <2>2
    <3>2. CASE i < turn[caminho[k]]
      <4>1. \/ graph.edges[i].to \in prontos
            \/ k < l /\ graph.edges[i].to = caminho[k + 1]
        BY <1>3, <3>1, <3>2 DEF Searched, Looked, l
      <4>2. k < l => caminho'[k + 1] = caminho[k + 1] /\ k < l + 1 BY <1>3, <1>4, <3>1
      <4> QED BY <4>1, <4>2
    <3>3. CASE ~(i < turn[caminho[k]])
      <4>1. caminho[k] = Top BY <1>2, <1>3, <3>1, <3>3
      <4>2. i = turn[Top] BY <1>2, <2>0, <3>1, <3>3, <4>1
      <4>3. k = l BY <1>3, <1>5, <3>1, <4>1 DEF Searched, PathIsNew
      <4> QED BY <1>1, <1>3, <1>4, <4>2, <4>3
    <3> QED BY <3>2, <3>3
  <2> QED BY <2>1, <2>2
<1>8. PathIsNew'
  <2>1. \A i, j \in 1 .. l + 1 : caminho'[i] = caminho'[j] => i = j
    <3>1. \A i \in 1 .. l : caminho'[i] # n BY <1>1, <1>3, <1>4 DEF OnPath
    <3>2. \A i \in 1 .. l + 1 : i \in 1 .. l \/ i = l + 1 BY <1>3
    <3> QED BY <1>3, <1>4, <3>1, <3>2 DEF Searched, PathIsNew
  <2>2. \A i \in 1 .. l + 1 : caminho'[i] \notin prontos'
    <3>1. \A i \in 1 .. l + 1 : i \in 1 .. l \/ i = l + 1 BY <1>3
    <3> QED BY <1>1, <1>3, <1>4, <3>1 DEF Searched, PathIsNew
  <2>3. ASSUME NEW m \in Nodes
        PROVE  turn'[m] >= 1 /\ (~OnPath(m)' /\ m \notin prontos' => turn'[m] = 1)
    <3>1. turn'[m] >= 1 BY <1>2, <1>6 DEF Searched, PathIsNew
    <3>2. OnPath(m) => OnPath(m)'
      <4>1. \A i \in 1 .. l : i \in 1 .. l + 1 BY <1>3
      <4> QED BY <1>3, <1>4, <4>1 DEF OnPath
    <3> QED BY <1>1, <1>2, <1>5, <3>1, <3>2 DEF Searched, PathIsNew
  <2> QED BY <1>1, <1>4, <2>1, <2>2, <2>3 DEF PathIsNew
<1> QED BY <1>1, <1>7, <1>8 DEF Searched, DoneIsClosed, DoneIsLoopless

LEMMA SearchedEnters ==
  ASSUME Sensible, TypeOK, PathLeads, Searched, Enters
  PROVE  Searched'
<1>1. /\ stage = "reach" /\ stage' = "search" /\ caminho' = <<start>>
      /\ UNCHANGED <<graph, turn, prontos>>
  BY DEF Enters
<1>2. start \in Nodes BY <1>1, EdgeFacts DEF TypeOK, PathLeads
<1>3. caminho = <<>> /\ prontos = {} /\ \A n \in Nodes : turn[n] = 1
  BY <1>1 DEF Searched, PathIsNew, OnPath
<1>4. DOMAIN caminho' = {1} /\ caminho'[1] = start /\ Len(caminho') = 1 BY <1>1
<1>5. Looked'
  <2> SUFFICES ASSUME NEW i \in DOMAIN graph.edges, i < 1 PROVE FALSE
    BY <1>1, <1>2, <1>3, <1>4 DEF Looked
  <2> QED BY EdgeFacts DEF TypeOK
<1>6. PathIsNew' BY <1>1, <1>3, <1>4 DEF PathIsNew
<1> QED BY <1>1, <1>5, <1>6 DEF Searched, DoneIsClosed, DoneIsLoopless

\* Everything the block leads to is done; a loop through it would be one
\* among what was done before.
LEMMA DoneGrows ==
  ASSUME TypeOK, DoneIsClosed, DoneIsLoopless, NEW t \in Nodes, t \notin prontos,
         \A n \in Nodes : Leads(graph, t, n) => n \in prontos
  PROVE  ~\E S \in SUBSET (prontos \cup {t}) : SpinsIn(graph, S)
<1> SUFFICES ASSUME NEW S \in SUBSET (prontos \cup {t}), SpinsIn(graph, S) PROVE FALSE
  OBVIOUS
<1> DEFINE R == S \ {t}
<1>1. R \in SUBSET prontos OBVIOUS
<1>2. \A n \in S : ~Waits(graph, n) /\ \E m \in S : Leads(graph, n, m) BY DEF SpinsIn
<1>3. \A n \in S : n \in Nodes BY DEF TypeOK
<1>4. \A n \in R : \E m \in R : Leads(graph, n, m)
  <2> SUFFICES ASSUME NEW n \in R PROVE \E m \in R : Leads(graph, n, m) OBVIOUS
  <2>1. PICK m \in S : Leads(graph, n, m) BY <1>2
  <2>2. m \in prontos BY <1>1, <1>3, <2>1 DEF DoneIsClosed
  <2> QED BY <2>1, <2>2
<1>5. R # {}
  <2>1. PICK n \in S : TRUE BY DEF SpinsIn
  <2>2. PICK m \in S : Leads(graph, n, m) BY <1>2
  <2>3. n # t \/ m \in prontos BY <1>3, <2>2
  <2> QED BY <2>3
<1>6. SpinsIn(graph, R) BY <1>2, <1>4, <1>5 DEF SpinsIn
<1> QED BY <1>1, <1>6 DEF DoneIsLoopless

LEMMA SearchedLeaves ==
  ASSUME Sensible, TypeOK, PathLeads, Searched, Leaves
  PROVE  Searched'
<1> DEFINE l == Len(caminho)
<1>1. /\ stage = "search" /\ turn[Top] \notin DOMAIN graph.edges
      /\ prontos' = prontos \cup {Top} /\ stage' # "reach"
      /\ UNCHANGED <<graph, turn>>
  BY DEF Leaves
<1>2. /\ l \in Nat /\ l >= 1 /\ DOMAIN caminho = 1 .. l /\ Top = caminho[l]
      /\ Top \in Nodes /\ turn[Top] \in Nat
      /\ \A i \in 1 .. l : caminho[i] \in Nodes
  BY <1>1, TopFacts DEF Top
<1>3. /\ DOMAIN caminho' = 1 .. l - 1 /\ Len(caminho') = l - 1
      /\ \A i \in 1 .. l - 1 : caminho'[i] = caminho[i]
  BY FrontFacts DEF Leaves, TypeOK, PathLeads
<1> HIDE DEF l
<1>4. Top \notin prontos BY <1>2 DEF Searched, PathIsNew
<1>5. \A i \in DOMAIN graph.edges : i < turn[Top]
  <2>1. turn[Top] >= 1 BY <1>2 DEF Searched, PathIsNew
  <2> QED BY <1>1, <1>2, <2>1, EdgeFacts DEF TypeOK
<1>6. \A n \in Nodes : Leads(graph, Top, n) => n \in prontos
  <2> SUFFICES ASSUME NEW n \in Nodes, Leads(graph, Top, n) PROVE n \in prontos OBVIOUS
  <2>1. PICK i \in DOMAIN graph.edges : graph.edges[i].from = Top /\ graph.edges[i].to = n
    BY DEF Leads, EdgesOf
  <2>2. i < turn[caminho[l]] BY <1>2, <1>5
  <2>3. l \in DOMAIN caminho /\ ~(l < Len(caminho)) BY <1>2 DEF l
  <2> QED BY <1>2, <2>1, <2>2, <2>3 DEF Searched, Looked
<1>7. Looked'
  <2> SUFFICES ASSUME NEW k \in 1 .. l - 1, NEW i \in DOMAIN graph.edges,
                      i < turn[caminho[k]], graph.edges[i].from = caminho[k]
               PROVE  \/ graph.edges[i].to \in prontos'
                      \/ k < l - 1 /\ graph.edges[i].to = caminho'[k + 1]
    BY <1>1, <1>3 DEF Looked
  <2>1. k \in 1 .. l /\ k + 1 \in 1 .. l BY <1>2
  <2>2. \/ graph.edges[i].to \in prontos
        \/ k < l /\ graph.edges[i].to = caminho[k + 1]
    BY <1>2, <2>1 DEF Searched, Looked, l
  <2>3. CASE k + 1 = l BY <1>1, <1>2, <2>2, <2>3
  <2>4. CASE k + 1 # l
    <3>1. k + 1 \in 1 .. l - 1 /\ k < l - 1 BY <1>2, <2>4
    <3> QED BY <1>1, <1>3, <2>2, <3>1
  <2> QED BY <2>3, <2>4
<1>8. PathIsNew'
  <2>1. \A i \in 1 .. l - 1 : i \in 1 .. l /\ i # l BY <1>2
  <2>2. \A i, j \in 1 .. l - 1 : caminho'[i] = caminho'[j] => i = j
    BY <1>2, <1>3, <2>1 DEF Searched, PathIsNew
  <2>3. \A i \in 1 .. l - 1 : caminho'[i] \notin prontos'
    <3> SUFFICES ASSUME NEW i \in 1 .. l - 1 PROVE caminho[i] \notin prontos \cup {Top}
      BY <1>1, <1>3
    <3>1. l \in 1 .. l BY <1>2
    <3>2. caminho[i] # Top BY <1>2, <2>1, <3>1 DEF Searched, PathIsNew
    <3> QED BY <1>2, <2>1, <3>2 DEF Searched, PathIsNew
  <2>4. ASSUME NEW n \in Nodes, ~OnPath(n)', n \notin prontos' PROVE turn[n] = 1
    <3>1. n # Top /\ n \notin prontos BY <1>1, <2>4
    <3>2. ~OnPath(n)
      <4> SUFFICES ASSUME NEW i \in 1 .. l, caminho[i] = n PROVE FALSE
        BY <1>2 DEF OnPath
      <4>1. i \in 1 .. l - 1 BY <1>2, <3>1
      <4> QED BY <1>3, <2>4, <4>1 DEF OnPath
    <3> QED BY <3>1, <3>2 DEF Searched, PathIsNew
  <2> QED BY <1>1, <1>3, <2>2, <2>3, <2>4 DEF Searched, PathIsNew
<1>9. DoneIsClosed' BY <1>1, <1>6 DEF Searched, DoneIsClosed
<1>10. DoneIsLoopless'
  <2>1. ~\E S \in SUBSET (prontos \cup {Top}) : SpinsIn(graph, S)
    BY <1>2, <1>4, <1>6, DoneGrows DEF Searched
  <2> QED BY <1>1, <2>1 DEF DoneIsLoopless
<1> QED BY <1>7, <1>8, <1>9, <1>10 DEF Searched

LEMMA SearchedStep ==
  ASSUME Sensible, TypeOK, PathLeads, Waitless, Searched, [Next]_vars
  PROVE  Searched'
<1>1. CASE UNCHANGED <<graph, caminho, turn, prontos>> /\ (stage' = "reach" => stage = "reach")
  BY <1>1 DEF Searched, Looked, PathIsNew, OnPath, DoneIsClosed, DoneIsLoopless
<1>2. CASE Enters BY <1>2, SearchedEnters
<1>3. CASE Leaves BY <1>3, SearchedLeaves
<1>4. CASE PassesOver BY <1>4, SearchedTurns DEF PassesOver
<1>5. ASSUME NEW n \in Nodes, SkipsDone(n) PROVE Searched'
  BY <1>5, SearchedTurns DEF SkipsDone, Looks
<1>6. ASSUME NEW n \in Nodes, ClosesThroughWait(n) PROVE Searched'
  BY <1>6 DEF ClosesThroughWait, NoWaitSince, Waitless
<1>7. ASSUME NEW n \in Nodes, Descends(n) PROVE Searched'
  BY <1>7, SearchedDescends
<1>8. ASSUME NEW n \in Nodes, Follows(n) \/ ClosesLoop(n) PROVE Searched'
  BY <1>1, <1>8 DEF Follows, ClosesLoop
<1> QED BY <1>1, <1>2, <1>3, <1>4, <1>5, <1>6, <1>7, <1>8 DEF Next, vars

\* In a drawing without waits temCicloSemEspera misses no loop: among what it
\* calls done there is none, whatever the edges and their order.
THEOREM WaitlessLoopsAreFound == ASSUME Sensible PROVE Spec => []LoopsAreFound
<1> DEFINE I == Waitless => Searched
<1>1. Init => TypeOK /\ PathLeads /\ I BY TypeInit, SearchedInit
<1>2. TypeOK /\ PathLeads /\ I /\ [Next]_vars => (TypeOK /\ PathLeads /\ I)'
  <2> SUFFICES ASSUME TypeOK, PathLeads, I, [Next]_vars PROVE (TypeOK /\ PathLeads /\ I)'
    OBVIOUS
  <2>1. graph' = graph
    BY DEF Next, vars, Enters, PassesOver, Leaves, Follows, ClosesLoop,
           ClosesThroughWait, SkipsDone, Descends
  <2> QED BY <2>1, TypeStep, SearchedStep DEF Waitless
<1>3. I => LoopsAreFound BY DEF LoopsAreFound, Waitless, Searched, DoneIsLoopless
<1> QED BY <1>1, <1>2, <1>3, PTL DEF Spec

-----------------------------------------------------------------------------
(* What is reached is what the trigger leads to.                           *)

Reaching ==
  start # None =>
    /\ start \in vistos /\ fila \subseteq vistos
    /\ \A m \in vistos \ fila : \A n \in Nodes : Leads(graph, m, n) => n \in vistos
    /\ \A S \in SUBSET Nodes : start \in S /\ Closed(S) => vistos \subseteq S
    /\ stage # "reach" => fila = {}

StartIsTrigger ==
  IF start = None THEN OfKind(graph, "trigger") = {} ELSE start \in OfKind(graph, "trigger")

LEMMA ReachingInit ==
  ASSUME Sensible, Init
  PROVE  Reaching /\ StartIsTrigger
<1>1. None \notin OfKind(graph, "trigger") BY EdgeFacts DEF Init, Sensible, OfKind
<1> QED BY <1>1 DEF Init, Reaching, StartIsTrigger

LEMMA ReachingStep ==
  ASSUME Sensible, TypeOK, PathLeads, Reaching, StartIsTrigger, [Next]_vars
  PROVE  Reaching' /\ StartIsTrigger'
<1>0. StartIsTrigger'
  <2>1. UNCHANGED <<graph, start>>
    BY DEF Next, vars, Enters, PassesOver, Leaves, Follows, ClosesLoop,
           ClosesThroughWait, SkipsDone, Descends
  <2> QED BY <2>1 DEF StartIsTrigger
<1>1. CASE UNCHANGED <<graph, start, vistos, fila>> /\ (stage' # "reach" => fila = {} \/ stage # "reach")
  BY <1>0, <1>1 DEF Reaching, Closed
<1>2. ASSUME NEW k \in Nodes, Follows(k) PROVE Reaching'
  <2> DEFINE found == {m \in Nodes : Leads(graph, k, m)} \ vistos
  <2>1. /\ stage = "reach" /\ k \in fila /\ vistos' = vistos \cup found
        /\ fila' = (fila \ {k}) \cup found /\ UNCHANGED <<graph, start, stage>>
    BY <1>2 DEF Follows
  <2>2. CASE start # None
    <3>1. start \in vistos' /\ fila' \subseteq vistos' BY <2>1, <2>2 DEF Reaching
    <3>2. ASSUME NEW m \in vistos' \ fila', NEW n \in Nodes, Leads(graph, m, n)
          PROVE  n \in vistos'
      <4>1. m \in vistos /\ (m \notin fila \/ m = k) BY <2>1, <3>2
      <4>2. CASE m = k BY <2>1, <3>2, <4>2
      <4>3. CASE m # k BY <2>1, <2>2, <3>2, <4>1, <4>3 DEF Reaching
      <4> QED BY <4>2, <4>3
    <3>3. ASSUME NEW S \in SUBSET Nodes, start \in S, Closed(S) PROVE vistos' \subseteq S
      <4>1. vistos \subseteq S /\ k \in S BY <2>1, <2>2, <3>3 DEF Reaching
      <4>2. found \subseteq S BY <3>3, <4>1 DEF Closed
      <4> QED BY <2>1, <4>1, <4>2
    <3> QED BY <2>1, <3>1, <3>2, <3>3 DEF Reaching, Closed
  <2> QED BY <2>1, <2>2 DEF Reaching
<1>3. CASE \E k \in Nodes : Follows(k) BY <1>0, <1>2, <1>3
<1>4. CASE ~\E k \in Nodes : Follows(k)
  BY <1>1, <1>4 DEF Next, vars, Enters, PassesOver, Leaves, ClosesLoop,
     ClosesThroughWait, SkipsDone, Descends, Looks
<1> QED BY <1>3, <1>4

\* alcancaveis answers with the least set that has the trigger and what its
\* members lead to, in whatever order the queue is emptied.
THEOREM ReachedIsExact == ASSUME Sensible PROVE Spec => []ReachedIsLeast
<1>1. Init => TypeOK /\ PathLeads /\ Reaching /\ StartIsTrigger
  BY TypeInit, ReachingInit
<1>2. TypeOK /\ PathLeads /\ Reaching /\ StartIsTrigger /\ [Next]_vars
      => (TypeOK /\ PathLeads /\ Reaching /\ StartIsTrigger)'
  BY TypeStep, ReachingStep
<1>3. Reaching /\ TypeOK => ReachedIsLeast
  BY DEF Reaching, ReachedIsLeast, Closed, TypeOK
<1> QED BY <1>1, <1>2, <1>3, PTL DEF Spec

\* The rules that look at blocks and edges are what the engine needs of them.
LEMMA RulesSuffice ==
  ASSUME Sensible, NEW g \in Drawings, ~Wrong(g)
  PROVE  Runnable(g)
<1>a. ~TriggerIsWrong(g) /\ ~EdgeIsWrong(g) /\ ~ForEachIsWrong(g) BY DEF Wrong
<1>1. \E t \in g.nodes : OfKind(g, "trigger") = {t} BY <1>a DEF TriggerIsWrong
<1>2. \A m, n \in Nodes : Leads(g, m, n) => m \in g.nodes /\ n \in g.nodes
  BY <1>a DEF EdgeIsWrong, Leads
<1>3. \A x, y \in EdgesOf(g) : x.from = y.from /\ x.port = y.port => x = y
  BY <1>a DEF EdgeIsWrong, EdgesOf
<1>4. ASSUME NEW n \in OfKind(g, "forEach")
      PROVE  \E x \in EdgesOf(g) : x.from = n /\ x.port = "next"
  <2>1. PICK x \in EdgesOf(g) : x.from = n BY <1>a DEF ForEachIsWrong, Leaving
  <2>2. x.port \in Exits(g, n) BY <1>a, <2>1 DEF EdgeIsWrong
  <2>3. Exits(g, n) = {"next"} BY DEF OfKind, Exits
  <2> QED BY <2>1, <2>2, <2>3
<1> QED BY <1>1, <1>2, <1>3, <1>4 DEF Runnable

\* A drawing that is accepted satisfies what the engine's model assumes of it,
\* and no block of it is out of the trigger's reach (AU-07: "no orfao").
THEOREM AcceptedIsWhole == ASSUME Sensible PROVE Spec => []AcceptedIsRunnable
<1>1. Init => TypeOK /\ PathLeads /\ Reaching /\ StartIsTrigger
  BY TypeInit, ReachingInit
<1>2. TypeOK /\ PathLeads /\ Reaching /\ StartIsTrigger /\ [Next]_vars
      => (TypeOK /\ PathLeads /\ Reaching /\ StartIsTrigger)'
  BY TypeStep, ReachingStep
<1>3. TypeOK /\ Reaching /\ StartIsTrigger => AcceptedIsRunnable
  <2> SUFFICES ASSUME TypeOK, Reaching, StartIsTrigger, Accepted
               PROVE  /\ Runnable(graph)
                      /\ \A S \in SUBSET Nodes :
                           OfKind(graph, "trigger") \subseteq S /\ Closed(S)
                             => graph.nodes \subseteq S
    BY DEF AcceptedIsRunnable
  <2>1. Runnable(graph) BY RulesSuffice DEF TypeOK, Accepted
  <2>2. start \in OfKind(graph, "trigger") /\ start # None
    BY <2>1 DEF Runnable, StartIsTrigger
  <2> QED BY <2>1, <2>2 DEF Reaching, Accepted
<1> QED BY <1>1, <1>2, <1>3, PTL DEF Spec
=============================================================================
