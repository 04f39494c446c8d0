-------------------------- MODULE MCAutomationRuns --------------------------
(* Small drawings for AutomationRuns.  Ids t < a < c < d < s < f < b < u < l  *)
(* < e grow along every edge.                                               *)
EXTENDS AutomationRuns, TLC

CONSTANTS w1, w2, r1, r2, i1, t, a, c, d, f, s, b, u, l, e, none, gone

AllNodes == {t, a, c, d, f, s, b, u, l, e}

\* A drawing from its blocks, the blocks turned off and its edges.
Draw(kinds, off, edges) ==
  [nodes |-> DOMAIN kinds,
   kind |-> [n \in AllNodes |-> IF n \in DOMAIN kinds THEN kinds[n] ELSE "end"],
   off |-> off, start |-> t,
   next |-> [n \in AllNodes |-> [p \in Ports |->
               IF \E x \in edges : x[1] = n /\ x[2] = p
                 THEN (CHOOSE x \in edges : x[1] = n /\ x[2] = p)[3]
                 ELSE none]]]

\* Act, wait, one run per item, act again; failing, to the end block.
FanOut == Draw(t :> "trigger" @@ a :> "action" @@ d :> "delay" @@ f :> "forEach"
               @@ b :> "action" @@ e :> "end", {},
               {<<t, "next", a>>, <<a, "next", d>>, <<d, "next", f>>,
                <<f, "next", b>>, <<b, "error", e>>})

\* The same with a variable set, failing to a lookup that has no entity.
FanOutUnset ==
  Draw(t :> "trigger" @@ a :> "action" @@ d :> "delay" @@ s :> "setVariable"
       @@ f :> "forEach" @@ b :> "action" @@ l :> "unset" @@ e :> "end", {},
       {<<t, "next", a>>, <<a, "next", d>>, <<d, "next", s>>, <<s, "next", f>>,
        <<f, "next", b>>, <<b, "error", l>>, <<l, "true", e>>, <<l, "false", e>>})

\* A lookup that has no entity and nothing else.
Unset == Draw(t :> "trigger" @@ l :> "unset" @@ e :> "end", {},
              {<<t, "next", l>>, <<l, "true", e>>, <<l, "false", e>>})

\* A question, a block turned off, a set variable, an action nobody knows.
Question == Draw(t :> "trigger" @@ a :> "action" @@ c :> "branch" @@ d :> "delay"
                 @@ s :> "setVariable" @@ b :> "action" @@ u :> "unknown", {a},
                 {<<t, "next", a>>, <<a, "next", c>>, <<c, "true", d>>,
                  <<c, "false", u>>, <<d, "next", s>>, <<s, "next", b>>})

\* A wait at the end of a branch.
TrailingWait == Draw(t :> "trigger" @@ a :> "action" @@ d :> "delay", {},
                     {<<t, "next", a>>, <<a, "next", d>>})

BothDrawings == {FanOut, Question}
OnlyFanOut == {FanOut}
OnlyFanOutUnset == {FanOutUnset}
OnlyUnset == {Unset}
OnlyTrailingWait == {TrailingWait}

Two == {w1, w2}
One == {w1}
OneRoot == {r1}
TwoRoots == {r1, r2}
OneItem == {i1}
NoItem == {}

SameWorkers == Permutations(Workers)
=============================================================================
