----------------------------- MODULE SumsProofs -----------------------------
(***************************************************************************)
(* Sums over a finite set, which the credit of a customer, the ledger of a *)
(* booking and the price of its participants are made of.  The community   *)
(* modules define them by a fold that takes the elements in an order of    *)
(* its own; here is what does not depend on that order.                    *)
(***************************************************************************)
EXTENDS Integers, FiniteSets, FiniteSetsExt, FiniteSetTheorems,
        WellFoundedInduction, TLAPS

SumOver(f, S) == MapThenSumSet(LAMBDA x : f[x], S)

\* The fold of MapThenFoldSet, on the subsets of S.
Chosen(s) == CHOOSE x \in s : TRUE
IsFold(g, f, S) ==
  g = [s \in SUBSET S |-> IF s = {} THEN 0 ELSE f[Chosen(s)] + g[s \ {Chosen(s)}]]
FoldOf(f, S) == CHOOSE g : IsFold(g, f, S)

\* The sum is what the fold says of the whole set.
LEMMA SumIsFold ==
  ASSUME NEW f, NEW S
  PROVE  SumOver(f, S) = FoldOf(f, S)[S]
BY DEF SumOver, MapThenSumSet, MapThenFoldSet, FoldOf, IsFold, Chosen

LEMMA SmallestSubset ==
  ASSUME NEW S, IsFiniteSet(S), NEW T \in SUBSET SUBSET S, T # {}
  PROVE  \E s \in T : \A t \in T : t \subseteq s => t = s
<1>1. IsWellFoundedOn(StrictSubsetOrdering(S), SUBSET S)
  BY FS_StrictSubsetOrderingWellFounded, FS_FiniteSubsetsOfFinite
<1>2. PICK s \in T : \A t \in T : ~(<<t, s>> \in StrictSubsetOrdering(S))
  BY <1>1, WFMin
<1>. QED BY <1>2 DEF StrictSubsetOrdering

\* Two folds agree on the sets they both know.
LEMMA FoldsAgree ==
  ASSUME NEW f, NEW S, IsFiniteSet(S), NEW T, NEW g, NEW h,
         IsFold(g, f, S), IsFold(h, f, T)
  PROVE  \A s \in SUBSET S : s \in SUBSET T => g[s] = h[s]
<1>. DEFINE Bad == {s \in SUBSET S : s \in SUBSET T /\ g[s] # h[s]}
<1>1. SUFFICES ASSUME Bad # {} PROVE FALSE
  OBVIOUS
<1>2. PICK s \in Bad : \A t \in Bad : t \subseteq s => t = s
  <2>1. Bad \in SUBSET SUBSET S
    OBVIOUS
  <2>. HIDE DEF Bad
  <2>. QED BY <2>1, <1>1, SmallestSubset
<1>3. s # {} /\ s \in SUBSET S /\ s \in SUBSET T /\ g[s] # h[s]
  BY <1>2 DEF IsFold
<1>. DEFINE x == Chosen(s)
<1>4. x \in s
  BY <1>3 DEF Chosen
<1>5. g[s \ {x}] = h[s \ {x}]
  BY <1>2, <1>3, <1>4
<1>6. g[s] = f[x] + g[s \ {x}]
  BY <1>2, <1>3 DEF IsFold
<1>7. h[s] = f[x] + h[s \ {x}]
  <2>1. h = [r \in SUBSET T |-> IF r = {} THEN 0 ELSE f[Chosen(r)] + h[r \ {Chosen(r)}]]
    BY DEF IsFold
  <2>. QED BY <2>1, <1>3
<1>. QED BY <1>3, <1>5, <1>6, <1>7

\* There is a fold on the subsets of every finite set.
LEMMA FoldExists ==
  ASSUME NEW f, NEW S, IsFiniteSet(S)
  PROVE  IsFold(FoldOf(f, S), f, S)
<1>. DEFINE Bad == {s \in SUBSET S : ~IsFold(FoldOf(f, s), f, s)}
<1>1. SUFFICES ASSUME Bad # {} PROVE FALSE
  OBVIOUS
<1>2. PICK s \in Bad : \A t \in Bad : t \subseteq s => t = s
  <2>1. Bad \in SUBSET SUBSET S
    OBVIOUS
  <2>. HIDE DEF Bad
  <2>. QED BY <2>1, <1>1, SmallestSubset
<1>3. \A t \in SUBSET s : t # s => IsFold(FoldOf(f, t), f, t)
  BY <1>2
<1>. DEFINE Rest(t) == t \ {Chosen(t)}
            g == [t \in SUBSET s |->
                    IF t = {} THEN 0 ELSE f[Chosen(t)] + FoldOf(f, Rest(t))[Rest(t)]]
<1>4. ASSUME NEW t \in SUBSET s, t # {}
      PROVE  Rest(t) \in SUBSET s /\ Rest(t) # s /\ Rest(t) \subseteq t /\ Rest(t) # t
  BY <1>4 DEF Chosen
<1>5. ASSUME NEW t \in SUBSET s, t # {}
      PROVE  g[Rest(t)] = FoldOf(f, Rest(t))[Rest(t)]
  <2>. DEFINE u == Rest(t)
  <2>0. u \in SUBSET s /\ u # s
    BY <1>4, <1>5
  <2>1. IsFold(FoldOf(f, u), f, u)
    BY <2>0, <1>3
  <2>2. CASE u = {}
    BY <2>0, <2>1, <2>2 DEF IsFold
  <2>3. CASE u # {}
    <3>. DEFINE v == Rest(u)
    <3>1. v \in SUBSET s /\ v # s /\ v \in SUBSET u
      BY <1>4, <2>0, <2>3
    <3>2. IsFold(FoldOf(f, v), f, v)
      BY <3>1, <1>3
    <3>3. IsFiniteSet(u)
      BY <1>2, <2>0, FS_Subset
    <3>4. FoldOf(f, u)[v] = FoldOf(f, v)[v]
      <4>. HIDE DEF u, v
      <4>1. ASSUME NEW p, NEW q, IsFold(p, f, u), IsFold(q, f, v) PROVE p[v] = q[v]
        <5>1. \A x \in SUBSET u : x \in SUBSET v => p[x] = q[x]
          BY <4>1, <3>3, FoldsAgree
        <5>. QED BY <5>1, <3>1
      <4>. QED BY <2>1, <3>2, <4>1
    <3>5. FoldOf(f, u)[u] = f[Chosen(u)] + FoldOf(f, u)[v]
      BY <2>1, <2>3 DEF IsFold
    <3>6. g[u] = f[Chosen(u)] + FoldOf(f, v)[v]
      BY <2>0, <2>3
    <3>. QED BY <3>4, <3>5, <3>6
  <2>. QED BY <2>2, <2>3
<1>6. IsFold(g, f, s)
  BY <1>4, <1>5 DEF IsFold
<1>7. IsFold(FoldOf(f, s), f, s)
  <2>. HIDE DEF g
  <2>. QED BY <1>6 DEF FoldOf
<1>. QED BY <1>2, <1>7

LEMMA SumEmpty ==
  ASSUME NEW f
  PROVE  SumOver(f, {}) = 0
<1>1. IsFold(FoldOf(f, {}), f, {})
  BY FoldExists, FS_EmptySet
<1>. QED BY <1>1, SumIsFold DEF IsFold

\* By the order of the fold.
LEMMA SumPicks ==
  ASSUME NEW f, NEW S, IsFiniteSet(S), S # {}
  PROVE  Chosen(S) \in S /\ SumOver(f, S) = f[Chosen(S)] + SumOver(f, S \ {Chosen(S)})
<1>. DEFINE T == S \ {Chosen(S)}
<1>1. IsFiniteSet(T) /\ T \in SUBSET S
  BY FS_Subset
<1>2. IsFold(FoldOf(f, S), f, S) /\ IsFold(FoldOf(f, T), f, T)
  BY <1>1, FoldExists
<1>3. FoldOf(f, S)[T] = FoldOf(f, T)[T]
  <2>. HIDE DEF T
  <2>1. ASSUME NEW p, NEW q, IsFold(p, f, S), IsFold(q, f, T) PROVE p[T] = q[T]
    <3>1. \A s \in SUBSET S : s \in SUBSET T => p[s] = q[s]
      BY <2>1, <1>1, FoldsAgree
    <3>. QED BY <3>1, <1>1
  <2>. QED BY <1>2, <2>1
<1>4. FoldOf(f, S)[S] = f[Chosen(S)] + FoldOf(f, S)[T]
  BY <1>2 DEF IsFold
<1>. QED BY <1>3, <1>4, SumIsFold DEF Chosen

LEMMA SumInt ==
  ASSUME NEW S, IsFiniteSet(S), NEW f, \A x \in S : f[x] \in Int
  PROVE  SumOver(f, S) \in Int
<1>. DEFINE Bad == {s \in SUBSET S : SumOver(f, s) \notin Int}
<1>1. SUFFICES ASSUME Bad # {} PROVE FALSE
  BY FS_Subset
<1>2. PICK s \in Bad : \A t \in Bad : t \subseteq s => t = s
  <2>1. Bad \in SUBSET SUBSET S
    OBVIOUS
  <2>. HIDE DEF Bad
  <2>. QED BY <2>1, <1>1, SmallestSubset
<1>3. s # {} /\ s \in SUBSET S /\ IsFiniteSet(s)
  <2>1. SumOver(f, {}) = 0
    BY SumEmpty
  <2>. QED BY <2>1, <1>2, FS_Subset
<1>4. Chosen(s) \in s /\ SumOver(f, s) = f[Chosen(s)] + SumOver(f, s \ {Chosen(s)})
  BY <1>3, SumPicks
<1>5. SumOver(f, s \ {Chosen(s)}) \in Int
  BY <1>2, <1>3, <1>4
<1>. QED BY <1>2, <1>3, <1>4, <1>5

\* What a sum is of: the elements, and nothing else of the function.
LEMMA SumAgrees ==
  ASSUME NEW S, IsFiniteSet(S), NEW f, NEW g, \A x \in S : f[x] = g[x]
  PROVE  SumOver(f, S) = SumOver(g, S)
<1>. DEFINE Bad == {s \in SUBSET S : SumOver(f, s) # SumOver(g, s)}
<1>1. SUFFICES ASSUME Bad # {} PROVE FALSE
  BY FS_Subset
<1>2. PICK s \in Bad : \A t \in Bad : t \subseteq s => t = s
  <2>1. Bad \in SUBSET SUBSET S
    OBVIOUS
  <2>. HIDE DEF Bad
  <2>. QED BY <2>1, <1>1, SmallestSubset
<1>3. s # {} /\ s \in SUBSET S /\ IsFiniteSet(s)
  BY <1>2, SumEmpty, FS_Subset
<1>4. /\ Chosen(s) \in s /\ SumOver(f, s) = f[Chosen(s)] + SumOver(f, s \ {Chosen(s)})
      /\ SumOver(g, s) = g[Chosen(s)] + SumOver(g, s \ {Chosen(s)})
  BY <1>3, SumPicks
<1>5. SumOver(f, s \ {Chosen(s)}) = SumOver(g, s \ {Chosen(s)})
  BY <1>2, <1>3, <1>4
<1>. QED BY <1>2, <1>3, <1>4, <1>5

\* In whichever order: any element can be taken first.
LEMMA SumTakes ==
  ASSUME NEW S, IsFiniteSet(S), NEW f, \A x \in S : f[x] \in Int, NEW a \in S
  PROVE  SumOver(f, S) = f[a] + SumOver(f, S \ {a})
<1>. DEFINE Bad == {s \in SUBSET S : \E b \in s : SumOver(f, s) # f[b] + SumOver(f, s \ {b})}
<1>1. SUFFICES ASSUME Bad # {} PROVE FALSE
  BY FS_Subset
<1>2. PICK s \in Bad : \A t \in Bad : t \subseteq s => t = s
  <2>1. Bad \in SUBSET SUBSET S
    OBVIOUS
  <2>. HIDE DEF Bad
  <2>. QED BY <2>1, <1>1, SmallestSubset
<1>3. PICK b \in s : SumOver(f, s) # f[b] + SumOver(f, s \ {b})
  BY <1>2
<1>4. s \in SUBSET S /\ IsFiniteSet(s)
  BY <1>2, FS_Subset
<1>. DEFINE c == Chosen(s)
            t == s \ {c}
            v == s \ {b}
            u == t \ {b}
<1>5. c \in s /\ SumOver(f, s) = f[c] + SumOver(f, t)
  BY <1>3, <1>4, SumPicks
<1>6. c # b
  BY <1>3, <1>5
<1>7. SumOver(f, t) = f[b] + SumOver(f, u)
  <2>1. t \in SUBSET S /\ t \subseteq s /\ t # s /\ b \in t
    BY <1>3, <1>4, <1>5, <1>6
  <2>. HIDE DEF t
  <2>. QED BY <2>1, <1>2
<1>8. SumOver(f, v) = f[c] + SumOver(f, u)
  <2>1. v \in SUBSET S /\ v \subseteq s /\ v # s /\ c \in v /\ u = v \ {c}
    BY <1>3, <1>4, <1>5, <1>6
  <2>. HIDE DEF v, u, c
  <2>. QED BY <2>1, <1>2
<1>9. SumOver(f, u) \in Int /\ f[b] \in Int /\ f[c] \in Int
  <2>1. IsFiniteSet(u) /\ u \subseteq S
    BY <1>4, FS_Subset
  <2>. QED BY <2>1, <1>3, <1>4, <1>5, SumInt
<1>. HIDE DEF c, t, u, v
<1>10. SumOver(f, s) = f[b] + SumOver(f, v)
  BY <1>5, <1>7, <1>8, <1>9
<1>. QED BY <1>3, <1>10 DEF v

LEMMA SumOne ==
  ASSUME NEW f, NEW a, f[a] \in Int
  PROVE  SumOver(f, {a}) = f[a]
<1>1. IsFiniteSet({a}) /\ {a} \ {a} = {}
  BY FS_Singleton
<1>2. SumOver(f, {a}) = f[a] + SumOver(f, {a} \ {a})
  BY <1>1, SumTakes
<1>. QED BY <1>1, <1>2, SumEmpty

\* The sum moves by what one element does.
LEMMA SumChanges ==
  ASSUME NEW S, IsFiniteSet(S), NEW f, \A x \in S : f[x] \in Int, NEW a \in S,
         NEW g, g[a] \in Int, \A x \in S \ {a} : g[x] = f[x]
  PROVE  SumOver(g, S) = SumOver(f, S) + (g[a] - f[a])
<1>. DEFINE T == S \ {a}
<1>1. IsFiniteSet(T) /\ (\A x \in T : g[x] = f[x] /\ f[x] \in Int)
  BY FS_Subset
<1>2. SumOver(g, T) = SumOver(f, T) /\ SumOver(f, T) \in Int
  <2>. HIDE DEF T
  <2>1. SumOver(g, T) = SumOver(f, T)
    BY <1>1, SumAgrees
  <2>2. SumOver(f, T) \in Int
    BY <1>1, SumInt
  <2>. QED BY <2>1, <2>2
<1>3. SumOver(f, S) = f[a] + SumOver(f, T)
  BY SumTakes
<1>4. SumOver(g, S) = g[a] + SumOver(g, T)
  <2>1. \A x \in S : g[x] \in Int
    OBVIOUS
  <2>. QED BY <2>1, SumTakes
<1>5. f[a] \in Int
  OBVIOUS
<1>. HIDE DEF T
<1>. QED BY <1>2, <1>3, <1>4, <1>5

LEMMA SumAtMost ==
  ASSUME NEW S, IsFiniteSet(S), NEW f, NEW g,
         \A x \in S : f[x] \in Int /\ g[x] \in Int /\ f[x] <= g[x]
  PROVE  SumOver(f, S) <= SumOver(g, S)
<1>. DEFINE Bad == {s \in SUBSET S : ~(SumOver(f, s) <= SumOver(g, s))}
<1>1. SUFFICES ASSUME Bad # {} PROVE FALSE
  BY FS_Subset
<1>2. PICK s \in Bad : \A t \in Bad : t \subseteq s => t = s
  <2>1. Bad \in SUBSET SUBSET S
    OBVIOUS
  <2>. HIDE DEF Bad
  <2>. QED BY <2>1, <1>1, SmallestSubset
<1>3. s # {} /\ s \in SUBSET S /\ IsFiniteSet(s)
  <2>1. SumOver(f, {}) = 0 /\ SumOver(g, {}) = 0
    BY SumEmpty
  <2>2. s \in SUBSET S /\ ~(SumOver(f, s) <= SumOver(g, s))
    BY <1>2
  <2>3. ASSUME s = {} PROVE FALSE
    <3>1. ~(SumOver(f, {}) <= SumOver(g, {}))
      BY <2>2, <2>3
    <3>. QED BY <3>1, <2>1
  <2>. QED BY <2>2, <2>3, FS_Subset
<1>. DEFINE c == Chosen(s)
            t == s \ {c}
<1>4. c \in s /\ SumOver(f, s) = f[c] + SumOver(f, t) /\ SumOver(g, s) = g[c] + SumOver(g, t)
  BY <1>3, SumPicks
<1>5. SumOver(f, t) <= SumOver(g, t)
  BY <1>2, <1>3, <1>4
<1>6. SumOver(f, t) \in Int /\ SumOver(g, t) \in Int /\ f[c] \in Int /\ g[c] \in Int /\ f[c] <= g[c]
  <2>1. IsFiniteSet(t) /\ t \subseteq S
    BY <1>3, FS_Subset
  <2>. HIDE DEF t
  <2>. QED BY <2>1, <1>3, <1>4, SumInt
<1>7. SumOver(f, s) <= SumOver(g, s)
  <2>. HIDE DEF t, c
  <2>. QED BY <1>4, <1>5, <1>6
<1>. QED BY <1>2, <1>7

LEMMA SumNat ==
  ASSUME NEW S, IsFiniteSet(S), NEW f, \A x \in S : f[x] \in Nat
  PROVE  SumOver(f, S) \in Nat
<1>. DEFINE Bad == {s \in SUBSET S : SumOver(f, s) \notin Nat}
<1>1. SUFFICES ASSUME Bad # {} PROVE FALSE
  BY FS_Subset
<1>2. PICK s \in Bad : \A t \in Bad : t \subseteq s => t = s
  <2>1. Bad \in SUBSET SUBSET S
    OBVIOUS
  <2>. HIDE DEF Bad
  <2>. QED BY <2>1, <1>1, SmallestSubset
<1>3. s # {} /\ s \in SUBSET S /\ IsFiniteSet(s)
  <2>1. SumOver(f, {}) = 0
    BY SumEmpty
  <2>2. s \in SUBSET S /\ ~(SumOver(f, s) \in Nat)
    BY <1>2
  <2>3. ASSUME s = {} PROVE FALSE
    <3>1. ~(SumOver(f, {}) \in Nat)
      BY <2>2, <2>3
    <3>. QED BY <3>1, <2>1
  <2>. QED BY <2>2, <2>3, FS_Subset
<1>4. Chosen(s) \in s /\ SumOver(f, s) = f[Chosen(s)] + SumOver(f, s \ {Chosen(s)})
  BY <1>3, SumPicks
<1>5. SumOver(f, s \ {Chosen(s)}) \in Nat
  BY <1>2, <1>3, <1>4
<1>. QED BY <1>2, <1>3, <1>4, <1>5

\* No element is more than a sum of whole amounts.
LEMMA SumBoundsEach ==
  ASSUME NEW S, IsFiniteSet(S), NEW f, \A x \in S : f[x] \in Nat, NEW a \in S
  PROVE  f[a] <= SumOver(f, S)
<1>1. SumOver(f, S) = f[a] + SumOver(f, S \ {a})
  BY SumTakes
<1>2. SumOver(f, S \ {a}) \in Nat
  BY SumNat, FS_Subset
<1>. QED BY <1>1, <1>2

LEMMA SumZero ==
  ASSUME NEW S, IsFiniteSet(S), NEW f, \A x \in S : f[x] = 0
  PROVE  SumOver(f, S) = 0
<1>. DEFINE Bad == {s \in SUBSET S : SumOver(f, s) # 0}
<1>1. SUFFICES ASSUME Bad # {} PROVE FALSE
  BY FS_Subset
<1>2. PICK s \in Bad : \A t \in Bad : t \subseteq s => t = s
  <2>1. Bad \in SUBSET SUBSET S
    OBVIOUS
  <2>. HIDE DEF Bad
  <2>. QED BY <2>1, <1>1, SmallestSubset
<1>3. s # {} /\ s \in SUBSET S /\ IsFiniteSet(s)
  <2>1. SumOver(f, {}) = 0
    BY SumEmpty
  <2>. QED BY <2>1, <1>2, FS_Subset
<1>4. Chosen(s) \in s /\ SumOver(f, s) = f[Chosen(s)] + SumOver(f, s \ {Chosen(s)})
  BY <1>3, SumPicks
<1>5. SumOver(f, s \ {Chosen(s)}) = 0
  BY <1>2, <1>3, <1>4
<1>. QED BY <1>2, <1>3, <1>4, <1>5

\* The sum of two sums.
LEMMA SumAdds ==
  ASSUME NEW S, IsFiniteSet(S), NEW f, NEW g, NEW h,
         \A x \in S : f[x] \in Int /\ g[x] \in Int /\ h[x] = f[x] + g[x]
  PROVE  SumOver(h, S) = SumOver(f, S) + SumOver(g, S)
<1>. DEFINE Bad == {s \in SUBSET S : ~(SumOver(h, s) = SumOver(f, s) + SumOver(g, s))}
<1>1. SUFFICES ASSUME Bad # {} PROVE FALSE
  BY FS_Subset
<1>2. PICK s \in Bad : \A t \in Bad : t \subseteq s => t = s
  <2>1. Bad \in SUBSET SUBSET S
    OBVIOUS
  <2>. HIDE DEF Bad
  <2>. QED BY <2>1, <1>1, SmallestSubset
<1>3. s \in SUBSET S /\ IsFiniteSet(s) /\ ~(SumOver(h, s) = SumOver(f, s) + SumOver(g, s))
  BY <1>2, FS_Subset
<1>4. s # {}
  <2>1. SumOver(f, {}) = 0 /\ SumOver(g, {}) = 0 /\ SumOver(h, {}) = 0
    BY SumEmpty
  <2>2. SumOver(h, {}) = SumOver(f, {}) + SumOver(g, {})
    BY <2>1
  <2>. QED BY <2>2, <1>3
<1>. DEFINE c == Chosen(s)
            r == s \ {c}
<1>5. /\ c \in s /\ r \in SUBSET S /\ r # s /\ r \subseteq s /\ IsFiniteSet(r) /\ c \notin r
      /\ SumOver(f, s) = f[c] + SumOver(f, r)
      /\ SumOver(g, s) = g[c] + SumOver(g, r)
      /\ SumOver(h, s) = h[c] + SumOver(h, r)
  BY <1>3, <1>4, SumPicks, FS_Subset
<1>6. SumOver(h, r) = SumOver(f, r) + SumOver(g, r)
  <2>1. r \notin Bad
    BY <1>2, <1>5
  <2>. QED BY <2>1, <1>5
<1>. HIDE DEF c, r, Bad
<1>7. SumOver(f, r) \in Int /\ SumOver(g, r) \in Int
  BY <1>5, SumInt
<1>8. f[c] \in Int /\ g[c] \in Int /\ h[c] = f[c] + g[c]
  BY <1>3, <1>5
<1>9. SumOver(h, s) = SumOver(f, s) + SumOver(g, s)
  BY <1>5, <1>6, <1>7, <1>8
<1>. QED BY <1>3, <1>9


LEMMA SumScales ==
  ASSUME NEW S, IsFiniteSet(S), NEW k \in Int, NEW f, NEW g,
         \A x \in S : f[x] \in Int /\ g[x] = k * f[x]
  PROVE  SumOver(g, S) = k * SumOver(f, S)
<1>. DEFINE Bad == {s \in SUBSET S : ~(SumOver(g, s) = k * SumOver(f, s))}
<1>1. SUFFICES ASSUME Bad # {} PROVE FALSE
  BY FS_Subset
<1>2. PICK s \in Bad : \A t \in Bad : t \subseteq s => t = s
  <2>1. Bad \in SUBSET SUBSET S
    OBVIOUS
  <2>. HIDE DEF Bad
  <2>. QED BY <2>1, <1>1, SmallestSubset
<1>3. s \in SUBSET S /\ IsFiniteSet(s) /\ ~(SumOver(g, s) = k * SumOver(f, s))
  BY <1>2, FS_Subset
<1>4. s # {}
  <2>1. SumOver(f, {}) = 0 /\ SumOver(g, {}) = 0
    BY SumEmpty
  <2>2. SumOver(g, {}) = k * SumOver(f, {})
    BY <2>1
  <2>. QED BY <2>2, <1>3
<1>. DEFINE c == Chosen(s)
            r == s \ {c}
<1>5. /\ c \in s /\ r \in SUBSET S /\ r # s /\ r \subseteq s /\ IsFiniteSet(r) /\ c \notin r
      /\ SumOver(f, s) = f[c] + SumOver(f, r)
      /\ SumOver(g, s) = g[c] + SumOver(g, r)
  BY <1>3, <1>4, SumPicks, FS_Subset
<1>6. SumOver(g, r) = k * SumOver(f, r)
  <2>1. r \notin Bad
    BY <1>2, <1>5
  <2>. QED BY <2>1, <1>5
<1>. HIDE DEF c, r, Bad
<1>7. SumOver(f, r) \in Int
  BY <1>5, SumInt
<1>8. f[c] \in Int /\ g[c] = k * f[c]
  BY <1>3, <1>5
<1>9. SumOver(g, s) = k * SumOver(f, s)
  BY <1>5, <1>6, <1>7, <1>8
<1>. QED BY <1>3, <1>9


LEMMA SumOfEqual ==
  ASSUME NEW S, IsFiniteSet(S), NEW k \in Int, NEW f, \A x \in S : f[x] = k
  PROVE  SumOver(f, S) = k * Cardinality(S)
<1>. DEFINE Bad == {s \in SUBSET S : ~(SumOver(f, s) = k * Cardinality(s))}
<1>1. SUFFICES ASSUME Bad # {} PROVE FALSE
  BY FS_Subset
<1>2. PICK s \in Bad : \A t \in Bad : t \subseteq s => t = s
  <2>1. Bad \in SUBSET SUBSET S
    OBVIOUS
  <2>. HIDE DEF Bad
  <2>. QED BY <2>1, <1>1, SmallestSubset
<1>3. s \in SUBSET S /\ IsFiniteSet(s) /\ ~(SumOver(f, s) = k * Cardinality(s))
  BY <1>2, FS_Subset
<1>4. s # {}
  <2>1. SumOver(f, {}) = 0 /\ Cardinality({}) = 0
    BY SumEmpty, FS_EmptySet
  <2>2. SumOver(f, {}) = k * Cardinality({})
    BY <2>1
  <2>. QED BY <2>2, <1>3
<1>. DEFINE c == Chosen(s)
            r == s \ {c}
<1>5. /\ c \in s /\ r \in SUBSET S /\ r # s /\ r \subseteq s /\ IsFiniteSet(r) /\ c \notin r
      /\ SumOver(f, s) = f[c] + SumOver(f, r)
  BY <1>3, <1>4, SumPicks, FS_Subset
<1>6. SumOver(f, r) = k * Cardinality(r)
  <2>1. r \notin Bad
    BY <1>2, <1>5
  <2>. QED BY <2>1, <1>5
<1>. HIDE DEF c, r, Bad
<1>7. Cardinality(r) \in Nat /\ Cardinality(s) = Cardinality(r) + 1
  <2>1. s = r \cup {c}
    BY <1>5 DEF r
  <2>. QED BY <2>1, <1>5, FS_AddElement, FS_CardinalityType
<1>8. f[c] = k
  BY <1>3, <1>5
<1>9. SumOver(f, s) = k * Cardinality(s)
  BY <1>5, <1>6, <1>7, <1>8
<1>. QED BY <1>3, <1>9


\* A sum can be taken in two parts.
LEMMA SumSplits ==
  ASSUME NEW S, IsFiniteSet(S), NEW f, \A x \in S : f[x] \in Int, NEW T \in SUBSET S
  PROVE  SumOver(f, S) = SumOver(f, T) + SumOver(f, S \ T)
<1>. DEFINE Bad == {s \in SUBSET S : ~(SumOver(f, S) = SumOver(f, s) + SumOver(f, S \ s))}
<1>1. SUFFICES ASSUME Bad # {} PROVE FALSE
  BY FS_Subset
<1>2. PICK s \in Bad : \A t \in Bad : t \subseteq s => t = s
  <2>1. Bad \in SUBSET SUBSET S
    OBVIOUS
  <2>. HIDE DEF Bad
  <2>. QED BY <2>1, <1>1, SmallestSubset
<1>3. s \in SUBSET S /\ IsFiniteSet(s) /\ ~(SumOver(f, S) = SumOver(f, s) + SumOver(f, S \ s))
  BY <1>2, FS_Subset
<1>4. s # {}
  <2>1. SumOver(f, {}) = 0 /\ SumOver(f, S) \in Int
    BY SumEmpty, SumInt
  <2>2. SumOver(f, S) = SumOver(f, {}) + SumOver(f, S)
    BY <2>1
  <2>3. S \ {} = S
    OBVIOUS
  <2>4. SumOver(f, S) = SumOver(f, {}) + SumOver(f, S \ {})
    BY <2>2, <2>3
  <2>. QED BY <2>4, <1>3
<1>. DEFINE c == Chosen(s)
            r == s \ {c}
<1>5. /\ c \in s /\ r \in SUBSET S /\ r # s /\ r \subseteq s /\ IsFiniteSet(r) /\ c \notin r
      /\ SumOver(f, s) = f[c] + SumOver(f, r)
  BY <1>3, <1>4, SumPicks, FS_Subset
<1>6. SumOver(f, S) = SumOver(f, r) + SumOver(f, S \ r)
  <2>1. r \notin Bad
    BY <1>2, <1>5
  <2>. QED BY <2>1, <1>5
<1>. HIDE DEF c, r, Bad
<1>7. SumOver(f, S \ r) = f[c] + SumOver(f, S \ s)
  <2>1. IsFiniteSet(S \ r) /\ c \in S \ r /\ (S \ r) \ {c} = S \ s
    BY <1>3, <1>5, FS_Subset DEF r
  <2>2. \A x \in S \ r : f[x] \in Int
    OBVIOUS
  <2>3. SumOver(f, S \ r) = f[c] + SumOver(f, (S \ r) \ {c})
    BY <2>1, <2>2, SumTakes
  <2>. QED BY <2>1, <2>3
<1>8. f[c] \in Int
  BY <1>3, <1>5
<1>9. SumOver(f, r) \in Int /\ SumOver(f, S \ s) \in Int
  <2>1. IsFiniteSet(S \ s)
    BY FS_Subset
  <2>. QED BY <2>1, <1>5, SumInt
<1>10. SumOver(f, S) = SumOver(f, s) + SumOver(f, S \ s)
  BY <1>5, <1>6, <1>7, <1>8, <1>9
<1>. QED BY <1>3, <1>10


LEMMA ImageFinite ==
  ASSUME NEW S, IsFiniteSet(S), NEW h
  PROVE  IsFiniteSet({h[x] : x \in S})
<1>. DEFINE T == {h[x] : x \in S}
            f == [x \in S |-> h[x]]
<1>1. f \in Surjection(S, T)
  BY DEF Surjection
<1>. HIDE DEF f, T
<1>2. IsFiniteSet(T)
  BY <1>1, FS_Surjection
<1>. QED BY <1>2 DEF T

\* The sum does not depend on the names of what is summed.
LEMMA SumMoves ==
  ASSUME NEW S, IsFiniteSet(S), NEW h, \A x, y \in S : h[x] = h[y] => x = y,
         NEW f, \A x \in S : f[h[x]] \in Int, NEW g, \A x \in S : g[x] = f[h[x]]
  PROVE  SumOver(g, S) = SumOver(f, {h[x] : x \in S})
<1>. DEFINE Bad == {s \in SUBSET S : ~(SumOver(g, s) = SumOver(f, {h[x] : x \in s}))}
<1>1. SUFFICES ASSUME Bad # {} PROVE FALSE
  BY FS_Subset
<1>2. PICK s \in Bad : \A t \in Bad : t \subseteq s => t = s
  <2>1. Bad \in SUBSET SUBSET S
    OBVIOUS
  <2>. HIDE DEF Bad
  <2>. QED BY <2>1, <1>1, SmallestSubset
<1>3. s \in SUBSET S /\ IsFiniteSet(s) /\ ~(SumOver(g, s) = SumOver(f, {h[x] : x \in s}))
  BY <1>2, FS_Subset
<1>4. s # {}
  <2>1. {h[x] : x \in {}} = {}
    OBVIOUS
  <2>2. SumOver(f, {}) = 0 /\ SumOver(g, {}) = 0
    BY SumEmpty
  <2>. QED BY <2>1, <2>2, <1>3
<1>. DEFINE c == Chosen(s)
            r == s \ {c}
<1>5. /\ c \in s /\ r \in SUBSET S /\ r # s /\ r \subseteq s /\ IsFiniteSet(r) /\ c \notin r
      /\ SumOver(g, s) = g[c] + SumOver(g, r)
  BY <1>3, <1>4, SumPicks, FS_Subset
<1>6. SumOver(g, r) = SumOver(f, {h[x] : x \in r})
  <2>1. r \notin Bad
    BY <1>2, <1>5
  <2>. QED BY <2>1, <1>5
<1>. HIDE DEF c, r, Bad
<1>. DEFINE H == {h[x] : x \in s}
            K == {h[x] : x \in r}
<1>7. SumOver(f, H) = f[h[c]] + SumOver(f, K)
  <2>1. IsFiniteSet(H)
    BY <1>3, ImageFinite
  <2>2. h[c] \in H /\ K = H \ {h[c]} /\ \A y \in H : f[y] \in Int
    BY <1>3, <1>5 DEF r
  <2>. HIDE DEF H, K
  <2>3. SumOver(f, H) = f[h[c]] + SumOver(f, H \ {h[c]})
    BY <2>1, <2>2, SumTakes
  <2>. QED BY <2>2, <2>3
<1>8. g[c] = f[h[c]]
  BY <1>3, <1>5
<1>. QED BY <1>3, <1>5, <1>6, <1>7, <1>8

-----------------------------------------------------------------------------
(* Places in an order.                                                     *)

Place(R, S) == [i \in S |-> Cardinality({j \in S : <<j, i>> \in R})]

\* In a strict order of a finite set, the places run from 0 up, one each.
LEMMA PlacesFill ==
  ASSUME NEW S, IsFiniteSet(S), NEW R,
         \A i \in S : <<i, i>> \notin R,
         \A i, j, k \in S : <<i, j>> \in R /\ <<j, k>> \in R => <<i, k>> \in R,
         \A i, j \in S : i # j => <<i, j>> \in R \/ <<j, i>> \in R
  PROVE  /\ \A i \in S : Place(R, S)[i] \in Nat
         /\ \A k \in 0 .. Cardinality(S) :
              Cardinality({i \in S : Place(R, S)[i] < k}) = k
<1>. DEFINE Before(i) == {j \in S : <<j, i>> \in R}
            n == Cardinality(S)
            f == Place(R, S)
<1>0. n \in Nat
  BY FS_CardinalityType
<1>1. \A i \in S : IsFiniteSet(Before(i)) /\ Cardinality(Before(i)) \in Nat /\ f[i] = Cardinality(Before(i))
  BY FS_Subset, FS_CardinalityType DEF Place
<1>2. ASSUME NEW i \in S, NEW j \in S, <<i, j>> \in R
      PROVE  Cardinality(Before(i)) < Cardinality(Before(j))
  <2>1. Before(i) \in SUBSET Before(j) /\ Before(i) # Before(j)
    BY <1>2
  <2>2. IsFiniteSet(Before(j)) /\ Cardinality(Before(i)) \in Nat /\ Cardinality(Before(j)) \in Nat
    BY <1>1
  <2>. DEFINE p == Before(i)
              q == Before(j)
  <2>. HIDE DEF p, q
  <2>3. p \in SUBSET q /\ p # q /\ IsFiniteSet(q) /\ Cardinality(p) \in Nat /\ Cardinality(q) \in Nat
    BY <2>1, <2>2 DEF p, q
  <2>4. Cardinality(p) <= Cardinality(q) /\ Cardinality(p) # Cardinality(q)
    BY <2>3, FS_Subset
  <2>5. Cardinality(p) < Cardinality(q)
    BY <2>3, <2>4
  <2>. QED BY <2>5 DEF p, q
<1>3. ASSUME NEW i \in S PROVE Cardinality(Before(i)) < n
  <2>1. Before(i) \in SUBSET S /\ i \notin Before(i) /\ i \in S
    OBVIOUS
  <2>. DEFINE p == Before(i)
  <2>. HIDE DEF p
  <2>2. p \in SUBSET S /\ p # S /\ Cardinality(p) \in Nat
    BY <2>1, <1>1 DEF p
  <2>3. Cardinality(p) <= Cardinality(S) /\ Cardinality(p) # Cardinality(S)
    BY <2>2, FS_Subset
  <2>4. Cardinality(p) < n
    BY <2>2, <2>3, <1>0
  <2>. QED BY <2>4 DEF p
<1>. HIDE DEF f, n
<1>4. \A i \in S : f[i] \in Nat /\ f[i] < n
  BY <1>1, <1>3
<1>11. ASSUME NEW i \in S, NEW j \in S, <<i, j>> \in R PROVE f[i] < f[j]
  <2>1. Cardinality(Before(i)) < Cardinality(Before(j))
    BY <1>2, <1>11
  <2>2. f[i] = Cardinality(Before(i)) /\ f[j] = Cardinality(Before(j))
    BY <1>1
  <2>. HIDE DEF Before
  <2>. QED BY <2>1, <2>2
<1>5. \A i, j \in S : f[i] = f[j] => i = j
  <2>. SUFFICES ASSUME NEW i \in S, NEW j \in S, f[i] = f[j], i # j PROVE FALSE
    OBVIOUS
  <2>1. <<i, j>> \in R \/ <<j, i>> \in R
    OBVIOUS
  <2>2. f[i] < f[j] \/ f[j] < f[i]
    BY <2>1, <1>11
  <2>. QED BY <2>2, <1>4
<1>6. f \in [S -> 0 .. n - 1]
  <2>1. f = [i \in S |-> f[i]]
    BY DEF f, Place
  <2>2. \A i \in S : f[i] \in 0 .. n - 1
    BY <1>4, <1>0
  <2>. QED BY <2>1, <2>2
<1>7. f \in Injection(S, 0 .. n - 1)
  BY <1>5, <1>6 DEF Injection, IsInjective
<1>8. IsFiniteSet(0 .. n - 1) /\ Cardinality(0 .. n - 1) = n
  <2>1. 0 \in Int /\ n - 1 \in Int
    BY <1>0
  <2>2. IsFiniteSet(0 .. n - 1) /\ Cardinality(0 .. n - 1) = IF 0 > n - 1 THEN 0 ELSE (n - 1) - 0 + 1
    BY <2>1, FS_Interval
  <2>3. (IF 0 > n - 1 THEN 0 ELSE (n - 1) - 0 + 1) = n
    BY <1>0
  <2>. QED BY <2>2, <2>3
<1>9. f \in Surjection(S, 0 .. n - 1)
  BY <1>7, <1>8, FS_Injection DEF n
<1>10. ASSUME NEW k \in 0 .. n PROVE Cardinality({i \in S : f[i] < k}) = k
  <2>. DEFINE T == {i \in S : f[i] < k}
              g == [i \in T |-> f[i]]
  <2>1. k \in Nat /\ \A m \in 0 .. k - 1 : m \in 0 .. n - 1 /\ m < k
    BY <1>0
  <2>2. g \in [T -> 0 .. k - 1]
    BY <1>4, <2>1
  <2>3. g \in Injection(T, 0 .. k - 1)
    BY <2>2, <1>5 DEF Injection, IsInjective
  <2>4. g \in Surjection(T, 0 .. k - 1)
    <3>1. ASSUME NEW m \in 0 .. k - 1 PROVE \E i \in T : g[i] = m
      <4>1. PICK i \in S : f[i] = m
        BY <2>1, <1>9 DEF Surjection
      <4>. QED BY <4>1, <2>1
    <3>. QED BY <3>1, <2>2 DEF Surjection
  <2>5. IsFiniteSet(T)
    BY FS_Subset
  <2>6. ExistsBijection(T, 0 .. k - 1)
    BY <2>3, <2>4 DEF ExistsBijection, Bijection
  <2>7. Cardinality(0 .. k - 1) = Cardinality(T)
    <3>. HIDE DEF T, g
    <3>. QED BY <2>5, <2>6, FS_Bijection
  <2>8. Cardinality(0 .. k - 1) = k
    <3>1. 0 \in Int /\ k - 1 \in Int
      BY <2>1
    <3>2. Cardinality(0 .. k - 1) = IF 0 > k - 1 THEN 0 ELSE (k - 1) - 0 + 1
      BY <3>1, FS_Interval
    <3>3. (IF 0 > k - 1 THEN 0 ELSE (k - 1) - 0 + 1) = k
      BY <2>1
    <3>. QED BY <3>2, <3>3
  <2>. QED BY <2>7, <2>8
<1>. QED BY <1>4, <1>10 DEF f, n

=============================================================================
