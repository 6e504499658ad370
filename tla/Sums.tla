-------------------------------- MODULE Sums --------------------------------
(***************************************************************************)
(* What a sum over a finite set is, and how it changes.  The sums are      *)
(* those of the community module Functions, which fold with a function     *)
(* defined over the set's subsets.  There is no induction here: of the     *)
(* finite sets that break a rule a smallest one is taken, and shown to     *)
(* have a smaller one in it.                                               *)
(***************************************************************************)
EXTENDS Integers, Functions, FiniteSetTheorems, TLAPS

\* Of the sets of subsets that break a rule, one has no smaller one in it: what
\* holds of a finite set if it holds of its proper subsets holds of all.
LEMMA SmallestSubset ==
  ASSUME NEW S, IsFiniteSet(S), NEW Bad, Bad \subseteq SUBSET S, Bad # {}
  PROVE  \E U \in Bad : \A V \in Bad : V \subseteq U => V = U
<1> DEFINE R == StrictSubsetOrdering(S)
<1>1. Bad \subseteq FiniteSubsetsOf(S)
  BY FS_Subset DEF FiniteSubsetsOf
<1>2. IsWellFoundedOn(R, FiniteSubsetsOf(S))
  BY FS_StrictSubsetOrderingWellFounded
<1>3. PICK U \in Bad : \A V \in Bad : <<V, U>> \notin R
  <2> HIDE DEF R
  <2> QED
    BY <1>1, <1>2, WFMin
<1>4. \A V \in Bad : V \subseteq U => V = U
  BY <1>3 DEF StrictSubsetOrdering
<1> QED
  BY <1>4

\* The function SumFunctionOnSet folds with: each set's sum from that of the set
\* without its first member.
First(t) == CHOOSE x \in t : TRUE
Adds(g, f, S) ==
  g = [t \in SUBSET S |-> IF t = {} THEN 0 ELSE f[First(t)] + g[t \ {First(t)}]]
Adder(f, S) == CHOOSE g : Adds(g, f, S)

LEMMA FirstIn == ASSUME NEW t, t # {} PROVE First(t) \in t
  BY DEF First

LEMMA SumDefined ==
  ASSUME NEW f, NEW S
  PROVE  SumFunctionOnSet(f, S) = Adder(f, S)[S]
  BY DEF SumFunctionOnSet, FoldFunctionOnSet, MapThenFoldSet, Adder, Adds, First

\* Two such functions, for functions that agree, agree where both are defined.
LEMMA AddersAgree ==
  ASSUME NEW f, NEW h, NEW V, NEW W, NEW g, NEW k, Adds(g, f, V), Adds(k, h, W),
         NEW S, S \subseteq V \cap W, IsFiniteSet(S), \A x \in S : f[x] = h[x]
  PROVE  g[S] = k[S]
<1> DEFINE Bad == {t \in SUBSET S : g[t] # k[t]}
<1> SUFFICES ASSUME Bad # {} PROVE FALSE
  OBVIOUS
<1>1. PICK U \in Bad : \A t \in Bad : t \subseteq U => t = U
  <2> HIDE DEF Bad
  <2>1. Bad \subseteq SUBSET S
    BY DEF Bad
  <2> QED
    BY <2>1, SmallestSubset
<1>2. /\ g[U] = IF U = {} THEN 0 ELSE f[First(U)] + g[U \ {First(U)}]
      /\ k[U] = IF U = {} THEN 0 ELSE h[First(U)] + k[U \ {First(U)}]
  <2>1. U \in SUBSET V /\ U \in SUBSET W
    OBVIOUS
  <2> QED
    BY <2>1 DEF Adds
<1>3. U # {} /\ First(U) \in U
  BY <1>2, FirstIn
<1>4. g[U \ {First(U)}] = k[U \ {First(U)}]
  BY <1>1, <1>3
<1> QED
  BY <1>2, <1>3, <1>4

\* There is one for every finite set: it takes each proper subset's own.
LEMMA AdderExists ==
  ASSUME NEW f, NEW S, IsFiniteSet(S)
  PROVE  Adds(Adder(f, S), f, S)
<1> DEFINE Bad == {t \in SUBSET S : ~\E g : Adds(g, f, t)}
<1> SUFFICES ASSUME Bad # {} PROVE FALSE
  BY DEF Adder
<1>1. PICK U \in Bad : \A t \in Bad : t \subseteq U => t = U
  <2> HIDE DEF Bad
  <2>1. Bad \subseteq SUBSET S
    BY DEF Bad
  <2> QED
    BY <2>1, SmallestSubset
<1>2. \A t : t \subseteq U /\ t # U => Adds(Adder(f, t), f, t)
  BY <1>1 DEF Adder
<1> DEFINE rest(t) == t \ {First(t)}
           g == [t \in SUBSET U |-> IF t = {} THEN 0
                                    ELSE f[First(t)] + Adder(f, rest(t))[rest(t)]]
<1>3. ASSUME NEW t \in SUBSET U, t # {}
      PROVE  g[rest(t)] = Adder(f, rest(t))[rest(t)]
  <2> DEFINE v == rest(t)
  <2>1. v \subseteq U /\ v # U /\ IsFiniteSet(v)
    BY <1>3, FirstIn, FS_Subset
  <2>2. Adds(Adder(f, v), f, v)
    BY <1>2, <2>1
  <2>3. Adder(f, v)[v] = IF v = {} THEN 0 ELSE f[First(v)] + Adder(f, v)[rest(v)]
    <3> DEFINE a == Adder(f, v)
    <3>1. Adds(a, f, v) /\ v \in SUBSET v
      BY <2>2
    <3> HIDE DEF a, v
    <3> QED
      BY <3>1 DEF Adds, a
  <2>4. v # {} => Adder(f, v)[rest(v)] = Adder(f, rest(v))[rest(v)]
    <3> SUFFICES ASSUME v # {} PROVE Adder(f, v)[rest(v)] = Adder(f, rest(v))[rest(v)]
      OBVIOUS
    <3>1. rest(v) \subseteq v /\ rest(v) \subseteq U /\ rest(v) # U /\ IsFiniteSet(rest(v))
      BY <2>1, FirstIn, FS_Subset
    <3>2. Adds(Adder(f, rest(v)), f, rest(v))
      BY <1>2, <3>1
    <3> HIDE DEF rest
    <3> QED
      BY <2>2, <3>1, <3>2, AddersAgree
  <2>5. g[v] = IF v = {} THEN 0 ELSE f[First(v)] + Adder(f, rest(v))[rest(v)]
    BY <2>1
  <2> HIDE DEF g, v, rest
  <2> QED
    BY <2>3, <2>4, <2>5 DEF v
<1>4. Adds(g, f, U)
  <2>1. \A t \in SUBSET U :
          g[t] = IF t = {} THEN 0 ELSE f[First(t)] + g[t \ {First(t)}]
    BY <1>3
  <2>2. g = [t \in SUBSET U |-> g[t]]
    OBVIOUS
  <2> HIDE DEF g
  <2> QED
    BY <2>1, <2>2 DEF Adds
<1> QED
  BY <1>4

\* The sum of a set is that of the set without its first member, and its value.
LEMMA SumFirst ==
  ASSUME NEW f, NEW S, IsFiniteSet(S)
  PROVE  SumFunctionOnSet(f, S) =
           IF S = {} THEN 0 ELSE f[First(S)] + SumFunctionOnSet(f, S \ {First(S)})
<1> DEFINE rest == S \ {First(S)}
<1>1. IsFiniteSet(rest) /\ rest \subseteq S
  BY FS_Subset
<1>2. Adds(Adder(f, S), f, S) /\ Adds(Adder(f, rest), f, rest)
  BY <1>1, AdderExists
<1>3. Adder(f, S)[rest] = Adder(f, rest)[rest]
  <2> HIDE DEF rest
  <2> QED
    BY <1>1, <1>2, AddersAgree
<1>4. Adder(f, S)[S] = IF S = {} THEN 0 ELSE f[First(S)] + Adder(f, S)[rest]
  <2> DEFINE a == Adder(f, S)
  <2>1. Adds(a, f, S) /\ S \in SUBSET S
    BY <1>2
  <2> HIDE DEF a
  <2> QED
    BY <2>1 DEF Adds, a
<1> QED
  BY <1>3, <1>4, SumDefined

\* Functions that agree have the same sum.
LEMMA SumSame ==
  ASSUME NEW f, NEW h, NEW S, IsFiniteSet(S), \A x \in S : f[x] = h[x]
  PROVE  SumFunctionOnSet(f, S) = SumFunctionOnSet(h, S)
  BY AdderExists, AddersAgree, SumDefined

\* A sum of integers is one, and a sum of naturals is one.
LEMMA SumType ==
  ASSUME NEW f, NEW S, IsFiniteSet(S), NEW T \in {Nat, Int}, \A x \in S : f[x] \in T
  PROVE  SumFunctionOnSet(f, S) \in T
<1> DEFINE Bad == {t \in SUBSET S : SumFunctionOnSet(f, t) \notin T}
<1> SUFFICES ASSUME Bad # {} PROVE FALSE
  OBVIOUS
<1>1. PICK U \in Bad : \A t \in Bad : t \subseteq U => t = U
  <2> HIDE DEF Bad
  <2>1. Bad \subseteq SUBSET S
    BY DEF Bad
  <2> QED
    BY <2>1, SmallestSubset
<1>2. IsFiniteSet(U)
  BY FS_Subset
<1>3. U # {} /\ First(U) \in U
  <2>1. SumFunctionOnSet(f, U) \notin T /\ 0 \in T
    OBVIOUS
  <2> QED
    BY <1>2, <2>1, SumFirst, FirstIn
<1>4. SumFunctionOnSet(f, U \ {First(U)}) \in T /\ f[First(U)] \in T
  BY <1>1, <1>3
<1> QED
  BY <1>2, <1>3, <1>4, SumFirst

\* Any member will do as the first.
LEMMA SumWithout ==
  ASSUME NEW f, NEW S, IsFiniteSet(S), \A x \in S : f[x] \in Int, NEW x \in S
  PROVE  SumFunctionOnSet(f, S) = f[x] + SumFunctionOnSet(f, S \ {x})
<1> DEFINE Sum(t) == SumFunctionOnSet(f, t)
           Bad == {t \in SUBSET S : \E y \in t : Sum(t) # f[y] + Sum(t \ {y})}
<1> SUFFICES ASSUME Bad # {} PROVE FALSE
  OBVIOUS
<1>1. PICK U \in Bad : \A t \in Bad : t \subseteq U => t = U
  <2> HIDE DEF Bad
  <2>1. Bad \subseteq SUBSET S
    BY DEF Bad
  <2> QED
    BY <2>1, SmallestSubset
<1>2. PICK y \in U : Sum(U) # f[y] + Sum(U \ {y})
  OBVIOUS
<1> DEFINE c == First(U)
<1>3. \A t \in SUBSET S : IsFiniteSet(t) /\ Sum(t) \in Int
  <2> SUFFICES ASSUME NEW t \in SUBSET S PROVE IsFiniteSet(t) /\ Sum(t) \in Int
    OBVIOUS
  <2>1. IsFiniteSet(t) /\ \A z \in t : f[z] \in Int
    BY FS_Subset
  <2> QED
    BY <2>1, SumType
<1>4. c \in U /\ Sum(U) = f[c] + Sum(U \ {c})
  BY <1>3, FirstIn, SumFirst
<1>5. c # y
  BY <1>2, <1>4
<1>6. Sum(U \ {c}) = f[y] + Sum((U \ {c}) \ {y})
  BY <1>1, <1>4, <1>5
<1>7. Sum(U \ {y}) = f[c] + Sum((U \ {c}) \ {y})
  <2>1. (U \ {c}) \ {y} = (U \ {y}) \ {c}
    OBVIOUS
  <2> QED
    BY <1>1, <1>2, <1>4, <1>5, <2>1
<1>8. f[c] \in Int /\ f[y] \in Int /\ Sum((U \ {c}) \ {y}) \in Int
  BY <1>3, <1>4
<1>9. f[c] + (f[y] + Sum((U \ {c}) \ {y})) = f[y] + (f[c] + Sum((U \ {c}) \ {y}))
  <2> DEFINE z == Sum((U \ {c}) \ {y})
  <2>1. z \in Int
    BY <1>8
  <2> HIDE DEF z, c
  <2>2. f[c] + (f[y] + z) = f[y] + (f[c] + z)
    BY <1>8, <2>1
  <2> QED
    BY <2>2 DEF z
<1> QED
  BY <1>2, <1>4, <1>6, <1>7, <1>9

\* A sum changes by what one value changes.
LEMMA SumChanged ==
  ASSUME NEW f, NEW h, NEW S, IsFiniteSet(S), \A x \in S : f[x] \in Int /\ h[x] \in Int,
         NEW x \in S, \A y \in S \ {x} : h[y] = f[y]
  PROVE  SumFunctionOnSet(h, S) = SumFunctionOnSet(f, S) + (h[x] - f[x])
<1> DEFINE rest == S \ {x}
<1>1. IsFiniteSet(rest) /\ \A y \in rest : f[y] \in Int
  BY FS_Subset
<1>2. SumFunctionOnSet(f, rest) \in Int /\ SumFunctionOnSet(h, rest) = SumFunctionOnSet(f, rest)
  BY <1>1, SumType, SumSame
<1>3. /\ SumFunctionOnSet(f, S) = f[x] + SumFunctionOnSet(f, rest)
      /\ SumFunctionOnSet(h, S) = h[x] + SumFunctionOnSet(h, rest)
  BY SumWithout
<1> QED
  BY <1>2, <1>3

\* The sum of differences is the difference of the sums.
LEMMA SumDifference ==
  ASSUME NEW f, NEW g, NEW h, NEW S, IsFiniteSet(S),
         \A x \in S : g[x] \in Int /\ h[x] \in Int /\ f[x] = g[x] - h[x]
  PROVE  SumFunctionOnSet(f, S) = SumFunctionOnSet(g, S) - SumFunctionOnSet(h, S)
<1> DEFINE Sum(k, t) == SumFunctionOnSet(k, t)
           Bad == {t \in SUBSET S : Sum(f, t) # Sum(g, t) - Sum(h, t)}
<1> SUFFICES ASSUME Bad # {} PROVE FALSE
  OBVIOUS
<1>1. PICK U \in Bad : \A t \in Bad : t \subseteq U => t = U
  <2> HIDE DEF Bad
  <2>1. Bad \subseteq SUBSET S
    BY DEF Bad
  <2> QED
    BY <2>1, SmallestSubset
<1>2. IsFiniteSet(U)
  BY FS_Subset
<1>3. U # {} /\ First(U) \in U
  <2>1. U = {} => Sum(f, U) = 0 /\ Sum(g, U) = 0 /\ Sum(h, U) = 0
    BY <1>2, SumFirst
  <2> QED
    BY <2>1, FirstIn
<1> DEFINE c == First(U)
           rest == U \ {c}
<1>4. IsFiniteSet(rest) /\ \A x \in rest : g[x] \in Int /\ h[x] \in Int
  BY <1>2, FS_Subset
<1>5. Sum(g, rest) \in Int /\ Sum(h, rest) \in Int
  BY <1>4, SumType
<1>6. Sum(f, rest) = Sum(g, rest) - Sum(h, rest)
  BY <1>1, <1>3
<1>7. /\ Sum(f, U) = f[c] + Sum(f, rest) /\ Sum(g, U) = g[c] + Sum(g, rest)
      /\ Sum(h, U) = h[c] + Sum(h, rest)
  BY <1>2, <1>3, SumFirst
<1>8. g[c] \in Int /\ h[c] \in Int /\ f[c] = g[c] - h[c]
  BY <1>3
<1>9. Sum(f, U) = Sum(g, U) - Sum(h, U)
  <2> HIDE DEF Sum, c, rest
  <2> QED
    BY <1>5, <1>6, <1>7, <1>8
<1> QED
  BY <1>1, <1>9

\* Nothing but zeros sums up to zero.
LEMMA SumOfZeros ==
  ASSUME NEW f, NEW S, IsFiniteSet(S), \A x \in S : f[x] = 0
  PROVE  SumFunctionOnSet(f, S) = 0
<1>1. SumFunctionOnSet(f, S) \in Int
  BY SumType
<1>2. SumFunctionOnSet(f, S) = SumFunctionOnSet(f, S) - SumFunctionOnSet(f, S)
  BY SumDifference
<1> QED
  BY <1>1, <1>2
=============================================================================
