------------------------------ MODULE SumLemmas ------------------------------
(***************************************************************************)
(* Sums over finite sets.  The ledger's balances, a transaction's items    *)
(* and a document's counts are all sums that the code takes row by row,    *)
(* SumFunctionOnSet here; these lemmas say what such a sum is for any      *)
(* finite set of indices.  Each induction over the set is the search for a *)
(* smallest counterexample (MinimalSubset): strict inclusion is well       *)
(* founded on the subsets of a finite set.                                 *)
(***************************************************************************)
EXTENDS Integers, FiniteSets, Functions, FiniteSetTheorems, TLAPS

Least(s) == CHOOSE x \in s : TRUE

\* it sums f on every subset of S, the way SumFunctionOnSet does.
SumsTo(it, f, S) ==
    it = [s \in SUBSET S |->
             IF s = {} THEN 0 ELSE f[Least(s)] + it[s \ {Least(s)}]]

\* A set of finite sets with no smallest counterexample has none.
LEMMA MinimalSubset ==
  ASSUME NEW S, IsFiniteSet(S), NEW Bad \in SUBSET (SUBSET S), Bad # {}
  PROVE  \E s \in Bad : \A t \in SUBSET s : t # s => t \notin Bad
<1>1. \A s \in SUBSET S : IsFiniteSet(s)
  BY FS_Subset
<1>2. Bad \subseteq FiniteSubsetsOf(S)
  BY <1>1 DEF FiniteSubsetsOf
<1>3. IsWellFoundedOn(StrictSubsetOrdering(S), FiniteSubsetsOf(S))
  BY FS_StrictSubsetOrderingWellFounded
<1>4. PICK s \in Bad : \A t \in Bad : ~(<<t, s>> \in StrictSubsetOrdering(S))
  BY <1>2, <1>3, WFMin, Zenon
<1>5. ASSUME NEW t \in SUBSET s, t # s, t \in Bad PROVE FALSE
  <2>1. <<t, s>> \in StrictSubsetOrdering(S)
    BY <1>5 DEF StrictSubsetOrdering
  <2> QED BY <1>4, <1>5, <2>1
<1> QED BY <1>5

LEMMA SumsToUnique ==
  ASSUME NEW f, NEW S, IsFiniteSet(S), NEW T \in SUBSET S,
         NEW g, SumsTo(g, f, S), NEW h, SumsTo(h, f, T)
  PROVE  \A s \in SUBSET T : g[s] = h[s]
<1> DEFINE Bad == {s \in SUBSET T : g[s] # h[s]}
<1> SUFFICES ASSUME Bad # {} PROVE FALSE
  OBVIOUS
<1>1. IsFiniteSet(T)
  BY FS_Subset
<1>2. PICK s \in Bad : \A t \in SUBSET s : t # s => t \notin Bad
  <2>1. Bad \in SUBSET (SUBSET T)
    OBVIOUS
  <2> HIDE DEF Bad
  <2> QED BY <1>1, <2>1, MinimalSubset
<1>3. CASE s = {}
  BY <1>2, <1>3 DEF SumsTo
<1>4. CASE s # {}
  <2> DEFINE rest == s \ {Least(s)}
  <2>1. Least(s) \in s
    BY <1>4 DEF Least
  <2>2. g[rest] = h[rest]
    BY <1>2, <2>1
  <2>3. g[s] = f[Least(s)] + g[rest] /\ h[s] = f[Least(s)] + h[rest]
    BY <1>2, <1>4 DEF SumsTo
  <2> QED BY <1>2, <2>2, <2>3
<1> QED BY <1>3, <1>4

LEMMA SumsToExists ==
  ASSUME NEW f, NEW S, IsFiniteSet(S)
  PROVE  \E g : SumsTo(g, f, S)
<1> DEFINE Bad == {s \in SUBSET S : ~ \E g : SumsTo(g, f, s)}
<1> SUFFICES ASSUME Bad # {} PROVE FALSE
  OBVIOUS
<1>1. PICK T \in Bad : \A t \in SUBSET T : t # T => t \notin Bad
  <2>1. Bad \in SUBSET (SUBSET S)
    OBVIOUS
  <2> HIDE DEF Bad
  <2> QED BY <2>1, MinimalSubset
<1> DEFINE G(t) == CHOOSE g : SumsTo(g, f, t)
<1>2. \A t \in SUBSET T : t # T => SumsTo(G(t), f, t)
  BY <1>1
<1> DEFINE it == [s \in SUBSET T |->
                    IF s = {} THEN 0
                    ELSE f[Least(s)] + G(s \ {Least(s)})[s \ {Least(s)}]]
<1>3. ASSUME NEW s \in SUBSET T, s # T PROVE it[s] = G(s)[s]
  <2>1. SumsTo(G(s), f, s)
    BY <1>2, <1>3
  <2>2. CASE s = {}
    BY <2>1, <2>2 DEF SumsTo
  <2>3. CASE s # {}
    <3> DEFINE rest == s \ {Least(s)}
    <3>1. Least(s) \in s
      BY <2>3 DEF Least
    <3>2. SumsTo(G(rest), f, rest)
      BY <1>2, <3>1
    <3>3. IsFiniteSet(s)
      BY FS_Subset
    <3>4. G(s)[rest] = G(rest)[rest]
      <4> HIDE DEF G, rest
      <4>1. rest \in SUBSET s
        BY DEF rest
      <4> QED BY <2>1, <3>2, <3>3, <4>1, SumsToUnique
    <3>5. G(s)[s] = f[Least(s)] + G(s)[rest]
      BY <2>1, <2>3 DEF SumsTo
    <3> QED BY <2>3, <3>4, <3>5
  <2> QED BY <2>2, <2>3
<1>4. ASSUME NEW s \in SUBSET T, s # {}
      PROVE  it[s] = f[Least(s)] + it[s \ {Least(s)}]
  <2>1. Least(s) \in s
    BY <1>4 DEF Least
  <2>2. s \ {Least(s)} \in SUBSET T /\ s \ {Least(s)} # T
    BY <2>1
  <2>3. it[s \ {Least(s)}] = G(s \ {Least(s)})[s \ {Least(s)}]
    BY <1>3, <2>2
  <2> QED BY <1>4, <2>3
<1>5. SumsTo(it, f, T)
  <2> DEFINE jt == [s \in SUBSET T |->
                    IF s = {} THEN 0 ELSE f[Least(s)] + it[s \ {Least(s)}]]
  <2>1. \A s \in SUBSET T : it[s] = jt[s]
    BY <1>4
  <2>2. it = jt
    BY <2>1
  <2> QED BY <2>2 DEF SumsTo
<1> QED BY <1>1, <1>5

\* Sum of one more element: the recursion SumFunctionOnSet is defined by.
LEMMA SumUnfold ==
  ASSUME NEW f, NEW S, IsFiniteSet(S)
  PROVE  /\ SumFunctionOnSet(f, {}) = 0
         /\ S # {} => SumFunctionOnSet(f, S)
                        = f[Least(S)] + SumFunctionOnSet(f, S \ {Least(S)})
<1> DEFINE It(T) == CHOOSE g : SumsTo(g, f, T)
<1>1. ASSUME NEW T PROVE SumFunctionOnSet(f, T) = It(T)[T]
  BY DEF SumFunctionOnSet, FoldFunctionOnSet, MapThenFoldSet, SumsTo, Least
<1>2. ASSUME NEW T, IsFiniteSet(T) PROVE SumsTo(It(T), f, T)
  BY <1>2, SumsToExists
<1>3. SumFunctionOnSet(f, {}) = 0
  <2>1. SumsTo(It({}), f, {})
    BY <1>2, FS_EmptySet
  <2> QED BY <1>1, <2>1 DEF SumsTo
<1>4. ASSUME S # {}
      PROVE SumFunctionOnSet(f, S)
                        = f[Least(S)] + SumFunctionOnSet(f, S \ {Least(S)})
  <2> DEFINE rest == S \ {Least(S)}
  <2>1. Least(S) \in S
    BY <1>4 DEF Least
  <2>2. IsFiniteSet(rest)
    BY FS_Subset
  <2>3. SumsTo(It(S), f, S) /\ SumsTo(It(rest), f, rest)
    BY <1>2, <2>2
  <2>4. It(S)[rest] = It(rest)[rest]
    <3> HIDE DEF It, rest
    <3>1. rest \in SUBSET S
      BY DEF rest
    <3> QED BY <2>3, <3>1, SumsToUnique
  <2>5. It(S)[S] = f[Least(S)] + It(S)[rest]
    BY <2>3, <1>4 DEF SumsTo
  <2> QED BY <1>1, <2>4, <2>5
<1> QED BY <1>3, <1>4

\* Any element may be taken out first: the order of a sum does not matter.
LEMMA SumRemove ==
  ASSUME NEW f, NEW S, IsFiniteSet(S), \A x \in S : f[x] \in Int
  PROVE  /\ SumFunctionOnSet(f, S) \in Int
         /\ \A a \in S : SumFunctionOnSet(f, S)
                           = f[a] + SumFunctionOnSet(f, S \ {a})
<1> DEFINE Sum(s) == SumFunctionOnSet(f, s)
<1> DEFINE Good(s) == Sum(s) \in Int /\ \A a \in s : Sum(s) = f[a] + Sum(s \ {a})
<1> DEFINE Bad == {s \in SUBSET S : ~Good(s)}
<1> SUFFICES ASSUME Bad # {} PROVE FALSE
  OBVIOUS
<1>1. PICK T \in Bad : \A t \in SUBSET T : t # T => t \notin Bad
  <2>1. Bad \in SUBSET (SUBSET S)
    OBVIOUS
  <2> HIDE DEF Bad
  <2> QED BY <2>1, MinimalSubset
<1>2. \A t \in SUBSET T : t # T => Good(t)
  BY <1>1
<1>3. CASE T = {}
  <2>1. Sum({}) = 0
    BY SumUnfold
  <2>2. Good({})
    BY <2>1
  <2> QED BY <1>1, <1>3, <2>2
<1>4. CASE T # {}
  <2> DEFINE c == Least(T)
  <2>1. c \in T
    BY <1>4 DEF Least
  <2>2. IsFiniteSet(T)
    BY FS_Subset
  <2>3. Sum(T) = f[c] + Sum(T \ {c})
    BY <1>4, <2>2, SumUnfold
  <2> HIDE DEF c
  <2>4. Good(T \ {c})
    BY <1>2, <2>1
  <2>5. Sum(T) \in Int
    BY <2>1, <2>3, <2>4
  <2>6. ASSUME NEW a \in T, a # c PROVE Sum(T) = f[a] + Sum(T \ {a})
    <3>1. Sum(T \ {c}) = f[a] + Sum((T \ {c}) \ {a})
      BY <2>4, <2>6
    <3>2. Good(T \ {a}) /\ c \in T \ {a}
      BY <1>2, <2>1, <2>6
    <3>3. Sum(T \ {a}) = f[c] + Sum((T \ {a}) \ {c})
      BY <3>2
    <3>4. (T \ {a}) \ {c} = (T \ {c}) \ {a}
      OBVIOUS
    <3>5. Good((T \ {a}) \ {c})
      BY <1>2, <2>1
    <3> DEFINE both == Sum((T \ {a}) \ {c})
    <3>6. both \in Int /\ f[a] \in Int /\ f[c] \in Int
      BY <2>1, <3>5
    <3>7. Sum(T) = f[c] + (f[a] + both)
      BY <2>3, <3>1, <3>4
    <3>8. Sum(T \ {a}) = f[c] + both
      BY <3>3
    <3> HIDE DEF both
    <3>9. f[c] + (f[a] + both) = f[a] + (f[c] + both)
      BY <3>6
    <3> HIDE DEF Sum
    <3> QED BY <3>7, <3>8, <3>9
  <2>7. Good(T)
    BY <2>3, <2>5, <2>6
  <2> QED BY <1>1, <2>7
<1> QED BY <1>3, <1>4

\* Functions that agree on the indices have the same sum.
LEMMA SumCongruent ==
  ASSUME NEW f, NEW g, NEW S, IsFiniteSet(S), \A x \in S : f[x] = g[x],
         \A x \in S : f[x] \in Int
  PROVE  SumFunctionOnSet(f, S) = SumFunctionOnSet(g, S)
<1> DEFINE Bad == {s \in SUBSET S : SumFunctionOnSet(f, s) # SumFunctionOnSet(g, s)}
<1> SUFFICES ASSUME Bad # {} PROVE FALSE
  OBVIOUS
<1>1. PICK T \in Bad : \A t \in SUBSET T : t # T => t \notin Bad
  <2>1. Bad \in SUBSET (SUBSET S)
    OBVIOUS
  <2> HIDE DEF Bad
  <2> QED BY <2>1, MinimalSubset
<1>2. IsFiniteSet(T)
  BY FS_Subset
<1>3. CASE T = {}
  BY <1>1, <1>3, SumUnfold, FS_EmptySet
<1>4. CASE T # {}
  <2>1. Least(T) \in T
    BY <1>4 DEF Least
  <2>2. SumFunctionOnSet(f, T \ {Least(T)}) = SumFunctionOnSet(g, T \ {Least(T)})
    BY <1>1, <2>1
  <2> QED BY <1>1, <1>2, <1>4, <2>1, <2>2, SumUnfold
<1> QED BY <1>3, <1>4

\* Changing one summand changes the sum by as much.
LEMMA SumChange ==
  ASSUME NEW f, NEW g, NEW S, IsFiniteSet(S), NEW a \in S,
         \A x \in S : f[x] \in Int /\ g[x] \in Int,
         \A x \in S \ {a} : f[x] = g[x]
  PROVE  SumFunctionOnSet(g, S) = SumFunctionOnSet(f, S) + (g[a] - f[a])
<1>1. IsFiniteSet(S \ {a})
  BY FS_Subset
<1>2. SumFunctionOnSet(f, S \ {a}) = SumFunctionOnSet(g, S \ {a})
  BY <1>1, SumCongruent
<1>3. SumFunctionOnSet(f, S \ {a}) \in Int
  BY <1>1, SumRemove
<1>4. SumFunctionOnSet(f, S) = f[a] + SumFunctionOnSet(f, S \ {a})
  BY SumRemove
<1>5. SumFunctionOnSet(g, S) = g[a] + SumFunctionOnSet(g, S \ {a})
  BY SumRemove
<1> QED BY <1>2, <1>3, <1>4, <1>5

\* A sum of natural numbers is one.
LEMMA SumNat ==
  ASSUME NEW f, NEW S, IsFiniteSet(S), \A x \in S : f[x] \in Nat
  PROVE  SumFunctionOnSet(f, S) \in Nat
<1> DEFINE Bad == {s \in SUBSET S : SumFunctionOnSet(f, s) \notin Nat}
<1> SUFFICES ASSUME Bad # {} PROVE FALSE
  OBVIOUS
<1>1. PICK T \in Bad : \A t \in SUBSET T : t # T => t \notin Bad
  <2>1. Bad \in SUBSET (SUBSET S)
    OBVIOUS
  <2> HIDE DEF Bad
  <2> QED BY <2>1, MinimalSubset
<1>2. IsFiniteSet(T)
  BY FS_Subset
<1>3. CASE T = {}
  <2>1. SumFunctionOnSet(f, {}) = 0
    BY SumUnfold
  <2> QED BY <1>1, <1>3, <2>1
<1>4. CASE T # {}
  <2>1. Least(T) \in T
    BY <1>4 DEF Least
  <2>2. SumFunctionOnSet(f, T \ {Least(T)}) \in Nat
    BY <1>1, <2>1
  <2>3. f[Least(T)] \in Nat
    BY <2>1
  <2> QED BY <1>1, <1>2, <1>4, <2>2, <2>3, SumUnfold
<1> QED BY <1>3, <1>4

\* The sum of a single element.
LEMMA SumOne ==
  ASSUME NEW f, NEW a, f[a] \in Int
  PROVE  SumFunctionOnSet(f, {a}) = f[a]
<1>1. IsFiniteSet({a})
  BY FS_Singleton
<1>2. SumFunctionOnSet(f, {a}) = f[a] + SumFunctionOnSet(f, {a} \ {a})
  BY <1>1, SumRemove
<1>3. {a} \ {a} = {} /\ SumFunctionOnSet(f, {}) = 0
  BY SumUnfold, FS_EmptySet
<1> QED BY <1>2, <1>3

LEMMA SumZero ==
  ASSUME NEW f, NEW S, IsFiniteSet(S), \A x \in S : f[x] = 0
  PROVE  SumFunctionOnSet(f, S) = 0
<1> DEFINE Bad == {s \in SUBSET S : SumFunctionOnSet(f, s) # 0}
<1> SUFFICES ASSUME Bad # {} PROVE FALSE
  OBVIOUS
<1>1. PICK T \in Bad : \A t \in SUBSET T : t # T => t \notin Bad
  <2>1. Bad \in SUBSET (SUBSET S)
    OBVIOUS
  <2> HIDE DEF Bad
  <2> QED BY <2>1, MinimalSubset
<1>2. IsFiniteSet(T)
  BY FS_Subset
<1>3. CASE T = {}
  <2>1. SumFunctionOnSet(f, {}) = 0
    BY SumUnfold
  <2> QED BY <1>1, <1>3, <2>1
<1>4. CASE T # {}
  <2>1. Least(T) \in T
    BY <1>4 DEF Least
  <2>2. SumFunctionOnSet(f, T \ {Least(T)}) = 0 /\ f[Least(T)] = 0
    BY <1>1, <2>1
  <2> QED BY <1>1, <1>2, <1>4, <2>2, SumUnfold
<1> QED BY <1>3, <1>4

\* Pointwise sums.
LEMMA SumAdd ==
  ASSUME NEW f, NEW g, NEW h, NEW S, IsFiniteSet(S),
         \A x \in S : f[x] \in Int /\ g[x] \in Int /\ h[x] = f[x] + g[x]
  PROVE  SumFunctionOnSet(h, S) = SumFunctionOnSet(f, S) + SumFunctionOnSet(g, S)
<1> DEFINE Good(s) == SumFunctionOnSet(h, s)
                         = SumFunctionOnSet(f, s) + SumFunctionOnSet(g, s)
           Bad == {s \in SUBSET S : ~Good(s)}
<1> SUFFICES ASSUME Bad # {} PROVE FALSE
  OBVIOUS
<1>1. PICK T \in Bad : \A t \in SUBSET T : t # T => t \notin Bad
  <2>1. Bad \in SUBSET (SUBSET S)
    OBVIOUS
  <2> HIDE DEF Bad
  <2> QED BY <2>1, MinimalSubset
<1>2. IsFiniteSet(T)
  BY FS_Subset
<1>3. CASE T = {}
  <2>1. /\ SumFunctionOnSet(f, {}) = 0 /\ SumFunctionOnSet(g, {}) = 0
        /\ SumFunctionOnSet(h, {}) = 0
    BY SumUnfold, FS_EmptySet
  <2> QED BY <1>1, <1>3, <2>1
<1>4. CASE T # {}
  <2> DEFINE a == Least(T)
             R == T \ {a}
  <2>1. a \in T
    BY <1>4 DEF Least
  <2>2. Good(R) /\ IsFiniteSet(R)
    BY <1>1, <2>1, FS_Subset
  <2>3. /\ SumFunctionOnSet(f, T) = f[a] + SumFunctionOnSet(f, R)
        /\ SumFunctionOnSet(g, T) = g[a] + SumFunctionOnSet(g, R)
        /\ SumFunctionOnSet(h, T) = h[a] + SumFunctionOnSet(h, R)
    BY <1>2, <1>4, SumUnfold
  <2>4. SumFunctionOnSet(f, R) \in Int /\ SumFunctionOnSet(g, R) \in Int
    BY <2>2, SumRemove
  <2>5. f[a] \in Int /\ g[a] \in Int /\ h[a] = f[a] + g[a]
    BY <2>1
  <2> HIDE DEF a, R
  <2> QED BY <1>1, <2>2, <2>3, <2>4, <2>5
<1> QED BY <1>3, <1>4

\* A sum over two disjoint sets of indices.
LEMMA SumDisjoint ==
  ASSUME NEW f, NEW S, NEW T, IsFiniteSet(S), IsFiniteSet(T), S \cap T = {},
         \A x \in S \cup T : f[x] \in Int
  PROVE  SumFunctionOnSet(f, S \cup T) = SumFunctionOnSet(f, S) + SumFunctionOnSet(f, T)
<1> DEFINE Good(s) == SumFunctionOnSet(f, s \cup T)
                         = SumFunctionOnSet(f, s) + SumFunctionOnSet(f, T)
           Bad == {s \in SUBSET S : ~Good(s)}
<1> SUFFICES ASSUME Bad # {} PROVE FALSE
  OBVIOUS
<1>1. PICK U \in Bad : \A t \in SUBSET U : t # U => t \notin Bad
  <2>1. Bad \in SUBSET (SUBSET S)
    OBVIOUS
  <2> HIDE DEF Bad
  <2> QED BY <2>1, MinimalSubset
<1>2. IsFiniteSet(U) /\ IsFiniteSet(U \cup T)
  BY FS_Subset, FS_Union
<1>3. SumFunctionOnSet(f, T) \in Int
  BY SumRemove
<1>4. CASE U = {}
  <2>1. SumFunctionOnSet(f, {}) = 0 /\ {} \cup T = T
    BY SumUnfold, FS_EmptySet
  <2> QED BY <1>1, <1>3, <1>4, <2>1
<1>5. CASE U # {}
  <2> DEFINE a == Least(U)
             R == U \ {a}
  <2>1. a \in U
    BY <1>5 DEF Least
  <2>2. Good(R) /\ IsFiniteSet(R)
    BY <1>1, <2>1, FS_Subset
  <2>3. (U \cup T) \ {a} = R \cup T
    BY <2>1
  <2>4. /\ SumFunctionOnSet(f, U \cup T) = f[a] + SumFunctionOnSet(f, R \cup T)
        /\ SumFunctionOnSet(f, U) = f[a] + SumFunctionOnSet(f, R)
    BY <1>2, <2>1, <2>3, SumRemove
  <2>5. SumFunctionOnSet(f, R) \in Int /\ f[a] \in Int
    BY <2>1, <2>2, SumRemove
  <2> HIDE DEF a, R
  <2> QED BY <1>1, <1>3, <2>2, <2>4, <2>5
<1> QED BY <1>4, <1>5

\* A sum that is term for term at most another is at most it, and is equal to
\* it only if the terms are.
LEMMA SumAtMost ==
  ASSUME NEW f, NEW g, NEW S, IsFiniteSet(S),
         \A x \in S : f[x] \in Int /\ g[x] \in Int /\ f[x] <= g[x]
  PROVE  /\ SumFunctionOnSet(f, S) <= SumFunctionOnSet(g, S)
         /\ SumFunctionOnSet(f, S) = SumFunctionOnSet(g, S) => \A x \in S : f[x] = g[x]
<1> DEFINE d == [x \in S |-> g[x] - f[x]]
<1>1. \A x \in S : d[x] \in Nat
  OBVIOUS
<1>2. \A x \in S : f[x] \in Int /\ d[x] \in Int /\ g[x] = f[x] + d[x]
  OBVIOUS
<1> HIDE DEF d
<1>3. SumFunctionOnSet(g, S) = SumFunctionOnSet(f, S) + SumFunctionOnSet(d, S)
  BY <1>2, SumAdd
<1>4. SumFunctionOnSet(d, S) \in Nat /\ SumFunctionOnSet(f, S) \in Int
  BY <1>1, <1>2, SumNat, SumRemove
<1>5. ASSUME NEW a \in S, f[a] # g[a] PROVE SumFunctionOnSet(d, S) # 0
  <2>1. IsFiniteSet(S \ {a})
    BY FS_Subset
  <2>2. SumFunctionOnSet(d, S \ {a}) \in Nat
    BY <1>1, <2>1, SumNat
  <2>3. SumFunctionOnSet(d, S) = d[a] + SumFunctionOnSet(d, S \ {a})
    BY <1>2, SumRemove
  <2>4. d[a] \in Nat /\ d[a] # 0
    BY <1>1, <1>2, <1>5
  <2> QED BY <2>2, <2>3, <2>4
<1> QED BY <1>3, <1>4, <1>5

\* A table may be summed by rows or by columns.
LEMMA SumSwap ==
  ASSUME NEW S, NEW T, IsFiniteSet(S), IsFiniteSet(T),
         NEW m, \A x \in S, y \in T : m[x][y] \in Int
  PROVE  SumFunctionOnSet([x \in S |-> SumFunctionOnSet(m[x], T)], S)
            = SumFunctionOnSet([y \in T |-> SumFunctionOnSet([x \in S |-> m[x][y]], S)], T)
<1> DEFINE row == [x \in S |-> SumFunctionOnSet(m[x], T)]
           Col(s) == [y \in T |-> SumFunctionOnSet([x \in S |-> m[x][y]], s)]
           Good(s) == SumFunctionOnSet(row, s) = SumFunctionOnSet(Col(s), T)
           Bad == {s \in SUBSET S : ~Good(s)}
<1> SUFFICES ASSUME Bad # {} PROVE FALSE
  OBVIOUS
<1>1. PICK U \in Bad : \A t \in SUBSET U : t # U => t \notin Bad
  <2>1. Bad \in SUBSET (SUBSET S)
    OBVIOUS
  <2> HIDE DEF Bad
  <2> QED BY <2>1, MinimalSubset
<1>2. IsFiniteSet(U)
  BY FS_Subset
<1>3. \A x \in S : row[x] \in Int
  BY SumRemove
<1>4. CASE U = {}
  <2>1. SumFunctionOnSet(row, {}) = 0
    BY SumUnfold, FS_EmptySet
  <2>2. \A y \in T : Col({})[y] = 0
    BY SumUnfold, FS_EmptySet
  <2> HIDE DEF Col
  <2>3. SumFunctionOnSet(Col({}), T) = 0
    BY <2>2, SumZero
  <2> QED BY <1>1, <1>4, <2>1, <2>3
<1>5. CASE U # {}
  <2> DEFINE a == Least(U)
             R == U \ {a}
  <2>1. a \in U /\ a \in S
    BY <1>5 DEF Least
  <2>2. Good(R) /\ IsFiniteSet(R)
    BY <1>1, <2>1, FS_Subset
  <2>3. SumFunctionOnSet(row, U) = row[a] + SumFunctionOnSet(row, R)
    BY <1>2, <1>3, <2>1, SumRemove
  <2>4. ASSUME NEW y \in T
        PROVE  /\ Col(R)[y] \in Int /\ m[a][y] \in Int
               /\ Col(U)[y] = m[a][y] + Col(R)[y]
    <3> DEFINE c == [x \in S |-> m[x][y]]
    <3>1. (\A x \in U : c[x] \in Int) /\ (\A x \in R : c[x] \in Int)
      OBVIOUS
    <3>2. c[a] = m[a][y]
      BY <2>1
    <3> HIDE DEF c, a
    <3> HIDE DEF Col, row, R
    <3>3. SumFunctionOnSet(c, U) = c[a] + SumFunctionOnSet(c, U \ {a})
      BY <1>2, <2>1, <3>1, SumRemove
    <3>4. SumFunctionOnSet(c, R) \in Int
      BY <2>2, <3>1, SumRemove
    <3> QED BY <2>1, <3>1, <3>2, <3>3, <3>4 DEF c, Col, R
  <2>5. row[a] = SumFunctionOnSet(m[a], T)
    BY <2>1
  <2> HIDE DEF Col, row, a, R
  <2>6. SumFunctionOnSet(Col(U), T) = SumFunctionOnSet(m[a], T) + SumFunctionOnSet(Col(R), T)
    BY <2>4, SumAdd
  <2> QED BY <1>1, <2>2, <2>3, <2>5, <2>6
<1> QED BY <1>4, <1>5

\* Disjoint groups of indices may be summed one after the other.
LEMMA SumGroups ==
  ASSUME NEW I, NEW S, IsFiniteSet(I), IsFiniteSet(S),
         NEW G \in [I -> SUBSET S],
         \A i, j \in I : i # j => G[i] \cap G[j] = {},
         NEW f, \A x \in S : f[x] \in Int
  PROVE  SumFunctionOnSet(f, UNION {G[i] : i \in I})
            = SumFunctionOnSet([i \in I |-> SumFunctionOnSet(f, G[i])], I)
<1> DEFINE part == [i \in I |-> SumFunctionOnSet(f, G[i])]
           All(J) == UNION {G[i] : i \in J}
           Good(J) == SumFunctionOnSet(f, All(J)) = SumFunctionOnSet(part, J)
           Bad == {J \in SUBSET I : ~Good(J)}
<1> SUFFICES ASSUME Bad # {} PROVE FALSE
  OBVIOUS
<1>1. PICK J \in Bad : \A t \in SUBSET J : t # J => t \notin Bad
  <2>1. Bad \in SUBSET (SUBSET I)
    OBVIOUS
  <2> HIDE DEF Bad
  <2> QED BY <2>1, MinimalSubset
<1>2. IsFiniteSet(J)
  BY FS_Subset
<1>3. \A i \in I : IsFiniteSet(G[i]) /\ part[i] \in Int
  BY FS_Subset, SumRemove
<1>4. CASE J = {}
  <2>1. All({}) = {}
    OBVIOUS
  <2>2. SumFunctionOnSet(f, {}) = 0 /\ SumFunctionOnSet(part, {}) = 0
    BY SumUnfold, FS_EmptySet
  <2> QED BY <1>1, <1>4, <2>1, <2>2
<1>5. CASE J # {}
  <2> DEFINE a == Least(J)
             R == J \ {a}
  <2>1. a \in J
    BY <1>5 DEF Least
  <2>2. Good(R) /\ IsFiniteSet(R)
    BY <1>1, <2>1, FS_Subset
  <2>3. All(J) = G[a] \cup All(R) /\ G[a] \cap All(R) = {}
    BY <2>1
  <2>4. IsFiniteSet(All(R)) /\ All(R) \subseteq S
    <3>1. All(R) \subseteq S
      OBVIOUS
    <3> HIDE DEF All, R
    <3> QED BY <3>1, FS_Subset
  <2>5. part[a] = SumFunctionOnSet(f, G[a]) /\ G[a] \subseteq S
    BY <2>1
  <2>6. SumFunctionOnSet(part, J) = part[a] + SumFunctionOnSet(part, R)
    BY <1>2, <1>3, <2>1, SumRemove
  <2> HIDE DEF All, part, R
  <2>7. SumFunctionOnSet(f, G[a] \cup All(R))
           = SumFunctionOnSet(f, G[a]) + SumFunctionOnSet(f, All(R))
    BY <1>3, <2>1, <2>3, <2>4, <2>5, SumDisjoint
  <2> QED BY <1>1, <2>2, <2>3, <2>5, <2>6, <2>7
<1> QED BY <1>4, <1>5
=============================================================================
