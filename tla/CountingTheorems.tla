--------------------------- MODULE CountingTheorems ---------------------------
(***************************************************************************)
(* Facts about numbers and sums that the proofs share.  Every nonempty set *)
(* of numbers has a least member, and the sum of a function over a finite  *)
(* set, as the community module Functions defines it, adds up in any       *)
(* order.  The sum is a recursive function on the subsets of the set that  *)
(* takes an arbitrary element away at each step.  That such a function     *)
(* exists, that there is one only, and that the order does not matter are  *)
(* shown by the least size at which it would be otherwise.                 *)
(***************************************************************************)
EXTENDS Integers, FiniteSets, Functions, FiniteSetTheorems, WellFoundedInduction, TLAPS

LEMMA LeastNatural ==
    ASSUME NEW T, T \subseteq Nat, T # {}
    PROVE  \E x \in T : \A y \in T : x <= y
<1> DEFINE R == OpToRel(<, Nat)
<1>1. IsWellFoundedOn(R, Nat)
  BY NatLessThanWellFounded
<1>2. \A x, y \in Nat : y < x => <<y, x>> \in R
  BY DEF OpToRel
<1> HIDE DEF R
<1>3. PICK x \in T : \A y \in T : ~ (<<y, x>> \in R)
  BY <1>1, WFMin
<1>4. ASSUME NEW y \in T PROVE x <= y
  <2>1. x \in Nat /\ y \in Nat /\ ~(y < x)
    BY <1>2, <1>3
  <2> QED
    BY <2>1
<1> QED
  BY <1>4

(* A set of numbers that holds 0 and every successor holds all of them.    *)
LEMMA EveryNatural ==
    ASSUME NEW T, 0 \in T, \A n \in Nat : n \in T => n + 1 \in T
    PROVE  Nat \subseteq T
<1> DEFINE U == {n \in Nat : n \notin T}
<1>1. SUFFICES ASSUME U # {} PROVE FALSE
  OBVIOUS
<1>2. U \subseteq Nat
  OBVIOUS
<1> HIDE DEF U
<1>3. PICK x \in U : \A y \in U : x <= y
  BY <1>1, <1>2, LeastNatural
<1>4. x \in Nat /\ x # 0 /\ x - 1 \in Nat /\ x - 1 \notin U
  BY <1>3 DEF U
<1>5. x - 1 \in T
  BY <1>4 DEF U
<1>6. (x - 1) + 1 = x
  BY <1>4
<1> QED
  BY <1>4, <1>5, <1>6 DEF U

-----------------------------------------------------------------------------
Chosen(s) == CHOOSE x \in s : TRUE

(* g is the recursive function of a sum of f over subsets of S.            *)
Adds(f, S, g) == g = [s \in SUBSET S |-> IF s = {} THEN 0 ELSE f[Chosen(s)] + g[s \ {Chosen(s)}]]

LEMMA TakingOne ==
    ASSUME NEW s, IsFiniteSet(s), s # {}
    PROVE  /\ Chosen(s) \in s
           /\ IsFiniteSet(s \ {Chosen(s)}) /\ Cardinality(s \ {Chosen(s)}) = Cardinality(s) - 1
           /\ Cardinality(s) \in Nat \ {0}
<1>1. Chosen(s) \in s
  BY DEF Chosen
<1>2. Cardinality(s) \in Nat /\ Cardinality(s) # 0
  BY FS_CardinalityType, FS_EmptySet
<1> QED
  BY <1>1, <1>2, FS_RemoveElement

(* Up to any size there is such a function.                                *)
UpTo(S, n) == {s \in SUBSET S : Cardinality(s) <= n}

AddsOn(f, D, g) ==
    /\ g \in [D -> Int]
    /\ g = [s \in D |-> IF s = {} THEN 0 ELSE f[Chosen(s)] + g[s \ {Chosen(s)}]]

LEMMA SumsExistTo ==
    ASSUME NEW S, IsFiniteSet(S), NEW f, \A x \in S : f[x] \in Int, NEW n \in Nat
    PROVE  \E g : AddsOn(f, UpTo(S, n), g)
<1> DEFINE D(m) == {s \in SUBSET S : Cardinality(s) <= m}
           P(m) == \E g : g \in [D(m) -> Int] /\
                       g = [s \in D(m) |-> IF s = {} THEN 0 ELSE f[Chosen(s)] + g[s \ {Chosen(s)}]]
           T == {m \in Nat : P(m)}
<1>f. \A s \in SUBSET S : IsFiniteSet(s) /\ Cardinality(s) \in Nat
  BY FS_Subset, FS_CardinalityType
<1>1. P(0)
  <2> DEFINE g == [s \in D(0) |-> 0]
  <2>1. \A s \in D(0) : s = {}
    <3> TAKE s \in D(0)
    <3>1. Cardinality(s) = 0 /\ IsFiniteSet(s)
      BY <1>f
    <3> QED
      BY <3>1, FS_EmptySet
  <2>2. g \in [D(0) -> Int]
    OBVIOUS
  <2>3. g = [s \in D(0) |-> IF s = {} THEN 0 ELSE f[Chosen(s)] + g[s \ {Chosen(s)}]]
    BY <2>1
  <2> QED
    BY <2>2, <2>3
<1>2. ASSUME NEW m \in Nat, P(m) PROVE P(m + 1)
  <2>1. PICK g : g \in [D(m) -> Int] /\
                   g = [s \in D(m) |-> IF s = {} THEN 0 ELSE f[Chosen(s)] + g[s \ {Chosen(s)}]]
    BY <1>2
  <2> DEFINE h == [s \in D(m + 1) |-> IF s = {} THEN 0 ELSE f[Chosen(s)] + g[s \ {Chosen(s)}]]
  <2>2. \A s \in D(m + 1) : s # {} => s \ {Chosen(s)} \in D(m) /\ f[Chosen(s)] \in Int
    <3> SUFFICES ASSUME NEW s \in D(m + 1), s # {} PROVE s \ {Chosen(s)} \in D(m) /\ f[Chosen(s)] \in Int
      OBVIOUS
    <3>1. Chosen(s) \in s /\ Cardinality(s \ {Chosen(s)}) = Cardinality(s) - 1 /\ Cardinality(s) \in Nat
      BY <1>f, TakingOne
    <3>2. Cardinality(s) <= m + 1
      OBVIOUS
    <3> QED
      BY <3>1, <3>2
  <2>3. h \in [D(m + 1) -> Int]
    <3> HIDE DEF D
    <3>1. \A s \in D(m + 1) : s # {} => g[s \ {Chosen(s)}] \in Int
      BY <2>1, <2>2
    <3>2. ASSUME NEW s \in D(m + 1) PROVE h[s] \in Int
      <4> DEFINE a == f[Chosen(s)]
                 b == g[s \ {Chosen(s)}]
      <4>1. s # {} => a \in Int /\ b \in Int
        BY <2>2, <3>1
      <4>2. h[s] = IF s = {} THEN 0 ELSE a + b
        OBVIOUS
      <4> HIDE DEF a, b, h
      <4>3. CASE s = {}
        BY <4>2, <4>3
      <4>4. CASE s # {}
        BY <4>1, <4>2, <4>4
      <4> QED
        BY <4>3, <4>4
    <3> QED
      BY <3>2
  <2>4. \A s \in D(m) : s \in D(m + 1) /\ h[s] = g[s]
    <3>1. \A s \in D(m) : s \in D(m + 1)
      BY <1>f
    <3> HIDE DEF D
    <3> QED
      BY <2>1, <3>1
  <2>5. h = [s \in D(m + 1) |-> IF s = {} THEN 0 ELSE f[Chosen(s)] + h[s \ {Chosen(s)}]]
    <3>1. \A s \in D(m + 1) : s # {} => h[s \ {Chosen(s)}] = g[s \ {Chosen(s)}]
      BY <2>2, <2>4
    <3> HIDE DEF D
    <3> QED
      BY <3>1
  <2> HIDE DEF h
  <2> QED
    BY <2>3, <2>5
<1>3. \A m \in Nat : m \in T => m + 1 \in T
  <2> HIDE DEF P
  <2> QED
    BY <1>2
<1>4. 0 \in T
  <2> HIDE DEF P
  <2> QED
    BY <1>1
<1>5. n \in T
  <2> HIDE DEF T
  <2> QED
    BY <1>3, <1>4, EveryNatural
<1> QED
  BY <1>5 DEF AddsOn, UpTo

LEMMA SumsExist ==
    ASSUME NEW S, IsFiniteSet(S), NEW f, \A x \in S : f[x] \in Int
    PROVE  \E g : Adds(f, S, g) /\ g \in [SUBSET S -> Int]
<1>1. Cardinality(S) \in Nat
  BY FS_CardinalityType
<1>2. UpTo(S, Cardinality(S)) = SUBSET S
  BY FS_Subset DEF UpTo
<1>3. PICK g : AddsOn(f, UpTo(S, Cardinality(S)), g)
  BY <1>1, SumsExistTo
<1> QED
  BY <1>2, <1>3 DEF Adds, AddsOn

(* Two of them agree wherever both are defined.                            *)
LEMMA SumsAgree ==
    ASSUME NEW S, IsFiniteSet(S), NEW f, NEW g, Adds(f, S, g),
           NEW S2, IsFiniteSet(S2), NEW f2, NEW g2, Adds(f2, S2, g2),
           \A x \in S \cap S2 : f[x] = f2[x], NEW s \in SUBSET (S \cap S2)
    PROVE  g[s] = g2[s]
<1> DEFINE T == {n \in Nat : \E t \in SUBSET (S \cap S2) : Cardinality(t) = n /\ g[t] # g2[t]}
<1>f. \A t \in SUBSET (S \cap S2) : IsFiniteSet(t) /\ Cardinality(t) \in Nat
  BY FS_Subset, FS_CardinalityType
<1>1. SUFFICES ASSUME g[s] # g2[s] PROVE FALSE
  OBVIOUS
<1>2. T # {} /\ T \subseteq Nat
  BY <1>f, <1>1
<1>3. PICK n \in T : \A k \in T : n <= k
  <2> HIDE DEF T
  <2> QED
    BY <1>2, LeastNatural
<1>4. PICK t \in SUBSET (S \cap S2) : Cardinality(t) = n /\ g[t] # g2[t]
  BY <1>3
<1>5. t \in SUBSET S /\ t \in SUBSET S2 /\ IsFiniteSet(t)
  BY <1>4, <1>f
<1>6. t # {}
  BY <1>4, <1>5 DEF Adds
<1> DEFINE r == t \ {Chosen(t)}
<1>7. Chosen(t) \in t /\ Cardinality(r) = n - 1 /\ n \in Nat
  BY <1>4, <1>5, <1>6, <1>f, TakingOne
<1>8. g[t] = f[Chosen(t)] + g[r] /\ g2[t] = f2[Chosen(t)] + g2[r]
  BY <1>5, <1>6 DEF Adds
<1>9. f[Chosen(t)] = f2[Chosen(t)]
  BY <1>4, <1>7
<1>10. r \in SUBSET (S \cap S2)
  BY <1>4
<1> HIDE DEF r
<1>11. g[r] # g2[r]
  BY <1>4, <1>8, <1>9
<1>12. n - 1 \in T
  BY <1>7, <1>10, <1>11, <1>f
<1> HIDE DEF T
<1> QED
  BY <1>3, <1>7, <1>12

(* The community module's sum is the value of any such function.           *)
LEMMA SumIs ==
    ASSUME NEW S, IsFiniteSet(S), NEW f, \A x \in S : f[x] \in Int, NEW g, Adds(f, S, g)
    PROVE  SumFunctionOnSet(f, S) = g[S]
<1> DEFINE iter[s \in SUBSET S] ==
             IF s = {} THEN 0 ELSE f[CHOOSE x \in s : TRUE] + iter[s \ {CHOOSE x \in s : TRUE}]
<1>1. SumFunctionOnSet(f, S) = iter[S]
  BY DEF SumFunctionOnSet, FoldFunctionOnSet, MapThenFoldSet
<1>2. iter = [s \in SUBSET S |->
                IF s = {} THEN 0 ELSE f[CHOOSE x \in s : TRUE] + iter[s \ {CHOOSE x \in s : TRUE}]]
  <2>1. \E h : h = [s \in SUBSET S |->
                IF s = {} THEN 0 ELSE f[CHOOSE x \in s : TRUE] + h[s \ {CHOOSE x \in s : TRUE}]]
    BY SumsExist DEF Adds, Chosen
  <2> QED
    BY <2>1
<1> HIDE DEF iter
<1>3. Adds(f, S, iter)
  BY <1>2 DEF Adds, Chosen
<1>4. iter[S] = g[S]
  BY <1>3, SumsAgree
<1> QED
  BY <1>1, <1>4

-----------------------------------------------------------------------------
(* The facts to cite.                                                      *)

LEMMA SumEmpty ==
    ASSUME NEW f
    PROVE  SumFunctionOnSet(f, {}) = 0
<1>1. IsFiniteSet({})
  BY FS_EmptySet
<1>2. PICK g : Adds(f, {}, g)
  BY <1>1, SumsExist
<1>3. g[{}] = 0
  BY <1>2 DEF Adds
<1> QED
  BY <1>1, <1>2, <1>3, SumIs

LEMMA SumType ==
    ASSUME NEW S, IsFiniteSet(S), NEW f, \A x \in S : f[x] \in Int
    PROVE  SumFunctionOnSet(f, S) \in Int
<1>1. PICK g : Adds(f, S, g) /\ g \in [SUBSET S -> Int]
  BY SumsExist
<1>2. SumFunctionOnSet(f, S) = g[S]
  BY <1>1, SumIs
<1> QED
  BY <1>1, <1>2

LEMMA SumSame ==
    ASSUME NEW S, IsFiniteSet(S), NEW f, \A x \in S : f[x] \in Int, NEW f2, \A x \in S : f2[x] = f[x]
    PROVE  SumFunctionOnSet(f2, S) = SumFunctionOnSet(f, S)
<1>1. PICK g : Adds(f, S, g)
  BY SumsExist
<1>2. PICK g2 : Adds(f2, S, g2)
  BY SumsExist
<1>3. g[S] = g2[S]
  BY <1>1, <1>2, SumsAgree
<1> QED
  BY <1>1, <1>2, <1>3, SumIs

(* A function of a sum gives the sum of every subset.                      *)
LEMMA SumOfSubset ==
    ASSUME NEW S, IsFiniteSet(S), NEW f, \A x \in S : f[x] \in Int, NEW g, Adds(f, S, g), NEW s \in SUBSET S
    PROVE  SumFunctionOnSet(f, s) = g[s]
<1>1. IsFiniteSet(s) /\ \A x \in s : f[x] \in Int
  BY FS_Subset
<1>2. PICK h : Adds(f, s, h)
  BY <1>1, SumsExist
<1>3. h[s] = g[s]
  BY <1>1, <1>2, SumsAgree
<1> QED
  BY <1>1, <1>2, <1>3, SumIs

(* Whichever element is taken away.                                        *)
LEMMA SumSplit ==
    ASSUME NEW S, IsFiniteSet(S), NEW f, \A x \in S : f[x] \in Int, NEW a \in S
    PROVE  SumFunctionOnSet(f, S) = f[a] + SumFunctionOnSet(f, S \ {a})
<1>1. PICK g : Adds(f, S, g) /\ g \in [SUBSET S -> Int]
  BY SumsExist
<1> DEFINE Bad(t) == \E x \in t : g[t] # f[x] + g[t \ {x}]
           T == {n \in Nat : \E t \in SUBSET S : Cardinality(t) = n /\ Bad(t)}
<1>f. \A t \in SUBSET S : IsFiniteSet(t) /\ Cardinality(t) \in Nat
  BY FS_Subset, FS_CardinalityType
<1>2. T = {}
  <2>1. SUFFICES ASSUME T # {} PROVE FALSE
    OBVIOUS
  <2>2. PICK n \in T : \A k \in T : n <= k
    <3>1. T \subseteq Nat
      OBVIOUS
    <3> HIDE DEF T
    <3> QED
      BY <2>1, <3>1, LeastNatural
  <2>3. PICK t \in SUBSET S : Cardinality(t) = n /\ Bad(t)
    BY <2>2
  <2>4. PICK x \in t : g[t] # f[x] + g[t \ {x}]
    BY <2>3
  <2> DEFINE c == Chosen(t)
             u == t \ {c}
             v == t \ {x}
             w == u \ {x}
  <2>5. IsFiniteSet(t) /\ t # {}
    BY <1>f, <2>3, <2>4
  <2>6. c \in t /\ Cardinality(u) = n - 1 /\ n \in Nat \ {0}
    BY <2>3, <2>5, TakingOne
  <2>7. g[t] = f[c] + g[u]
    BY <1>1, <2>5 DEF Adds
  <2> HIDE DEF c
  <2>8. x # c
    BY <2>4, <2>7
  <2>9. Cardinality(v) = n - 1
    BY <2>3, <2>4, <2>5, FS_RemoveElement
  <2>10. u \in SUBSET S /\ v \in SUBSET S /\ w \in SUBSET S /\ w = v \ {c} /\ x \in u /\ c \in v
    BY <2>3, <2>4, <2>6, <2>8
  <2>11. n - 1 \in Nat /\ n - 1 \notin T
    <3> HIDE DEF T
    <3> QED
      BY <2>2, <2>6
  <2> HIDE DEF u, v, w
  <2>12. ~Bad(u) /\ ~Bad(v)
    <3> HIDE DEF Bad
    <3> QED
      BY <2>6, <2>9, <2>10, <2>11
  <2>13. g[u] = f[x] + g[w] /\ g[v] = f[c] + g[w]
    BY <2>10, <2>12 DEF w
  <2>14. f[x] \in Int /\ f[c] \in Int /\ g[w] \in Int
    BY <1>1, <2>3, <2>4, <2>6, <2>10
  <2>15. f[c] + (f[x] + g[w]) = f[x] + (f[c] + g[w])
    BY <2>14
  <2> QED
    BY <2>4, <2>7, <2>13, <2>15 DEF v
<1>3. Cardinality(S) \in Nat /\ S \in SUBSET S
  BY <1>f
<1>4. ~Bad(S)
  <2> HIDE DEF Bad
  <2> QED
    BY <1>2, <1>3
<1>5. g[S] = f[a] + g[S \ {a}]
  BY <1>4
<1>6. SumFunctionOnSet(f, S) = g[S] /\ SumFunctionOnSet(f, S \ {a}) = g[S \ {a}]
  BY <1>1, SumOfSubset
<1> QED
  BY <1>5, <1>6

(* A new term is added to the sum, or a term is taken away from it.        *)
LEMMA SumGains ==
    ASSUME NEW S, IsFiniteSet(S), NEW f, \A x \in S : f[x] \in Int, NEW a, a \notin S,
           NEW g, g[a] \in Int, \A x \in S : g[x] = f[x]
    PROVE  SumFunctionOnSet(g, S \cup {a}) = SumFunctionOnSet(f, S) + g[a]
<1>1. IsFiniteSet(S \cup {a}) /\ \A x \in S \cup {a} : g[x] \in Int
  BY FS_AddElement
<1>2. a \in S \cup {a} /\ (S \cup {a}) \ {a} = S
  OBVIOUS
<1>3. SumFunctionOnSet(g, S \cup {a}) = g[a] + SumFunctionOnSet(g, S)
  <2> DEFINE U == S \cup {a}
  <2>1. IsFiniteSet(U) /\ (\A x \in U : g[x] \in Int) /\ a \in U /\ U \ {a} = S
    BY <1>1, <1>2
  <2> HIDE DEF U
  <2>2. SumFunctionOnSet(g, U) = g[a] + SumFunctionOnSet(g, U \ {a})
    BY <2>1, SumSplit
  <2> QED
    BY <2>1, <2>2 DEF U
<1>4. SumFunctionOnSet(g, S) = SumFunctionOnSet(f, S) /\ SumFunctionOnSet(f, S) \in Int
  BY SumSame, SumType
<1> DEFINE whole == SumFunctionOnSet(g, S \cup {a})
           part == SumFunctionOnSet(f, S)
           term == g[a]
<1>5. whole = term + part /\ term \in Int /\ part \in Int
  BY <1>3, <1>4
<1> HIDE DEF whole, part, term
<1>6. whole = part + term
  BY <1>5
<1> QED
  BY <1>6 DEF whole, part, term

LEMMA SumLoses ==
    ASSUME NEW S, IsFiniteSet(S), NEW f, \A x \in S : f[x] \in Int, NEW a \in S,
           NEW g, \A x \in S \ {a} : g[x] = f[x]
    PROVE  SumFunctionOnSet(g, S \ {a}) = SumFunctionOnSet(f, S) - f[a]
<1>1. IsFiniteSet(S \ {a}) /\ \A x \in S \ {a} : f[x] \in Int
  BY FS_RemoveElement
<1>2. SumFunctionOnSet(f, S) = f[a] + SumFunctionOnSet(f, S \ {a})
  BY SumSplit
<1>3. SumFunctionOnSet(g, S \ {a}) = SumFunctionOnSet(f, S \ {a})
  BY <1>1, SumSame
<1>4. SumFunctionOnSet(f, S \ {a}) \in Int
  BY <1>1, SumType
<1> QED
  BY <1>2, <1>3, <1>4
=============================================================================
