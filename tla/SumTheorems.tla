------------------------------ MODULE SumTheorems ------------------------------
(* What the sums of the models come to: a sum over a finite set does not      *)
(* depend on the order of its terms, and moves with each of them.             *)
EXTENDS Functions, FiniteSetTheorems, TLAPS

(* The sums of the subsets of S, each from a smaller one. *)
Least(s) == CHOOSE x \in s : TRUE
SumsUp(g, f, S) ==
    g = [s \in SUBSET S |-> IF s = {} THEN 0 ELSE f[Least(s)] + g[s \ {Least(s)}]]

--------------------------------------------------------------------------------
(* Induction over the subsets of a finite set: P holds the sets for which the *)
(* claim holds.                                                               *)
LEMMA SubsetInduction ==
  ASSUME NEW S, IsFiniteSet(S), NEW P,
         \A T \in SUBSET S : (\A x \in T : T \ {x} \in P) => T \in P
  PROVE  SUBSET S \subseteq P
<1> DEFINE Bad == {n \in Nat : \E T \in SUBSET S : Cardinality(T) = n /\ T \notin P}
           R == OpToRel(<, Nat)
<1>1. SUFFICES ASSUME NEW T \in SUBSET S, T \notin P PROVE FALSE
  OBVIOUS
<1>2. \A U \in SUBSET S : IsFiniteSet(U) /\ Cardinality(U) \in Nat
  BY FS_Subset, FS_CardinalityType
<1>3. Bad \subseteq Nat /\ Cardinality(T) \in Bad
  BY <1>1, <1>2
<1>4. PICK n \in Bad : \A m \in Bad : ~(<<m, n>> \in R)
  <2> HIDE DEF Bad, R
  <2>1. IsWellFoundedOn(R, Nat) /\ Bad # {}
    BY <1>3, NatLessThanWellFounded DEF R
  <2> QED
    BY <1>3, <2>1, WFMin
<1>5. \A m \in Bad : ~(m < n)
  BY <1>3, <1>4 DEF OpToRel
<1>6. PICK U \in SUBSET S : Cardinality(U) = n /\ U \notin P
  OBVIOUS
<1>7. ASSUME NEW x \in U PROVE U \ {x} \in P
  <2>1. Cardinality(U \ {x}) = n - 1 /\ Cardinality(U \ {x}) \in Nat /\ U \ {x} \in SUBSET S
    BY <1>2, <1>6, FS_RemoveElement
  <2>2. Cardinality(U \ {x}) \notin Bad
    <3>1. n \in Nat
      BY <1>3
    <3> HIDE DEF Bad
    <3> QED
      BY <1>5, <2>1, <3>1
  <2> QED
    BY <2>1, <2>2
<1> QED
  BY <1>6, <1>7

--------------------------------------------------------------------------------
(* The sums exist *)

LEMMA SumIsChosen ==
  ASSUME NEW f, NEW S
  PROVE  SumFunctionOnSet(f, S) = (CHOOSE g : SumsUp(g, f, S))[S]
BY DEF SumFunctionOnSet, FoldFunctionOnSet, MapThenFoldSet, SumsUp, Least

LEMMA LeastIsIn == \A s : s # {} => Least(s) \in s
BY DEF Least

(* Two that agree with the definition agree with each other. *)
LEMMA SumsAgree ==
  ASSUME NEW f, NEW S, IsFiniteSet(S), NEW T \in SUBSET S,
         NEW g, SumsUp(g, f, S), NEW h, SumsUp(h, f, T)
  PROVE  \A s \in SUBSET T : g[s] = h[s]
<1> DEFINE P == {s \in SUBSET T : g[s] = h[s]}
<1>1. IsFiniteSet(T)
  BY FS_Subset
<1>2. ASSUME NEW U \in SUBSET T, \A x \in U : U \ {x} \in P PROVE U \in P
  <2>1. /\ g[U] = IF U = {} THEN 0 ELSE f[Least(U)] + g[U \ {Least(U)}]
        /\ h[U] = IF U = {} THEN 0 ELSE f[Least(U)] + h[U \ {Least(U)}]
    BY DEF SumsUp
  <2>2. U # {} => U \ {Least(U)} \in P
    BY <1>2, LeastIsIn
  <2> QED
    BY <2>1, <2>2
<1>3. SUBSET T \subseteq P
  <2> HIDE DEF P
  <2> QED
    BY <1>1, <1>2, SubsetInduction
<1> QED
  BY <1>3

(* So do two for different sets, wherever they meet. *)
LEMMA SumsMeet ==
  ASSUME NEW f, NEW V, IsFiniteSet(V), NEW W, IsFiniteSet(W),
         NEW g, SumsUp(g, f, V), NEW h, SumsUp(h, f, W), NEW s \in SUBSET (V \cap W)
  PROVE  g[s] = h[s]
<1> DEFINE U == V \cap W
           k == [u \in SUBSET U |-> g[u]]
<1>1. U \in SUBSET V /\ U \in SUBSET W /\ s \in SUBSET U
  OBVIOUS
<1>2. SumsUp(k, f, U)
  <2>1. ASSUME NEW u \in SUBSET U
        PROVE  k[u] = IF u = {} THEN 0 ELSE f[Least(u)] + k[u \ {Least(u)}]
    <3>1. u \in SUBSET V
      BY <1>1
    <3>2. g[u] = IF u = {} THEN 0 ELSE f[Least(u)] + g[u \ {Least(u)}]
      BY <3>1 DEF SumsUp
    <3>3. u \ {Least(u)} \in SUBSET U
      OBVIOUS
    <3> QED
      BY <3>2, <3>3
  <2>2. k = [u \in SUBSET U |-> k[u]]
    OBVIOUS
  <2> HIDE DEF k, U
  <2> QED
    BY <2>1, <2>2 DEF SumsUp
<1> HIDE DEF k, U
<1>3. \A u \in SUBSET U : g[u] = k[u]
  BY <1>1, <1>2, SumsAgree
<1>4. \A u \in SUBSET U : h[u] = k[u]
  <2>1. U \in SUBSET W
    BY <1>1
  <2> QED
    BY <1>2, <2>1, SumsAgree, SMTT(60)
<1> QED
  BY <1>1, <1>3, <1>4

LEMMA SumsExist ==
  ASSUME NEW f, NEW S, IsFiniteSet(S)
  PROVE  \E g : SumsUp(g, f, S)
<1> DEFINE P == {T \in SUBSET S : \E g : SumsUp(g, f, T)}
<1>1. ASSUME NEW T \in SUBSET S, \A x \in T : T \ {x} \in P PROVE T \in P
  <2> DEFINE h == [x \in T |-> CHOOSE g : SumsUp(g, f, T \ {x})]
             g == [s \in SUBSET T |->
                     IF s = {} THEN 0
                     ELSE IF s = T THEN f[Least(T)] + h[Least(T)][T \ {Least(T)}]
                     ELSE h[Least(T \ s)][s]]
  <2>1. \A x \in T : SumsUp(h[x], f, T \ {x})
    BY <1>1
  <2>2. \A x \in T : T \ {x} \in SUBSET S /\ IsFiniteSet(T \ {x})
    BY FS_Subset
  (* Whatever is left out, the sums of what remains are the same. *)
  <2>3. ASSUME NEW x \in T, NEW y \in T, NEW s \in SUBSET T, x \notin s, y \notin s
        PROVE  h[x][s] = h[y][s]
    <3> DEFINE V == T \ {x}
               W == T \ {y}
               a == h[x]
               b == h[y]
    <3>1. SumsUp(a, f, V) /\ SumsUp(b, f, W) /\ IsFiniteSet(V) /\ IsFiniteSet(W)
      BY <2>1, <2>2
    <3>2. s \in SUBSET (V \cap W)
      BY <2>3
    <3> HIDE DEF a, b, V, W
    <3>3. a[s] = b[s]
      BY <3>1, <3>2, SumsMeet
    <3> QED
      BY <3>3 DEF a, b
  <2>4. ASSUME NEW s \in SUBSET T
        PROVE  g[s] = IF s = {} THEN 0 ELSE f[Least(s)] + g[s \ {Least(s)}]
    <3> DEFINE r == s \ {Least(s)}
    <3>1. CASE s = {}
      BY <3>1
    <3>2. CASE s # {} /\ s = T
      <4>1. Least(T) \in T /\ r \in SUBSET T /\ r # T /\ Least(T \ r) = Least(T)
        <5>1. Least(T) \in T
          BY <3>2, LeastIsIn
        <5>2. T \ r = {Least(T)}
          BY <3>2, <5>1
        <5>3. Least(T \ r) \in {Least(T)}
          BY <5>2, LeastIsIn
        <5> QED
          BY <3>2, <5>1, <5>3
      <4>2. g[s] = f[Least(T)] + h[Least(T)][r]
        BY <3>2
      <4>3. r # {} => g[r] = h[Least(T)][r]
        BY <4>1
      <4>4. h[Least(T)][{}] = 0
        <5> HIDE DEF h
        <5> QED
          BY <2>1, <4>1 DEF SumsUp
      <4>5. g[{}] = 0
        OBVIOUS
      <4> HIDE DEF g, h, r
      <4>6. g[r] = h[Least(T)][r]
        BY <4>3, <4>4, <4>5
      <4> QED
        BY <3>2, <4>2, <4>6 DEF r
    <3>3. CASE s # {} /\ s # T
      <4> DEFINE x == Least(T \ s)
                 y == Least(T \ r)
      <4>1. x \in T /\ x \notin s /\ y \in T /\ y \notin r /\ r \in SUBSET T /\ r # T /\ Least(s) \in s
        <5>1. T \ s # {} /\ T \ r # {}
          BY <3>3
        <5>2. x \in T \ s /\ y \in T \ r /\ Least(s) \in s
          BY <3>3, <5>1, LeastIsIn
        <5> QED
          BY <5>2
      <4>2. g[s] = h[x][s]
        BY <3>3
      <4>3. h[x][s] = f[Least(s)] + h[x][r]
        <5> HIDE DEF h, x
        <5>1. s \in SUBSET (T \ {x})
          BY <4>1
        <5> QED
          BY <2>1, <3>3, <4>1, <5>1 DEF SumsUp
      <4>4. r # {} => g[r] = h[y][r]
        BY <4>1
      <4>5. h[x][r] = h[y][r]
        <5> HIDE DEF h, x, y
        <5> QED
          BY <2>3, <4>1
      <4>6. h[y][{}] = 0 /\ g[{}] = 0
        <5>1. g[{}] = 0
          OBVIOUS
        <5> HIDE DEF h, y, g
        <5> QED
          BY <2>1, <4>1, <5>1 DEF SumsUp
      <4> HIDE DEF g, h, x, y, r
      <4>7. g[r] = h[x][r]
        BY <4>4, <4>5, <4>6
      <4> QED
        BY <3>3, <4>2, <4>3, <4>7 DEF r
    <3> QED
      BY <3>1, <3>2, <3>3
  <2>5. g = [s \in SUBSET T |-> g[s]]
    OBVIOUS
  <2> HIDE DEF g
  <2>6. SumsUp(g, f, T)
    BY <2>4, <2>5 DEF SumsUp
  <2> QED
    BY <2>6
<1>2. SUBSET S \subseteq P
  <2> HIDE DEF P
  <2> QED
    BY <1>1, SubsetInduction
<1> QED
  BY <1>2

LEMMA SumUnfolds ==
  ASSUME NEW f, NEW S, IsFiniteSet(S)
  PROVE  /\ SumFunctionOnSet(f, {}) = 0
         /\ S # {} => /\ Least(S) \in S
                      /\ SumFunctionOnSet(f, S) = f[Least(S)] + SumFunctionOnSet(f, S \ {Least(S)})
<1> DEFINE G(T) == CHOOSE g : SumsUp(g, f, T)
<1>1. \A T : IsFiniteSet(T) => SumsUp(G(T), f, T) /\ SumFunctionOnSet(f, T) = G(T)[T]
  <2> SUFFICES ASSUME NEW T, IsFiniteSet(T)
               PROVE  SumsUp(G(T), f, T) /\ SumFunctionOnSet(f, T) = G(T)[T]
    OBVIOUS
  <2>1. \E g : SumsUp(g, f, T)
    BY SumsExist
  <2> QED
    BY <2>1, SumIsChosen
<1> HIDE DEF G
<1>2. IsFiniteSet({})
  BY FS_EmptySet
<1>3. G({})[{}] = 0
  <2>1. SumsUp(G({}), f, {})
    BY <1>1, <1>2
  <2> QED
    BY <2>1 DEF SumsUp
<1>4. ASSUME S # {}
      PROVE  /\ Least(S) \in S
             /\ SumFunctionOnSet(f, S) = f[Least(S)] + SumFunctionOnSet(f, S \ {Least(S)})
  <2> DEFINE T == S \ {Least(S)}
             a == G(S)
             b == G(T)
  <2>1. IsFiniteSet(T) /\ T \in SUBSET S
    BY FS_Subset
  <2>2. /\ SumsUp(a, f, S) /\ SumFunctionOnSet(f, S) = a[S]
        /\ SumsUp(b, f, T) /\ SumFunctionOnSet(f, T) = b[T]
    BY <1>1, <2>1
  <2>3. a[S] = f[Least(S)] + a[T]
    BY <1>4, <2>2 DEF SumsUp
  <2> HIDE DEF a, b, T
  <2>4. \A s \in SUBSET T : a[s] = b[s]
    BY <2>1, <2>2, SumsAgree, SMTT(60)
  <2>5. a[T] = b[T]
    BY <2>4
  <2> QED
    BY <1>4, <2>2, <2>3, <2>5, LeastIsIn DEF T
<1> QED
  BY <1>1, <1>2, <1>3, <1>4

--------------------------------------------------------------------------------
(* What the sums keep to *)

LEMMA SumOnType ==
  ASSUME NEW S, IsFiniteSet(S), NEW f \in [S -> Int]
  PROVE  \A T \in SUBSET S : SumFunctionOnSet(f, T) \in Int
<1> DEFINE P == {T \in SUBSET S : SumFunctionOnSet(f, T) \in Int}
<1>1. ASSUME NEW T \in SUBSET S, \A x \in T : T \ {x} \in P PROVE T \in P
  <2>1. IsFiniteSet(T)
    BY FS_Subset
  <2>2. CASE T = {}
    <3>1. SumFunctionOnSet(f, {}) = 0
      BY SumUnfolds, FS_EmptySet
    <3> QED
      BY <2>2, <3>1
  <2>3. CASE T # {}
    <3>1. /\ Least(T) \in T
          /\ SumFunctionOnSet(f, T) = f[Least(T)] + SumFunctionOnSet(f, T \ {Least(T)})
      BY <2>1, <2>3, SumUnfolds
    <3>2. SumFunctionOnSet(f, T \ {Least(T)}) \in Int /\ f[Least(T)] \in Int
      BY <1>1, <3>1
    <3> QED
      BY <3>1, <3>2
  <2> QED
    BY <2>2, <2>3
<1>2. SUBSET S \subseteq P
  <2> HIDE DEF P
  <2> QED
    BY <1>1, SubsetInduction
<1> QED
  BY <1>2

(* Any term may be taken out, not only the one the definition chooses. *)
LEMMA SumOnRemove ==
  ASSUME NEW S, IsFiniteSet(S), NEW f \in [S -> Int]
  PROVE  \A T \in SUBSET S : \A x \in T :
             SumFunctionOnSet(f, T) = f[x] + SumFunctionOnSet(f, T \ {x})
<1> DEFINE Sum(T) == SumFunctionOnSet(f, T)
           P == {T \in SUBSET S : \A x \in T : Sum(T) = f[x] + Sum(T \ {x})}
<1>1. ASSUME NEW T \in SUBSET S, \A x \in T : T \ {x} \in P PROVE T \in P
  <2> SUFFICES ASSUME NEW x \in T PROVE Sum(T) = f[x] + Sum(T \ {x})
    OBVIOUS
  <2> DEFINE c == Least(T)
  <2>1. IsFiniteSet(T) /\ IsFiniteSet(T \ {x}) /\ T \ {x} \in SUBSET S
    BY FS_Subset
  <2>2. c \in T /\ Sum(T) = f[c] + Sum(T \ {c})
    BY <2>1, SumUnfolds
  <2> HIDE DEF c
  <2>3. CASE x = c
    BY <2>2, <2>3
  <2>4. CASE x # c
    <3>1. Sum(T \ {c}) = f[x] + Sum((T \ {c}) \ {x})
      <4>1. T \ {c} \in P /\ x \in T \ {c}
        BY <1>1, <2>2, <2>4
      <4> QED
        BY <4>1
    <3>2. Sum(T \ {x}) = f[c] + Sum((T \ {x}) \ {c})
      <4>1. T \ {x} \in P /\ c \in T \ {x}
        BY <1>1, <2>2, <2>4
      <4> QED
        BY <4>1
    <3>3. (T \ {c}) \ {x} = (T \ {x}) \ {c}
      OBVIOUS
    <3>4. f[c] \in Int /\ f[x] \in Int /\ Sum((T \ {x}) \ {c}) \in Int
      <4>1. (T \ {x}) \ {c} \in SUBSET S
        OBVIOUS
      <4> QED
        BY <2>2, <4>1, SumOnType
    <3>5. Sum((T \ {c}) \ {x}) = Sum((T \ {x}) \ {c})
      BY <3>3
    <3> DEFINE all == Sum(T)
               rest == Sum((T \ {x}) \ {c})
               fewer == Sum(T \ {c})
               others == Sum(T \ {x})
    <3>6. /\ all = f[c] + fewer /\ fewer = f[x] + rest /\ others = f[c] + rest
          /\ rest \in Int
      BY <2>2, <3>1, <3>2, <3>4, <3>5
    <3> HIDE DEF all, rest, fewer, others
    <3>7. all = f[x] + others
      BY <3>4, <3>6
    <3> QED
      BY <3>7 DEF all, others
  <2> QED
    BY <2>3, <2>4
<1>2. SUBSET S \subseteq P
  <2> HIDE DEF P
  <2> QED
    BY <1>1, SubsetInduction
<1> QED
  BY <1>2

(* Only the terms count. *)
LEMMA SumOnSame ==
  ASSUME NEW S, IsFiniteSet(S), NEW f, NEW g, \A x \in S : f[x] = g[x]
  PROVE  SumFunctionOnSet(f, S) = SumFunctionOnSet(g, S)
<1> DEFINE P == {T \in SUBSET S : SumFunctionOnSet(f, T) = SumFunctionOnSet(g, T)}
<1>1. ASSUME NEW T \in SUBSET S, \A x \in T : T \ {x} \in P PROVE T \in P
  <2>1. IsFiniteSet(T)
    BY FS_Subset
  <2>2. CASE T = {}
    BY <2>1, <2>2, SumUnfolds
  <2>3. CASE T # {}
    <3>1. /\ Least(T) \in T
          /\ SumFunctionOnSet(f, T) = f[Least(T)] + SumFunctionOnSet(f, T \ {Least(T)})
      BY <2>1, <2>3, SumUnfolds
    <3>2. SumFunctionOnSet(g, T) = g[Least(T)] + SumFunctionOnSet(g, T \ {Least(T)})
      BY <2>1, <2>3, SumUnfolds
    <3>3. /\ SumFunctionOnSet(f, T \ {Least(T)}) = SumFunctionOnSet(g, T \ {Least(T)})
          /\ f[Least(T)] = g[Least(T)]
      BY <1>1, <3>1
    <3> QED
      BY <3>1, <3>2, <3>3
  <2> QED
    BY <2>2, <2>3
<1>2. SUBSET S \subseteq P
  <2> HIDE DEF P
  <2> QED
    BY <1>1, SubsetInduction
<1> QED
  BY <1>2

--------------------------------------------------------------------------------
(* Sums of functions *)

LEMMA SumType ==
  ASSUME NEW S, IsFiniteSet(S), NEW f \in [S -> Int]
  PROVE  SumFunction(f) \in Int
BY SumOnType DEF SumFunction

LEMMA SumEmpty ==
  ASSUME NEW f, DOMAIN f = {}
  PROVE  SumFunction(f) = 0
BY SumUnfolds, FS_EmptySet DEF SumFunction

(* What one term adds to the others. *)
LEMMA SumTakeOut ==
  ASSUME NEW S, IsFiniteSet(S), NEW f \in [S -> Int], NEW a \in S
  PROVE  /\ SumFunctionOnSet(f, S \ {a}) \in Int
         /\ SumFunction(f) = f[a] + SumFunctionOnSet(f, S \ {a})
<1>1. S \ {a} \in SUBSET S /\ S \in SUBSET S /\ DOMAIN f = S
  OBVIOUS
<1> QED
  BY <1>1, SumOnRemove, SumOnType DEF SumFunction

(* A sum moves with the one term that changes. *)
LEMMA SumChange ==
  ASSUME NEW S, IsFiniteSet(S), NEW f \in [S -> Int], NEW g \in [S -> Int], NEW a \in S,
         \A x \in S \ {a} : f[x] = g[x]
  PROVE  SumFunction(g) = SumFunction(f) - f[a] + g[a]
<1> DEFINE restF == SumFunctionOnSet(f, S \ {a})
           restG == SumFunctionOnSet(g, S \ {a})
           allF == SumFunction(f)
           allG == SumFunction(g)
<1>1. restF = restG
  <2>1. IsFiniteSet(S \ {a})
    BY FS_Subset
  <2> QED
    BY <2>1, SumOnSame
<1>2. restF \in Int /\ allF = f[a] + restF /\ allG = g[a] + restG
  BY SumTakeOut
<1>3. f[a] \in Int /\ g[a] \in Int
  OBVIOUS
<1> HIDE DEF restF, restG, allF, allG
<1>4. allG = allF - f[a] + g[a]
  BY <1>1, <1>2, <1>3
<1> QED
  BY <1>4 DEF allF, allG

(* Terms that are 0 do not count. *)
LEMMA SumOnPart ==
  ASSUME NEW S, IsFiniteSet(S), NEW f \in [S -> Int], NEW T \in SUBSET S,
         \A x \in S \ T : f[x] = 0
  PROVE  SumFunction(f) = SumFunctionOnSet(f, T)
<1> DEFINE P == {U \in SUBSET S : SumFunctionOnSet(f, U) = SumFunctionOnSet(f, U \cap T)}
<1>1. ASSUME NEW U \in SUBSET S, \A x \in U : U \ {x} \in P PROVE U \in P
  <2>1. CASE U \subseteq T
    <3>1. U \cap T = U
      BY <2>1
    <3> QED
      BY <3>1
  <2>2. ASSUME NEW x \in U, x \notin T PROVE U \in P
    <3> DEFINE all == SumFunctionOnSet(f, U)
               rest == SumFunctionOnSet(f, U \ {x})
    <3>1. all = f[x] + rest /\ f[x] = 0 /\ rest \in Int
      BY <2>2, SumOnRemove, SumOnType
    <3>2. rest = SumFunctionOnSet(f, (U \ {x}) \cap T)
      BY <1>1, <2>2
    <3>3. (U \ {x}) \cap T = U \cap T
      BY <2>2
    <3> HIDE DEF all, rest
    <3>4. all = rest
      BY <3>1
    <3>5. rest = SumFunctionOnSet(f, U \cap T)
      BY <3>2, <3>3
    <3> QED
      BY <3>4, <3>5 DEF all
  <2> QED
    BY <2>1, <2>2
<1>2. SUBSET S \subseteq P
  <2> HIDE DEF P
  <2> QED
    BY <1>1, SubsetInduction
<1>3. S \in P /\ S \cap T = T /\ DOMAIN f = S
  BY <1>2
<1> QED
  BY <1>3 DEF SumFunction

LEMMA SumOfPart ==
  ASSUME NEW S, IsFiniteSet(S), NEW f \in [S -> Int], NEW T \in SUBSET S, NEW g \in [T -> Int],
         \A x \in T : f[x] = g[x], \A x \in S \ T : f[x] = 0
  PROVE  SumFunction(f) = SumFunction(g)
<1>1. SumFunction(f) = SumFunctionOnSet(f, T)
  BY SumOnPart
<1>2. SumFunctionOnSet(f, T) = SumFunctionOnSet(g, T)
  BY FS_Subset, SumOnSame
<1>3. SumFunction(g) = SumFunctionOnSet(g, T)
  BY DEF SumFunction
<1> QED
  BY <1>1, <1>2, <1>3

LEMMA SumAdd ==
  ASSUME NEW S, IsFiniteSet(S), NEW f \in [S -> Int], NEW g \in [S -> Int], NEW h \in [S -> Int],
         \A x \in S : h[x] = f[x] + g[x]
  PROVE  SumFunction(h) = SumFunction(f) + SumFunction(g)
<1> DEFINE P == {T \in SUBSET S : SumFunctionOnSet(h, T)
                                    = SumFunctionOnSet(f, T) + SumFunctionOnSet(g, T)}
<1>1. ASSUME NEW T \in SUBSET S, \A x \in T : T \ {x} \in P PROVE T \in P
  <2>1. CASE T = {}
    <3>1. /\ SumFunctionOnSet(f, {}) = 0 /\ SumFunctionOnSet(g, {}) = 0
          /\ SumFunctionOnSet(h, {}) = 0
      BY SumUnfolds, FS_EmptySet
    <3> QED
      BY <2>1, <3>1
  <2>2. ASSUME NEW x \in T PROVE T \in P
    <3> DEFINE allF == SumFunctionOnSet(f, T)
               restF == SumFunctionOnSet(f, T \ {x})
               allG == SumFunctionOnSet(g, T)
               restG == SumFunctionOnSet(g, T \ {x})
               allH == SumFunctionOnSet(h, T)
               restH == SumFunctionOnSet(h, T \ {x})
    <3>1. /\ allF = f[x] + restF /\ allG = g[x] + restG /\ allH = h[x] + restH
          /\ restF \in Int /\ restG \in Int
      <4>1. T \ {x} \in SUBSET S
        OBVIOUS
      <4> QED
        BY <2>2, <4>1, SumOnRemove, SumOnType
    <3>2. restH = restF + restG
      BY <1>1, <2>2
    <3>3. f[x] \in Int /\ g[x] \in Int /\ h[x] = f[x] + g[x]
      OBVIOUS
    <3> HIDE DEF allF, restF, allG, restG, allH, restH
    <3>4. allH = allF + allG
      BY <3>1, <3>2, <3>3
    <3> QED
      BY <3>4 DEF allF, allG, allH
  <2> QED
    BY <2>1, <2>2
<1>2. SUBSET S \subseteq P
  <2> HIDE DEF P
  <2> QED
    BY <1>1, SubsetInduction
<1>3. S \in P /\ DOMAIN f = S /\ DOMAIN g = S /\ DOMAIN h = S
  BY <1>2
<1>4. /\ SumFunction(f) = SumFunctionOnSet(f, S) /\ SumFunction(g) = SumFunctionOnSet(g, S)
      /\ SumFunction(h) = SumFunctionOnSet(h, S)
  BY <1>3 DEF SumFunction
<1> QED
  BY <1>3, <1>4

LEMMA SumNat ==
  ASSUME NEW S, IsFiniteSet(S), NEW f \in [S -> Nat]
  PROVE  \A T \in SUBSET S : SumFunctionOnSet(f, T) \in Nat
<1> DEFINE P == {T \in SUBSET S : SumFunctionOnSet(f, T) \in Nat}
<1>1. ASSUME NEW T \in SUBSET S, \A x \in T : T \ {x} \in P PROVE T \in P
  <2>1. CASE T = {}
    <3>1. SumFunctionOnSet(f, {}) = 0
      BY SumUnfolds, FS_EmptySet
    <3> QED
      BY <2>1, <3>1
  <2>2. ASSUME NEW x \in T PROVE T \in P
    <3>1. SumFunctionOnSet(f, T) = f[x] + SumFunctionOnSet(f, T \ {x})
      <4>1. f \in [S -> Int]
        OBVIOUS
      <4> QED
        BY <2>2, <4>1, SumOnRemove
    <3>2. SumFunctionOnSet(f, T \ {x}) \in Nat /\ f[x] \in Nat
      BY <1>1, <2>2
    <3> QED
      BY <3>1, <3>2
  <2> QED
    BY <2>1, <2>2
<1>2. SUBSET S \subseteq P
  <2> HIDE DEF P
  <2> QED
    BY <1>1, SubsetInduction
<1> QED
  BY <1>2

(* A sum of natural numbers is one, and is at least each of its terms. *)
LEMMA SumOfNat ==
  ASSUME NEW S, IsFiniteSet(S), NEW f \in [S -> Nat]
  PROVE  /\ SumFunction(f) \in Nat
         /\ \A x \in S : f[x] <= SumFunction(f)
<1>1. f \in [S -> Int] /\ DOMAIN f = S /\ S \in SUBSET S
  OBVIOUS
<1>2. SumFunction(f) \in Nat
  BY <1>1, SumNat DEF SumFunction
<1>3. ASSUME NEW x \in S PROVE f[x] <= SumFunction(f)
  <2> DEFINE rest == SumFunctionOnSet(f, S \ {x})
             all == SumFunction(f)
  <2>1. rest \in Nat
    BY SumNat
  <2>2. all = f[x] + rest
    BY <1>1, SumTakeOut
  <2>3. f[x] \in Nat
    OBVIOUS
  <2> HIDE DEF rest, all
  <2>4. f[x] <= all
    BY <2>1, <2>2, <2>3
  <2> QED
    BY <2>4 DEF all
<1> QED
  BY <1>2, <1>3

LEMMA SumMonotone ==
  ASSUME NEW S, IsFiniteSet(S), NEW f \in [S -> Int], NEW g \in [S -> Int],
         \A x \in S : f[x] <= g[x]
  PROVE  SumFunction(f) <= SumFunction(g)
<1> DEFINE h == [x \in S |-> g[x] - f[x]]
           sumF == SumFunction(f)
           sumG == SumFunction(g)
           sumH == SumFunction(h)
<1>1. h \in [S -> Nat] /\ h \in [S -> Int] /\ \A x \in S : g[x] = f[x] + h[x]
  OBVIOUS
<1> HIDE DEF h
<1>2. sumH \in Nat
  BY <1>1, SumOfNat
<1>3. sumF \in Int
  BY SumType
<1>4. sumG = sumF + sumH
  BY <1>1, SumAdd
<1> HIDE DEF sumF, sumG, sumH
<1>5. sumF <= sumG
  BY <1>2, <1>3, <1>4
<1> QED
  BY <1>5 DEF sumF, sumG

LEMMA SumZero ==
  ASSUME NEW S, IsFiniteSet(S), NEW f \in [S -> Int], \A x \in S : f[x] = 0
  PROVE  SumFunction(f) = 0
<1>1. SumFunction(f) = SumFunctionOnSet(f, {})
  BY SumOnPart
<1> QED
  BY <1>1, SumUnfolds, FS_EmptySet

(* One more term. *)
LEMMA SumExtend ==
  ASSUME NEW S, IsFiniteSet(S), NEW a, a \notin S,
         NEW f \in [S -> Int], NEW g \in [S \cup {a} -> Int], \A x \in S : g[x] = f[x]
  PROVE  SumFunction(g) = SumFunction(f) + g[a]
<1> DEFINE T == S \cup {a}
           sumF == SumFunction(f)
           sumG == SumFunction(g)
           rest == SumFunctionOnSet(g, T \ {a})
<1>1. IsFiniteSet(T) /\ a \in T /\ T \ {a} = S /\ g \in [T -> Int]
  BY FS_AddElement
<1>2. rest \in Int /\ sumG = g[a] + rest
  <2> HIDE DEF T
  <2> QED
    BY <1>1, SumTakeOut
<1>3. rest = sumF
  <2>1. SumFunctionOnSet(g, S) = SumFunctionOnSet(f, S)
    BY SumOnSame
  <2>2. SumFunction(f) = SumFunctionOnSet(f, S)
    BY DEF SumFunction
  <2> QED
    BY <1>1, <2>1, <2>2
<1>4. g[a] \in Int
  OBVIOUS
<1> HIDE DEF rest, sumF, sumG
<1>5. sumG = sumF + g[a]
  BY <1>2, <1>3, <1>4
<1> QED
  BY <1>5 DEF sumF, sumG

(* The terms may be named otherwise. *)
LEMMA SumRename ==
  ASSUME NEW S, IsFiniteSet(S), NEW f \in [S -> Int],
         NEW h, \A x, y \in S : h[x] = h[y] => x = y,
         NEW g \in [{h[x] : x \in S} -> Int], \A x \in S : g[h[x]] = f[x]
  PROVE  SumFunction(g) = SumFunction(f)
<1> DEFINE Of(U) == {h[x] : x \in U}
           P == {U \in SUBSET S : SumFunctionOnSet(g, Of(U)) = SumFunctionOnSet(f, U)}
<1>0. IsFiniteSet(Of(S))
  <2> DEFINE m == [x \in S |-> h[x]]
  <2>1. m \in Surjection(S, Of(S))
    BY DEF Surjection
  <2> HIDE DEF m, Of
  <2> QED
    BY <2>1, FS_Surjection
<1>1. ASSUME NEW U \in SUBSET S, \A x \in U : U \ {x} \in P PROVE U \in P
  <2>1. CASE U = {}
    <3>1. Of(U) = {} /\ SumFunctionOnSet(f, {}) = 0 /\ SumFunctionOnSet(g, {}) = 0
      BY <2>1, SumUnfolds, FS_EmptySet
    <3> QED
      BY <2>1, <3>1
  <2>2. ASSUME NEW x \in U PROVE U \in P
    <3> DEFINE all == SumFunctionOnSet(f, U)
               rest == SumFunctionOnSet(f, U \ {x})
               named == SumFunctionOnSet(g, Of(U))
               others == SumFunctionOnSet(g, Of(U) \ {h[x]})
    <3>1. all = f[x] + rest
      BY <2>2, SumOnRemove
    <3>2. named = g[h[x]] + others
      <4>1. Of(U) \in SUBSET Of(S) /\ h[x] \in Of(U) /\ g \in [Of(S) -> Int]
        BY <2>2
      <4> HIDE DEF Of
      <4> QED
        BY <1>0, <4>1, SumOnRemove
    <3>3. Of(U) \ {h[x]} = Of(U \ {x})
      BY <2>2
    <3>4. others = rest
      <4>1. U \ {x} \in P
        BY <1>1, <2>2
      <4>2. SumFunctionOnSet(g, Of(U \ {x})) = SumFunctionOnSet(f, U \ {x})
        BY <4>1
      <4> HIDE DEF Of, P
      <4> QED
        BY <3>3, <4>2
    <3>5. g[h[x]] = f[x]
      BY <2>2
    <3> HIDE DEF all, rest, named, others
    <3>6. named = all
      BY <3>1, <3>2, <3>4, <3>5
    <3> QED
      BY <3>6 DEF all, named
  <2> QED
    BY <2>1, <2>2
<1>2. SUBSET S \subseteq P
  <2> HIDE DEF P
  <2> QED
    BY <1>1, SubsetInduction
<1>3. SumFunctionOnSet(g, Of(S)) = SumFunctionOnSet(f, S) /\ DOMAIN f = S /\ DOMAIN g = Of(S)
  BY <1>2
<1> HIDE DEF Of
<1> QED
  BY <1>3 DEF SumFunction

(* Terms all multiplied by a number. *)
LEMMA SumScale ==
  ASSUME NEW S, IsFiniteSet(S), NEW f \in [S -> Int], NEW k \in Int, NEW g \in [S -> Int],
         \A x \in S : g[x] = k * f[x]
  PROVE  SumFunction(g) = k * SumFunction(f)
<1> DEFINE P == {T \in SUBSET S : SumFunctionOnSet(g, T) = k * SumFunctionOnSet(f, T)}
<1>1. ASSUME NEW T \in SUBSET S, \A x \in T : T \ {x} \in P PROVE T \in P
  <2>1. CASE T = {}
    <3>1. SumFunctionOnSet(f, {}) = 0 /\ SumFunctionOnSet(g, {}) = 0
      BY SumUnfolds, FS_EmptySet
    <3> QED
      BY <2>1, <3>1
  <2>2. ASSUME NEW x \in T PROVE T \in P
    <3> DEFINE allF == SumFunctionOnSet(f, T)
               restF == SumFunctionOnSet(f, T \ {x})
               allG == SumFunctionOnSet(g, T)
               restG == SumFunctionOnSet(g, T \ {x})
    <3>1. allF = f[x] + restF /\ allG = g[x] + restG /\ restF \in Int
      <4>1. T \ {x} \in SUBSET S
        OBVIOUS
      <4> QED
        BY <2>2, <4>1, SumOnRemove, SumOnType
    <3>2. restG = k * restF
      BY <1>1, <2>2
    <3>3. f[x] \in Int /\ g[x] = k * f[x]
      OBVIOUS
    <3> HIDE DEF allF, restF, allG, restG
    <3>4. \A a, b \in Int : k * (a + b) = k * a + k * b
      OBVIOUS
    <3>5. allG = k * allF
      BY <3>1, <3>2, <3>3, <3>4
    <3> QED
      BY <3>5 DEF allF, allG
  <2> QED
    BY <2>1, <2>2
<1>2. SUBSET S \subseteq P
  <2> HIDE DEF P
  <2> QED
    BY <1>1, SubsetInduction
<1>3. S \in P /\ DOMAIN f = S /\ DOMAIN g = S
  BY <1>2
<1>4. SumFunction(f) = SumFunctionOnSet(f, S) /\ SumFunction(g) = SumFunctionOnSet(g, S)
  BY <1>3 DEF SumFunction
<1> QED
  BY <1>3, <1>4

(* As many equal terms as there are members. *)
LEMMA SumConstant ==
  ASSUME NEW S, IsFiniteSet(S), NEW c \in Int, NEW f \in [S -> Int], \A x \in S : f[x] = c
  PROVE  SumFunction(f) = c * Cardinality(S)
<1> DEFINE P == {T \in SUBSET S : SumFunctionOnSet(f, T) = c * Cardinality(T)}
<1>1. ASSUME NEW T \in SUBSET S, \A x \in T : T \ {x} \in P PROVE T \in P
  <2>1. CASE T = {}
    <3>1. SumFunctionOnSet(f, {}) = 0 /\ Cardinality({}) = 0
      BY SumUnfolds, FS_EmptySet
    <3> QED
      BY <2>1, <3>1
  <2>2. ASSUME NEW x \in T PROVE T \in P
    <3> DEFINE all == SumFunctionOnSet(f, T)
               rest == SumFunctionOnSet(f, T \ {x})
               m == Cardinality(T)
               n == Cardinality(T \ {x})
    <3>1. all = f[x] + rest /\ f[x] = c
      BY <2>2, SumOnRemove
    <3>2. rest = c * n
      BY <1>1, <2>2
    <3>3. n = m - 1 /\ m \in Nat /\ n \in Nat
      <4>1. IsFiniteSet(T)
        BY FS_Subset
      <4> QED
        BY <2>2, <4>1, FS_RemoveElement, FS_CardinalityType
    <3> HIDE DEF all, rest, m, n
    <3>4. m = n + 1
      BY <3>3
    <3>5. c * (n + 1) = c + c * n
      BY <3>3
    <3>6. all = c * m
      BY <3>1, <3>2, <3>3, <3>4, <3>5
    <3> QED
      BY <3>6 DEF all, m
  <2> QED
    BY <2>1, <2>2
<1>2. SUBSET S \subseteq P
  <2> HIDE DEF P
  <2> QED
    BY <1>1, SubsetInduction
<1>3. S \in P /\ DOMAIN f = S
  BY <1>2
<1> QED
  BY <1>3 DEF SumFunction
================================================================================
