----------------------------- MODULE SumProofs -----------------------------
(***************************************************************************)
(* Folds over finite sets, sums of integers, functions defined by          *)
(* recursion on numbers, and shares of a pool: what the proofs about the   *)
(* market, prizes, ways and losses need.                                   *)
(*                                                                         *)
(* The library defines a fold by a recursive function on subsets.  Its     *)
(* induction theorems have a predicate as a parameter; here the predicate  *)
(* is the set E of what satisfies it, the operator that is folded is a     *)
(* function, and induction is the fact that strict inclusion of finite     *)
(* sets is well-founded.                                                   *)
(***************************************************************************)
EXTENDS Sums, FiniteSetTheorems, TLAPS

\* What holds of a subset as soon as it holds of all smaller ones holds of all.
LEMMA SetInduction ==
  ASSUME NEW S, IsFiniteSet(S), NEW E,
         \A T \in SUBSET S : (\A U \in SUBSET T : U # T => U \in E) => T \in E
  PROVE  SUBSET S \subseteq E
<1> DEFINE D == (SUBSET S) \ E
<1>1. SUFFICES ASSUME D # {} PROVE FALSE
  BY <1>1
<1>2. D \subseteq FiniteSubsetsOf(S)
  BY FS_FiniteSubsetsOfFinite
<1>3. IsWellFoundedOn(StrictSubsetOrdering(S), FiniteSubsetsOf(S))
  BY FS_StrictSubsetOrderingWellFounded
<1>4. PICK T \in D : \A U \in D : ~(<<U, T>> \in StrictSubsetOrdering(S))
  <2> HIDE DEF D
  <2> QED BY <1>1, <1>2, <1>3, WFMin
<1>5. PICK U \in SUBSET T : U # T /\ U \notin E
  OBVIOUS
<1>6. <<U, T>> \in (SUBSET S) \X (SUBSET S)
  OBVIOUS
<1>7. <<U, T>>[1] \subseteq <<U, T>>[2] /\ <<U, T>>[1] # <<U, T>>[2]
  BY <1>5
<1>8. <<U, T>> \in StrictSubsetOrdering(S)
  BY <1>6, <1>7, Zenon DEF StrictSubsetOrdering
<1> QED BY <1>4, <1>5, <1>8

\* What holds of the empty set, and of one element more, holds of the whole.
LEMMA AddInduction ==
  ASSUME NEW S, IsFiniteSet(S), NEW E, {} \in E,
         \A T \in SUBSET S, x \in S : T \in E /\ x \notin T => T \cup {x} \in E
  PROVE  S \in E
<1>1. ASSUME NEW T \in SUBSET S, \A U \in SUBSET T : U # T => U \in E PROVE T \in E
  <2>1. CASE T = {}
    BY <2>1
  <2>2. CASE T # {}
    <3>1. PICK x \in T : TRUE
      BY <2>2
    <3>2. T \ {x} \in SUBSET S /\ T \ {x} \in E /\ x \notin T \ {x} /\ x \in S
      BY <1>1, <3>1
    <3>3. (T \ {x}) \cup {x} = T
      BY <3>1
    <3> HIDE <1>1
    <3> QED BY <3>2, <3>3
  <2> QED BY <2>1, <2>2
<1>2. SUBSET S \subseteq E
  BY <1>1, SetInduction
<1> QED BY <1>2

-----------------------------------------------------------------------------
(* Numbers and recursions on them.                                         *)

\* Every set of natural numbers has a least one.
LEMMA LeastNumber ==
  ASSUME NEW S, S \subseteq Nat, S # {}
  PROVE  \E n \in S : \A m \in S : n <= m
<1> DEFINE R == OpToRel(<, Nat)
<1>1. IsWellFoundedOn(R, Nat) BY NatLessThanWellFounded
<1>2. \A m, n \in Nat : m < n => <<m, n>> \in R BY DEF OpToRel
<1> HIDE DEF R
<1>3. PICK n \in S : \A m \in S : ~(<<m, n>> \in R) BY <1>1, WFMin, Zenon
<1>4. \A m \in S : ~(m < n) BY <1>2, <1>3, Zenon
<1>5. \A m \in S : m \in Nat /\ n \in Nat BY <1>3
<1> QED BY <1>3, <1>4, <1>5

\* f is what the recursion computes: Step is a function of the place and of
\* the value before.
Recurs(f, top, first, Step) ==
  f = [l \in 1..top |-> IF l = 1 THEN first ELSE Step[l][f[l - 1]]]

LEMMA RecursionDefined ==
  ASSUME NEW top \in Nat, NEW first, NEW Step
  PROVE  \E f : Recurs(f, top, first, Step)
<1> DEFINE Upto(f, n) == \A l \in 1..n : f[l] = IF l = 1 THEN first ELSE Step[l][f[l - 1]]
           Without == {n \in Nat : ~\E f : Upto(f, n)}
<1>1. Without = {}
  <2> SUFFICES ASSUME Without # {} PROVE FALSE OBVIOUS
  <2>1. Without \subseteq Nat OBVIOUS
  <2>2. PICK n \in Without : \A m \in Without : n <= m
    <3> HIDE DEF Without
    <3> QED BY <2>1, LeastNumber
  <2>3. n \in Nat /\ n # 0 OBVIOUS
  <2>4. n - 1 \in Nat /\ ~(n <= n - 1) BY <2>3
  <2>5. PICK f : Upto(f, n - 1) BY <2>2, <2>4
  <2> DEFINE g == [l \in 1..n |-> IF l < n THEN f[l] ELSE IF l = 1 THEN first ELSE Step[l][f[l - 1]]]
  <2>6. Upto(g, n)
    <3> SUFFICES ASSUME NEW l \in 1..n PROVE g[l] = IF l = 1 THEN first ELSE Step[l][g[l - 1]] OBVIOUS
    <3>1. l # 1 => l - 1 \in 1..n /\ l - 1 < n /\ g[l - 1] = f[l - 1] BY <2>3
    <3>2. CASE l < n
      <4>1. l \in 1..n - 1 BY <2>3, <3>2
      <4>2. g[l] = f[l] BY <3>2
      <4> QED BY <2>5, <3>1, <4>1, <4>2
    <3>3. CASE l = n
      <4>1. g[l] = IF l = 1 THEN first ELSE Step[l][f[l - 1]] BY <3>3
      <4> QED BY <3>1, <4>1
    <3> QED BY <2>3, <3>2, <3>3
  <2> HIDE DEF Upto, g
  <2> QED BY <2>6
<1>2. PICK f : Upto(f, top) BY <1>1
<1> DEFINE g == [l \in 1..top |-> f[l]]
<1>3. \A l \in 1..top : l = 1 \/ l - 1 \in 1..top OBVIOUS
<1>4. \A l \in 1..top : g[l] = IF l = 1 THEN first ELSE Step[l][g[l - 1]] BY <1>2, <1>3
<1>5. g = [l \in 1..top |-> IF l = 1 THEN first ELSE Step[l][g[l - 1]]] BY <1>4
<1> HIDE DEF g
<1> QED BY <1>5 DEF Recurs

\* Whatever satisfies the recursion has its values in a set its steps stay in.
LEMMA RecursionTyped ==
  ASSUME NEW top \in Nat, NEW V, NEW first \in V, NEW Step,
         \A l \in 2..top : \A v \in V : Step[l][v] \in V,
         NEW f, Recurs(f, top, first, Step)
  PROVE  \A l \in 1..top : f[l] \in V
<1> DEFINE Out == {l \in 1..top : f[l] \notin V}
<1> SUFFICES ASSUME Out # {} PROVE FALSE OBVIOUS
<1>1. Out \subseteq Nat OBVIOUS
<1>2. PICK l \in Out : \A m \in Out : l <= m
  <2> HIDE DEF Out
  <2> QED BY <1>1, LeastNumber
<1>3. l \in 1..top /\ f[l] \notin V OBVIOUS
<1>4. f[l] = IF l = 1 THEN first ELSE Step[l][f[l - 1]] BY <1>3 DEF Recurs
<1>5. l # 1 BY <1>3, <1>4
<1>6. l - 1 \in 1..top /\ l \in 2..top /\ ~(l <= l - 1) BY <1>3, <1>5
<1>7. f[l - 1] \in V BY <1>2, <1>6
<1> QED BY <1>3, <1>4, <1>5, <1>6, <1>7

-----------------------------------------------------------------------------
(* Folds.                                                                  *)

\* The element the library takes next, and the function a fold is computed by.
Chosen(s) == CHOOSE x \in s : TRUE
IsFold(g, op, base, S) == g = [s \in SUBSET S |-> IF s = {} THEN base ELSE op[Chosen(s)][g[s \ {Chosen(s)}]]]

\* There is at most one such function,
LEMMA FoldsUnique ==
  ASSUME NEW op, NEW base, NEW S, IsFiniteSet(S), NEW g, NEW h, IsFold(g, op, base, S), IsFold(h, op, base, S)
  PROVE  g = h
<1> DEFINE E == {s \in SUBSET S : g[s] = h[s]}
<1>1. g = [s \in SUBSET S |-> g[s]] /\ h = [s \in SUBSET S |-> h[s]]
  BY Zenon DEF IsFold
<1>2. ASSUME NEW T \in SUBSET S, \A U \in SUBSET T : U # T => U \in E PROVE T \in E
  <2>1. CASE T = {}
    BY <2>1 DEF IsFold
  <2>2. CASE T # {}
    <3>1. Chosen(T) \in T
      BY <2>2 DEF Chosen
    <3>2. T \ {Chosen(T)} \in E
      BY <3>1, <1>2
    <3>3. g[T] = op[Chosen(T)][g[T \ {Chosen(T)}]] /\ h[T] = op[Chosen(T)][h[T \ {Chosen(T)}]]
      BY <2>2 DEF IsFold
    <3> QED BY <3>2, <3>3
  <2> QED BY <2>1, <2>2
<1>3. SUBSET S \subseteq E
  <2> HIDE DEF E
  <2> QED BY <1>2, SetInduction
<1> QED BY <1>1, <1>3

\* its restriction to a smaller set is one,
LEMMA FoldsRestrict ==
  ASSUME NEW op, NEW base, NEW S, NEW g, IsFold(g, op, base, S), NEW T \in SUBSET S
  PROVE  IsFold([s \in SUBSET T |-> g[s]], op, base, T)
<1> DEFINE k == [s \in SUBSET T |-> g[s]]
<1>1. ASSUME NEW s \in SUBSET T
      PROVE  k[s] = IF s = {} THEN base ELSE op[Chosen(s)][k[s \ {Chosen(s)}]]
  <2>1. s \in SUBSET S /\ s \ {Chosen(s)} \in SUBSET T
    OBVIOUS
  <2> QED BY <2>1 DEF IsFold
<1> QED BY <1>1, Zenon DEF IsFold

\* and there is one.
LEMMA FoldsExist ==
  ASSUME NEW op, NEW base, NEW S, IsFiniteSet(S)
  PROVE  \E g : IsFold(g, op, base, S)
<1> DEFINE E == {s \in SUBSET S : \E g : IsFold(g, op, base, s)}
           Val(s) == (CHOOSE g : IsFold(g, op, base, s))[s]
<1>1. ASSUME NEW T \in SUBSET S, \A U \in SUBSET T : U # T => U \in E PROVE T \in E
  <2> DEFINE e == [s \in SUBSET T |->
                    IF s # T THEN Val(s) ELSE IF s = {} THEN base ELSE op[Chosen(s)][Val(s \ {Chosen(s)})]]
  <2> HIDE DEF Val
  <2>1. ASSUME NEW s \in SUBSET T
        PROVE  e[s] = IF s = {} THEN base ELSE op[Chosen(s)][e[s \ {Chosen(s)}]]
    <3>1. CASE s = T
      <4>1. s # {} => s \ {Chosen(s)} # T /\ s \ {Chosen(s)} \in SUBSET T
        BY <3>1 DEF Chosen
      <4> QED BY <3>1, <4>1
    <3>2. CASE s # T
      <4>1. PICK g : IsFold(g, op, base, s) /\ Val(s) = g[s]
        BY <1>1, <3>2 DEF Val
      <4>2. CASE s = {}
        <5>1. g[s] = base BY <4>1, <4>2 DEF IsFold
        <5> QED BY <3>2, <4>1, <4>2, <5>1
      <4>3. CASE s # {}
        <5> DEFINE r == s \ {Chosen(s)}
        <5>1. r \in SUBSET s /\ r \in SUBSET T /\ r # T
          BY <4>3 DEF Chosen
        <5>2. g[s] = op[Chosen(s)][g[r]]
          BY <4>1, <4>3 DEF IsFold
        <5>3. Val(r) = g[r]
          <6> DEFINE k == [u \in SUBSET r |-> g[u]]
          <6>1. IsFold(k, op, base, r)
            <7>1. r \in SUBSET s /\ IsFold(g, op, base, s)
              BY <4>1, <5>1
            <7> HIDE DEF r
            <7> QED BY <7>1, FoldsRestrict
          <6>2. PICK h : IsFold(h, op, base, r) /\ Val(r) = h[r]
            BY <6>1 DEF Val
          <6>3. IsFiniteSet(r)
            BY <5>1, FS_Subset
          <6>4. h = k
            <7> HIDE DEF k, r
            <7> QED BY <6>1, <6>2, <6>3, FoldsUnique
          <6> QED BY <6>2, <6>4
        <5> QED BY <3>2, <4>1, <4>3, <5>1, <5>2, <5>3
      <4> QED BY <4>2, <4>3
    <3> QED BY <3>1, <3>2
  <2>2. IsFold(e, op, base, T)
    BY <2>1, Zenon DEF IsFold
  <2> QED BY <2>2
<1>2. SUBSET S \subseteq E
  <2> HIDE DEF E
  <2> QED BY <1>1, SetInduction
<1> QED BY <1>2

\* Its values are in any set that the base is in and op does not leave.
LEMMA FoldsTyped ==
  ASSUME NEW op, NEW base, NEW S, IsFiniteSet(S), NEW g, IsFold(g, op, base, S),
         NEW B, base \in B, \A x \in S, b \in B : op[x][b] \in B
  PROVE  \A T \in SUBSET S : g[T] \in B
<1> DEFINE E == {s \in SUBSET S : g[s] \in B}
<1>1. ASSUME NEW T \in SUBSET S, \A U \in SUBSET T : U # T => U \in E PROVE T \in E
  <2>1. CASE T = {}
    BY <2>1 DEF IsFold
  <2>2. CASE T # {}
    <3>1. Chosen(T) \in T
      BY <2>2 DEF Chosen
    <3>2. T \ {Chosen(T)} \in E
      BY <3>1, <1>1
    <3>3. g[T] = op[Chosen(T)][g[T \ {Chosen(T)}]]
      BY <2>2 DEF IsFold
    <3> QED BY <3>1, <3>2, <3>3
  <2> QED BY <2>1, <2>2
<1>2. SUBSET S \subseteq E
  <2> HIDE DEF E
  <2> QED BY <1>1, SetInduction
<1> QED BY <1>2

-----------------------------------------------------------------------------
(* Sums.                                                                   *)

IsSum(g, f, S) == g = [s \in SUBSET S |-> IF s = {} THEN 0 ELSE f[Chosen(s)] + g[s \ {Chosen(s)}]]

Adding(f, S) == [x \in S |-> [n \in Int |-> f[x] + n]]

\* A sum is the value at S of the recursive function the library defines,
LEMMA SumUnfolds ==
  ASSUME NEW f, NEW S
  PROVE  SumOver(f, S) = (CHOOSE g : IsSum(g, f, S))[S]
BY DEF SumOver, MapThenSumSet, MapThenFoldSet, IsSum, Chosen

\* which is a fold.
LEMMA SumsAreFolds ==
  ASSUME NEW S, IsFiniteSet(S), NEW f, \A x \in S : f[x] \in Int, NEW T \in SUBSET S, NEW g
  PROVE  IsSum(g, f, T) <=> IsFold(g, Adding(f, S), 0, T)
<1> DEFINE op == Adding(f, S)
<1>0. IsFiniteSet(T)
  BY FS_Subset
<1>1. \A x \in S, n \in Int : op[x][n] = f[x] + n /\ op[x][n] \in Int
  BY DEF Adding
<1>2. ASSUME IsFold(g, op, 0, T) PROVE IsSum(g, f, T)
  <2>1. \A U \in SUBSET T : g[U] \in Int
    <3> HIDE DEF op
    <3>1. 0 \in Int /\ \A x \in T, n \in Int : op[x][n] \in Int
      BY <1>1
    <3> QED BY <1>0, <1>2, <3>1, FoldsTyped
  <2>2. ASSUME NEW s \in SUBSET T, s # {}
        PROVE  op[Chosen(s)][g[s \ {Chosen(s)}]] = f[Chosen(s)] + g[s \ {Chosen(s)}]
    <3>1. Chosen(s) \in S /\ g[s \ {Chosen(s)}] \in Int
      BY <2>1, <2>2 DEF Chosen
    <3> HIDE DEF op
    <3> QED BY <1>1, <3>1
  <2>3. \A s \in SUBSET T : g[s] = IF s = {} THEN 0 ELSE f[Chosen(s)] + g[s \ {Chosen(s)}]
    <3> HIDE DEF op
    <3> QED BY <1>2, <2>2 DEF IsFold
  <2>4. g = [s \in SUBSET T |-> g[s]]
    <3> HIDE DEF op
    <3> QED BY <1>2, Zenon DEF IsFold
  <2> QED BY <2>3, <2>4, Zenon DEF IsSum
<1>3. ASSUME IsSum(g, f, T) PROVE IsFold(g, op, 0, T)
  <2> DEFINE E == {U \in SUBSET T : g[U] \in Int}
  <2>1. ASSUME NEW U \in SUBSET T, \A V \in SUBSET U : V # U => V \in E PROVE U \in E
    <3>1. CASE U = {}
      BY <1>3, <3>1 DEF IsSum
    <3>2. CASE U # {}
      <4>1. Chosen(U) \in U
        BY <3>2 DEF Chosen
      <4>2. U \ {Chosen(U)} \in E
        BY <4>1, <2>1
      <4>3. g[U] = f[Chosen(U)] + g[U \ {Chosen(U)}]
        BY <1>3, <3>2 DEF IsSum
      <4> QED BY <4>1, <4>2, <4>3
    <3> QED BY <3>1, <3>2
  <2>2. SUBSET T \subseteq E
    <3> HIDE DEF E
    <3> QED BY <1>0, <2>1, SetInduction
  <2>3. ASSUME NEW s \in SUBSET T, s # {}
        PROVE  op[Chosen(s)][g[s \ {Chosen(s)}]] = f[Chosen(s)] + g[s \ {Chosen(s)}]
    <3>1. Chosen(s) \in S /\ g[s \ {Chosen(s)}] \in Int
      BY <2>2, <2>3 DEF Chosen
    <3> HIDE DEF op
    <3> QED BY <1>1, <3>1
  <2>4. \A s \in SUBSET T : g[s] = IF s = {} THEN 0 ELSE op[Chosen(s)][g[s \ {Chosen(s)}]]
    <3> HIDE DEF op
    <3> QED BY <1>3, <2>3 DEF IsSum
  <2>5. g = [s \in SUBSET T |-> g[s]]
    BY <1>3, Zenon DEF IsSum
  <2> HIDE DEF op
  <2> QED BY <2>4, <2>5, Zenon DEF IsFold
<1> QED BY <1>2, <1>3

LEMMA SumsExist ==
  ASSUME NEW S, IsFiniteSet(S), NEW f, \A x \in S : f[x] \in Int
  PROVE  \E g : IsSum(g, f, S)
BY FoldsExist, SumsAreFolds

\* The equations of a sum.
LEMMA SumEmpty == ASSUME NEW f PROVE SumOver(f, {}) = 0
<1>1. IsFiniteSet({})
  BY FS_EmptySet
<1>2. \E g : IsSum(g, f, {})
  BY <1>1, SumsExist
<1>3. PICK g : IsSum(g, f, {}) /\ SumOver(f, {}) = g[{}]
  BY <1>2, SumUnfolds
<1> QED BY <1>3 DEF IsSum

LEMMA SumStep ==
  ASSUME NEW S, IsFiniteSet(S), S # {}, NEW f, \A x \in S : f[x] \in Int
  PROVE  SumOver(f, S) = f[Chosen(S)] + SumOver(f, S \ {Chosen(S)})
<1> DEFINE r == S \ {Chosen(S)}
           op == Adding(f, S)
<1>1. \E g : IsSum(g, f, S)
  BY SumsExist
<1>2. PICK g : IsSum(g, f, S) /\ SumOver(f, S) = g[S]
  BY <1>1, SumUnfolds
<1>3. r \in SUBSET S /\ IsFiniteSet(r)
  BY FS_Subset
<1>4. \E h : IsSum(h, f, r)
  BY <1>3, SumsExist
<1>5. PICK h : IsSum(h, f, r) /\ SumOver(f, r) = h[r]
  <2> HIDE DEF r
  <2> QED BY <1>4, SumUnfolds
<1>6. IsFold(g, op, 0, S) /\ IsFold(h, op, 0, r)
  <2>1. S \in SUBSET S
    OBVIOUS
  <2> HIDE DEF r
  <2> QED BY <1>2, <1>3, <1>5, <2>1, SumsAreFolds
<1>7. IsFold([s \in SUBSET r |-> g[s]], op, 0, r)
  <2> HIDE DEF r, op
  <2> QED BY <1>3, <1>6, FoldsRestrict
<1>8. h = [s \in SUBSET r |-> g[s]]
  <2> HIDE DEF r, op
  <2> QED BY <1>3, <1>6, <1>7, FoldsUnique
<1>9. g[S] = f[Chosen(S)] + g[r]
  BY <1>2 DEF IsSum
<1> QED BY <1>2, <1>5, <1>8, <1>9

\* Sums of integers are integers.
LEMMA SumInt ==
  ASSUME NEW f, NEW S, IsFiniteSet(S), \A x \in S : f[x] \in Int
  PROVE  SumOver(f, S) \in Int
<1> DEFINE E == {T \in SUBSET S : SumOver(f, T) \in Int}
<1>1. ASSUME NEW T \in SUBSET S, \A U \in SUBSET T : U # T => U \in E PROVE T \in E
  <2>1. CASE T = {}
    BY <2>1, SumEmpty
  <2>2. CASE T # {}
    <3>1. Chosen(T) \in T
      BY <2>2 DEF Chosen
    <3>2. SumOver(f, T \ {Chosen(T)}) \in Int /\ IsFiniteSet(T)
      BY <1>1, <3>1, FS_Subset
    <3>3. SumOver(f, T) = f[Chosen(T)] + SumOver(f, T \ {Chosen(T)})
      BY <2>2, <3>2, SumStep
    <3> QED BY <3>1, <3>2, <3>3
  <2> QED BY <2>1, <2>2
<1>2. SUBSET S \subseteq E
  <2> HIDE DEF E
  <2> QED BY <1>1, SetInduction
<1> QED BY <1>2

\* It does not matter which element is added first.
LEMMA SumRemove ==
  ASSUME NEW f, NEW S, IsFiniteSet(S), \A x \in S : f[x] \in Int, NEW y \in S
  PROVE  SumOver(f, S) = f[y] + SumOver(f, S \ {y})
<1> DEFINE Splits(T, x) == SumOver(f, T) = f[x] + SumOver(f, T \ {x})
           E == {T \in SUBSET S : \A x \in T : Splits(T, x)}
<1>1. \A U \in SUBSET S : IsFiniteSet(U) /\ SumOver(f, U) \in Int
  BY FS_Subset, SumInt
<1>2. ASSUME NEW T \in SUBSET S, \A U \in SUBSET T : U # T => U \in E PROVE T \in E
  <2> SUFFICES ASSUME NEW x \in T PROVE Splits(T, x)
    OBVIOUS
  <2> DEFINE c == Chosen(T)
  <2>1. c \in T
    BY DEF Chosen
  <2>2. Splits(T, c)
    BY <1>1, SumStep
  <2>3. CASE x # c
    <3>1. T \ {c} \in E /\ T \ {x} \in E /\ x \in T \ {c} /\ c \in T \ {x}
      BY <1>2, <2>1, <2>3
    <3>2. Splits(T \ {c}, x) /\ Splits(T \ {x}, c)
      <4> HIDE DEF Splits, c
      <4> QED BY <3>1
    <3>3. (T \ {x}) \ {c} = (T \ {c}) \ {x}
      OBVIOUS
    <3>4. SumOver(f, (T \ {x}) \ {c}) = SumOver(f, (T \ {c}) \ {x})
      BY <3>3
    <3>5. f[x] \in Int /\ f[c] \in Int /\ SumOver(f, (T \ {c}) \ {x}) \in Int
      BY <1>1, <2>1
    <3> HIDE DEF c, E
    <3> QED BY <2>2, <3>2, <3>4, <3>5 DEF Splits
  <2> QED BY <2>2, <2>3
<1>3. SUBSET S \subseteq E
  <2> HIDE DEF E
  <2> QED BY <1>2, SetInduction
<1> QED BY <1>3

LEMMA SumAdd ==
  ASSUME NEW f, NEW S, IsFiniteSet(S), NEW y, y \notin S, \A x \in S \cup {y} : f[x] \in Int
  PROVE  SumOver(f, S \cup {y}) = f[y] + SumOver(f, S)
<1>1. IsFiniteSet(S \cup {y})
  BY FS_AddElement
<1>2. SumOver(f, S \cup {y}) = f[y] + SumOver(f, (S \cup {y}) \ {y})
  BY <1>1, SumRemove
<1>3. (S \cup {y}) \ {y} = S
  OBVIOUS
<1> QED BY <1>2, <1>3

\* Sums are additive in the function,
LEMMA SumPlus ==
  ASSUME NEW S, IsFiniteSet(S), NEW f, NEW g, NEW h,
         \A x \in S : f[x] \in Int /\ g[x] \in Int /\ h[x] = f[x] + g[x]
  PROVE  SumOver(h, S) = SumOver(f, S) + SumOver(g, S)
<1> DEFINE E == {T \in SUBSET S : SumOver(h, T) = SumOver(f, T) + SumOver(g, T)}
<1>1. {} \in E
  BY SumEmpty
<1>2. ASSUME NEW T \in SUBSET S, NEW x \in S, T \in E, x \notin T PROVE T \cup {x} \in E
  <2>1. IsFiniteSet(T) /\ \A y \in T \cup {x} : f[y] \in Int /\ g[y] \in Int /\ h[y] \in Int
    BY FS_Subset
  <2>2. SumOver(f, T) \in Int /\ SumOver(g, T) \in Int
    BY <2>1, SumInt
  <2>3. /\ SumOver(f, T \cup {x}) = f[x] + SumOver(f, T)
        /\ SumOver(g, T \cup {x}) = g[x] + SumOver(g, T)
        /\ SumOver(h, T \cup {x}) = h[x] + SumOver(h, T)
    BY <2>1, <1>2, SumAdd
  <2>4. SumOver(h, T) = SumOver(f, T) + SumOver(g, T)
    BY <1>2
  <2> QED BY <2>1, <2>2, <2>3, <2>4
<1>3. S \in E
  <2> HIDE DEF E
  <2> QED BY <1>1, <1>2, AddInduction
<1> QED BY <1>3

LEMMA SumZero ==
  ASSUME NEW S, IsFiniteSet(S), NEW f, \A x \in S : f[x] = 0
  PROVE  SumOver(f, S) = 0
<1>1. SumOver(f, S) \in Int
  BY SumInt
<1>2. SumOver(f, S) = SumOver(f, S) + SumOver(f, S)
  <2>1. \A x \in S : f[x] \in Int /\ f[x] \in Int /\ f[x] = f[x] + f[x]
    OBVIOUS
  <2> QED BY <2>1, SumPlus
<1> DEFINE n == SumOver(f, S)
<1>3. n \in Int /\ n = n + n
  BY <1>1, <1>2
<1>4. n = 0
  <2> HIDE DEF n
  <2> QED BY <1>3
<1> QED BY <1>4

\* depend on its values only,
LEMMA SumAgree ==
  ASSUME NEW S, IsFiniteSet(S), NEW f, NEW g, \A x \in S : f[x] \in Int /\ g[x] = f[x]
  PROVE  SumOver(g, S) = SumOver(f, S)
<1> DEFINE z == [x \in S |-> 0]
<1>1. SumOver(g, S) = SumOver(f, S) + SumOver(z, S)
  BY SumPlus
<1>2. SumOver(z, S) = 0
  BY SumZero
<1>3. SumOver(f, S) \in Int
  BY SumInt
<1> QED BY <1>1, <1>2, <1>3

LEMMA SumNat ==
  ASSUME NEW S, IsFiniteSet(S), NEW f, \A x \in S : f[x] \in Nat
  PROVE  SumOver(f, S) \in Nat
<1> DEFINE E == {T \in SUBSET S : SumOver(f, T) \in Nat}
<1>1. {} \in E
  BY SumEmpty
<1>2. ASSUME NEW T \in SUBSET S, NEW x \in S, T \in E, x \notin T PROVE T \cup {x} \in E
  <2>1. IsFiniteSet(T) /\ \A y \in T \cup {x} : f[y] \in Int
    BY FS_Subset
  <2>2. SumOver(f, T \cup {x}) = f[x] + SumOver(f, T)
    BY <2>1, <1>2, SumAdd
  <2> QED BY <2>2, <1>2
<1>3. S \in E
  <2> HIDE DEF E
  <2> QED BY <1>1, <1>2, AddInduction
<1> QED BY <1>3

\* and change by what one value changes.
DifferAt(p, S, f, g) == \A x \in S : f[x] \in Int /\ g[x] \in Int /\ (x # p => g[x] = f[x])

LEMMA SumUpdate ==
  ASSUME NEW S, IsFiniteSet(S), NEW f, NEW g, NEW p \in S, DifferAt(p, S, f, g)
  PROVE  SumOver(g, S) = SumOver(f, S) + g[p] - f[p]
<1> USE DEF DifferAt
<1>1. SumOver(f, S) = f[p] + SumOver(f, S \ {p}) /\ SumOver(g, S) = g[p] + SumOver(g, S \ {p})
  BY SumRemove
<1>2. IsFiniteSet(S \ {p})
  BY FS_Subset
<1>3. SumOver(g, S \ {p}) = SumOver(f, S \ {p}) /\ SumOver(f, S \ {p}) \in Int
  BY <1>2, SumAgree, SumInt
<1> QED BY <1>1, <1>3

\* Sums of multiples, of values that are at most others, and of equal values.
LEMMA SumScale ==
  ASSUME NEW S, IsFiniteSet(S), NEW k \in Int, NEW f, NEW g, \A x \in S : f[x] \in Int /\ g[x] = k * f[x]
  PROVE  SumOver(g, S) = k * SumOver(f, S)
<1> DEFINE E == {T \in SUBSET S : SumOver(g, T) = k * SumOver(f, T)}
<1>1. {} \in E
  BY SumEmpty
<1>2. ASSUME NEW T \in SUBSET S, NEW x \in S, T \in E, x \notin T PROVE T \cup {x} \in E
  <2>1. IsFiniteSet(T) /\ \A y \in T \cup {x} : f[y] \in Int /\ g[y] \in Int
    BY FS_Subset
  <2>2. SumOver(f, T) \in Int
    BY <2>1, SumInt
  <2>3. SumOver(f, T \cup {x}) = f[x] + SumOver(f, T) /\ SumOver(g, T \cup {x}) = g[x] + SumOver(g, T)
    BY <2>1, <1>2, SumAdd
  <2>4. SumOver(g, T) = k * SumOver(f, T) /\ g[x] = k * f[x] /\ f[x] \in Int
    BY <1>2
  <2>5. \A m, n \in Int : k * (m + n) = k * m + k * n
    OBVIOUS
  <2> QED BY <2>2, <2>3, <2>4, <2>5
<1>3. S \in E
  <2> HIDE DEF E
  <2> QED BY <1>1, <1>2, AddInduction
<1> QED BY <1>3

LEMMA SumMono ==
  ASSUME NEW S, IsFiniteSet(S), NEW f, NEW g, \A x \in S : f[x] \in Int /\ g[x] \in Int /\ f[x] <= g[x]
  PROVE  SumOver(f, S) <= SumOver(g, S)
<1> DEFINE d == [x \in S |-> g[x] - f[x]]
<1>1. \A x \in S : d[x] \in Nat
  OBVIOUS
<1>2. SumOver(d, S) \in Nat
  <2> HIDE DEF d
  <2> QED BY <1>1, SumNat
<1>3. \A x \in S : f[x] \in Int /\ d[x] \in Int /\ g[x] = f[x] + d[x]
  OBVIOUS
<1>4. SumOver(g, S) = SumOver(f, S) + SumOver(d, S)
  <2> HIDE DEF d
  <2> QED BY <1>3, SumPlus
<1>5. SumOver(f, S) \in Int
  BY SumInt
<1> HIDE DEF d
<1> QED BY <1>2, <1>4, <1>5

LEMMA SumConst ==
  ASSUME NEW S, IsFiniteSet(S), NEW k \in Int, NEW f, \A x \in S : f[x] = k
  PROVE  SumOver(f, S) = k * Cardinality(S)
<1> DEFINE E == {T \in SUBSET S : SumOver(f, T) = k * Cardinality(T)}
<1>1. {} \in E
  BY SumEmpty, FS_EmptySet
<1>2. ASSUME NEW T \in SUBSET S, NEW x \in S, T \in E, x \notin T PROVE T \cup {x} \in E
  <2>1. IsFiniteSet(T) /\ \A y \in T \cup {x} : f[y] \in Int
    BY FS_Subset
  <2>2. Cardinality(T) \in Nat /\ Cardinality(T \cup {x}) = Cardinality(T) + 1
    BY <2>1, <1>2, FS_CardinalityType, FS_AddElement
  <2>3. SumOver(f, T \cup {x}) = k + SumOver(f, T)
    BY <2>1, <1>2, SumAdd
  <2>4. SumOver(f, T) = k * Cardinality(T)
    BY <1>2
  <2>5. \A n \in Int : k + k * n = k * (n + 1)
    OBVIOUS
  <2> QED BY <2>2, <2>3, <2>4, <2>5
<1>3. S \in E
  <2> HIDE DEF E
  <2> QED BY <1>1, <1>2, AddInduction
<1> QED BY <1>3

LEMMA SumSingle == ASSUME NEW x, NEW f, f[x] \in Int PROVE SumOver(f, {x}) = f[x]
<1>1. IsFiniteSet({}) /\ {} \cup {x} = {x} /\ SumOver(f, {}) = 0
  BY FS_EmptySet, SumEmpty
<1>2. SumOver(f, {} \cup {x}) = f[x] + SumOver(f, {})
  BY <1>1, SumAdd
<1> QED BY <1>1, <1>2

\* An amount is shared in proportion to weights and each share rounded down:
\* less than one for each of those who share is lost.
Shares(S, w, amount, f) ==
  \A x \in S : w[x] \in Nat /\ f[x] = (amount * w[x]) \div SumOver(w, S)

LEMMA Quotient ==
  ASSUME NEW n \in Nat, NEW t \in Nat \ {0}
  PROVE  n \div t \in Nat /\ t * (n \div t) <= n /\ n <= t * (n \div t) + t
OBVIOUS

LEMMA Cancel ==
  ASSUME NEW t \in Nat \ {0}, NEW m \in Int, NEW n \in Int, t * m <= t * n
  PROVE  m <= n
OBVIOUS

LEMMA SumShares ==
  ASSUME NEW S, IsFiniteSet(S), NEW w, NEW f, NEW amount \in Nat,
         SumOver(w, S) > 0, Shares(S, w, amount, f)
  PROVE  SumOver(f, S) <= amount /\ amount <= SumOver(f, S) + Cardinality(S)
<1> DEFINE t == SumOver(w, S)
           g == [x \in S |-> t * f[x]]
           h == [x \in S |-> amount * w[x]]
           k == [x \in S |-> t]
           u == [x \in S |-> g[x] + k[x]]
           n == Cardinality(S)
           F == SumOver(f, S)
<1>1. t \in Nat \ {0}
  BY SumNat DEF Shares
<1>2. n \in Nat
  BY FS_CardinalityType
<1>3. ASSUME NEW x \in S
      PROVE  w[x] \in Int /\ h[x] \in Int /\ f[x] \in Int /\ g[x] \in Int /\ g[x] <= h[x] /\ h[x] <= g[x] + t
  <2>1. w[x] \in Nat /\ f[x] = (amount * w[x]) \div t
    BY DEF Shares
  <2> DEFINE m == amount * w[x]
  <2>2. m \in Nat /\ h[x] = m /\ g[x] = t * f[x] /\ f[x] = m \div t
    BY <2>1
  <2> HIDE DEF m, t, g, h
  <2>3. m \div t \in Nat /\ t * (m \div t) <= m /\ m <= t * (m \div t) + t
    BY <1>1, <2>2, Quotient
  <2>4. t * (m \div t) \in Int
    BY <1>1, <2>3
  <2> QED BY <1>1, <2>1, <2>2, <2>3, <2>4
<1>4. \A x \in S : k[x] = t /\ u[x] = g[x] + k[x]
  OBVIOUS
<1>5. F \in Int
  BY <1>3, SumInt
<1>6. SumOver(g, S) = t * F
  <2>1. \A x \in S : f[x] \in Int /\ g[x] = t * f[x]
    BY <1>3
  <2> HIDE DEF g, t
  <2> QED BY <1>1, <2>1, SumScale
<1>7. SumOver(h, S) = amount * t
  <2>1. \A x \in S : w[x] \in Int /\ h[x] = amount * w[x]
    BY <1>3
  <2> HIDE DEF h
  <2> QED BY <2>1, SumScale
<1>8. SumOver(k, S) = t * n
  <2> HIDE DEF k, t
  <2> QED BY <1>1, <1>4, SumConst
<1>9. SumOver(u, S) = SumOver(g, S) + SumOver(k, S)
  <2> HIDE DEF g, k, u, t
  <2> QED BY <1>1, <1>3, <1>4, SumPlus
<1>10. SumOver(g, S) <= SumOver(h, S)
  <2> HIDE DEF g, h, t
  <2> QED BY <1>3, SumMono
<1>11. SumOver(h, S) <= SumOver(u, S)
  <2>1. \A x \in S : h[x] \in Int /\ u[x] \in Int /\ h[x] <= u[x]
    <3> HIDE DEF g, h, k, u, t
    <3> QED BY <1>1, <1>3, <1>4
  <2> HIDE DEF h, u
  <2> QED BY <2>1, SumMono
<1> HIDE DEF g, h, k, u, t, n, F
<1>12. t * F <= t * amount
  BY <1>1, <1>5, <1>6, <1>7, <1>10
<1>13. t * amount <= t * (F + n)
  <2>1. t * (F + n) = t * F + t * n
    BY <1>1, <1>2, <1>5
  <2> QED BY <1>1, <1>6, <1>7, <1>8, <1>9, <1>11, <2>1
<1>14. F <= amount /\ amount <= F + n
  BY <1>1, <1>2, <1>5, <1>12, <1>13, Cancel
<1> QED BY <1>14 DEF F, n

\* A sum is that of a part and that of the rest.
LEMMA SumSplit ==
  ASSUME NEW S, IsFiniteSet(S), NEW f, \A x \in S : f[x] \in Int, NEW T \in SUBSET S
  PROVE  SumOver(f, S) = SumOver(f, T) + SumOver(f, S \ T)
<1> DEFINE E == {U \in SUBSET T : SumOver(f, (S \ T) \cup U) = SumOver(f, U) + SumOver(f, S \ T)}
<1>1. IsFiniteSet(T) /\ IsFiniteSet(S \ T)
  BY FS_Subset
<1>2. SumOver(f, S \ T) \in Int
  BY <1>1, SumInt
<1>3. {} \in E
  <2>1. (S \ T) \cup {} = S \ T
    OBVIOUS
  <2>2. SumOver(f, {}) = 0
    BY SumEmpty
  <2> QED BY <1>2, <2>1, <2>2
<1>4. ASSUME NEW U \in SUBSET T, NEW x \in T, U \in E, x \notin U PROVE U \cup {x} \in E
  <2> DEFINE V == (S \ T) \cup U
  <2>1. IsFiniteSet(U) /\ IsFiniteSet(V) /\ V \in SUBSET S /\ x \notin V
    BY <1>1, <1>4, FS_Subset
  <2>2. SumOver(f, U \cup {x}) = f[x] + SumOver(f, U)
    BY <1>4, <2>1, SumAdd
  <2>3. SumOver(f, V \cup {x}) = f[x] + SumOver(f, V)
    <3> HIDE DEF V
    <3> QED BY <2>1, SumAdd
  <2>4. V \cup {x} = (S \ T) \cup (U \cup {x})
    OBVIOUS
  <2>5. SumOver(f, U) \in Int
    BY <2>1, SumInt
  <2>6. SumOver(f, V) = SumOver(f, U) + SumOver(f, S \ T)
    BY <1>4
  <2>7. SumOver(f, V \cup {x}) = SumOver(f, U \cup {x}) + SumOver(f, S \ T)
    <3> HIDE DEF V
    <3> QED BY <1>2, <2>2, <2>3, <2>5, <2>6
  <2>8. SumOver(f, (S \ T) \cup (U \cup {x})) = SumOver(f, U \cup {x}) + SumOver(f, S \ T)
    BY <2>4, <2>7
  <2> QED BY <2>8
<1>5. T \in E
  <2> HIDE DEF E
  <2> QED BY <1>1, <1>3, <1>4, AddInduction
<1>6. (S \ T) \cup T = S
  OBVIOUS
<1> QED BY <1>5, <1>6

\* A sum does not depend on the names of what is summed over.
Names(b, S) == {b[x] : x \in S}
Renames(b, S, f, g) == /\ \A x \in S : f[x] \in Int /\ g[b[x]] = f[x]
                       /\ \A x, y \in S : b[x] = b[y] => x = y

LEMMA SumReindex ==
  ASSUME NEW S, IsFiniteSet(S), NEW b, NEW f, NEW g, Renames(b, S, f, g)
  PROVE  SumOver(g, Names(b, S)) = SumOver(f, S)
<1> USE DEF Renames, Names
<1> DEFINE Img(T) == {b[x] : x \in T}
           E == {T \in SUBSET S : IsFiniteSet(Img(T)) /\ SumOver(g, Img(T)) = SumOver(f, T)}
<1>1. {} \in E
  <2>1. Img({}) = {}
    OBVIOUS
  <2> QED BY <2>1, SumEmpty, FS_EmptySet
<1>2. ASSUME NEW T \in SUBSET S, NEW x \in S, T \in E, x \notin T PROVE T \cup {x} \in E
  <2>1. Img(T \cup {x}) = Img(T) \cup {b[x]}
    OBVIOUS
  <2>2. b[x] \notin Img(T)
    BY <1>2
  <2>3. \A y \in Img(T) \cup {b[x]} : g[y] \in Int
    OBVIOUS
  <2>4. IsFiniteSet(T) /\ IsFiniteSet(Img(T))
    BY <1>2, FS_Subset
  <2>5. SumOver(f, T \cup {x}) = f[x] + SumOver(f, T)
    BY <1>2, <2>4, SumAdd
  <2>6. SumOver(g, Img(T) \cup {b[x]}) = g[b[x]] + SumOver(g, Img(T))
    <3> HIDE DEF Img
    <3> QED BY <2>2, <2>3, <2>4, SumAdd
  <2>7. IsFiniteSet(Img(T \cup {x}))
    <3>1. IsFiniteSet(Img(T) \cup {b[x]})
      <4> HIDE DEF Img
      <4> QED BY <2>4, FS_AddElement
    <3> QED BY <2>1, <3>1
  <2>8. SumOver(g, Img(T)) = SumOver(f, T)
    BY <1>2
  <2>9. SumOver(g, Img(T \cup {x})) = SumOver(f, T \cup {x})
    <3> HIDE DEF Img
    <3> QED BY <2>1, <2>5, <2>6, <2>8
  <2> QED BY <2>7, <2>9
<1>3. S \in E
  <2> HIDE DEF E
  <2> QED BY <1>1, <1>2, AddInduction
<1> QED BY <1>3

-----------------------------------------------------------------------------
(* Shares of a pool, in percent.                                           *)

LEMMA ShareTyped ==
  ASSUME NEW n \in Nat, NEW s \in Nat
  PROVE  n * s \in Nat /\ (n * s) \div 100 \in Nat /\ 100 * ((n * s) \div 100) <= n * s
<1>1. n * s \in Nat OBVIOUS
<1>2. \A m \in Nat : m \div 100 \in Nat /\ 100 * (m \div 100) <= m
  OBVIOUS
<1> QED BY <1>1, <1>2

LEMMA ShareGrows ==
  ASSUME NEW n \in Nat, NEW m \in Nat, m <= n, NEW s \in Nat
  PROVE  (m * s) \div 100 <= (n * s) \div 100
<1>1. \A x, y \in Nat : x <= y => x \div 100 <= y \div 100
  OBVIOUS
<1>2. m * s \in Nat /\ n * s \in Nat /\ m * s <= n * s
  OBVIOUS
<1> QED BY <1>1, <1>2

\* One share t, which may be raised to f, one of p and up to N of a: together
\* they do not come to more than the pool of n and f.
LEMMA SharesWithin ==
  ASSUME NEW n \in Nat, NEW t \in Nat, NEW a \in Nat, NEW p \in Nat, NEW f \in Nat, NEW N \in Nat,
         t + N * a + p <= 100, NEW k \in 0..N,
         NEW T \in Nat, NEW A \in Nat, NEW P \in Nat,
         100 * (T - f) <= n * t, 100 * A <= n * a, 100 * P <= n * p
  PROVE  T + P + A * k <= n + f
<1>1. A * k <= A * N
  OBVIOUS
<1>2. 100 * (A * N) <= n * (N * a)
  <2>1. N * (100 * A) <= N * (n * a)
    OBVIOUS
  <2>2. N * (100 * A) = 100 * (A * N) /\ N * (n * a) = n * (N * a)
    OBVIOUS
  <2> QED BY <2>1, <2>2
<1>3. n * t + n * (N * a) + n * p <= n * 100
  <2>1. n * (t + N * a + p) <= n * 100
    OBVIOUS
  <2>2. n * (t + N * a + p) = n * t + n * (N * a) + n * p
    OBVIOUS
  <2> QED BY <2>1, <2>2
<1>4. /\ n * t \in Nat /\ n * p \in Nat /\ n * (N * a) \in Nat
      /\ A * N \in Nat /\ A * k \in Int
  OBVIOUS
<1> QED BY <1>1, <1>2, <1>3, <1>4

=============================================================================
