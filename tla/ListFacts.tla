------------------------------ MODULE ListFacts ------------------------------
(***************************************************************************)
(* Facts about lists and folds for the proofs: induction, filters, lists   *)
(* put together with one record for each key.                              *)
(*                                                                         *)
(* The library's induction theorems take an operator for a parameter,      *)
(* which the installed provers cannot instantiate.  Here the set of the    *)
(* values that have the property stands in for the operator: a set is an   *)
(* ordinary term, and a lemma about every set can be cited.  From that     *)
(* come the two facts a fold needs: the recursive function that defines it *)
(* exists, so that CHOOSE picks one, and what its steps preserve holds of  *)
(* its value.                                                              *)
(***************************************************************************)
EXTENDS RelationData, FiniteSetTheorems, WellFoundedInduction, TLAPS

\* A set of numbers that is not empty has a least member.
LEMMA LeastNat ==
  ASSUME NEW T \in SUBSET Nat, T # {}
  PROVE  \E n \in T : \A m \in T : n <= m
  <1>1. OpToRel(<,Nat) = {ss \in Nat \X Nat : ss[1] < ss[2]}
    BY DEF OpToRel
  <1>2. IsWellFoundedOn({ss \in Nat \X Nat : ss[1] < ss[2]}, Nat)
    BY <1>1, NatLessThanWellFounded
  <1>3. \E x \in T : \A y \in T : ~ (<<y, x>> \in {ss \in Nat \X Nat : ss[1] < ss[2]})
    BY <1>2, WFMin, Zenon
  <1>4. PICK x \in T : \A y \in T : ~ (<<y, x>> \in {ss \in Nat \X Nat : ss[1] < ss[2]})
    BY <1>3
  <1>5. \A y \in T : ~ (y < x)
    BY <1>4
  <1>. QED
    BY <1>5

\* Induction on the numbers, for a property given as the set G that has it.
LEMMA InductionOnNat ==
  ASSUME NEW G, 0 \in G, \A n \in Nat : n \in G => n + 1 \in G
  PROVE  Nat \subseteq G
  <1>. DEFINE T == Nat \ G
  <1>1. SUFFICES ASSUME T # {} PROVE FALSE
    OBVIOUS
  <1>2. PICK n \in T : \A m \in T : n <= m
    BY <1>1, LeastNat
  <1>3. n # 0
    OBVIOUS
  <1>4. n - 1 \in Nat /\ n - 1 \notin T
    BY <1>2, <1>3
  <1>. QED
    BY <1>4

\* ch takes a member of each subset of S that has any.
Chooses(ch, S) == \A T \in SUBSET S : T # {} => ch[T] \in T

\* G has the empty set, and every subset of S when it has the rest of it.
Inductive(G, S, ch) ==
    /\ {} \in G
    /\ \A T \in SUBSET S : T # {} /\ T \ {ch[T]} \in G => T \in G

\* Induction on the subsets of a finite set, taking one element away at a time.
LEMMA InductionOnSubsets ==
  ASSUME NEW S, IsFiniteSet(S), NEW ch, Chooses(ch, S), NEW G, Inductive(G, S, ch)
  PROVE  SUBSET S \subseteq G
  <1>. USE DEF Chooses, Inductive
  <1>. DEFINE H == {n \in Nat : \A T \in SUBSET S : Cardinality(T) = n => T \in G}
  <1>0. \A T \in SUBSET S : IsFiniteSet(T) /\ Cardinality(T) \in Nat
    BY FS_Subset, FS_CardinalityType
  <1>1. 0 \in H
    BY <1>0, FS_EmptySet
  <1>2. ASSUME NEW n \in Nat, n \in H PROVE n + 1 \in H
    <2>1. ASSUME NEW T \in SUBSET S, Cardinality(T) = n + 1 PROVE T \in G
      <3>1. T # {}
        BY <2>1, FS_EmptySet
      <3>a. ch[T] \in T /\ IsFiniteSet(T)
        BY <1>0, <3>1
      <3>b. Cardinality(T \ {ch[T]}) = Cardinality(T) - 1
        BY <3>a, FS_RemoveElement
      <3>2. Cardinality(T \ {ch[T]}) = n
        BY <2>1, <3>b
      <3>. QED
        BY <1>2, <3>1, <3>2
    <2>. QED
      BY <2>1
  <1>. HIDE DEF H
  <1>3. Nat \subseteq H
    BY <1>1, <1>2, InductionOnNat
  <1>. QED
    BY <1>0, <1>3 DEF H

\* The recursive function of a fold: on T it takes the step for ch[T] after
\* the rest of T.
IsFold(it, S, ch, base, step) ==
    \A T \in SUBSET S : it[T] = IF T = {} THEN base ELSE step[ch[T]][it[T \ {ch[T]}]]

\* The step for a member of S keeps to Y.
Preserves(step, S, Y) == \A x \in S, y \in Y : step[x][y] \in Y

\* It exists, with values in every set that base is in and the steps preserve.
LEMMA FoldExists ==
  ASSUME NEW S, IsFiniteSet(S), NEW ch, Chooses(ch, S),
         NEW Y, NEW base \in Y, NEW step, Preserves(step, S, Y)
  PROVE  \E it \in [SUBSET S -> Y] : IsFold(it, S, ch, base, step)
  <1>. USE DEF Chooses, Preserves
  <1>. DEFINE Val(it, T) == IF T = {} THEN base ELSE step[ch[T]][it[T \ {ch[T]}]]
              H == {n \in Nat : \E it \in [SUBSET S -> Y] :
                        \A T \in SUBSET S : Cardinality(T) <= n => it[T] = Val(it, T)}
  <1>0. \A T \in SUBSET S : IsFiniteSet(T) /\ Cardinality(T) \in Nat
    BY FS_Subset, FS_CardinalityType
  <1>a. \A it \in [SUBSET S -> Y] : \A T \in SUBSET S : Val(it, T) \in Y
    OBVIOUS
  <1>b. \A T \in SUBSET S : T # {} =>
            /\ T \ {ch[T]} \in SUBSET S
            /\ Cardinality(T \ {ch[T]}) = Cardinality(T) - 1
    <2>. SUFFICES ASSUME NEW T \in SUBSET S, T # {}
                  PROVE  Cardinality(T \ {ch[T]}) = Cardinality(T) - 1
      OBVIOUS
    <2>1. IsFiniteSet(T) /\ ch[T] \in T
      BY <1>0
    <2>. QED
      BY <2>1, FS_RemoveElement
  <1>c. \A T \in SUBSET S : Cardinality(T) <= 0 => T = {}
    BY <1>0, FS_EmptySet
  <1>1. 0 \in H
    <2>. DEFINE it == [T \in SUBSET S |-> base]
    <2>1. it \in [SUBSET S -> Y]
      OBVIOUS
    <2>2. \A T \in SUBSET S : Cardinality(T) <= 0 => it[T] = Val(it, T)
      BY <1>c
    <2>. HIDE DEF it, Val
    <2>. QED
      BY <2>1, <2>2
  <1>2. ASSUME NEW n \in Nat, n \in H PROVE n + 1 \in H
    <2>1. PICK it \in [SUBSET S -> Y] :
                \A T \in SUBSET S : Cardinality(T) <= n => it[T] = Val(it, T)
      BY <1>2
    <2>. DEFINE jt == [T \in SUBSET S |-> IF Cardinality(T) = n + 1 THEN Val(it, T) ELSE it[T]]
    <2>2. jt \in [SUBSET S -> Y]
      BY <1>a
    <2>3. \A T \in SUBSET S : jt[T] = IF Cardinality(T) = n + 1 THEN Val(it, T) ELSE it[T]
      OBVIOUS
    <2>. HIDE DEF jt
    <2>4. ASSUME NEW T \in SUBSET S, Cardinality(T) <= n + 1 PROVE jt[T] = Val(jt, T)
      <3>1. jt[T] = Val(it, T)
        <4>1. Cardinality(T) # n + 1 => Cardinality(T) <= n
          BY <1>0, <2>4
        <4>. HIDE DEF Val
        <4>. QED
          BY <2>1, <2>3, <4>1
      <3>2. Val(jt, T) = Val(it, T)
        <4>1. CASE T = {}
          BY <4>1
        <4>2. CASE T # {}
          <5>1. T \ {ch[T]} \in SUBSET S /\ Cardinality(T \ {ch[T]}) # n + 1
            BY <1>0, <1>b, <2>4, <4>2
          <5>2. jt[T \ {ch[T]}] = it[T \ {ch[T]}]
            BY <2>3, <5>1
          <5>. QED
            BY <5>2
        <4>. QED
          BY <4>1, <4>2
      <3>. QED
        BY <3>1, <3>2
    <2>5. \A T \in SUBSET S : Cardinality(T) <= n + 1 => jt[T] = Val(jt, T)
      BY <2>4
    <2>. HIDE DEF Val
    <2>. QED
      BY <2>2, <2>5
  <1>. HIDE DEF H
  <1>3. Cardinality(S) \in H
    BY <1>0, <1>1, <1>2, InductionOnNat
  <1>4. PICK it \in [SUBSET S -> Y] :
            \A T \in SUBSET S : Cardinality(T) <= Cardinality(S) => it[T] = Val(it, T)
    BY <1>3 DEF H
  <1>5. \A T \in SUBSET S : it[T] = Val(it, T)
    BY <1>4, FS_Subset
  <1>. QED
    BY <1>5 DEF IsFold

(***************************************************************************)
(* Folds over lists run over the positions, the last one first             *)
(***************************************************************************)
LEMMA MaxOfInterval ==
  ASSUME NEW k \in Nat \ {0}
  PROVE  Max(1..k) = k /\ (1..k) \ {Max(1..k)} = 1..(k - 1)
  <1>1. Max(1..k) = k
    BY DEF Max
  <1>. QED
    BY <1>1

LEMMA Greatest ==
  ASSUME NEW n \in Nat, NEW T \in SUBSET (1..n), T # {}
  PROVE  \E i \in T : \A j \in T : j <= i
  <1>. DEFINE U == {n - i : i \in T}
  <1>1. U \in SUBSET Nat /\ U # {}
    <2>1. ASSUME NEW i \in T PROVE n - i \in Nat
      OBVIOUS
    <2>2. PICK i \in T : TRUE
      OBVIOUS
    <2>3. n - i \in U
      BY <2>2
    <2>. QED
      BY <2>1, <2>3
  <1>2. PICK u \in U : \A v \in U : u <= v
    BY <1>1, LeastNat
  <1>3. PICK i \in T : u = n - i
    OBVIOUS
  <1>4. ASSUME NEW j \in T PROVE j <= i
    <2>1. n - j \in U
      OBVIOUS
    <2>2. n - i <= n - j
      BY <1>2, <1>3, <2>1
    <2>. QED
      BY <2>2
  <1>. QED
    BY <1>4

LEMMA MaxIsMember ==
  ASSUME NEW n \in Nat, NEW T \in SUBSET (1..n), T # {}
  PROVE  Max(T) \in T
  <1>1. \E x \in T : \A y \in T : x >= y
    BY Greatest
  <1>. QED
    BY <1>1 DEF Max

\* The recursive function of a fold over the positions 1..n.
IsListFold(it, n, base, step) ==
    \A T \in SUBSET (1..n) : it[T] = IF T = {} THEN base ELSE step[Max(T)][it[T \ {Max(T)}]]

\* It exists, as above.
LEMMA ListFoldExists ==
  ASSUME NEW n \in Nat, NEW Y, NEW base \in Y, NEW step, Preserves(step, 1..n, Y)
  PROVE  \E it \in [SUBSET (1..n) -> Y] : IsListFold(it, n, base, step)
  <1>. DEFINE ch == [T \in SUBSET (1..n) |-> Max(T)]
  <1>1. IsFiniteSet(1..n)
    BY FS_Interval
  <1>2. Chooses(ch, 1..n)
    BY MaxIsMember DEF Chooses
  <1>3. \A T \in SUBSET (1..n) : ch[T] = Max(T)
    OBVIOUS
  <1>. HIDE DEF ch
  <1>4. PICK it \in [SUBSET (1..n) -> Y] : IsFold(it, 1..n, ch, base, step)
    BY <1>1, <1>2, FoldExists
  <1>5. IsListFold(it, n, base, step)
    BY <1>3, <1>4 DEF IsFold, IsListFold
  <1>. QED
    BY <1>5

\* The values of a recursion along 1..n, each in Y.
IsRecursion(f, n, base, step) ==
    f[0] = base /\ \A k \in 1..n : f[k] = step[k][f[k - 1]]

LEMMA RecursionExists ==
  ASSUME NEW n \in Nat, NEW Y, NEW base \in Y, NEW step, Preserves(step, 1..n, Y)
  PROVE  \E f \in [0..n -> Y] : IsRecursion(f, n, base, step)
  <1>1. PICK it \in [SUBSET (1..n) -> Y] : IsListFold(it, n, base, step)
    BY ListFoldExists
  <1>. DEFINE f == [k \in 0..n |-> it[1..k]]
  <1>2. f \in [0..n -> Y]
    <2>1. \A k \in 0..n : 1..k \in SUBSET (1..n)
      OBVIOUS
    <2>. QED
      BY <2>1
  <1>3. f[0] = base
    <2>1. 1..0 = {}
      OBVIOUS
    <2>2. it[{}] = base
      BY <1>1 DEF IsListFold
    <2>3. f[0] = it[1..0]
      OBVIOUS
    <2>. QED
      BY <2>1, <2>2, <2>3, Zenon
  <1>4. ASSUME NEW k \in 1..n PROVE f[k] = step[k][f[k - 1]]
    <2>1. 1..k \in SUBSET (1..n) /\ 1..k # {} /\ k \in Nat \ {0}
      OBVIOUS
    <2>2. it[1..k] = step[Max(1..k)][it[(1..k) \ {Max(1..k)}]]
      BY <1>1, <2>1 DEF IsListFold
    <2>3. Max(1..k) = k /\ (1..k) \ {Max(1..k)} = 1..(k - 1)
      BY <2>1, MaxOfInterval
    <2>4. it[1..k] = step[k][it[1..(k - 1)]]
      BY <2>2, <2>3, Zenon
    <2>5. f[k] = it[1..k] /\ f[k - 1] = it[1..(k - 1)]
      OBVIOUS
    <2>. HIDE DEF f
    <2>. QED
      BY <2>4, <2>5, Zenon
  <1>. HIDE DEF f
  <1>. QED
    BY <1>2, <1>3, <1>4 DEF IsRecursion

\* F takes the steps of the fold as long as its values are in Y.
FoldsWithin(F, n, base, step, Y) ==
    /\ F[{}] = base
    /\ \A T \in SUBSET (1..n) :
        T # {} /\ F[T \ {Max(T)}] \in Y => F[T] = step[Max(T)][F[T \ {Max(T)}]]

\* The value of a fold is the last value of the recursion along the list.
LEMMA FoldIsRecursion ==
  ASSUME NEW n \in Nat, NEW Y, NEW base \in Y, NEW step, Preserves(step, 1..n, Y),
         NEW F, FoldsWithin(F, n, base, step, Y)
  PROVE  \E f \in [0..n -> Y] : IsRecursion(f, n, base, step) /\ F[1..n] = f[n]
  <1>1. PICK f \in [0..n -> Y] : IsRecursion(f, n, base, step)
    BY RecursionExists
  <1>. DEFINE G == {k \in Nat : k <= n => F[1..k] = f[k]}
  <1>2. 0 \in G
    <2>1. 1..0 = {} /\ F[{}] = base /\ f[0] = base
      BY <1>1 DEF FoldsWithin, IsRecursion
    <2>2. F[1..0] = f[0]
      BY <2>1, Zenon
    <2>. QED
      BY <2>2
  <1>3. ASSUME NEW k \in Nat, k \in G PROVE k + 1 \in G
    <2>. SUFFICES ASSUME k + 1 <= n PROVE F[1..(k + 1)] = f[k + 1]
      OBVIOUS
    <2>1. /\ 1..(k + 1) \in SUBSET (1..n) /\ 1..(k + 1) # {}
          /\ k + 1 \in Nat \ {0} /\ k + 1 \in 1..n /\ (k + 1) - 1 = k /\ k \in 0..n
      <3>1. \A i \in 1..(k + 1) : i \in 1..n
        OBVIOUS
      <3>2. k + 1 \in 1..(k + 1)
        OBVIOUS
      <3>3. k + 1 \in Nat \ {0} /\ k + 1 \in 1..n /\ (k + 1) - 1 = k /\ k \in 0..n
        OBVIOUS
      <3>. QED
        BY <3>1, <3>2, <3>3
    <2>2. Max(1..(k + 1)) = k + 1 /\ (1..(k + 1)) \ {Max(1..(k + 1))} = 1..k
      BY <2>1, MaxOfInterval
    <2>3. F[1..k] = f[k] /\ f[k] \in Y
      BY <1>3, <2>1
    <2>4. F[(1..(k + 1)) \ {Max(1..(k + 1))}] \in Y
      BY <2>2, <2>3
    <2>5. F[1..(k + 1)] = step[Max(1..(k + 1))][F[(1..(k + 1)) \ {Max(1..(k + 1))}]]
      BY <2>1, <2>4 DEF FoldsWithin
    <2>6. f[k + 1] = step[k + 1][f[k]]
      BY <1>1, <2>1 DEF IsRecursion
    <2>. QED
      BY <2>2, <2>3, <2>5, <2>6
  <1>. HIDE DEF G
  <1>4. n \in G
    BY <1>2, <1>3, InductionOnNat
  <1>. QED
    BY <1>1, <1>4 DEF G

(***************************************************************************)
(* Lists                                                                   *)
(***************************************************************************)
\* No element stands at two positions.
NoRepeats(s) == \A i, j \in DOMAIN s : s[i] = s[j] => i = j

LEMMA EmptyList ==
  /\ \A S : <<>> \in Seq(S)
  /\ ToSet(<<>>) = {} /\ NoRepeats(<<>>)
  <1>1. DOMAIN <<>> = {}
    OBVIOUS
  <1>2. ToSet(<<>>) = {}
    BY <1>1 DEF ToSet
  <1>3. NoRepeats(<<>>)
    BY <1>1 DEF NoRepeats
  <1>. QED
    BY <1>2, <1>3

LEMMA NoElements ==
  ASSUME NEW V, NEW s \in Seq(V), ToSet(s) = {}
  PROVE  s = <<>>
  <1>1. DOMAIN s = 1..Len(s) /\ Len(s) \in Nat
    OBVIOUS
  <1>2. DOMAIN s = {}
    BY DEF ToSet
  <1>3. Len(s) = 0
    BY <1>1, <1>2
  <1>. QED
    BY <1>3

\* A filter as a recursion along the list.
FiltersAlong(f, s, S) ==
    /\ f[0] = <<>>
    /\ \A i \in 1..Len(s) : f[i] = IF s[i] \in S THEN Append(f[i - 1], s[i]) ELSE f[i - 1]
    /\ Among(s, S) = f[Len(s)]

LEMMA AmongSteps ==
  ASSUME NEW V, NEW s \in Seq(V), NEW S
  PROVE  \E f \in [0..Len(s) -> Seq(V)] : FiltersAlong(f, s, S)
  <1>1. PICK n \in Nat : n = Len(s) /\ DOMAIN s = 1..n
    OBVIOUS
  <1>. DEFINE step == [i \in 1..n |-> [y \in Seq(V) |-> IF s[i] \in S THEN Append(y, s[i]) ELSE y]]
              Rec(f) == [i \in 0..n |-> IF i = 0 THEN <<>>
                            ELSE IF s[i] \in S THEN Append(f[i - 1], s[i]) ELSE f[i - 1]]
              f == CHOOSE g : g = Rec(g)
  <1>2. \A i \in 1..n, y \in Seq(V) :
            /\ step[i][y] = IF s[i] \in S THEN Append(y, s[i]) ELSE y
            /\ step[i][y] \in Seq(V)
    BY <1>1
  <1>. HIDE DEF step
  <1>3. Preserves(step, 1..n, Seq(V))
    BY <1>2 DEF Preserves
  <1>. HIDE DEF f
  <1>4. PICK g \in [0..n -> Seq(V)] : IsRecursion(g, n, <<>>, step)
    BY <1>3, RecursionExists, EmptyList
  <1>5. g[0] = <<>>
    BY <1>4 DEF IsRecursion
  <1>6. \A i \in 1..n : g[i] = IF s[i] \in S THEN Append(g[i - 1], s[i]) ELSE g[i - 1]
    <2>1. ASSUME NEW i \in 1..n
          PROVE  g[i] = IF s[i] \in S THEN Append(g[i - 1], s[i]) ELSE g[i - 1]
      <3>1. g[i] = step[i][g[i - 1]]
        BY <1>4 DEF IsRecursion
      <3>2. g[i - 1] \in Seq(V)
        BY <1>4
      <3>. QED
        BY <1>2, <3>1, <3>2
    <2>. QED
      BY <2>1
  <1>7. g = Rec(g)
    <2>. DEFINE v(i) == IF i = 0 THEN <<>>
                        ELSE IF s[i] \in S THEN Append(g[i - 1], s[i]) ELSE g[i - 1]
    <2>1. \A i \in 1..n : g[i] = v(i)
      BY <1>6
    <2>2. g[0] = v(0)
      BY <1>5
    <2>. HIDE DEF v
    <2>3. \A i \in 0..n : g[i] = v(i)
      BY <2>1, <2>2
    <2>4. g = [i \in 0..n |-> v(i)]
      BY <2>3
    <2>. QED
      BY <2>4 DEF v
  <1>8. f = Rec(f)
    <2>. HIDE DEF Rec
    <2>. QED
      BY <1>7 DEF f
  <1>. DEFINE G == {k \in Nat : k <= n => f[k] = g[k]}
  <1>9. 0 \in G
    <2>1. f[0] = <<>>
      BY <1>8
    <2>. QED
      BY <1>5, <2>1
  <1>10. ASSUME NEW k \in Nat, k \in G PROVE k + 1 \in G
    <2>. SUFFICES ASSUME k + 1 <= n PROVE f[k + 1] = g[k + 1]
      OBVIOUS
    <2>1. k + 1 \in 1..n /\ k + 1 \in 0..n /\ k + 1 # 0 /\ (k + 1) - 1 = k
      OBVIOUS
    <2>2. f[k] = g[k]
      BY <1>10
    <2>3. f[k + 1] = IF s[k + 1] \in S THEN Append(f[(k + 1) - 1], s[k + 1]) ELSE f[(k + 1) - 1]
      BY <1>8, <2>1
    <2>. QED
      BY <1>6, <2>1, <2>2, <2>3
  <1>. HIDE DEF G
  <1>11. n \in G
    BY <1>9, <1>10, InductionOnNat
  <1>12. f[n] = g[n]
    BY <1>11 DEF G
  <1>13. Among(s, S) = f[Len(s)]
    BY <1>1 DEF Among, f
  <1>. QED
    BY <1>1, <1>5, <1>6, <1>12, <1>13 DEF FiltersAlong

LEMMA AppendFacts ==
  ASSUME NEW V, NEW s \in Seq(V), NEW x \in V
  PROVE  /\ Append(s, x) \in Seq(V)
         /\ DOMAIN s = 1..Len(s) /\ Len(s) \in Nat
         /\ DOMAIN Append(s, x) = 1..(Len(s) + 1) /\ Len(Append(s, x)) = Len(s) + 1
         /\ Append(s, x)[Len(s) + 1] = x
         /\ \A i \in 1..Len(s) : Append(s, x)[i] = s[i]
         /\ ToSet(Append(s, x)) = ToSet(s) \cup {x}
  <1>1. /\ Append(s, x) \in Seq(V)
        /\ DOMAIN s = 1..Len(s) /\ Len(s) \in Nat
        /\ DOMAIN Append(s, x) = 1..(Len(s) + 1) /\ Len(Append(s, x)) = Len(s) + 1
        /\ Append(s, x)[Len(s) + 1] = x
        /\ \A i \in 1..Len(s) : Append(s, x)[i] = s[i]
    OBVIOUS
  <1>2. ToSet(Append(s, x)) = ToSet(s) \cup {x}
    BY <1>1 DEF ToSet
  <1>. QED
    BY <1>1, <1>2

\* No two positions of s have one key.
Distinct(s, key) == \A i, j \in DOMAIN s : key[s[i]] = key[s[j]] => i = j

\* The first k elements of s.
Firsts(s, k) == {s[i] : i \in 1..k}

LEMMA FirstsFacts ==
  ASSUME NEW V, NEW s \in Seq(V)
  PROVE  /\ Firsts(s, 0) = {}
         /\ \A k \in Nat : Firsts(s, k + 1) = Firsts(s, k) \cup {s[k + 1]}
         /\ Firsts(s, Len(s)) = ToSet(s)
  BY DEF Firsts, ToSet

LEMMA DistinctAppend ==
  ASSUME NEW V, NEW s \in Seq(V), NEW x \in V, NEW key, Distinct(s, key),
         \A y \in ToSet(s) : key[y] # key[x]
  PROVE  Distinct(Append(s, x), key)
  <1>1. \A i \in 1..Len(s) : s[i] \in ToSet(s)
    BY DEF ToSet
  <1>2. \A i \in DOMAIN Append(s, x) : i = Len(s) + 1 \/ i \in 1..Len(s)
    BY AppendFacts
  <1>. QED
    BY <1>1, <1>2, AppendFacts DEF Distinct

\* A filter keeps the elements it is asked for, and repeats none.
LEMMA AmongFacts ==
  ASSUME NEW V, NEW s \in Seq(V), NEW S
  PROVE  /\ Among(s, S) \in Seq(V)
         /\ ToSet(Among(s, S)) = ToSet(s) \cap S
         /\ \A key : Distinct(s, key) => Distinct(Among(s, S), key)
  <1>1. Len(s) \in Nat
    OBVIOUS
  <1>a. PICK f \in [0..Len(s) -> Seq(V)] : FiltersAlong(f, s, S)
    BY AmongSteps
  <1>2. /\ f[0] = <<>>
        /\ \A i \in 1..Len(s) :
            f[i] = IF s[i] \in S THEN Append(f[i - 1], s[i]) ELSE f[i - 1]
        /\ Among(s, S) = f[Len(s)]
    BY <1>a DEF FiltersAlong
  <1>. DEFINE From(k) == /\ ToSet(f[k]) = Firsts(s, k) \cap S
                         /\ \A key : Distinct(s, key) => Distinct(f[k], key)
              G == {k \in Nat : k <= Len(s) => From(k)}
  <1>3. 0 \in G
    <2>1. \A key : Distinct(<<>>, key)
      BY DEF Distinct
    <2>. QED
      BY <1>2, <2>1, EmptyList, FirstsFacts
  <1>4. ASSUME NEW k \in Nat, k \in G PROVE k + 1 \in G
    <2>. SUFFICES ASSUME k + 1 <= Len(s) PROVE From(k + 1)
      OBVIOUS
    <2>1. From(k)
      BY <1>1, <1>4
    <2>a. k + 1 \in 1..Len(s) /\ k \in 0..Len(s) /\ (k + 1) - 1 = k
      BY <1>1
    <2>2. /\ k + 1 \in 1..Len(s) /\ k \in 0..Len(s) /\ (k + 1) - 1 = k
          /\ s[k + 1] \in V /\ f[k] \in Seq(V)
      BY <2>a
    <2>3. f[k + 1] = IF s[k + 1] \in S THEN Append(f[k], s[k + 1]) ELSE f[k]
      BY <1>2, <2>2
    <2>4. Firsts(s, k + 1) = Firsts(s, k) \cup {s[k + 1]}
      BY FirstsFacts
    <2>5. CASE s[k + 1] \in S
      <3>1. ToSet(f[k + 1]) = ToSet(f[k]) \cup {s[k + 1]}
        BY <2>2, <2>3, <2>5, AppendFacts
      <3>2. ASSUME NEW key, Distinct(s, key) PROVE Distinct(f[k + 1], key)
        <4>1. \A y \in Firsts(s, k) : key[y] # key[s[k + 1]]
          <5>1. ASSUME NEW i \in 1..k PROVE key[s[i]] # key[s[k + 1]]
            <6>1. i \in DOMAIN s /\ k + 1 \in DOMAIN s /\ i # k + 1
              BY <1>1, <2>a
            <6>. QED
              BY <3>2, <6>1 DEF Distinct
          <5>. QED
            BY <5>1 DEF Firsts
        <4>2. Distinct(f[k], key) /\ \A y \in ToSet(f[k]) : key[y] # key[s[k + 1]]
          BY <2>1, <3>2, <4>1
        <4>. QED
          BY <2>2, <2>3, <2>5, <4>2, DistinctAppend
      <3>. QED
        BY <2>1, <2>4, <2>5, <3>1, <3>2
    <2>6. CASE s[k + 1] \notin S
      BY <2>1, <2>3, <2>4, <2>6
    <2>. QED
      BY <2>5, <2>6
  <1>. HIDE DEF G
  <1>5. Len(s) \in G
    BY <1>1, <1>3, <1>4, InductionOnNat
  <1>6. From(Len(s))
    BY <1>1, <1>5 DEF G
  <1>. QED
    BY <1>1, <1>2, <1>6, FirstsFacts

(***************************************************************************)
(* Lists with a key: PutBy is Put, with the key as a function.             *)
(***************************************************************************)
PutBy(key, s, x) ==
    LET at == {i \in DOMAIN s : key[s[i]] = key[x]}
    IN  IF at = {} THEN Append(s, x)
        ELSE [s EXCEPT ![CHOOSE i \in at : \A k \in at : k <= i] = x]

KeySet(s, key) == {key[y] : y \in ToSet(s)}

\* Putting x replaces an element with its key, or adds x.
LEMMA PutByFacts ==
  ASSUME NEW V, NEW s \in Seq(V), NEW x \in V, NEW key
  PROVE  /\ PutBy(key, s, x) \in Seq(V)
         /\ ToSet(PutBy(key, s, x)) \subseteq ToSet(s) \cup {x}
         /\ KeySet(PutBy(key, s, x), key) = KeySet(s, key) \cup {key[x]}
         /\ Distinct(s, key) => Distinct(PutBy(key, s, x), key)
  <1>. DEFINE at == {i \in DOMAIN s : key[s[i]] = key[x]}
  <1>1. DOMAIN s = 1..Len(s) /\ Len(s) \in Nat /\ \A i \in DOMAIN s : s[i] \in V
    OBVIOUS
  <1>2. CASE at = {}
    <2>1. PutBy(key, s, x) = Append(s, x)
      BY <1>2 DEF PutBy
    <2>2. \A y \in ToSet(s) : key[y] # key[x]
      BY <1>2 DEF ToSet
    <2>3. Append(s, x) \in Seq(V) /\ ToSet(Append(s, x)) = ToSet(s) \cup {x}
      BY AppendFacts
    <2>4. KeySet(Append(s, x), key) = KeySet(s, key) \cup {key[x]}
      BY <2>3 DEF KeySet
    <2>5. Distinct(s, key) => Distinct(Append(s, x), key)
      BY <2>2, DistinctAppend
    <2>. QED
      BY <2>1, <2>3, <2>4, <2>5
  <1>3. CASE at # {}
    <2>1. at \in SUBSET (1..Len(s))
      BY <1>1
    <2>2. \E i \in at : \A k \in at : k <= i
      BY <1>1, <1>3, <2>1, Greatest
    <2>3. PICK i \in at : i = CHOOSE j \in at : \A k \in at : k <= j
      BY <2>2
    <2>4. PutBy(key, s, x) = [s EXCEPT ![i] = x]
      BY <1>3, <2>3 DEF PutBy
    <2>5. i \in 1..Len(s) /\ key[s[i]] = key[x]
      BY <2>1
    <2>. DEFINE t == [s EXCEPT ![i] = x]
    <2>6. /\ t \in Seq(V) /\ DOMAIN t = 1..Len(s) /\ t[i] = x
          /\ \A j \in 1..Len(s) : j # i => t[j] = s[j]
      BY <1>1, <2>5
    <2>. HIDE DEF t, at
    <2>7. \A j \in 1..Len(s) : key[t[j]] = key[s[j]]
      BY <2>5, <2>6
    <2>8. ToSet(t) \subseteq ToSet(s) \cup {x}
      BY <1>1, <2>6 DEF ToSet
    <2>9. KeySet(t, key) = {key[t[j]] : j \in 1..Len(s)} /\ KeySet(s, key) = {key[s[j]] : j \in 1..Len(s)}
      BY <1>1, <2>6 DEF KeySet, ToSet
    <2>10. KeySet(t, key) = KeySet(s, key) /\ key[x] \in KeySet(s, key)
      BY <2>5, <2>7, <2>9
    <2>11. Distinct(s, key) => Distinct(t, key)
      BY <1>1, <2>6, <2>7 DEF Distinct
    <2>. QED
      BY <2>4, <2>6, <2>8, <2>10, <2>11 DEF t
  <1>. QED
    BY <1>2, <1>3

PutsAlong(f, key, s, new) ==
    f[0] = s /\ \A k \in 1..Len(new) : f[k] = PutBy(key, f[k - 1], new[k])

\* What putting x in s to get t does.
PutOnce(key, s, x, t) ==
    /\ ToSet(t) \subseteq ToSet(s) \cup {x}
    /\ KeySet(t, key) = KeySet(s, key) \cup {key[x]}
    /\ Distinct(s, key) => Distinct(t, key)

LEMMA PutByOnce ==
  ASSUME NEW V, NEW s \in Seq(V), NEW x \in V, NEW key
  PROVE  PutOnce(key, s, x, PutBy(key, s, x))
  BY PutByFacts DEF PutOnce

LEMMA PutByNew ==
  ASSUME NEW V, NEW s \in Seq(V), NEW x \in V, NEW key, key[x] \notin KeySet(s, key)
  PROVE  PutBy(key, s, x) = Append(s, x)
  <1>1. {i \in DOMAIN s : key[s[i]] = key[x]} = {}
    BY DEF KeySet, ToSet
  <1>. QED
    BY <1>1, Zenon DEF PutBy

\* Putting the elements of `new` one after the other.
LEMMA PutsFacts ==
  ASSUME NEW V, NEW s \in Seq(V), NEW new \in Seq(V), NEW key,
         NEW f \in [0..Len(new) -> Seq(V)], PutsAlong(f, key, s, new)
  PROVE  /\ f[Len(new)] \in Seq(V)
         /\ ToSet(f[Len(new)]) \subseteq ToSet(s) \cup ToSet(new)
         /\ KeySet(f[Len(new)], key) = KeySet(s, key) \cup KeySet(new, key)
         /\ Distinct(s, key) => Distinct(f[Len(new)], key)
  <1>1. Len(new) \in Nat
    OBVIOUS
  <1>. DEFINE Holds(k) == /\ ToSet(f[k]) \subseteq ToSet(s) \cup Firsts(new, k)
                          /\ KeySet(f[k], key) = KeySet(s, key) \cup {key[y] : y \in Firsts(new, k)}
                          /\ Distinct(s, key) => Distinct(f[k], key)
              G == {k \in Nat : k <= Len(new) => Holds(k)}
  <1>2. 0 \in G
    <2>1. f[0] = s /\ Firsts(new, 0) = {}
      BY FirstsFacts DEF PutsAlong
    <2>. QED
      BY <2>1
  <1>3. ASSUME NEW k \in Nat, k \in G PROVE k + 1 \in G
    <2>. SUFFICES ASSUME k + 1 <= Len(new) PROVE Holds(k + 1)
      OBVIOUS
    <2>1. k + 1 \in 1..Len(new) /\ k \in 0..Len(new) /\ (k + 1) - 1 = k
      BY <1>1
    <2>2. PICK y \in Seq(V), x \in V : y = f[k] /\ x = new[k + 1]
      BY <2>1
    <2>3. f[k + 1] = PutBy(key, y, x)
      BY <2>1, <2>2 DEF PutsAlong
    <2>4. Firsts(new, k + 1) = Firsts(new, k) \cup {new[k + 1]}
      BY FirstsFacts
    <2>5. Holds(k)
      BY <1>1, <1>3, <2>1
    <2>6. /\ ToSet(f[k + 1]) \subseteq ToSet(y) \cup {x}
          /\ KeySet(f[k + 1], key) = KeySet(y, key) \cup {key[x]}
          /\ Distinct(y, key) => Distinct(f[k + 1], key)
      <3>1. PutOnce(key, y, x, f[k + 1])
        BY <2>3, PutByOnce
      <3>. QED
        BY <3>1 DEF PutOnce
    <2>. QED
      BY <2>2, <2>4, <2>5, <2>6
  <1>. HIDE DEF G
  <1>4. Len(new) \in G
    BY <1>1, <1>2, <1>3, InductionOnNat
  <1>5. Holds(Len(new))
    BY <1>1, <1>4 DEF G
  <1>6. f[Len(new)] \in Seq(V)
    BY <1>1
  <1>. QED
    BY <1>5, <1>6, FirstsFacts DEF KeySet

\* Elements whose keys are distinct are listed as they come.
LEMMA PutsIntoEmpty ==
  ASSUME NEW V, NEW new \in Seq(V), NEW key, Distinct(new, key),
         NEW f \in [0..Len(new) -> Seq(V)], PutsAlong(f, key, <<>>, new)
  PROVE  f[Len(new)] = new
  <1>1. Len(new) \in Nat /\ DOMAIN new = 1..Len(new)
    OBVIOUS
  <1>. DEFINE Same(k) == Len(f[k]) = k /\ \A i \in 1..k : f[k][i] = new[i]
              G == {k \in Nat : k <= Len(new) => Same(k)}
  <1>2. 0 \in G
    BY DEF PutsAlong
  <1>3. ASSUME NEW k \in Nat, k \in G PROVE k + 1 \in G
    <2>. SUFFICES ASSUME k + 1 <= Len(new) PROVE Same(k + 1)
      OBVIOUS
    <2>1. k + 1 \in 1..Len(new) /\ k \in 0..Len(new) /\ (k + 1) - 1 = k
      BY <1>1
    <2>2. PICK y \in Seq(V), x \in V : y = f[k] /\ x = new[k + 1]
      BY <2>1
    <2>3. f[k + 1] = PutBy(key, y, x)
      BY <2>1, <2>2 DEF PutsAlong
    <2>4. Same(k)
      BY <1>1, <1>3, <2>1
    <2>5. ToSet(f[k]) = Firsts(new, k)
      <3>1. DOMAIN f[k] = 1..k
        BY <2>2, <2>4
      <3>. QED
        BY <2>4, <3>1 DEF ToSet, Firsts
    <2>6. key[new[k + 1]] \notin KeySet(f[k], key)
      <3>1. ASSUME NEW i \in 1..k PROVE key[new[i]] # key[new[k + 1]]
        <4>1. i \in DOMAIN new /\ k + 1 \in DOMAIN new /\ i # k + 1
          BY <1>1, <2>1
        <4>. QED
          BY <4>1 DEF Distinct
      <3>. QED
        BY <2>5, <3>1 DEF KeySet, Firsts
    <2>7. f[k + 1] = Append(y, x)
      <3>1. key[x] \notin KeySet(y, key)
        BY <2>2, <2>6
      <3>2. PutBy(key, y, x) = Append(y, x)
        BY <3>1, PutByNew
      <3>. QED
        BY <2>3, <3>2
    <2>8. /\ Len(f[k + 1]) = k + 1 /\ f[k + 1][k + 1] = new[k + 1]
          /\ \A i \in 1..k : f[k + 1][i] = f[k][i]
      BY <2>2, <2>4, <2>7, AppendFacts
    <2>9. \A i \in 1..(k + 1) : i = k + 1 \/ i \in 1..k
      OBVIOUS
    <2>. QED
      BY <2>4, <2>8, <2>9
  <1>. HIDE DEF G
  <1>4. Len(new) \in G
    BY <1>1, <1>2, <1>3, InductionOnNat
  <1>5. Same(Len(new)) /\ f[Len(new)] \in Seq(V)
    BY <1>1, <1>4 DEF G
  <1>. QED
    BY <1>1, <1>5

LEMMA PutAllIdOfSteps ==
  ASSUME NEW V, NEW s \in Seq(V), NEW new \in Seq(V),
         NEW key, \A x \in V : key[x] = IdOf(x)
  PROVE  \E f \in [0..Len(new) -> Seq(V)] :
            PutsAlong(f, key, s, new) /\ PutAll(IdOf, s, new) = f[Len(new)]
  <1>1. PICK n \in Nat : n = Len(new) /\ DOMAIN new = 1..n /\ \A i \in 1..n : new[i] \in V
    OBVIOUS
  <1>. DEFINE step == [i \in 1..n |-> [y \in Seq(V) |-> PutBy(key, y, new[i])]]
              Rec(it) == [S \in SUBSET (DOMAIN new) |-> IF S = {} THEN s
                            ELSE Put(IdOf, it[S \ {Max(S)}], new[Max(S)])]
              F == CHOOSE it : it = Rec(it)
  <1>2. \A i \in 1..n, y \in Seq(V) : step[i][y] = PutBy(key, y, new[i])
    OBVIOUS
  <1>3. \A i \in 1..n, y \in Seq(V) : PutBy(key, y, new[i]) \in Seq(V)
    BY <1>1, PutByFacts
  <1>4. \A y \in Seq(V), x \in V : Put(IdOf, y, x) = PutBy(key, y, x)
    <2>. SUFFICES ASSUME NEW y \in Seq(V), NEW x \in V PROVE Put(IdOf, y, x) = PutBy(key, y, x)
      OBVIOUS
    <2>. DEFINE at == {i \in DOMAIN y : IdOf(y[i]) = IdOf(x)}
                by == {i \in DOMAIN y : key[y[i]] = key[x]}
                put(S) == IF S = {} THEN Append(y, x)
                          ELSE [y EXCEPT ![CHOOSE i \in S : \A k \in S : k <= i] = x]
    <2>1. at = by
      <3>1. \A i \in DOMAIN y : y[i] \in V
        OBVIOUS
      <3>. QED
        BY <3>1
    <2>2. PutBy(key, y, x) = put(by)
      BY DEF PutBy
    <2>3. Put(IdOf, y, x) = put(at)
      BY DEF Put
    <2>. HIDE DEF put, at, by
    <2>. QED
      BY <2>1, <2>2, <2>3
  <1>. HIDE DEF step, F
  <1>5. Preserves(step, 1..n, Seq(V))
    BY <1>2, <1>3 DEF Preserves
  <1>6. PICK it \in [SUBSET (1..n) -> Seq(V)] : IsListFold(it, n, s, step)
    BY <1>5, ListFoldExists
  <1>7. it = Rec(it)
    <2>1. ASSUME NEW S \in SUBSET (1..n), S # {}
          PROVE  it[S] = Put(IdOf, it[S \ {Max(S)}], new[Max(S)])
      <3>1. Max(S) \in 1..n
        BY <2>1, MaxIsMember
      <3>2. it[S \ {Max(S)}] \in Seq(V) /\ new[Max(S)] \in V
        BY <1>1, <3>1
      <3>3. it[S] = step[Max(S)][it[S \ {Max(S)}]]
        BY <1>6, <2>1 DEF IsListFold
      <3>. QED
        BY <1>2, <1>4, <3>1, <3>2, <3>3
    <2>2. it[{}] = s
      BY <1>6 DEF IsListFold
    <2>3. \A S \in SUBSET (1..n) : it[S] = IF S = {} THEN s
                            ELSE Put(IdOf, it[S \ {Max(S)}], new[Max(S)])
      BY <2>1, <2>2
    <2>4. it = [S \in SUBSET (1..n) |-> IF S = {} THEN s
                            ELSE Put(IdOf, it[S \ {Max(S)}], new[Max(S)])]
      BY <2>3
    <2>. QED
      BY <1>1, <2>4
  <1>8. F = Rec(F)
    <2>. HIDE DEF Rec
    <2>. QED
      BY <1>7 DEF F
  <1>9. FoldsWithin(F, n, s, step, Seq(V))
    <2>1. F[{}] = s
      BY <1>8
    <2>2. ASSUME NEW S \in SUBSET (1..n), S # {}, F[S \ {Max(S)}] \in Seq(V)
          PROVE  F[S] = step[Max(S)][F[S \ {Max(S)}]]
      <3>1. Max(S) \in 1..n
        BY <2>2, MaxIsMember
      <3>2. F[S] = Put(IdOf, F[S \ {Max(S)}], new[Max(S)])
        BY <1>1, <1>8, <2>2
      <3>. QED
        BY <1>1, <1>2, <1>4, <2>2, <3>1, <3>2
    <2>. QED
      BY <2>1, <2>2 DEF FoldsWithin
  <1>10. PICK f \in [0..n -> Seq(V)] : IsRecursion(f, n, s, step) /\ F[1..n] = f[n]
    BY <1>5, <1>9, FoldIsRecursion
  <1>11. PutsAlong(f, key, s, new)
    <2>1. ASSUME NEW k \in 1..n PROVE f[k] = PutBy(key, f[k - 1], new[k])
      <3>1. f[k] = step[k][f[k - 1]] /\ k - 1 \in 0..n
        BY <1>10 DEF IsRecursion
      <3>. QED
        BY <1>2, <3>1
    <2>. QED
      BY <1>1, <1>10, <2>1 DEF PutsAlong, IsRecursion
  <1>12. PutAll(IdOf, s, new) = F[DOMAIN new]
    BY Zenon DEF PutAll, FoldLeft, MapThenFoldSet, F
  <1>. QED
    BY <1>1, <1>10, <1>11, <1>12

LEMMA PutAllGroupKeySteps ==
  ASSUME NEW V, NEW s \in Seq(V), NEW new \in Seq(V),
         NEW key, \A x \in V : key[x] = GroupKey(x)
  PROVE  \E f \in [0..Len(new) -> Seq(V)] :
            PutsAlong(f, key, s, new) /\ PutAll(GroupKey, s, new) = f[Len(new)]
  <1>1. PICK n \in Nat : n = Len(new) /\ DOMAIN new = 1..n /\ \A i \in 1..n : new[i] \in V
    OBVIOUS
  <1>. DEFINE step == [i \in 1..n |-> [y \in Seq(V) |-> PutBy(key, y, new[i])]]
              Rec(it) == [S \in SUBSET (DOMAIN new) |-> IF S = {} THEN s
                            ELSE Put(GroupKey, it[S \ {Max(S)}], new[Max(S)])]
              F == CHOOSE it : it = Rec(it)
  <1>2. \A i \in 1..n, y \in Seq(V) : step[i][y] = PutBy(key, y, new[i])
    OBVIOUS
  <1>3. \A i \in 1..n, y \in Seq(V) : PutBy(key, y, new[i]) \in Seq(V)
    BY <1>1, PutByFacts
  <1>4. \A y \in Seq(V), x \in V : Put(GroupKey, y, x) = PutBy(key, y, x)
    <2>. SUFFICES ASSUME NEW y \in Seq(V), NEW x \in V PROVE Put(GroupKey, y, x) = PutBy(key, y, x)
      OBVIOUS
    <2>. DEFINE at == {i \in DOMAIN y : GroupKey(y[i]) = GroupKey(x)}
                by == {i \in DOMAIN y : key[y[i]] = key[x]}
                put(S) == IF S = {} THEN Append(y, x)
                          ELSE [y EXCEPT ![CHOOSE i \in S : \A k \in S : k <= i] = x]
    <2>1. at = by
      <3>1. \A i \in DOMAIN y : y[i] \in V
        OBVIOUS
      <3>. QED
        BY <3>1
    <2>2. PutBy(key, y, x) = put(by)
      BY DEF PutBy
    <2>3. Put(GroupKey, y, x) = put(at)
      BY DEF Put
    <2>. HIDE DEF put, at, by
    <2>. QED
      BY <2>1, <2>2, <2>3
  <1>. HIDE DEF step, F
  <1>5. Preserves(step, 1..n, Seq(V))
    BY <1>2, <1>3 DEF Preserves
  <1>6. PICK it \in [SUBSET (1..n) -> Seq(V)] : IsListFold(it, n, s, step)
    BY <1>5, ListFoldExists
  <1>7. it = Rec(it)
    <2>1. ASSUME NEW S \in SUBSET (1..n), S # {}
          PROVE  it[S] = Put(GroupKey, it[S \ {Max(S)}], new[Max(S)])
      <3>1. Max(S) \in 1..n
        BY <2>1, MaxIsMember
      <3>2. it[S \ {Max(S)}] \in Seq(V) /\ new[Max(S)] \in V
        BY <1>1, <3>1
      <3>3. it[S] = step[Max(S)][it[S \ {Max(S)}]]
        BY <1>6, <2>1 DEF IsListFold
      <3>. QED
        BY <1>2, <1>4, <3>1, <3>2, <3>3
    <2>2. it[{}] = s
      BY <1>6 DEF IsListFold
    <2>3. \A S \in SUBSET (1..n) : it[S] = IF S = {} THEN s
                            ELSE Put(GroupKey, it[S \ {Max(S)}], new[Max(S)])
      BY <2>1, <2>2
    <2>4. it = [S \in SUBSET (1..n) |-> IF S = {} THEN s
                            ELSE Put(GroupKey, it[S \ {Max(S)}], new[Max(S)])]
      BY <2>3
    <2>. QED
      BY <1>1, <2>4
  <1>8. F = Rec(F)
    <2>. HIDE DEF Rec
    <2>. QED
      BY <1>7 DEF F
  <1>9. FoldsWithin(F, n, s, step, Seq(V))
    <2>1. F[{}] = s
      BY <1>8
    <2>2. ASSUME NEW S \in SUBSET (1..n), S # {}, F[S \ {Max(S)}] \in Seq(V)
          PROVE  F[S] = step[Max(S)][F[S \ {Max(S)}]]
      <3>1. Max(S) \in 1..n
        BY <2>2, MaxIsMember
      <3>2. F[S] = Put(GroupKey, F[S \ {Max(S)}], new[Max(S)])
        BY <1>1, <1>8, <2>2
      <3>. QED
        BY <1>1, <1>2, <1>4, <2>2, <3>1, <3>2
    <2>. QED
      BY <2>1, <2>2 DEF FoldsWithin
  <1>10. PICK f \in [0..n -> Seq(V)] : IsRecursion(f, n, s, step) /\ F[1..n] = f[n]
    BY <1>5, <1>9, FoldIsRecursion
  <1>11. PutsAlong(f, key, s, new)
    <2>1. ASSUME NEW k \in 1..n PROVE f[k] = PutBy(key, f[k - 1], new[k])
      <3>1. f[k] = step[k][f[k - 1]] /\ k - 1 \in 0..n
        BY <1>10 DEF IsRecursion
      <3>. QED
        BY <1>2, <3>1
    <2>. QED
      BY <1>1, <1>10, <2>1 DEF PutsAlong, IsRecursion
  <1>12. PutAll(GroupKey, s, new) = F[DOMAIN new]
    BY Zenon DEF PutAll, FoldLeft, MapThenFoldSet, F
  <1>. QED
    BY <1>1, <1>10, <1>11, <1>12

\* A list has as many ids as elements only if no two have the same.
LEMMA UniqueIdsDistinct ==
  ASSUME NEW V, NEW s \in Seq(V)
  PROVE  UniqueIds(s) <=> \A i, j \in 1..Len(s) : s[i].id = s[j].id => i = j
  <1>1. PICK n \in Nat : n = Len(s) /\ DOMAIN s = 1..n
    OBVIOUS
  <1>. DEFINE f == [i \in 1..n |-> s[i].id]
  <1>2. IsFiniteSet(1..n) /\ Cardinality(1..n) = n
    BY FS_Interval
  <1>3. f \in Surjection(1..n, Ids(s))
    <2>1. f \in [1..n -> Ids(s)]
      BY <1>1 DEF Ids
    <2>2. \A x \in Ids(s) : \E i \in 1..n : f[i] = x
      BY <1>1 DEF Ids
    <2>. QED
      BY <2>1, <2>2 DEF Surjection
  <1>4. IsFiniteSet(Ids(s))
    BY <1>2, <1>3, FS_Surjection
  <1>5. UniqueIds(s) <=> Cardinality(Ids(s)) = n
    BY <1>1 DEF UniqueIds
  <1>6. Cardinality(1..n) = Cardinality(Ids(s)) <=> f \in Injection(1..n, Ids(s))
    BY <1>2, <1>3, FS_Surjection
  <1>7. f \in Injection(1..n, Ids(s)) <=> \A i, j \in 1..n : f[i] = f[j] => i = j
    BY <1>3 DEF Surjection, Injection, IsInjective
  <1>. QED
    BY <1>1, <1>2, <1>5, <1>6, <1>7

LEMMA ConcatFacts ==
  ASSUME NEW V, NEW s \in Seq(V), NEW t \in Seq(V)
  PROVE  /\ s \o t \in Seq(V) /\ ToSet(s \o t) = ToSet(s) \cup ToSet(t)
         /\ Len(s \o t) = Len(s) + Len(t) /\ Len(s) \in Nat /\ Len(t) \in Nat
         /\ \A i \in 1..Len(s) : (s \o t)[i] = s[i]
         /\ \A i \in 1..Len(t) : (s \o t)[Len(s) + i] = t[i]
  <1>1. /\ s \o t \in Seq(V)
        /\ Len(s \o t) = Len(s) + Len(t) /\ Len(s) \in Nat /\ Len(t) \in Nat
        /\ DOMAIN s = 1..Len(s) /\ DOMAIN t = 1..Len(t) /\ DOMAIN (s \o t) = 1..(Len(s) + Len(t))
        /\ \A i \in 1..Len(s) : (s \o t)[i] = s[i]
        /\ \A i \in 1..Len(t) : (s \o t)[Len(s) + i] = t[i]
    OBVIOUS
  <1>2. ToSet(s) \cup ToSet(t) \subseteq ToSet(s \o t)
    <2>1. ASSUME NEW i \in 1..Len(s) PROVE i \in DOMAIN (s \o t) /\ (s \o t)[i] = s[i]
      BY <1>1
    <2>2. ASSUME NEW i \in 1..Len(t)
          PROVE  Len(s) + i \in DOMAIN (s \o t) /\ (s \o t)[Len(s) + i] = t[i]
      BY <1>1
    <2>3. ToSet(s) \subseteq ToSet(s \o t)
      <3>1. ASSUME NEW x \in ToSet(s) PROVE x \in ToSet(s \o t)
        <4>1. PICK i \in 1..Len(s) : s[i] = x
          BY <1>1 DEF ToSet
        <4>. QED
          BY <2>1, <4>1 DEF ToSet
      <3>. QED
        BY <3>1
    <2>4. ToSet(t) \subseteq ToSet(s \o t)
      <3>1. ASSUME NEW x \in ToSet(t) PROVE x \in ToSet(s \o t)
        <4>1. PICK i \in 1..Len(t) : t[i] = x
          BY <1>1 DEF ToSet
        <4>. QED
          BY <2>2, <4>1 DEF ToSet
      <3>. QED
        BY <3>1
    <2>. QED
      BY <2>3, <2>4
  <1>3. ToSet(s \o t) \subseteq ToSet(s) \cup ToSet(t)
    <2>1. ASSUME NEW i \in 1..(Len(s) + Len(t)) PROVE (s \o t)[i] \in ToSet(s) \cup ToSet(t)
      <3>1. CASE i <= Len(s)
        <4>1. i \in DOMAIN s /\ (s \o t)[i] = s[i]
          BY <1>1, <3>1
        <4>. QED
          BY <4>1 DEF ToSet
      <3>2. CASE ~(i <= Len(s))
        <4>1. PICK j \in 1..Len(t) : i = Len(s) + j
          <5>1. i - Len(s) \in 1..Len(t) /\ i = Len(s) + (i - Len(s))
            BY <1>1, <3>2
          <5>. QED
            BY <5>1
        <4>2. j \in DOMAIN t /\ (s \o t)[i] = t[j]
          BY <1>1, <4>1
        <4>. QED
          BY <4>2 DEF ToSet
      <3>. QED
        BY <3>1, <3>2
    <2>. QED
      BY <1>1, <2>1 DEF ToSet
  <1>. QED
    BY <1>1, <1>2, <1>3

LEMMA ToSetFinite ==
  ASSUME NEW V, NEW s \in Seq(V)
  PROVE  IsFiniteSet(ToSet(s)) /\ ToSet(s) \in SUBSET V
  <1>1. PICK n \in Nat : n = Len(s) /\ DOMAIN s = 1..n
    OBVIOUS
  <1>2. IsFiniteSet(1..n)
    BY FS_Interval
  <1>3. [i \in 1..n |-> s[i]] \in Surjection(1..n, ToSet(s))
    BY <1>1 DEF Surjection, ToSet
  <1>4. IsFiniteSet(ToSet(s))
    BY <1>2, <1>3, FS_Surjection
  <1>5. ToSet(s) \in SUBSET V
    BY DEF ToSet
  <1>. QED
    BY <1>4, <1>5

LEMMA UniqueIdsNoRepeats ==
  ASSUME NEW V, NEW s \in Seq(V), UniqueIds(s)
  PROVE  NoRepeats(s)
  <1>1. \A i, j \in 1..Len(s) : s[i].id = s[j].id => i = j
    BY UniqueIdsDistinct
  <1>. QED
    BY <1>1 DEF NoRepeats

\* The elements of a list of lists.
LEMMA FlattenFacts ==
  ASSUME NEW V, NEW seqs \in Seq(Seq(V))
  PROVE  /\ FlattenSeq(seqs) \in Seq(V)
         /\ ToSet(FlattenSeq(seqs)) = UNION {ToSet(seqs[i]) : i \in DOMAIN seqs}
  <1>1. PICK n \in Nat : n = Len(seqs) /\ DOMAIN seqs = 1..n /\ \A i \in 1..n : seqs[i] \in Seq(V)
    OBVIOUS
  <1>2. CASE n = 0
    <2>1. FlattenSeq(seqs) = seqs /\ seqs = <<>>
      BY <1>1, <1>2 DEF FlattenSeq
    <2>2. UNION {ToSet(seqs[i]) : i \in DOMAIN seqs} = {}
      BY <1>1, <1>2
    <2>. QED
      BY <2>1, <2>2, EmptyList
  <1>3. CASE n # 0
    <2>. DEFINE step == [i \in 1..n |-> [y \in Seq(V) |-> y \o seqs[i]]]
                Rec(g) == [i \in 1..Len(seqs) |-> IF i = 1 THEN seqs[i] ELSE g[i - 1] \o seqs[i]]
                flatten == CHOOSE g : g = Rec(g)
    <2>1. \A i \in 1..n, y \in Seq(V) : step[i][y] = y \o seqs[i] /\ y \o seqs[i] \in Seq(V)
      BY <1>1, ConcatFacts
    <2>2. FlattenSeq(seqs) = flatten[n]
      BY <1>1, <1>3 DEF FlattenSeq
    <2>. HIDE DEF step, flatten
    <2>3. Preserves(step, 1..n, Seq(V))
      BY <2>1 DEF Preserves
    <2>4. PICK base \in Seq(V) : base = <<>>
      BY EmptyList
    <2>5. PICK f \in [0..n -> Seq(V)] : IsRecursion(f, n, base, step)
      BY <2>3, RecursionExists
    <2>6. \A i \in 1..n : f[i] = f[i - 1] \o seqs[i]
      <3>. SUFFICES ASSUME NEW i \in 1..n PROVE f[i] = f[i - 1] \o seqs[i]
        OBVIOUS
      <3>1. f[i] = step[i][f[i - 1]] /\ f[i - 1] \in Seq(V)
        BY <2>5 DEF IsRecursion
      <3>. QED
        BY <2>1, <3>1
    <2>7. f[1] = seqs[1]
      <3>1. 1 \in 1..n /\ 1 - 1 = 0
        BY <1>3
      <3>2. f[1] = f[0] \o seqs[1] /\ f[0] = <<>>
        BY <2>4, <2>5, <2>6, <3>1 DEF IsRecursion
      <3>3. seqs[1] \in Seq(V)
        BY <1>1, <3>1
      <3>. QED
        BY <3>2, <3>3
    <2>8. PICK g : g = [i \in 1..n |-> f[i]]
      OBVIOUS
    <2>9. g = Rec(g)
      <3>1. ASSUME NEW i \in 1..n PROVE g[i] = IF i = 1 THEN seqs[i] ELSE g[i - 1] \o seqs[i]
        <4>1. CASE i = 1
          BY <2>7, <2>8, <4>1
        <4>2. CASE i # 1
          <5>1. i - 1 \in 1..n
            BY <4>2
          <5>. QED
            BY <2>6, <2>8, <4>2, <5>1
        <4>. QED
          BY <4>1, <4>2
      <3>2. g = [i \in 1..n |-> g[i]]
        BY <2>8
      <3>3. g = [i \in 1..n |-> IF i = 1 THEN seqs[i] ELSE g[i - 1] \o seqs[i]]
        BY <3>1, <3>2
      <3>. QED
        BY <1>1, <3>3
    <2>10. flatten = Rec(flatten)
      <3>. HIDE DEF Rec
      <3>. QED
        BY <2>9 DEF flatten
    <2>11. \A i \in 1..n :
              flatten[i] = IF i = 1 THEN seqs[i] ELSE flatten[i - 1] \o seqs[i]
      BY <1>1, <2>10
    <2>. DEFINE Holds(k) == /\ flatten[k] \in Seq(V)
                            /\ ToSet(flatten[k]) = UNION {ToSet(seqs[i]) : i \in 1..k}
                G == {k \in Nat : k + 1 <= n => Holds(k + 1)}
    <2>12. 0 \in G
      <3>1. 1 \in 1..n /\ flatten[1] = seqs[1] /\ seqs[1] \in Seq(V)
        BY <1>1, <1>3, <2>11
      <3>2. UNION {ToSet(seqs[i]) : i \in 1..1} = ToSet(seqs[1])
        OBVIOUS
      <3>. QED
        BY <3>1, <3>2
    <2>13. ASSUME NEW k \in Nat, k \in G PROVE k + 1 \in G
      <3>. DEFINE j == k + 1
      <3>. SUFFICES ASSUME j + 1 <= n PROVE Holds(j + 1)
        OBVIOUS
      <3>1. j \in 1..n /\ j + 1 \in 1..n /\ (j + 1) - 1 = j /\ j + 1 # 1
        OBVIOUS
      <3>2. Holds(j)
        BY <2>13, <3>1
      <3>3. flatten[j + 1] = flatten[j] \o seqs[j + 1]
        BY <2>11, <3>1
      <3>4. seqs[j + 1] \in Seq(V)
        BY <1>1, <3>1
      <3>5. /\ flatten[j + 1] \in Seq(V)
            /\ ToSet(flatten[j + 1]) = ToSet(flatten[j]) \cup ToSet(seqs[j + 1])
        BY <3>2, <3>3, <3>4, ConcatFacts
      <3>6. \A i : i \in 1..(j + 1) <=> i \in 1..j \/ i = j + 1
        BY <3>1
      <3>. QED
        BY <3>2, <3>5, <3>6
    <2>. HIDE DEF G, Holds
    <2>14. n - 1 \in G
      <3>1. n - 1 \in Nat
        BY <1>3
      <3>. QED
        BY <2>12, <2>13, <3>1, InductionOnNat
    <2>15. Holds(n)
      BY <1>3, <2>14 DEF G
    <2>. QED
      BY <1>1, <2>2, <2>15 DEF Holds
  <1>. QED
    BY <1>2, <1>3

\* A finite set as a list: each of its elements once.
LEMMA SetToSeqFacts ==
  ASSUME NEW S, IsFiniteSet(S)
  PROVE  /\ SetToSeq(S) \in Seq(S) /\ Len(SetToSeq(S)) = Cardinality(S)
         /\ DOMAIN SetToSeq(S) = 1..Cardinality(S) /\ Cardinality(S) \in Nat
         /\ ToSet(SetToSeq(S)) = S
  <1>1. PICK n \in Nat : n = Cardinality(S)
    BY FS_CardinalityType
  <1>2. ExistsBijection(1..n, S)
    BY <1>1, FS_CardinalityType
  <1>3. PICK f \in Bijection(1..n, S) : TRUE
    BY <1>2 DEF ExistsBijection
  <1>4. f \in [1..n -> S] /\ IsInjective(f)
    BY <1>3 DEF Bijection, Injection
  <1>5. PICK g : g = SetToSeq(S)
    OBVIOUS
  <1>6. g \in [1..n -> S] /\ IsInjective(g)
    BY <1>1, <1>4, <1>5, Zenon DEF SetToSeq
  <1>7. g \in Injection(1..n, S)
    BY <1>6 DEF Injection
  <1>8. Cardinality(1..n) = Cardinality(S)
    BY <1>1, FS_Interval
  <1>9. g \in Surjection(1..n, S)
    BY <1>7, <1>8, FS_Injection
  <1>10. ToSet(g) = S
    BY <1>6, <1>9 DEF Surjection, ToSet
  <1>. QED
    BY <1>1, <1>5, <1>6, <1>10

(***************************************************************************)
(* More on filters                                                         *)
(***************************************************************************)
\* A recursion along a list is the only one.
LEMMA AmongOnly ==
  ASSUME NEW V, NEW s \in Seq(V), NEW S, NEW f, f[0] = <<>>,
         \A i \in 1..Len(s) : f[i] = IF s[i] \in S THEN Append(f[i - 1], s[i]) ELSE f[i - 1]
  PROVE  Among(s, S) = f[Len(s)]
  <1>1. PICK n \in Nat : n = Len(s)
    OBVIOUS
  <1>2. PICK g \in [0..Len(s) -> Seq(V)] : FiltersAlong(g, s, S)
    BY AmongSteps
  <1>3. /\ g[0] = <<>> /\ Among(s, S) = g[n]
        /\ \A i \in 1..n : g[i] = IF s[i] \in S THEN Append(g[i - 1], s[i]) ELSE g[i - 1]
    BY <1>1, <1>2 DEF FiltersAlong
  <1>. DEFINE G == {k \in Nat : k <= n => f[k] = g[k]}
  <1>4. 0 \in G
    BY <1>3
  <1>5. ASSUME NEW k \in Nat, k \in G PROVE k + 1 \in G
    <2>. SUFFICES ASSUME k + 1 <= n PROVE f[k + 1] = g[k + 1]
      OBVIOUS
    <2>1. k + 1 \in 1..n /\ (k + 1) - 1 = k
      OBVIOUS
    <2>2. f[k] = g[k]
      BY <1>5
    <2>3. f[k + 1] = IF s[k + 1] \in S THEN Append(f[k], s[k + 1]) ELSE f[k]
      BY <1>1, <2>1
    <2>4. g[k + 1] = IF s[k + 1] \in S THEN Append(g[k], s[k + 1]) ELSE g[k]
      BY <1>3, <2>1
    <2>. QED
      BY <2>2, <2>3, <2>4
  <1>6. n \in G
    <2>. HIDE DEF G
    <2>1. Nat \subseteq G
      BY <1>4, <1>5, InductionOnNat
    <2>. QED
      BY <2>1
  <1>. QED
    BY <1>1, <1>3, <1>6

LEMMA AmongAppend ==
  ASSUME NEW V, NEW s \in Seq(V), NEW x \in V, NEW S
  PROVE  Among(Append(s, x), S) = IF x \in S THEN Append(Among(s, S), x) ELSE Among(s, S)
  <1>1. PICK n \in Nat : n = Len(s)
    OBVIOUS
  <1>2. PICK g \in [0..Len(s) -> Seq(V)] : FiltersAlong(g, s, S)
    BY AmongSteps
  <1>3. /\ g[0] = <<>> /\ Among(s, S) = g[n]
        /\ \A i \in 1..n : g[i] = IF s[i] \in S THEN Append(g[i - 1], s[i]) ELSE g[i - 1]
    BY <1>1, <1>2 DEF FiltersAlong
  <1>4. PICK t \in Seq(V) : t = Append(s, x)
    BY AppendFacts
  <1>5. Len(t) = n + 1 /\ t[n + 1] = x /\ \A i \in 1..n : t[i] = s[i]
    BY <1>1, <1>4, AppendFacts
  <1>6. PICK last : last = IF x \in S THEN Append(g[n], x) ELSE g[n]
    OBVIOUS
  <1>7. PICK f : f = [i \in 0..(n + 1) |-> IF i = n + 1 THEN last ELSE g[i]]
    OBVIOUS
  <1>8. f[n + 1] = last /\ \A i \in 0..n : f[i] = g[i]
    BY <1>7
  <1>9. f[0] = <<>>
    BY <1>3, <1>8
  <1>10. ASSUME NEW i \in 1..(n + 1)
         PROVE  f[i] = IF t[i] \in S THEN Append(f[i - 1], t[i]) ELSE f[i - 1]
    <2>1. CASE i = n + 1
      <3>1. i - 1 = n /\ n \in 0..n
        BY <2>1
      <3>. QED
        BY <1>5, <1>6, <1>8, <2>1, <3>1
    <2>2. CASE i # n + 1
      <3>1. i \in 1..n /\ i \in 0..n /\ i - 1 \in 0..n
        BY <2>2
      <3>. QED
        BY <1>3, <1>5, <1>8, <3>1
    <2>. QED
      BY <2>1, <2>2
  <1>11. Among(t, S) = f[Len(t)]
    BY <1>5, <1>9, <1>10, AmongOnly
  <1>. QED
    BY <1>3, <1>4, <1>5, <1>6, <1>8, <1>11

\* A list is empty, or another one with an element added.
LEMMA InductionOnLists ==
  ASSUME NEW V, NEW G, <<>> \in G,
         \A s \in Seq(V), x \in V : s \in G => Append(s, x) \in G
  PROVE  Seq(V) \subseteq G
  <1>. DEFINE H == {n \in Nat : \A s \in Seq(V) : Len(s) = n => s \in G}
  <1>1. 0 \in H
    <2>1. ASSUME NEW s \in Seq(V), Len(s) = 0 PROVE s \in G
      <3>1. s = <<>>
        BY <2>1
      <3>. QED
        BY <3>1
    <2>. QED
      BY <2>1
  <1>2. ASSUME NEW n \in Nat, n \in H PROVE n + 1 \in H
    <2>1. ASSUME NEW s \in Seq(V), Len(s) = n + 1 PROVE s \in G
      <3>1. PICK t : t = [i \in 1..n |-> s[i]]
        OBVIOUS
      <3>2. t \in Seq(V) /\ Len(t) = n
        BY <2>1, <3>1
      <3>3. t \in G
        BY <1>2, <3>2
      <3>4. s[n + 1] \in V
        BY <2>1
      <3>5. Append(t, s[n + 1]) = s
        BY <2>1, <3>1, <3>2, <3>4
      <3>6. Append(t, s[n + 1]) \in G
        BY <3>2, <3>3, <3>4
      <3>. QED
        BY <3>5, <3>6
    <2>. QED
      BY <2>1
  <1>3. Nat \subseteq H
    <2>. HIDE DEF H
    <2>. QED
      BY <1>1, <1>2, InductionOnNat
  <1>4. ASSUME NEW s \in Seq(V) PROVE s \in G
    <2>1. Len(s) \in H
      BY <1>3
    <2>. QED
      BY <2>1
  <1>. QED
    BY <1>4

LEMMA AmongEmpty ==
  ASSUME NEW S
  PROVE  Among(<<>>, S) = <<>>
  <1>1. <<>> \in Seq({})
    BY EmptyList
  <1>2. Among(<<>>, S) \in Seq({})
    BY <1>1, AmongFacts
  <1>. QED
    BY <1>2, NoElements, ToSetFinite

\* A filter of a filter keeps what both keep.
LEMMA AmongTwice ==
  ASSUME NEW V, NEW s \in Seq(V), NEW S, NEW T
  PROVE  Among(Among(s, S), T) = Among(s, S \cap T)
  <1>. DEFINE G == {t \in Seq(V) : Among(Among(t, S), T) = Among(t, S \cap T)}
  <1>1. <<>> \in G
    <2>1. Among(<<>>, S) = <<>> /\ Among(<<>>, T) = <<>> /\ Among(<<>>, S \cap T) = <<>>
      BY AmongEmpty
    <2>. QED
      BY <2>1, EmptyList
  <1>2. ASSUME NEW t \in Seq(V), NEW x \in V, t \in G PROVE Append(t, x) \in G
    <2>1. PICK a \in Seq(V) : a = Among(t, S)
      BY AmongFacts
    <2>2. Among(a, T) = Among(t, S \cap T)
      BY <1>2, <2>1
    <2>3. Among(Append(t, x), S) = IF x \in S THEN Append(a, x) ELSE a
      BY <2>1, AmongAppend
    <2>4. Among(Append(a, x), T) = IF x \in T THEN Append(Among(a, T), x) ELSE Among(a, T)
      BY AmongAppend
    <2>5. Among(Append(t, x), S \cap T)
            = IF x \in S \cap T THEN Append(Among(t, S \cap T), x) ELSE Among(t, S \cap T)
      BY AmongAppend
    <2>6. Among(Among(Append(t, x), S), T) = Among(Append(t, x), S \cap T)
      <3>1. CASE x \in S /\ x \in T
        <4>1. Among(Append(t, x), S) = Append(a, x) /\ x \in S \cap T
          BY <2>3, <3>1
        <4>2. Among(Append(a, x), T) = Append(Among(a, T), x)
          BY <2>4, <3>1
        <4>. QED
          BY <2>2, <2>5, <4>1, <4>2, Zenon
      <3>2. CASE x \in S /\ x \notin T
        <4>1. Among(Append(t, x), S) = Append(a, x) /\ x \notin S \cap T
          BY <2>3, <3>2
        <4>2. Among(Append(a, x), T) = Among(a, T)
          BY <2>4, <3>2
        <4>. QED
          BY <2>2, <2>5, <4>1, <4>2, Zenon
      <3>3. CASE x \notin S
        <4>1. Among(Append(t, x), S) = a /\ x \notin S \cap T
          BY <2>3, <3>3
        <4>. QED
          BY <2>2, <2>5, <4>1, Zenon
      <3>. QED
        BY <3>1, <3>2, <3>3
    <2>7. Append(t, x) \in Seq(V)
      BY AppendFacts
    <2>. QED
      BY <2>6, <2>7
  <1>3. Seq(V) \subseteq G
    <2>. HIDE DEF G
    <2>. QED
      BY <1>1, <1>2, InductionOnLists
  <1>. QED
    BY <1>3

LEMMA AmongConcat ==
  ASSUME NEW V, NEW s \in Seq(V), NEW t \in Seq(V), NEW S
  PROVE  Among(s \o t, S) = Among(s, S) \o Among(t, S)
  <1>1. PICK a \in Seq(V) : a = Among(s, S)
    BY AmongFacts
  <1>. DEFINE G == {u \in Seq(V) : Among(s \o u, S) = a \o Among(u, S)}
  <1>2. <<>> \in G
    <2>1. Among(<<>>, S) = <<>> /\ <<>> \in Seq(V)
      BY AmongEmpty, EmptyList
    <2>2. s \o <<>> = s /\ a \o <<>> = a
      OBVIOUS
    <2>. QED
      BY <1>1, <2>1, <2>2
  <1>3. ASSUME NEW u \in Seq(V), NEW x \in V, u \in G PROVE Append(u, x) \in G
    <2>1. PICK b \in Seq(V) : b = Among(u, S)
      BY AmongFacts
    <2>2. PICK w \in Seq(V) : w = s \o u
      BY ConcatFacts
    <2>3. Among(w, S) = a \o b
      BY <1>3, <2>1, <2>2
    <2>4. s \o Append(u, x) = Append(w, x)
      BY <2>2
    <2>5. Among(Append(w, x), S) = IF x \in S THEN Append(a \o b, x) ELSE a \o b
      BY <2>3, AmongAppend
    <2>6. Among(Append(u, x), S) = IF x \in S THEN Append(b, x) ELSE b
      BY <2>1, AmongAppend
    <2>7. a \o Append(b, x) = Append(a \o b, x)
      OBVIOUS
    <2>8. Append(u, x) \in Seq(V)
      BY AppendFacts
    <2>. QED
      BY <2>4, <2>5, <2>6, <2>7, <2>8
  <1>4. Seq(V) \subseteq G
    <2>. HIDE DEF G
    <2>. QED
      BY <1>2, <1>3, InductionOnLists
  <1>. QED
    BY <1>1, <1>4

\* What a filter drops makes no difference at the end of a list.
LEMMA AmongDropped ==
  ASSUME NEW V, NEW s \in Seq(V), NEW t \in Seq(V), NEW S, ToSet(t) \cap S = {}
  PROVE  Among(s \o t, S) = Among(s, S)
  <1>1. Among(s \o t, S) = Among(s, S) \o Among(t, S)
    BY AmongConcat, SMTT(60)
  <1>2. PICK a \in Seq(V) : a = Among(s, S)
    BY AmongFacts
  <1>3. PICK b \in Seq(V) : b = Among(t, S)
    BY AmongFacts
  <1>4. ToSet(b) = {}
    BY <1>3, AmongFacts
  <1>5. b = <<>>
    BY <1>4, NoElements
  <1>6. a \o b = a
    BY <1>5
  <1>. QED
    BY <1>1, <1>2, <1>3, <1>6

\* A filter leaves a list no longer, and as it is when it keeps everything.
LEMMA AmongShorter ==
  ASSUME NEW V, NEW s \in Seq(V), NEW S
  PROVE  /\ Len(Among(s, S)) <= Len(s)
         /\ Len(Among(s, S)) = Len(s) => Among(s, S) = s
         /\ ToSet(s) \subseteq S => Among(s, S) = s
  <1>. DEFINE Short(t) == /\ Len(Among(t, S)) <= Len(t)
                          /\ Len(Among(t, S)) = Len(t) => Among(t, S) = t
                          /\ ToSet(t) \subseteq S => Among(t, S) = t
              G == {t \in Seq(V) : Short(t)}
  <1>1. <<>> \in G
    BY AmongEmpty, EmptyList
  <1>2. ASSUME NEW t \in Seq(V), NEW x \in V, t \in G PROVE Append(t, x) \in G
    <2>1. PICK a \in Seq(V) : a = Among(t, S)
      BY AmongFacts
    <2>2. /\ Len(a) <= Len(t) /\ (Len(a) = Len(t) => a = t) /\ (ToSet(t) \subseteq S => a = t)
          /\ Len(a) \in Nat /\ Len(t) \in Nat
      BY <1>2, <2>1
    <2>3. Among(Append(t, x), S) = IF x \in S THEN Append(a, x) ELSE a
      BY <2>1, AmongAppend
    <2>4. Append(t, x) \in Seq(V) /\ Len(Append(t, x)) = Len(t) + 1
          /\ ToSet(Append(t, x)) = ToSet(t) \cup {x}
      BY AppendFacts
    <2>5. Len(Append(a, x)) = Len(a) + 1
      BY AppendFacts
    <2>6. Short(Append(t, x))
      <3>1. CASE x \in S
        BY <2>2, <2>3, <2>4, <2>5, <3>1
      <3>2. CASE x \notin S
        BY <2>2, <2>3, <2>4, <3>2
      <3>. QED
        BY <3>1, <3>2
    <2>. QED
      BY <2>4, <2>6
  <1>3. Seq(V) \subseteq G
    <2>. HIDE DEF G
    <2>. QED
      BY <1>1, <1>2, InductionOnLists
  <1>. QED
    BY <1>3

\* What is not in the list does not matter to a filter.
LEMMA AmongOwn ==
  ASSUME NEW V, NEW s \in Seq(V), NEW S
  PROVE  Among(s, S) = Among(s, ToSet(s) \cap S)
  <1>1. Among(s, ToSet(s)) = s
    BY AmongShorter
  <1>. QED
    BY <1>1, AmongTwice

\* The elements at some positions, as a recursion along the list.
PicksAlong(f, s, S) ==
    /\ f[0] = <<>>
    /\ \A i \in 1..Len(s) : f[i] = IF i \in S THEN Append(f[i - 1], s[i]) ELSE f[i - 1]
    /\ AtPositions(s, S) = f[Len(s)]

LEMMA AtPositionsSteps ==
  ASSUME NEW V, NEW s \in Seq(V), NEW S
  PROVE  \E f \in [0..Len(s) -> Seq(V)] : PicksAlong(f, s, S)
  <1>1. PICK n \in Nat : n = Len(s) /\ DOMAIN s = 1..n
    OBVIOUS
  <1>. DEFINE step == [i \in 1..n |-> [y \in Seq(V) |-> IF i \in S THEN Append(y, s[i]) ELSE y]]
              Rec(f) == [i \in 0..n |-> IF i = 0 THEN <<>>
                            ELSE IF i \in S THEN Append(f[i - 1], s[i]) ELSE f[i - 1]]
              f == CHOOSE g : g = Rec(g)
  <1>2. \A i \in 1..n, y \in Seq(V) :
            /\ step[i][y] = IF i \in S THEN Append(y, s[i]) ELSE y
            /\ step[i][y] \in Seq(V)
    BY <1>1
  <1>. HIDE DEF step
  <1>3. Preserves(step, 1..n, Seq(V))
    BY <1>2 DEF Preserves
  <1>. HIDE DEF f
  <1>4. PICK g \in [0..n -> Seq(V)] : IsRecursion(g, n, <<>>, step)
    BY <1>3, RecursionExists, EmptyList
  <1>5. g[0] = <<>>
    BY <1>4 DEF IsRecursion
  <1>6. \A i \in 1..n : g[i] = IF i \in S THEN Append(g[i - 1], s[i]) ELSE g[i - 1]
    <2>1. ASSUME NEW i \in 1..n
          PROVE  g[i] = IF i \in S THEN Append(g[i - 1], s[i]) ELSE g[i - 1]
      <3>1. g[i] = step[i][g[i - 1]]
        BY <1>4 DEF IsRecursion
      <3>2. g[i - 1] \in Seq(V)
        BY <1>4
      <3>. QED
        BY <1>2, <3>1, <3>2
    <2>. QED
      BY <2>1
  <1>7. g = Rec(g)
    <2>. DEFINE v(i) == IF i = 0 THEN <<>>
                        ELSE IF i \in S THEN Append(g[i - 1], s[i]) ELSE g[i - 1]
    <2>1. \A i \in 1..n : g[i] = v(i)
      BY <1>6
    <2>2. g[0] = v(0)
      BY <1>5
    <2>. HIDE DEF v
    <2>3. \A i \in 0..n : g[i] = v(i)
      BY <2>1, <2>2
    <2>4. g = [i \in 0..n |-> v(i)]
      BY <2>3
    <2>. QED
      BY <2>4 DEF v
  <1>8. f = Rec(f)
    <2>. HIDE DEF Rec
    <2>. QED
      BY <1>7 DEF f
  <1>. DEFINE G == {k \in Nat : k <= n => f[k] = g[k]}
  <1>9. 0 \in G
    <2>1. f[0] = <<>>
      BY <1>8
    <2>. QED
      BY <1>5, <2>1
  <1>10. ASSUME NEW k \in Nat, k \in G PROVE k + 1 \in G
    <2>. SUFFICES ASSUME k + 1 <= n PROVE f[k + 1] = g[k + 1]
      OBVIOUS
    <2>1. k + 1 \in 1..n /\ k + 1 \in 0..n /\ k + 1 # 0 /\ (k + 1) - 1 = k
      OBVIOUS
    <2>2. f[k] = g[k]
      BY <1>10
    <2>3. f[k + 1] = IF k + 1 \in S THEN Append(f[(k + 1) - 1], s[k + 1]) ELSE f[(k + 1) - 1]
      BY <1>8, <2>1
    <2>. QED
      BY <1>6, <2>1, <2>2, <2>3
  <1>. HIDE DEF G
  <1>11. n \in G
    BY <1>9, <1>10, InductionOnNat
  <1>12. f[n] = g[n]
    BY <1>11 DEF G
  <1>13. AtPositions(s, S) = f[Len(s)]
    BY <1>1 DEF AtPositions, f
  <1>. QED
    BY <1>1, <1>5, <1>6, <1>12, <1>13 DEF PicksAlong

LEMMA AtPositionsFacts ==
  ASSUME NEW V, NEW s \in Seq(V), NEW S
  PROVE  /\ AtPositions(s, S) \in Seq(V)
         /\ ToSet(AtPositions(s, S)) = {s[i] : i \in S \cap DOMAIN s}
  <1>1. PICK n \in Nat : n = Len(s) /\ DOMAIN s = 1..n
    OBVIOUS
  <1>2. PICK f \in [0..Len(s) -> Seq(V)] : PicksAlong(f, s, S)
    BY AtPositionsSteps
  <1>3. /\ f[0] = <<>> /\ AtPositions(s, S) = f[n]
        /\ \A i \in 1..n : f[i] = IF i \in S THEN Append(f[i - 1], s[i]) ELSE f[i - 1]
    BY <1>1, <1>2 DEF PicksAlong
  <1>. DEFINE Upto(k) == {s[i] : i \in S \cap 1..k}
              G == {k \in Nat : k <= n => ToSet(f[k]) = Upto(k)}
  <1>4. 0 \in G
    <2>1. Upto(0) = {}
      OBVIOUS
    <2>. QED
      BY <1>3, <2>1, EmptyList
  <1>5. ASSUME NEW k \in Nat, k \in G PROVE k + 1 \in G
    <2>. SUFFICES ASSUME k + 1 <= n PROVE ToSet(f[k + 1]) = Upto(k + 1)
      OBVIOUS
    <2>1. k + 1 \in 1..n /\ k \in 0..n /\ (k + 1) - 1 = k
      OBVIOUS
    <2>2. ToSet(f[k]) = Upto(k)
      BY <1>5
    <2>3. f[k + 1] = IF k + 1 \in S THEN Append(f[k], s[k + 1]) ELSE f[k]
      BY <1>3, <2>1
    <2>4. f[k] \in Seq(V) /\ s[k + 1] \in V
      BY <1>1, <2>1
    <2>5. ToSet(Append(f[k], s[k + 1])) = ToSet(f[k]) \cup {s[k + 1]}
      BY <2>4, AppendFacts
    <2>6. Upto(k + 1) = IF k + 1 \in S THEN Upto(k) \cup {s[k + 1]} ELSE Upto(k)
      <3>1. \A i \in 1..(k + 1) : i \in 1..k \/ i = k + 1
        OBVIOUS
      <3>2. \A i \in 1..k : i \in 1..(k + 1)
        OBVIOUS
      <3>3. k + 1 \in 1..(k + 1)
        OBVIOUS
      <3>. QED
        BY <3>1, <3>2, <3>3
    <2>. HIDE DEF Upto
    <2>. QED
      BY <2>2, <2>3, <2>5, <2>6
  <1>6. n \in G
    <2>. HIDE DEF G
    <2>1. Nat \subseteq G
      BY <1>4, <1>5, InductionOnNat
    <2>. QED
      BY <2>1
  <1>7. f[n] \in Seq(V)
    BY <1>1
  <1>. QED
    BY <1>1, <1>3, <1>6, <1>7
=============================================================================
