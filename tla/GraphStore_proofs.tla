-------------------------- MODULE GraphStore_proofs --------------------------
(***************************************************************************)
(* Proofs about the three backends, for every set of processes, menu of    *)
(* calls and bound on their number.                                        *)
(*                                                                         *)
(* The first half is about the data: what asserting, merging and importing *)
(* keep of a graph, and that the rows SQLite stores are read back as the   *)
(* records they stand for.  The second half is the invariant of the        *)
(* interleaved calls, GraphInv, one lemma per action, and the properties   *)
(* that follow from it.                                                    *)
(***************************************************************************)
EXTENDS GraphStore, Reasoning_proofs

\* What SELECT returns: each row of the table once.
LEMMA AsListFacts ==
  ASSUME NEW S, IsFiniteSet(S)
  PROVE  AsList(S) \in Seq(S) /\ ToSet(AsList(S)) = S /\ NoRepeats(AsList(S))
  <1>. DEFINE pick == [T \in SUBSET S |-> CHOOSE x \in T : TRUE]
              step == [x \in S |-> [y \in Seq(S) |-> Append(y, x)]]
              Rec(it) == [T \in SUBSET S |-> IF T = {} THEN <<>>
                            ELSE Append(it[T \ {CHOOSE x \in T : TRUE}], CHOOSE x \in T : TRUE)]
              f == CHOOSE it : it = Rec(it)
              G == {T \in SUBSET S : f[T] \in Seq(S) /\ ToSet(f[T]) = T /\ NoRepeats(f[T])}
  <1>1. Chooses(pick, S)
    BY DEF Chooses
  <1>2. \A T \in SUBSET S : pick[T] = CHOOSE x \in T : TRUE
    OBVIOUS
  <1>3. \A x \in S, y \in Seq(S) : step[x][y] = Append(y, x) /\ step[x][y] \in Seq(S)
    OBVIOUS
  <1>4. <<>> \in Seq(S)
    OBVIOUS
  <1>a. Preserves(step, S, Seq(S))
    BY <1>3 DEF Preserves
  <1>. HIDE DEF pick, step
  <1>5. PICK it \in [SUBSET S -> Seq(S)] : IsFold(it, S, pick, <<>>, step)
    BY <1>1, <1>4, <1>a, FoldExists
  <1>6. it = Rec(it)
    <2>1. ASSUME NEW T \in SUBSET S, T # {}
          PROVE  it[T] = Append(it[T \ {CHOOSE x \in T : TRUE}], CHOOSE x \in T : TRUE)
      <3>1. pick[T] \in S /\ T \ {pick[T]} \in SUBSET S /\ it[T \ {pick[T]}] \in Seq(S)
        BY <1>1, <2>1 DEF Chooses
      <3>2. it[T] = step[pick[T]][it[T \ {pick[T]}]]
        BY <1>5, <2>1 DEF IsFold
      <3>. QED
        BY <1>2, <1>3, <3>1, <3>2
    <2>2. it[{}] = <<>>
      BY <1>5 DEF IsFold
    <2>3. \A T \in SUBSET S : it[T] = IF T = {} THEN <<>>
                            ELSE Append(it[T \ {CHOOSE x \in T : TRUE}], CHOOSE x \in T : TRUE)
      BY <2>1, <2>2
    <2>. QED
      BY <2>3
  <1>7. f = Rec(f)
    <2>. HIDE DEF Rec
    <2>. QED
      BY <1>6
  <1>8. \A T \in SUBSET S : f[T] = IF T = {} THEN <<>> ELSE Append(f[T \ {pick[T]}], pick[T])
    <2>. HIDE DEF f
    <2>. QED
      BY <1>2, <1>7
  <1>. HIDE DEF f
  <1>9. {} \in G
    <2>1. f[{}] = <<>>
      BY <1>8
    <2>. QED
      BY <2>1, EmptyList
  <1>10. ASSUME NEW T \in SUBSET S, T # {}, T \ {pick[T]} \in G PROVE T \in G
    <2>. DEFINE s == f[T \ {pick[T]}]
    <2>1. s \in Seq(S) /\ ToSet(s) = T \ {pick[T]} /\ NoRepeats(s)
      BY <1>10
    <2>2. f[T] = Append(s, pick[T]) /\ pick[T] \in T
      BY <1>1, <1>8, <1>10 DEF Chooses
    <2>. HIDE DEF s
    <2>3. f[T] \in Seq(S)
      BY <2>1, <2>2
    <2>4. ToSet(f[T]) = T
      BY <2>1, <2>2 DEF ToSet
    <2>5. NoRepeats(f[T])
      BY <2>1, <2>2 DEF NoRepeats, ToSet
    <2>. QED
      BY <2>3, <2>4, <2>5
  <1>. HIDE DEF G
  <1>11. SUBSET S \subseteq G
    <2>1. Inductive(G, S, pick)
      BY <1>9, <1>10 DEF Inductive
    <2>. QED
      BY <1>1, <2>1, InductionOnSubsets
  <1>12. AsList(S) = f[S]
    BY DEF f, AsList, FoldSet, MapThenFoldSet
  <1>. QED
    BY <1>11, <1>12 DEF G

(***************************************************************************)
(* The merge of independence records                                       *)
(***************************************************************************)
PositionMaps(D) == UNION {[C -> Nat] : C \in SUBSET D}

LEMMA MovedFacts ==
  ASSUME NEW D, NEW pos \in PositionMaps(D), NEW k \in D, NEW i \in Nat
  PROVE  Moved(pos, k, i) \in PositionMaps(D)
  <1>1. PICK C \in SUBSET D : pos \in [C -> Nat]
    BY DEF PositionMaps
  <1>2. Moved(pos, k, i) \in [C \cup {k} -> Nat]
    BY <1>1 DEF Moved
  <1>. QED
    BY <1>2 DEF PositionMaps

LEMMA WithoutFacts ==
  ASSUME NEW D, NEW pos \in PositionMaps(D), NEW k
  PROVE  Without(pos, k) \in PositionMaps(D)
  <1>1. PICK C \in SUBSET D : pos \in [C -> Nat]
    BY DEF PositionMaps
  <1>2. Without(pos, k) \in [C \ {k} -> Nat]
    BY <1>1 DEF Without
  <1>3. C \ {k} \in SUBSET D
    OBVIOUS
  <1>. QED
    BY <1>2, <1>3 DEF PositionMaps

Merge(V) == [list  : Seq(V), ids : PositionMaps({x.id : x \in V}),
             pairs : PositionMaps({IndependenceKey(x) : x \in V})]

LEMMA IndependencePutFacts ==
  ASSUME NEW V, NEW m \in Merge(V), NEW x \in V, NEW mode
  PROVE  /\ IndependencePut(m, x, mode) \in Merge(V)
         /\ ToSet(IndependencePut(m, x, mode).list) \subseteq ToSet(m.list) \cup {x}
         /\ mode # "upsert" => IndependencePut(m, x, mode).list = Append(m.list, x)
  <1>. DEFINE t == IndependencePut(m, x, mode)
              iset == {y.id : y \in V}
              pset == {IndependenceKey(y) : y \in V}
  <1>1. /\ m.list \in Seq(V) /\ m.ids \in PositionMaps(iset) /\ m.pairs \in PositionMaps(pset)
        /\ m = [list |-> m.list, ids |-> m.ids, pairs |-> m.pairs]
        /\ x.id \in iset /\ IndependenceKey(x) \in pset
    BY DEF Merge
  <1>a. \A C : \A pos \in PositionMaps(C) : \A k \in DOMAIN pos : pos[k] \in Nat
    BY DEF PositionMaps
  <1>b. ASSUME NEW i
        PROVE  /\ [m.list EXCEPT ![i] = x] \in Seq(V)
               /\ ToSet([m.list EXCEPT ![i] = x]) \subseteq ToSet(m.list) \cup {x}
    <2>1. PICK s \in Seq(V) : s = m.list
      BY <1>1
    <2>2. [s EXCEPT ![i] = x] \in Seq(V)
      <3>1. CASE i \in DOMAIN s
        BY <3>1
      <3>2. CASE i \notin DOMAIN s
        <4>1. [s EXCEPT ![i] = x] = s
          BY <3>2
        <4>. QED
          BY <4>1
      <3>. QED
        BY <3>1, <3>2
    <2>3. ToSet([s EXCEPT ![i] = x]) \subseteq ToSet(s) \cup {x}
      BY DEF ToSet
    <2>. QED
      BY <2>1, <2>2, <2>3
  <1>2. CASE mode = "upsert" /\ x.id \in DOMAIN m.ids
    <2>. DEFINE i == m.ids[x.id]
                l == [m.list EXCEPT ![i] = x]
                p == Moved(Without(m.pairs, IndependenceKey(m.list[i])), IndependenceKey(x), i)
    <2>1. t = [m EXCEPT !.list[i] = x,
                        !.pairs = Moved(Without(@, IndependenceKey(m.list[i])),
                                        IndependenceKey(x), i)]
      BY <1>2 DEF IndependencePut
    <2>2. t = [list |-> l, ids |-> m.ids, pairs |-> p]
      BY <1>1, <2>1
    <2>5. l \in Seq(V) /\ ToSet(l) \subseteq ToSet(m.list) \cup {x}
      BY <1>b
    <2>3. i \in Nat
      BY <1>1, <1>2, <1>a
    <2>4. p \in PositionMaps(pset)
      BY <1>1, <2>3, MovedFacts, WithoutFacts
    <2>. HIDE DEF p, i, t, l
    <2>. QED
      BY <1>1, <1>2, <2>2, <2>4, <2>5 DEF Merge, t
  <1>3. CASE mode = "upsert" /\ x.id \notin DOMAIN m.ids /\ IndependenceKey(x) \in DOMAIN m.pairs
    <2>. DEFINE i == m.pairs[IndependenceKey(x)]
                l == [m.list EXCEPT ![i] = x]
                d == Moved(Without(m.ids, m.list[i].id), x.id, i)
    <2>1. t = [m EXCEPT !.list[i] = x, !.ids = Moved(Without(@, m.list[i].id), x.id, i)]
      BY <1>3 DEF IndependencePut
    <2>2. t = [list |-> l, ids |-> d, pairs |-> m.pairs]
      BY <1>1, <2>1
    <2>5. l \in Seq(V) /\ ToSet(l) \subseteq ToSet(m.list) \cup {x}
      BY <1>b
    <2>3. i \in Nat
      BY <1>1, <1>3, <1>a
    <2>4. d \in PositionMaps(iset)
      BY <1>1, <2>3, MovedFacts, WithoutFacts
    <2>. HIDE DEF d, i, t, l
    <2>. QED
      BY <1>1, <1>3, <2>2, <2>4, <2>5 DEF Merge, t
  <1>4. CASE /\ ~(mode = "upsert" /\ x.id \in DOMAIN m.ids)
             /\ ~(mode = "upsert" /\ x.id \notin DOMAIN m.ids /\ IndependenceKey(x) \in DOMAIN m.pairs)
    <2>. DEFINE n == Len(m.list) + 1
                d == Moved(m.ids, x.id, n)
                p == Moved(m.pairs, IndependenceKey(x), n)
    <2>1. t = [list |-> Append(m.list, x), ids |-> d, pairs |-> p]
      BY <1>4 DEF IndependencePut
    <2>2. n \in Nat
      BY <1>1
    <2>3. d \in PositionMaps(iset) /\ p \in PositionMaps(pset)
      BY <1>1, <2>2, MovedFacts
    <2>4. Append(m.list, x) \in Seq(V) /\ ToSet(Append(m.list, x)) = ToSet(m.list) \cup {x}
      BY <1>1, AppendFacts
    <2>. HIDE DEF d, p, n, t
    <2>. QED
      BY <2>1, <2>3, <2>4 DEF Merge, t
  <1>. QED
    BY <1>2, <1>3, <1>4

LEMMA PositionsIdOf ==
  ASSUME NEW V, NEW s \in Seq(V), NEW D, \A x \in V : IdOf(x) \in D
  PROVE  Positions(IdOf, s) \in PositionMaps(D)
  <1>1. DOMAIN s = 1..Len(s) /\ Len(s) \in Nat /\ \A i \in DOMAIN s : s[i] \in V
    OBVIOUS
  <1>. DEFINE C == {IdOf(s[i]) : i \in DOMAIN s}
              last(k) == CHOOSE i \in DOMAIN s : IdOf(s[i]) = k
                            /\ \A h \in DOMAIN s : IdOf(s[h]) = k => h <= i
  <1>2. C \in SUBSET D
    BY <1>1
  <1>3. ASSUME NEW k \in C PROVE last(k) \in Nat
    <2>. DEFINE T == {i \in DOMAIN s : IdOf(s[i]) = k}
    <2>1. T \in SUBSET (1..Len(s)) /\ T # {}
      BY <1>1
    <2>2. \E i \in T : \A j \in T : j <= i
      BY <1>1, <2>1, Greatest
    <2>3. \E i \in DOMAIN s : IdOf(s[i]) = k /\ \A h \in DOMAIN s : IdOf(s[h]) = k => h <= i
      BY <2>2
    <2>4. last(k) \in DOMAIN s
      BY <2>3
    <2>. QED
      BY <1>1, <2>4
  <1>4. [k \in C |-> last(k)] \in [C -> Nat]
    BY <1>3
  <1>5. Positions(IdOf, s) = [k \in C |-> last(k)]
    BY Zenon DEF Positions
  <1>. QED
    BY <1>2, <1>4, <1>5 DEF PositionMaps

LEMMA PositionsIndependenceKey ==
  ASSUME NEW V, NEW s \in Seq(V), NEW D, \A x \in V : IndependenceKey(x) \in D
  PROVE  Positions(IndependenceKey, s) \in PositionMaps(D)
  <1>1. DOMAIN s = 1..Len(s) /\ Len(s) \in Nat /\ \A i \in DOMAIN s : s[i] \in V
    OBVIOUS
  <1>. DEFINE C == {IndependenceKey(s[i]) : i \in DOMAIN s}
              last(k) == CHOOSE i \in DOMAIN s : IndependenceKey(s[i]) = k
                            /\ \A h \in DOMAIN s : IndependenceKey(s[h]) = k => h <= i
  <1>2. C \in SUBSET D
    BY <1>1
  <1>3. ASSUME NEW k \in C PROVE last(k) \in Nat
    <2>. DEFINE T == {i \in DOMAIN s : IndependenceKey(s[i]) = k}
    <2>1. T \in SUBSET (1..Len(s)) /\ T # {}
      BY <1>1
    <2>2. \E i \in T : \A j \in T : j <= i
      BY <1>1, <2>1, Greatest
    <2>3. \E i \in DOMAIN s : IndependenceKey(s[i]) = k /\ \A h \in DOMAIN s : IndependenceKey(s[h]) = k => h <= i
      BY <2>2
    <2>4. last(k) \in DOMAIN s
      BY <2>3
    <2>. QED
      BY <1>1, <2>4
  <1>4. [k \in C |-> last(k)] \in [C -> Nat]
    BY <1>3
  <1>5. Positions(IndependenceKey, s) = [k \in C |-> last(k)]
    BY Zenon DEF Positions
  <1>. QED
    BY <1>2, <1>4, <1>5 DEF PositionMaps

\* The merge puts every new record; a merge that matches nothing appends them.
LEMMA MergeIndependenceFacts ==
  ASSUME NEW V, NEW inds \in Seq(V), NEW new \in Seq(V), NEW mode, NEW store
  PROVE  /\ MergeIndependence(inds, new, mode, store) \in Seq(V)
         /\ ToSet(MergeIndependence(inds, new, mode, store)) \subseteq ToSet(inds) \cup ToSet(new)
         /\ \/ mode = "upsert" \/ inds # <<>>
            \/ MergeIndependence(inds, new, mode, store) = new
  <1>1. PICK n \in Nat : n = Len(new) /\ DOMAIN new = 1..n /\ \A i \in 1..n : new[i] \in V
    OBVIOUS
  <1>. DEFINE kept == KeptOnImport(inds, mode, store)
              start == [list  |-> kept,
                        ids   |-> Positions(IdOf, kept),
                        pairs |-> Positions(IndependenceKey,
                                            IF mode = "append" THEN <<>> ELSE kept)]
              step == [i \in 1..n |-> [m \in Merge(V) |-> IndependencePut(m, new[i], mode)]]
              Rec(it) == [S \in SUBSET (DOMAIN new) |-> IF S = {} THEN start
                            ELSE IndependencePut(it[S \ {Max(S)}], new[Max(S)], mode)]
              F == CHOOSE it : it = Rec(it)
  <1>2. kept \in Seq(V) /\ ToSet(kept) \subseteq ToSet(inds) /\ (inds = <<>> => kept = <<>>)
    <2>1. Among(inds, {x \in ToSet(inds) : x.store # store}) \in Seq(V)
      BY AmongFacts
    <2>2. ToSet(Among(inds, {x \in ToSet(inds) : x.store # store})) \subseteq ToSet(inds)
      BY AmongFacts
    <2>3. inds = <<>> => Among(inds, {x \in ToSet(inds) : x.store # store}) = <<>>
      <3>. SUFFICES ASSUME inds = <<>> PROVE Among(inds, {x \in ToSet(inds) : x.store # store}) = <<>>
        OBVIOUS
      <3>. DEFINE a == Among(inds, {x \in ToSet(inds) : x.store # store})
      <3>1. ToSet(a) = {} /\ a \in Seq(V)
        BY <2>1, <2>2, EmptyList
      <3>. HIDE DEF a
      <3>2. a = <<>>
        BY <3>1, NoElements
      <3>. QED
        BY <3>2 DEF a
    <2>. QED
      BY <2>1, <2>2, <2>3 DEF KeptOnImport, Elsewhere
  <1>. HIDE DEF kept
  <1>3. start \in Merge(V)
    <2>1. \A x \in V : IdOf(x) \in {y.id : y \in V}
      BY DEF IdOf
    <2>2. \A x \in V : IndependenceKey(x) \in {IndependenceKey(y) : y \in V}
      OBVIOUS
    <2>3. Positions(IdOf, kept) \in PositionMaps({y.id : y \in V})
      BY <1>2, <2>1, PositionsIdOf
    <2>4. PICK s \in Seq(V) : s = IF mode = "append" THEN <<>> ELSE kept
      BY <1>2, EmptyList
    <2>5. Positions(IndependenceKey, s) \in PositionMaps({IndependenceKey(y) : y \in V})
      BY <2>2, PositionsIndependenceKey
    <2>. QED
      BY <1>2, <2>3, <2>4, <2>5 DEF Merge
  <1>4. start.list = kept
    OBVIOUS
  <1>. HIDE DEF start
  <1>5. \A i \in 1..n, m \in Merge(V) : step[i][m] = IndependencePut(m, new[i], mode)
    OBVIOUS
  <1>. HIDE DEF step, F
  <1>6. Preserves(step, 1..n, Merge(V))
    <2>1. \A i \in 1..n, m \in Merge(V) : IndependencePut(m, new[i], mode) \in Merge(V)
      BY <1>1, IndependencePutFacts
    <2>. QED
      BY <1>5, <2>1 DEF Preserves
  <1>7. PICK it \in [SUBSET (1..n) -> Merge(V)] : IsListFold(it, n, start, step)
    BY <1>3, <1>6, ListFoldExists
  <1>8. it = Rec(it)
    <2>1. ASSUME NEW S \in SUBSET (1..n), S # {}
          PROVE  it[S] = IndependencePut(it[S \ {Max(S)}], new[Max(S)], mode)
      <3>1. Max(S) \in 1..n
        BY <2>1, MaxIsMember
      <3>2. it[S \ {Max(S)}] \in Merge(V)
        BY <3>1
      <3>3. it[S] = step[Max(S)][it[S \ {Max(S)}]]
        BY <1>7, <2>1 DEF IsListFold
      <3>. QED
        BY <1>5, <3>1, <3>2, <3>3
    <2>2. it[{}] = start
      BY <1>7 DEF IsListFold
    <2>3. \A S \in SUBSET (1..n) : it[S] = IF S = {} THEN start
                            ELSE IndependencePut(it[S \ {Max(S)}], new[Max(S)], mode)
      BY <2>1, <2>2
    <2>4. it = [S \in SUBSET (1..n) |-> IF S = {} THEN start
                            ELSE IndependencePut(it[S \ {Max(S)}], new[Max(S)], mode)]
      BY <2>3
    <2>. QED
      BY <1>1, <2>4
  <1>9. F = Rec(F)
    <2>. HIDE DEF Rec
    <2>. QED
      BY <1>8 DEF F
  <1>10. FoldsWithin(F, n, start, step, Merge(V))
    <2>1. F[{}] = start
      BY <1>9
    <2>2. ASSUME NEW S \in SUBSET (1..n), S # {}, F[S \ {Max(S)}] \in Merge(V)
          PROVE  F[S] = step[Max(S)][F[S \ {Max(S)}]]
      <3>1. Max(S) \in 1..n
        BY <2>2, MaxIsMember
      <3>2. F[S] = IndependencePut(F[S \ {Max(S)}], new[Max(S)], mode)
        BY <1>1, <1>9, <2>2
      <3>. QED
        BY <1>5, <2>2, <3>1, <3>2
    <2>. QED
      BY <2>1, <2>2 DEF FoldsWithin
  <1>11. PICK f \in [0..n -> Merge(V)] : IsRecursion(f, n, start, step) /\ F[1..n] = f[n]
    BY <1>3, <1>6, <1>10, FoldIsRecursion
  <1>12. MergeIndependence(inds, new, mode, store) = F[DOMAIN new].list
    BY Zenon DEF MergeIndependence, FoldLeft, MapThenFoldSet, F, start, kept
  <1>13. MergeIndependence(inds, new, mode, store) = f[n].list
    BY <1>1, <1>11, <1>12
  <1>. DEFINE Holds(k) == /\ ToSet(f[k].list) \subseteq ToSet(inds) \cup Firsts(new, k)
                          /\ mode # "upsert" /\ inds = <<>> =>
                                Len(f[k].list) = k /\ \A i \in 1..k : f[k].list[i] = new[i]
  <1>14. Holds(0)
    <2>1. f[0] = start
      BY <1>11 DEF IsRecursion
    <2>. QED
      BY <1>2, <1>4, <2>1, FirstsFacts
  <1>15. ASSUME NEW k \in Nat, Holds(k), k + 1 <= n PROVE Holds(k + 1)
    <2>1. k + 1 \in 1..n /\ k \in 0..n /\ (k + 1) - 1 = k
      BY <1>15
    <2>2. PICK m \in Merge(V), x \in V : m = f[k] /\ x = new[k + 1]
      BY <1>1, <2>1
    <2>3. f[k + 1] = IndependencePut(m, x, mode)
      <3>1. f[k + 1] = step[k + 1][m]
        BY <1>11, <2>1, <2>2 DEF IsRecursion
      <3>. QED
        BY <1>5, <2>1, <2>2, <3>1
    <2>4. Firsts(new, k + 1) = Firsts(new, k) \cup {x}
      BY <2>2, FirstsFacts
    <2>5. Holds(k)
      BY <1>15
    <2>6. ToSet(f[k + 1].list) \subseteq ToSet(m.list) \cup {x}
      BY <2>3, IndependencePutFacts
    <2>7. mode # "upsert" => f[k + 1].list = Append(m.list, x)
      BY <2>3, IndependencePutFacts
    <2>8. PICK l \in Seq(V) : l = m.list
      BY DEF Merge
    <2>9. ASSUME mode # "upsert", inds = <<>>
          PROVE  /\ Len(f[k + 1].list) = k + 1
                 /\ \A i \in 1..(k + 1) : f[k + 1].list[i] = new[i]
      <3>1. Len(l) = k /\ \A i \in 1..k : l[i] = new[i]
        BY <2>2, <2>5, <2>8, <2>9
      <3>2. f[k + 1].list = Append(l, x)
        BY <2>7, <2>8, <2>9
      <3>3. /\ Len(Append(l, x)) = k + 1 /\ Append(l, x)[k + 1] = new[k + 1]
            /\ \A i \in 1..k : Append(l, x)[i] = l[i]
        BY <2>2, <3>1, AppendFacts
      <3>4. \A i \in 1..(k + 1) : i = k + 1 \/ i \in 1..k
        OBVIOUS
      <3>. QED
        BY <3>1, <3>2, <3>3, <3>4
    <2>. QED
      BY <2>2, <2>4, <2>5, <2>6, <2>9
  <1>. HIDE DEF Holds
  <1>17. Holds(n)
    <2>. DEFINE G == {k \in Nat : k <= n => Holds(k)}
    <2>1. 0 \in G
      BY <1>14
    <2>2. \A k \in Nat : k \in G => k + 1 \in G
      BY <1>15
    <2>. HIDE DEF G
    <2>3. n \in G
      BY <2>1, <2>2, InductionOnNat
    <2>. QED
      BY <2>3 DEF G
  <1>18. PICK m \in Merge(V) : m = f[n]
    OBVIOUS
  <1>19. PICK l \in Seq(V) : l = m.list
    BY DEF Merge
  <1>20. mode # "upsert" /\ inds = <<>> => l = new
    BY <1>1, <1>17, <1>18, <1>19 DEF Holds
  <1>. QED
    BY SMTT(30), <1>1, <1>13, <1>17, <1>18, <1>19, <1>20, FirstsFacts DEF Holds

(***************************************************************************)
(* The lists of a graph                                                    *)
(***************************************************************************)
IdOfRelation == [r \in RelationRecord |-> IdOf(r)]
IdOfProposition == [p \in PropositionRecord |-> IdOf(p)]
KeyOfGroup == [g \in ExclusiveGroupRecord |-> GroupKey(g)]

LEMMA PutRelations ==
  ASSUME NEW s \in Seq(RelationRecord), NEW new \in Seq(RelationRecord)
  PROVE  /\ PutAll(IdOf, s, new) \in Seq(RelationRecord)
         /\ \A r \in ToSet(s) : r.id \in {x.id : x \in ToSet(PutAll(IdOf, s, new))}
  <1>1. \A x \in RelationRecord : IdOfRelation[x] = IdOf(x)
    BY DEF IdOfRelation
  <1>2. PICK f \in [0..Len(new) -> Seq(RelationRecord)] :
            PutsAlong(f, IdOfRelation, s, new) /\ PutAll(IdOf, s, new) = f[Len(new)]
    BY <1>1, PutAllIdOfSteps
  <1>3. f[Len(new)] \in Seq(RelationRecord)
    BY <1>2, PutsFacts
  <1>4. KeySet(f[Len(new)], IdOfRelation) = KeySet(s, IdOfRelation) \cup KeySet(new, IdOfRelation)
    BY <1>2, PutsFacts
  <1>5. ASSUME NEW t \in Seq(RelationRecord) PROVE KeySet(t, IdOfRelation) = {x.id : x \in ToSet(t)}
    <2>1. ToSet(t) \in SUBSET RelationRecord
      BY DEF ToSet
    <2>2. \A x \in ToSet(t) : IdOfRelation[x] = x.id
      BY <1>1, <2>1 DEF IdOf
    <2>. QED
      BY <2>2 DEF KeySet
  <1>. QED
    BY <1>2, <1>3, <1>4, <1>5

LEMMA PutPropositions ==
  ASSUME NEW s \in Seq(PropositionRecord), NEW new \in Seq(PropositionRecord)
  PROVE  /\ PutAll(IdOf, s, new) \in Seq(PropositionRecord)
         /\ Distinct(s, IdOfProposition) => Distinct(PutAll(IdOf, s, new), IdOfProposition)
         /\ s = <<>> /\ Distinct(new, IdOfProposition) => PutAll(IdOf, s, new) = new
  <1>1. \A x \in PropositionRecord : IdOfProposition[x] = IdOf(x)
    BY DEF IdOfProposition
  <1>2. PICK f \in [0..Len(new) -> Seq(PropositionRecord)] :
            PutsAlong(f, IdOfProposition, s, new) /\ PutAll(IdOf, s, new) = f[Len(new)]
    BY <1>1, PutAllIdOfSteps
  <1>3. f[Len(new)] \in Seq(PropositionRecord)
    BY <1>2, PutsFacts
  <1>4. Distinct(s, IdOfProposition) => Distinct(f[Len(new)], IdOfProposition)
    BY <1>2, PutsFacts
  <1>5. s = <<>> /\ Distinct(new, IdOfProposition) => f[Len(new)] = new
    BY <1>2, PutsIntoEmpty
  <1>. QED
    BY <1>2, <1>3, <1>4, <1>5

LEMMA PutGroups ==
  ASSUME NEW s \in Seq(ExclusiveGroupRecord), NEW new \in Seq(ExclusiveGroupRecord)
  PROVE  /\ PutAll(GroupKey, s, new) \in Seq(ExclusiveGroupRecord)
         /\ ToSet(PutAll(GroupKey, s, new)) \subseteq ToSet(s) \cup ToSet(new)
         /\ Distinct(s, KeyOfGroup) => Distinct(PutAll(GroupKey, s, new), KeyOfGroup)
         /\ s = <<>> /\ Distinct(new, KeyOfGroup) => PutAll(GroupKey, s, new) = new
  <1>1. \A x \in ExclusiveGroupRecord : KeyOfGroup[x] = GroupKey(x)
    BY DEF KeyOfGroup
  <1>2. PICK f \in [0..Len(new) -> Seq(ExclusiveGroupRecord)] :
            PutsAlong(f, KeyOfGroup, s, new) /\ PutAll(GroupKey, s, new) = f[Len(new)]
    BY <1>1, PutAllGroupKeySteps
  <1>3. f[Len(new)] \in Seq(ExclusiveGroupRecord)
    BY <1>2, PutsFacts
  <1>4. ToSet(f[Len(new)]) \subseteq ToSet(s) \cup ToSet(new)
    BY <1>2, PutsFacts
  <1>5. Distinct(s, KeyOfGroup) => Distinct(f[Len(new)], KeyOfGroup)
    BY <1>2, PutsFacts
  <1>6. s = <<>> /\ Distinct(new, KeyOfGroup) => f[Len(new)] = new
    BY <1>2, PutsIntoEmpty
  <1>. QED
    BY <1>2, <1>3, <1>4, <1>5, <1>6

LEMMA PropositionIds ==
  ASSUME NEW props \in Seq(PropositionRecord)
  PROVE  \A p \in ToSet(props) : p.id \in Name
  <1>1. ToSet(props) \in SUBSET PropositionRecord
    BY DEF ToSet
  <1>. QED
    BY <1>1 DEF PropositionRecord

LEMMA WithIdentityType ==
  ASSUME NEW r \in RelationRecord, NEW props \in Seq(PropositionRecord)
  PROVE  /\ WithIdentity(r, props) \in RelationRecord
         /\ WithIdentity(r, props).id = r.id /\ WithIdentity(r, props).store = r.store
         /\ WithIdentity(r, props).ctx = r.ctx
  BY PropositionIds, WithIdentityFacts

\* Giving relations their identities keeps ids, contexts and stores.
LEMMA WithIdentitiesType ==
  ASSUME NEW rels \in Seq(RelationRecord), NEW props \in Seq(PropositionRecord)
  PROVE  /\ WithIdentities(rels, props) \in Seq(RelationRecord)
         /\ Len(WithIdentities(rels, props)) = Len(rels)
         /\ \A i \in 1..Len(rels) : LET r == WithIdentities(rels, props)[i]
                                    IN  /\ r.id = rels[i].id /\ r.store = rels[i].store
                                        /\ r.ctx = rels[i].ctx
  <1>1. PICK n \in Nat : n = Len(rels) /\ \A i \in 1..n : rels[i] \in RelationRecord
    OBVIOUS
  <1>2. PICK list : list = WithIdentities(rels, props)
    OBVIOUS
  <1>3. /\ list \in Seq(RelationRecord) /\ Len(list) = n
        /\ \A i \in 1..n : list[i] = WithIdentity(rels[i], props)
    BY <1>1, <1>2, PropositionIds, WithIdentitiesFacts
  <1>4. \A i \in 1..n : LET r == WithIdentity(rels[i], props)
                        IN  /\ r.id = rels[i].id /\ r.store = rels[i].store
                            /\ r.ctx = rels[i].ctx
    BY <1>1, WithIdentityType
  <1>. QED
    BY <1>1, <1>2, <1>3, <1>4

\* A list of records moved to a store.
LEMMA ForStoreType ==
  ASSUME NEW V, NEW s \in Seq(V), NEW store, \A x \in V : [x EXCEPT !.store = store] \in V
  PROVE  ForStore(s, store) \in Seq(V) /\ Len(ForStore(s, store)) = Len(s)
  <1>1. PICK n \in Nat : n = Len(s) /\ DOMAIN s = 1..n /\ \A i \in 1..n : s[i] \in V
    OBVIOUS
  <1>2. [i \in 1..n |-> [s[i] EXCEPT !.store = store]] \in [1..n -> V]
    BY <1>1
  <1>3. ForStore(s, store) \in [1..n -> V]
    BY <1>1, <1>2 DEF ForStore
  <1>. QED
    BY <1>1, <1>3

LEMMA MovedRecords ==
  ASSUME NEW store \in Name
  PROVE  /\ \A r \in RelationRecord : [r EXCEPT !.store = store] \in RelationRecord
         /\ \A g \in ExclusiveGroupRecord : [g EXCEPT !.store = store] \in ExclusiveGroupRecord
         /\ \A i \in IndependenceRecord : [i EXCEPT !.store = store] \in IndependenceRecord
  <1>1. \A r \in RelationRecord : [r EXCEPT !.store = store] \in RelationRecord
    BY DEF RelationRecord
  <1>2. ASSUME NEW g \in ExclusiveGroupRecord
        PROVE  [g EXCEPT !.store = store] \in ExclusiveGroupRecord
    BY DEF ExclusiveGroupRecord
  <1>3. ASSUME NEW i \in IndependenceRecord
        PROVE  [i EXCEPT !.store = store] \in IndependenceRecord
    BY DEF IndependenceRecord
  <1>. QED
    BY <1>1, <1>2, <1>3

(***************************************************************************)
(* The changes of a graph                                                  *)
(***************************************************************************)
\* A graph whose groups and propositions are stored once.
IsKeyedGraph(g) ==
    IsGraph(g) /\ Distinct(g.groups, KeyOfGroup) /\ Distinct(g.props, IdOfProposition)

LEMMA GraphFields ==
  ASSUME NEW g, IsGraph(g)
  PROVE  /\ g = [rels |-> g.rels, groups |-> g.groups, inds |-> g.inds, props |-> g.props,
                 meta |-> g.meta]
         /\ g.rels \in Seq(RelationRecord) /\ g.groups \in Seq(ExclusiveGroupRecord)
         /\ g.inds \in Seq(IndependenceRecord) /\ g.props \in Seq(PropositionRecord)
  BY DEF IsGraph

LEMMA EmptyGraphKeyed == IsKeyedGraph(EmptyGraph)
  <1>1. /\ EmptyGraph.rels = <<>> /\ EmptyGraph.groups = <<>> /\ EmptyGraph.inds = <<>>
        /\ EmptyGraph.props = <<>> /\ EmptyGraph.meta = <<>>
    BY DEF EmptyGraph
  <1>2. IsGraph(EmptyGraph)
    BY EmptyList DEF IsGraph, EmptyGraph
  <1>3. \A key : Distinct(<<>>, key)
    BY DEF Distinct
  <1>. QED
    BY <1>1, <1>2, <1>3 DEF IsKeyedGraph

\* An assertion keeps every relation's id, but for those of the pairs it replaces.
LEMMA AfterAssertFacts ==
  ASSUME NEW rels \in Seq(RelationRecord), NEW new \in Seq(RelationRecord), NEW mode \in AssertMode
  PROVE  /\ AfterAssert(rels, new, mode) \in Seq(RelationRecord)
         /\ \A r \in ToSet(rels) :
              \/ r.id \in {x.id : x \in ToSet(AfterAssert(rels, new, mode))}
              \/ mode = "replace_same_pair" /\ PairKey(r) \in {PairKey(x) : x \in ToSet(new)}
  <1>1. CASE mode = "append"
    <2>1. AfterAssert(rels, new, mode) = rels \o new
      BY <1>1 DEF AfterAssert
    <2>. QED
      BY <2>1, ConcatFacts
  <1>2. CASE mode = "upsert"
    <2>1. AfterAssert(rels, new, mode) = PutAll(IdOf, rels, new)
      BY <1>2 DEF AfterAssert
    <2>. QED
      BY <2>1, PutRelations
  <1>3. CASE mode = "replace_same_pair"
    <2>. DEFINE keys == {PairKey(x) : x \in ToSet(new)}
                S == {r \in ToSet(rels) : PairKey(r) \notin keys}
    <2>1. AfterAssert(rels, new, mode) = Among(rels, S) \o new
      BY <1>3 DEF AfterAssert, ReplaceSamePair
    <2>. HIDE DEF keys
    <2>a. ToSet(rels) \cap S = S /\ \A r \in ToSet(rels) : r \in S \/ PairKey(r) \in keys
      OBVIOUS
    <2>. HIDE DEF S
    <2>2. PICK kept \in Seq(RelationRecord) : kept = Among(rels, S) /\ ToSet(kept) = S
      BY <2>a, AmongFacts
    <2>3. kept \o new \in Seq(RelationRecord) /\ ToSet(kept \o new) = S \cup ToSet(new)
      BY <2>2, ConcatFacts
    <2>. QED
      BY <1>3, <2>1, <2>2, <2>3, <2>a DEF keys
  <1>. QED
    BY <1>1, <1>2, <1>3 DEF AssertMode

LEMMA AssertedRecordsType ==
  ASSUME NEW g, IsGraph(g), NEW c, c.rels \in Seq(RelationRecord)
  PROVE  AssertedRecords(g, c) \in Seq(RelationRecord)
  BY GraphFields, WithIdentitiesType DEF AssertedRecords

LEMMA MemoryAssertFacts ==
  ASSUME NEW g, IsKeyedGraph(g), NEW c, c.rels \in Seq(RelationRecord), c.mode \in AssertMode
  PROVE  /\ IsKeyedGraph(MemoryAssert(g, c))
         /\ MemoryAssert(g, c) =
              [rels |-> AfterAssert(g.rels, AssertedRecords(g, c), c.mode), groups |-> g.groups,
               inds |-> g.inds, props |-> g.props, meta |-> g.meta]
  <1>1. IsGraph(g) /\ AssertedRecords(g, c) \in Seq(RelationRecord)
    BY AssertedRecordsType DEF IsKeyedGraph
  <1>. DEFINE rels == AfterAssert(g.rels, AssertedRecords(g, c), c.mode)
  <1>2. rels \in Seq(RelationRecord)
    BY <1>1, GraphFields, AfterAssertFacts
  <1>3. MemoryAssert(g, c) = [g EXCEPT !.rels = rels]
    BY DEF MemoryAssert
  <1>. HIDE DEF rels
  <1>4. MemoryAssert(g, c) = [rels |-> rels, groups |-> g.groups, inds |-> g.inds,
                              props |-> g.props, meta |-> g.meta]
    BY <1>1, <1>3, GraphFields
  <1>. QED
    BY <1>1, <1>2, <1>4, GraphFields DEF IsKeyedGraph, IsGraph, rels

LEMMA MemoryExclusiveFacts ==
  ASSUME NEW g, IsKeyedGraph(g), NEW c, c.group \in ExclusiveGroupRecord
  PROVE  IsKeyedGraph(MemoryExclusive(g, c)) /\ MemoryExclusive(g, c).props = g.props
  <1>. DEFINE others == {x \in ToSet(g.groups) : GroupKey(x) # GroupKey(c.group)}
              kept == Among(g.groups, others)
              groups == Append(kept, c.group)
  <1>1. IsGraph(g) /\ g.groups \in Seq(ExclusiveGroupRecord)
    BY GraphFields DEF IsKeyedGraph
  <1>2. /\ kept \in Seq(ExclusiveGroupRecord) /\ ToSet(kept) = others
        /\ Distinct(kept, KeyOfGroup)
    <2>1. kept \in Seq(ExclusiveGroupRecord) /\ ToSet(kept) = ToSet(g.groups) \cap others
      BY <1>1, AmongFacts
    <2>2. Distinct(g.groups, KeyOfGroup) => Distinct(kept, KeyOfGroup)
      BY <1>1, AmongFacts
    <2>. QED
      BY <2>1, <2>2 DEF IsKeyedGraph
  <1>3. \A y \in ToSet(kept) : KeyOfGroup[y] # KeyOfGroup[c.group]
    <2>1. ToSet(g.groups) \in SUBSET ExclusiveGroupRecord
      BY <1>1 DEF ToSet
    <2>. QED
      BY <1>2, <2>1 DEF KeyOfGroup
  <1>. HIDE DEF kept
  <1>4. groups \in Seq(ExclusiveGroupRecord)
    BY <1>2
  <1>5. Distinct(groups, KeyOfGroup)
    BY <1>2, <1>3, DistinctAppend
  <1>6. MemoryExclusive(g, c) = [g EXCEPT !.groups = groups]
    BY DEF MemoryExclusive, AfterExclusive, kept
  <1>. HIDE DEF groups
  <1>7. MemoryExclusive(g, c) = [rels |-> g.rels, groups |-> groups, inds |-> g.inds,
                                 props |-> g.props, meta |-> g.meta]
    BY <1>1, <1>6, GraphFields
  <1>. QED
    BY <1>1, <1>4, <1>5, <1>7, GraphFields DEF IsKeyedGraph, IsGraph

LEMMA MemoryClearFacts ==
  ASSUME NEW g, IsKeyedGraph(g), NEW c
  PROVE  /\ IsKeyedGraph(MemoryClear(g, c))
         /\ MemoryClear(g, c).props \in {g.props, <<>>}
  <1>1. /\ g.rels \in Seq(RelationRecord) /\ g.groups \in Seq(ExclusiveGroupRecord)
        /\ g.inds \in Seq(IndependenceRecord) /\ g.props \in Seq(PropositionRecord)
        /\ Distinct(g.groups, KeyOfGroup) /\ Distinct(g.props, IdOfProposition)
    BY GraphFields DEF IsKeyedGraph
  <1>2. PICK R, G, I, m :
            MemoryClear(g, c) = [rels |-> Among(g.rels, R), groups |-> Among(g.groups, G),
                                 inds |-> Among(g.inds, I),
                                 props |-> IF c.what.scope = "all" THEN <<>> ELSE g.props,
                                 meta |-> m]
    BY DEF MemoryClear, AfterClear
  <1>3. Among(g.rels, R) \in Seq(RelationRecord)
    BY <1>1, AmongFacts
  <1>4. Among(g.inds, I) \in Seq(IndependenceRecord)
    BY <1>1, AmongFacts
  <1>5. Among(g.groups, G) \in Seq(ExclusiveGroupRecord)
    BY <1>1, AmongFacts
  <1>6. Distinct(Among(g.groups, G), KeyOfGroup)
    <2>1. \A key : Distinct(g.groups, key) => Distinct(Among(g.groups, G), key)
      BY <1>1, AmongFacts
    <2>. QED
      BY <1>1, <2>1
  <1>7. Distinct(<<>>, IdOfProposition)
    BY DEF Distinct
  <1>. QED
    BY <1>1, <1>2, <1>3, <1>4, <1>5, <1>6, <1>7, EmptyList DEF IsKeyedGraph, IsGraph

\* What an import keeps of a list.
LEMMA KeptOnImportFacts ==
  ASSUME NEW V, NEW s \in Seq(V), NEW mode, NEW store
  PROVE  /\ KeptOnImport(s, mode, store) \in Seq(V)
         /\ ToSet(KeptOnImport(s, mode, store)) \subseteq ToSet(s)
         /\ \A x \in ToSet(s) : \/ x \in ToSet(KeptOnImport(s, mode, store))
                                \/ mode = "replace_store" /\ x.store = store
         /\ \A key : Distinct(s, key) => Distinct(KeptOnImport(s, mode, store), key)
  <1>1. CASE mode = "replace_store"
    <2>. DEFINE S == {x \in ToSet(s) : x.store # store}
    <2>1. KeptOnImport(s, mode, store) = Among(s, S)
      BY <1>1 DEF KeptOnImport, Elsewhere
    <2>2. ToSet(s) \cap S = S /\ \A x \in ToSet(s) : x \in S \/ x.store = store
      OBVIOUS
    <2>. HIDE DEF S
    <2>3. /\ Among(s, S) \in Seq(V) /\ ToSet(Among(s, S)) = ToSet(s) \cap S
          /\ \A key : Distinct(s, key) => Distinct(Among(s, S), key)
      BY AmongFacts
    <2>. QED
      BY <1>1, <2>1, <2>2, <2>3
  <1>2. CASE mode # "replace_store"
    BY <1>2 DEF KeptOnImport
  <1>. QED
    BY <1>1, <1>2

\* An import keeps every relation's id, but for those of the store it replaces.
LEMMA ImportedRelations ==
  ASSUME NEW rels \in Seq(RelationRecord), NEW new \in Seq(RelationRecord), NEW mode, NEW store,
         NEW t, t = CASE mode = "upsert" -> PutAll(IdOf, rels, new)
                      [] OTHER -> KeptOnImport(rels, mode, store) \o new
  PROVE  /\ t \in Seq(RelationRecord)
         /\ \A r \in ToSet(rels) : \/ r.id \in {x.id : x \in ToSet(t)}
                                   \/ mode = "replace_store" /\ r.store = store
  <1>1. CASE mode = "upsert"
    <2>1. t = PutAll(IdOf, rels, new)
      BY <1>1
    <2>. QED
      BY <2>1, PutRelations
  <1>2. CASE mode # "upsert"
    <2>1. t = KeptOnImport(rels, mode, store) \o new
      BY <1>2
    <2>2. PICK kept \in Seq(RelationRecord) :
            /\ kept = KeptOnImport(rels, mode, store)
            /\ \A r \in ToSet(rels) : \/ r \in ToSet(kept)
                                      \/ mode = "replace_store" /\ r.store = store
      BY KeptOnImportFacts
    <2>3. kept \o new \in Seq(RelationRecord) /\ ToSet(kept \o new) = ToSet(kept) \cup ToSet(new)
      BY ConcatFacts
    <2>. QED
      BY <2>1, <2>2, <2>3
  <1>. QED
    BY <1>1, <1>2

LEMMA AfterImportFacts ==
  ASSUME NEW g, IsKeyedGraph(g), NEW d, IsGraph(d), NEW mode, NEW store \in Name
  PROVE  /\ IsKeyedGraph(AfterImport(g, d, mode, store))
         /\ AfterImport(g, d, mode, store).props = MergePropositions(g.props, d.props)
         /\ ToSet(AfterImport(g, d, mode, store).groups)
              \subseteq ToSet(g.groups) \cup ToSet(ForStore(d.groups, store))
         /\ \A r \in ToSet(g.rels) :
              \/ r.id \in {x.id : x \in ToSet(AfterImport(g, d, mode, store).rels)}
              \/ mode = "replace_store" /\ r.store = store
  <1>1. /\ g.rels \in Seq(RelationRecord) /\ g.groups \in Seq(ExclusiveGroupRecord)
        /\ g.inds \in Seq(IndependenceRecord) /\ g.props \in Seq(PropositionRecord)
        /\ Distinct(g.groups, KeyOfGroup) /\ Distinct(g.props, IdOfProposition)
    BY GraphFields DEF IsKeyedGraph
  <1>2. /\ d.rels \in Seq(RelationRecord) /\ d.groups \in Seq(ExclusiveGroupRecord)
        /\ d.inds \in Seq(IndependenceRecord) /\ d.props \in Seq(PropositionRecord)
    BY GraphFields
  <1>. DEFINE props == MergePropositions(g.props, d.props)
              new == ForStore(WithIdentities(d.rels, props), store)
              rels == CASE mode = "upsert" -> PutAll(IdOf, g.rels, new)
                        [] OTHER -> KeptOnImport(g.rels, mode, store) \o new
              declared == ForStore(d.groups, store)
              kept == KeptOnImport(g.groups, mode, store)
              groups == PutAll(GroupKey, kept, declared)
              inds == MergeIndependence(g.inds, ForStore(d.inds, store), mode, store)
              meta == MergeMetadata(g.meta, d.meta)
  <1>3. AfterImport(g, d, mode, store) =
            [rels |-> rels, groups |-> groups, inds |-> inds, props |-> props, meta |-> meta]
    BY Zenon DEF AfterImport
  <1>4. props \in Seq(PropositionRecord) /\ Distinct(props, IdOfProposition)
    BY <1>1, <1>2, PutPropositions DEF MergePropositions
  <1>. HIDE DEF props, meta
  <1>5. new \in Seq(RelationRecord)
    <2>1. WithIdentities(d.rels, props) \in Seq(RelationRecord)
      BY <1>2, <1>4, WithIdentitiesType
    <2>. QED
      BY <2>1, ForStoreType, MovedRecords
  <1>. HIDE DEF new
  <1>6. /\ rels \in Seq(RelationRecord)
        /\ \A r \in ToSet(g.rels) : \/ r.id \in {x.id : x \in ToSet(rels)}
                                    \/ mode = "replace_store" /\ r.store = store
    BY <1>1, <1>5, ImportedRelations
  <1>. HIDE DEF rels
  <1>7. declared \in Seq(ExclusiveGroupRecord)
    BY <1>2, ForStoreType, MovedRecords
  <1>8. /\ kept \in Seq(ExclusiveGroupRecord) /\ ToSet(kept) \subseteq ToSet(g.groups)
        /\ Distinct(kept, KeyOfGroup)
    <2>1. kept \in Seq(ExclusiveGroupRecord) /\ ToSet(kept) \subseteq ToSet(g.groups)
      BY <1>1, KeptOnImportFacts
    <2>2. \A key : Distinct(g.groups, key) => Distinct(kept, key)
      BY <1>1, KeptOnImportFacts
    <2>. QED
      BY <1>1, <2>1, <2>2
  <1>. HIDE DEF kept, declared
  <1>9. /\ groups \in Seq(ExclusiveGroupRecord) /\ Distinct(groups, KeyOfGroup)
        /\ ToSet(groups) \subseteq ToSet(kept) \cup ToSet(declared)
    BY <1>7, <1>8, PutGroups
  <1>. HIDE DEF groups
  <1>10. inds \in Seq(IndependenceRecord)
    <2>1. ForStore(d.inds, store) \in Seq(IndependenceRecord)
      BY <1>2, ForStoreType, MovedRecords
    <2>. QED
      BY <1>1, <2>1, MergeIndependenceFacts
  <1>. HIDE DEF inds
  <1>. QED
    BY <1>3, <1>4, <1>6, <1>8, <1>9, <1>10 DEF IsKeyedGraph, IsGraph, props, declared

LEMMA LoadedDataFacts ==
  ASSUME NEW g, IsGraph(g), NEW c, IsGraph(c.data)
  PROVE  /\ IsGraph(LoadedData(g, c))
         /\ LoadedData(g, c) =
              [rels |-> LoadedData(g, c).rels, groups |-> c.data.groups, inds |-> c.data.inds,
               props |-> c.data.props, meta |-> c.data.meta]
  <1>. DEFINE props == MergePropositions(g.props, c.data.props)
              rels == WithIdentities(c.data.rels, props)
  <1>1. props \in Seq(PropositionRecord)
    BY GraphFields, PutPropositions DEF MergePropositions
  <1>2. rels \in Seq(RelationRecord)
    BY <1>1, GraphFields, WithIdentitiesType
  <1>3. LoadedData(g, c) = [c.data EXCEPT !.rels = rels]
    BY DEF LoadedData
  <1>. HIDE DEF rels
  <1>4. LoadedData(g, c) = [rels |-> rels, groups |-> c.data.groups, inds |-> c.data.inds,
                            props |-> c.data.props, meta |-> c.data.meta]
    BY <1>3, GraphFields
  <1>. QED
    BY <1>2, <1>4, GraphFields DEF IsGraph

LEMMA MemoryImportFacts ==
  ASSUME NEW g, IsKeyedGraph(g), NEW c, IsGraph(c.data), c.store \in Name
  PROVE  /\ IsKeyedGraph(MemoryImport(g, c))
         /\ MemoryImport(g, c).props = MergePropositions(g.props, c.data.props)
         /\ ToSet(MemoryImport(g, c).groups)
              \subseteq ToSet(g.groups) \cup ToSet(ForStore(c.data.groups, c.store))
         /\ \A r \in ToSet(g.rels) :
              \/ r.id \in {x.id : x \in ToSet(MemoryImport(g, c).rels)}
              \/ c.mode = "replace_store" /\ r.store = c.store
  <1>1. /\ IsGraph(LoadedData(g, c)) /\ LoadedData(g, c).groups = c.data.groups
        /\ LoadedData(g, c).props = c.data.props
    BY LoadedDataFacts DEF IsKeyedGraph
  <1>2. MemoryImport(g, c) = AfterImport(g, LoadedData(g, c), c.mode, c.store)
    BY DEF MemoryImport
  <1>. QED
    BY <1>1, <1>2, AfterImportFacts

(***************************************************************************)
(* The tables                                                              *)
(***************************************************************************)
IdsApart(S) == \A x, y \in S : x.id = y.id => x = y
KeysApart(D) == \A g, h \in D : GroupKey(g) = GroupKey(h) => g = h
RowsOf(D) == UNION {GroupRows(g) : g \in D}

\* The rows are those of whole groups of E, one for each key.
HoldGroups(rows, E) ==
    \E D \in SUBSET E : IsFiniteSet(D) /\ KeysApart(D) /\ rows = RowsOf(D)

\* What the SQLite tables hold, when E are the groups that calls declare.
AreTables(t, E) ==
    /\ t = [rels |-> t.rels, groups |-> t.groups, inds |-> t.inds, props |-> t.props,
            meta |-> t.meta]
    /\ t.rels \in SUBSET RelationRecord /\ IsFiniteSet(t.rels) /\ IdsApart(t.rels)
    /\ t.inds \in SUBSET IndependenceRecord /\ IsFiniteSet(t.inds)
    /\ t.props \in SUBSET PropositionRecord /\ IsFiniteSet(t.props) /\ IdsApart(t.props)
    /\ HoldGroups(t.groups, E)

LEMMA NoTables == \A E : AreTables(EmptyTables, E)
  <1>. SUFFICES ASSUME NEW E PROVE AreTables(EmptyTables, E)
    OBVIOUS
  <1>1. IsFiniteSet({})
    BY FS_EmptySet
  <1>2. HoldGroups({}, E)
    <2>1. {} = RowsOf({}) /\ KeysApart({}) /\ {} \in SUBSET E
      BY DEF RowsOf, KeysApart
    <2>. QED
      BY <1>1, <2>1 DEF HoldGroups
  <1>. QED
    BY <1>1, <1>2 DEF AreTables, EmptyTables, IdsApart

\* A group is read back from its rows.
LEMMA ListedGroup ==
  ASSUME NEW D \in SUBSET ExclusiveGroupRecord, KeysApart(D), NEW g \in D,
         NEW mine, mine = {row \in RowsOf(D) : RowKey(row) = GroupKey(g)},
         NEW first, first = CHOOSE row \in mine : TRUE,
         NEW key, key = GroupKey(g)
  PROVE  /\ mine # {}
         /\ g = [id |-> key[1], ctx |-> key[2], store |-> key[3], glob |-> first.glob,
                 dom |-> first.dom, members |-> {row.member : row \in mine}]
  <1>1. /\ g = [id |-> g.id, members |-> g.members, ctx |-> g.ctx, store |-> g.store,
                glob |-> g.glob, dom |-> g.dom]
        /\ g.members # {}
    <2>1. g \in ExclusiveGroupRecord
      OBVIOUS
    <2>2. Cardinality({}) = 0
      BY FS_EmptySet
    <2>3. g.members # {}
      BY <2>1, <2>2 DEF ExclusiveGroupRecord
    <2>4. g \in [id : Name, members : SUBSET STRING, ctx : Name, store : Name, glob : BOOLEAN,
                 dom : NameOrNone]
      BY <2>1 DEF ExclusiveGroupRecord
    <2>. QED
      BY <2>3, <2>4
  <1>2. \A h : \A row \in GroupRows(h) : RowKey(row) = GroupKey(h)
    BY DEF GroupRows, RowKey, GroupKey
  <1>3. mine = GroupRows(g)
    <2>1. ASSUME NEW row \in mine PROVE row \in GroupRows(g)
      <3>1. PICK h \in D : row \in GroupRows(h)
        BY DEF RowsOf
      <3>2. GroupKey(h) = GroupKey(g)
        BY <1>2, <3>1
      <3>. QED
        BY <3>1, <3>2 DEF KeysApart
    <2>2. ASSUME NEW row \in GroupRows(g) PROVE row \in mine
      BY <1>2 DEF RowsOf
    <2>. QED
      BY <2>1, <2>2
  <1>4. mine # {} /\ \A row \in mine : row.glob = g.glob /\ row.dom = g.dom
    <2>1. \A row \in GroupRows(g) : row.glob = g.glob /\ row.dom = g.dom
      BY DEF GroupRows
    <2>2. PICK m : m \in g.members
      BY <1>1
    <2>3. [id |-> g.id, ctx |-> g.ctx, store |-> g.store, glob |-> g.glob, dom |-> g.dom,
           member |-> m] \in GroupRows(g)
      BY <2>2 DEF GroupRows
    <2>. QED
      BY <1>3, <2>1, <2>3
  <1>5. first.glob = g.glob /\ first.dom = g.dom
    BY <1>4
  <1>6. {row.member : row \in mine} = g.members
    <2>1. \A row \in GroupRows(g) : row.member \in g.members
      BY DEF GroupRows
    <2>2. ASSUME NEW m \in g.members PROVE \E row \in GroupRows(g) : row.member = m
      <3>1. [id |-> g.id, ctx |-> g.ctx, store |-> g.store, glob |-> g.glob, dom |-> g.dom,
             member |-> m] \in GroupRows(g)
        BY DEF GroupRows
      <3>. QED
        BY <3>1
    <2>. QED
      BY <1>3, <2>1, <2>2
  <1>7. key[1] = g.id /\ key[2] = g.ctx /\ key[3] = g.store
    BY DEF GroupKey
  <1>. QED
    BY <1>1, <1>4, <1>5, <1>6, <1>7

\* The groups that were stored are those that are listed.
LEMMA ListedGroups ==
  ASSUME NEW D \in SUBSET ExclusiveGroupRecord, KeysApart(D)
  PROVE  ListGroups(RowsOf(D)) = AsList(D)
  <1>. DEFINE mine(key) == {row \in RowsOf(D) : RowKey(row) = key}
              first(key) == CHOOSE row \in mine(key) : TRUE
              group(key) == [id |-> key[1], ctx |-> key[2], store |-> key[3],
                             glob |-> first(key).glob, dom |-> first(key).dom,
                             members |-> {row.member : row \in mine(key)}]
  <1>1. ASSUME NEW g \in D PROVE mine(GroupKey(g)) # {} /\ group(GroupKey(g)) = g
    <2>1. PICK key : key = GroupKey(g)
      OBVIOUS
    <2>2. PICK m : m = {row \in RowsOf(D) : RowKey(row) = GroupKey(g)}
      OBVIOUS
    <2>3. PICK f : f = CHOOSE row \in m : TRUE
      OBVIOUS
    <2>4. /\ m # {}
          /\ g = [id |-> key[1], ctx |-> key[2], store |-> key[3], glob |-> f.glob,
                  dom |-> f.dom, members |-> {row.member : row \in m}]
      BY <2>1, <2>2, <2>3, ListedGroup
    <2>5. mine(key) = m
      BY <2>1, <2>2
    <2>6. first(key) = f
      BY <2>3, <2>5, Zenon
    <2>. HIDE DEF mine, first
    <2>. QED
      BY <2>1, <2>4, <2>5, <2>6, Zenon
  <1>2. \A g \in D : \A row \in GroupRows(g) : RowKey(row) = GroupKey(g)
    BY DEF GroupRows, RowKey, GroupKey
  <1>3. ListGroups(RowsOf(D)) = AsList({group(RowKey(row)) : row \in RowsOf(D)})
    BY Zenon DEF ListGroups
  <1>. HIDE DEF group
  <1>4. {group(RowKey(row)) : row \in RowsOf(D)} = D
    <2>1. ASSUME NEW row \in RowsOf(D) PROVE group(RowKey(row)) \in D
      BY <1>1, <1>2 DEF RowsOf
    <2>2. ASSUME NEW g \in D PROVE \E row \in RowsOf(D) : group(RowKey(row)) = g
      <3>1. PICK row \in RowsOf(D) : RowKey(row) = GroupKey(g)
        BY <1>1
      <3>. QED
        BY <1>1, <3>1
    <2>. QED
      BY <2>1, <2>2
  <1>. QED
    BY <1>3, <1>4, Zenon

LEMMA ListedFacts ==
  ASSUME NEW E \in SUBSET ExclusiveGroupRecord, NEW t, AreTables(t, E)
  PROVE  /\ IsKeyedGraph(Listed(t))
         /\ ToSet(Listed(t).rels) = t.rels /\ NoRepeats(Listed(t).rels)
         /\ ToSet(Listed(t).props) = t.props
         /\ ToSet(Listed(t).groups) \subseteq E
         /\ RowsOf(ToSet(Listed(t).groups)) = t.groups
  <1>1. /\ Listed(t).rels = AsList(t.rels) /\ Listed(t).groups = ListGroups(t.groups)
        /\ Listed(t).inds = AsList(t.inds) /\ Listed(t).props = AsList(t.props)
    BY DEF Listed
  <1>2. Listed(t) = [rels |-> Listed(t).rels, groups |-> Listed(t).groups,
                     inds |-> Listed(t).inds, props |-> Listed(t).props,
                     meta |-> Listed(t).meta]
    BY DEF Listed
  <1>3. PICK D \in SUBSET E : IsFiniteSet(D) /\ KeysApart(D) /\ t.groups = RowsOf(D)
    BY DEF AreTables, HoldGroups
  <1>4. Listed(t).groups = AsList(D)
    BY <1>1, <1>3, ListedGroups
  <1>5. \A S, T : S \subseteq T => \A s \in Seq(S) : s \in Seq(T)
    OBVIOUS
  <1>6. AsList(D) \in Seq(D) /\ ToSet(AsList(D)) = D /\ NoRepeats(AsList(D))
    BY <1>3, AsListFacts
  <1>7. AsList(D) \in Seq(ExclusiveGroupRecord) /\ Distinct(AsList(D), KeyOfGroup)
    <2>1. AsList(D) \in Seq(ExclusiveGroupRecord)
      BY <1>5, <1>6
    <2>2. \A i \in DOMAIN AsList(D) : AsList(D)[i] \in D
      BY <1>6 DEF ToSet
    <2>3. \A g \in D : KeyOfGroup[g] = GroupKey(g)
      BY DEF KeyOfGroup
    <2>. QED
      BY <1>3, <1>6, <2>1, <2>2, <2>3 DEF Distinct, NoRepeats, KeysApart
  <1>8. /\ AsList(t.rels) \in Seq(RelationRecord) /\ ToSet(AsList(t.rels)) = t.rels
        /\ NoRepeats(AsList(t.rels))
    BY <1>5, AsListFacts DEF AreTables
  <1>9. AsList(t.inds) \in Seq(IndependenceRecord)
    BY <1>5, AsListFacts DEF AreTables
  <1>10. /\ AsList(t.props) \in Seq(PropositionRecord) /\ ToSet(AsList(t.props)) = t.props
         /\ NoRepeats(AsList(t.props))
    BY <1>5, AsListFacts DEF AreTables
  <1>11. Distinct(AsList(t.props), IdOfProposition)
    <2>1. \A i \in DOMAIN AsList(t.props) : AsList(t.props)[i] \in t.props
      BY <1>10 DEF ToSet
    <2>2. \A p \in t.props : IdOfProposition[p] = p.id
      BY DEF IdOfProposition, AreTables, IdOf
    <2>. QED
      BY <1>10, <2>1, <2>2 DEF Distinct, NoRepeats, IdsApart, AreTables
  <1>12. IsGraph(Listed(t))
    BY <1>1, <1>2, <1>4, <1>7, <1>8, <1>9, <1>10 DEF IsGraph
  <1>. QED
    BY <1>1, <1>3, <1>4, <1>6, <1>7, <1>8, <1>10, <1>11, <1>12 DEF IsKeyedGraph

\* The rewrite of the whole store leaves nothing of what the tables held.
LEMMA Rewritten ==
  ASSUME NEW t, NEW g, IsGraph(g)
  PROVE  ReplaceAllRecords(t, g) =
            [rels |-> ToSet(g.rels), groups |-> RowsOf(ToSet(g.groups)), inds |-> ToSet(g.inds),
             props |-> ToSet(g.props), meta |-> g.meta]
  <1>1. ASSUME NEW rows, NEW new PROVE UpsertRows(SyncRows(rows, Ids(new)), new) = ToSet(new)
    BY DEF UpsertRows, SyncRows
  <1>2. ASSUME NEW rows, NEW new PROVE UpsertGroupRows(SyncGroupRows(rows, new), new) = new
    BY DEF UpsertGroupRows, SyncGroupRows
  <1>3. AllGroupRows(g.groups) = RowsOf(ToSet(g.groups))
    BY DEF AllGroupRows, RowsOf
  <1>. QED
    BY <1>1, <1>2, <1>3 DEF ReplaceAllRecords

LEMMA RewrittenTables ==
  ASSUME NEW E, NEW t, NEW g, IsKeyedGraph(g), Replaceable(g), ToSet(g.groups) \subseteq E
  PROVE  AreTables(ReplaceAllRecords(t, g), E)
  <1>1. /\ IsGraph(g)
        /\ g.rels \in Seq(RelationRecord) /\ g.groups \in Seq(ExclusiveGroupRecord)
        /\ g.inds \in Seq(IndependenceRecord) /\ g.props \in Seq(PropositionRecord)
    BY GraphFields DEF IsKeyedGraph
  <1>2. \A V : \A s \in Seq(V) : UniqueIds(s) => IdsApart(ToSet(s))
    <2>. SUFFICES ASSUME NEW V, NEW s \in Seq(V), UniqueIds(s) PROVE IdsApart(ToSet(s))
      OBVIOUS
    <2>1. \A i, j \in 1..Len(s) : s[i].id = s[j].id => i = j
      BY UniqueIdsDistinct
    <2>2. DOMAIN s = 1..Len(s)
      OBVIOUS
    <2>. QED
      BY <2>1, <2>2 DEF IdsApart, ToSet
  <1>3. IdsApart(ToSet(g.rels)) /\ IdsApart(ToSet(g.props))
    BY <1>1, <1>2 DEF Replaceable
  <1>4. KeysApart(ToSet(g.groups))
    <2>1. \A i \in DOMAIN g.groups : KeyOfGroup[g.groups[i]] = GroupKey(g.groups[i])
      BY <1>1 DEF KeyOfGroup
    <2>. QED
      BY <2>1 DEF KeysApart, ToSet, IsKeyedGraph, Distinct
  <1>5. /\ IsFiniteSet(ToSet(g.rels)) /\ IsFiniteSet(ToSet(g.groups))
        /\ IsFiniteSet(ToSet(g.inds)) /\ IsFiniteSet(ToSet(g.props))
        /\ ToSet(g.rels) \in SUBSET RelationRecord /\ ToSet(g.inds) \in SUBSET IndependenceRecord
        /\ ToSet(g.props) \in SUBSET PropositionRecord
    BY <1>1, ToSetFinite
  <1>6. HoldGroups(RowsOf(ToSet(g.groups)), E)
    BY <1>4, <1>5 DEF HoldGroups
  <1>. QED
    BY <1>1, <1>3, <1>5, <1>6, Rewritten DEF AreTables

\* Declaring a group puts it in place of the one with its key.
LEMMA InsertedGroup ==
  ASSUME NEW E, NEW rows, HoldGroups(rows, E), NEW g \in E
  PROVE  HoldGroups(InsertGroup(rows, g), E)
  <1>1. PICK D \in SUBSET E : IsFiniteSet(D) /\ KeysApart(D) /\ rows = RowsOf(D)
    BY DEF HoldGroups
  <1>. DEFINE F == {h \in D : GroupKey(h) # GroupKey(g)}
  <1>2. \A h : \A row \in GroupRows(h) : RowKey(row) = GroupKey(h)
    BY DEF GroupRows, RowKey, GroupKey
  <1>3. F \cup {g} \in SUBSET E /\ KeysApart(F \cup {g})
    BY <1>1 DEF KeysApart
  <1>4. IsFiniteSet(F \cup {g})
    BY <1>1, FS_Subset, FS_AddElement
  <1>5. InsertGroup(rows, g) = RowsOf(F \cup {g})
    <2>1. ASSUME NEW row \in InsertGroup(rows, g) PROVE row \in RowsOf(F \cup {g})
      BY <1>1, <1>2 DEF InsertGroup, RowsOf
    <2>2. ASSUME NEW row \in RowsOf(F \cup {g}) PROVE row \in InsertGroup(rows, g)
      BY <1>1, <1>2 DEF InsertGroup, RowsOf
    <2>. QED
      BY <2>1, <2>2
  <1>. QED
    BY <1>3, <1>4, <1>5 DEF HoldGroups

\* Deleting the rows of some keys deletes whole groups.
LEMMA DeletedGroups ==
  ASSUME NEW E, NEW rows, HoldGroups(rows, E), NEW keys
  PROVE  HoldGroups({row \in rows : RowKey(row) \notin keys}, E)
  <1>1. PICK D \in SUBSET E : IsFiniteSet(D) /\ KeysApart(D) /\ rows = RowsOf(D)
    BY DEF HoldGroups
  <1>. DEFINE F == {h \in D : GroupKey(h) \notin keys}
  <1>2. \A h : \A row \in GroupRows(h) : RowKey(row) = GroupKey(h)
    BY DEF GroupRows, RowKey, GroupKey
  <1>3. F \in SUBSET E /\ KeysApart(F) /\ IsFiniteSet(F)
    BY <1>1, FS_Subset DEF KeysApart
  <1>4. {row \in rows : RowKey(row) \notin keys} = RowsOf(F)
    BY <1>1, <1>2 DEF RowsOf
  <1>. QED
    BY <1>3, <1>4 DEF HoldGroups

\* Inserted records have ids that are new.
LEMMA InsertedRelations ==
  ASSUME NEW E, NEW t, AreTables(t, E), NEW new \in Seq(RelationRecord), CanInsert(t.rels, new)
  PROVE  AreTables([t EXCEPT !.rels = @ \cup ToSet(new)], E)
  <1>1. t = [rels |-> t.rels, groups |-> t.groups, inds |-> t.inds, props |-> t.props,
             meta |-> t.meta]
    BY DEF AreTables
  <1>2. [t EXCEPT !.rels = @ \cup ToSet(new)] =
            [rels |-> t.rels \cup ToSet(new), groups |-> t.groups, inds |-> t.inds,
             props |-> t.props, meta |-> t.meta]
    <2>1. PICK all : all = t.rels \cup ToSet(new)
      OBVIOUS
    <2>2. [t EXCEPT !.rels = all] = [rels |-> all, groups |-> t.groups, inds |-> t.inds,
                                     props |-> t.props, meta |-> t.meta]
      BY <1>1
    <2>. QED
      BY <2>1, <2>2, Zenon
  <1>3. IsFiniteSet(ToSet(new)) /\ ToSet(new) \in SUBSET RelationRecord
    BY ToSetFinite
  <1>4. IsFiniteSet(t.rels \cup ToSet(new))
    BY <1>3, FS_Union DEF AreTables
  <1>5. IdsApart(t.rels \cup ToSet(new))
    <2>1. \A i, j \in 1..Len(new) : new[i].id = new[j].id => i = j
      BY UniqueIdsDistinct DEF CanInsert
    <2>2. DOMAIN new = 1..Len(new)
      OBVIOUS
    <2>3. IdsApart(ToSet(new))
      BY <2>1, <2>2 DEF IdsApart, ToSet
    <2>4. \A x \in ToSet(new) : x.id \in Ids(new)
      BY DEF ToSet, Ids
    <2>5. \A x \in ToSet(new) : \A y \in t.rels : x.id # y.id
      BY <2>4 DEF CanInsert
    <2>6. IdsApart(t.rels)
      BY DEF AreTables
    <2>. QED
      BY <2>3, <2>5, <2>6 DEF IdsApart
  <1>. QED
    BY <1>2, <1>3, <1>4, <1>5 DEF AreTables

LEMMA ClearedTables ==
  ASSUME NEW E, NEW t, AreTables(t, E), NEW c, NEW seen
  PROVE  /\ AreTables(DeleteCleared(t, c, seen), E)
         /\ DeleteCleared(t, c, seen).props \subseteq t.props
         /\ \A r \in t.rels \ DeleteCleared(t, c, seen).rels :
              \/ c.scope = "all"
              \/ \E y \in ToSet(seen.rels) : y.id = r.id /\ InScope(y, c, MatchesFilter)
  <1>. DEFINE d == DeleteCleared(t, c, seen)
  <1>1. HoldGroups(t.groups, E)
    BY DEF AreTables
  <1>2. CASE c.scope = "all"
    <2>1. d = [EmptyTables EXCEPT !.groups = IF c.groups THEN {} ELSE t.groups]
      BY <1>2 DEF DeleteCleared
    <2>2. d = [rels |-> {}, groups |-> IF c.groups THEN {} ELSE t.groups, inds |-> {},
               props |-> {}, meta |-> <<>>]
      BY <2>1 DEF EmptyTables
    <2>3. HoldGroups({}, E) /\ IsFiniteSet({})
      BY NoTables, FS_EmptySet DEF AreTables, EmptyTables
    <2>4. HoldGroups(IF c.groups THEN {} ELSE t.groups, E)
      BY <1>1, <2>3
    <2>. HIDE DEF d
    <2>5. AreTables(d, E)
      BY <2>2, <2>3, <2>4 DEF AreTables, IdsApart
    <2>. QED
      BY <1>2, <2>2, <2>5 DEF d
  <1>3. CASE c.scope # "all"
    <2>. DEFINE goneRels == {x.id : x \in {y \in ToSet(seen.rels) : InScope(y, c, MatchesFilter)}}
                goneInds == {x.id : x \in {y \in ToSet(seen.inds) :
                                                InScope(y, c, IndependenceMatchesFilter)}}
                keys == {GroupKey(g) : g \in {x \in ToSet(seen.groups) :
                                                InScope(x, c, GroupMatchesFilter)}}
                rels == {r \in t.rels : r.id \notin goneRels}
                groups == {row \in t.groups : ~(c.groups /\ RowKey(row) \in keys)}
                inds == {i \in t.inds : i.id \notin goneInds}
    <2>1. PICK m : d = [rels |-> rels, groups |-> groups, inds |-> inds, props |-> t.props,
                        meta |-> m]
      BY <1>3, Zenon DEF DeleteCleared
    <2>2. HoldGroups(groups, E)
      <3>1. CASE c.groups
        <4>1. groups = {row \in t.groups : RowKey(row) \notin keys}
          BY <3>1
        <4>. QED
          BY <1>1, <4>1, DeletedGroups
      <3>2. CASE ~c.groups
        BY <1>1, <3>2
      <3>. QED
        BY <3>1, <3>2
    <2>3. \A r \in t.rels \ rels :
            \E y \in ToSet(seen.rels) : y.id = r.id /\ InScope(y, c, MatchesFilter)
      <3>1. ASSUME NEW r \in t.rels \ rels
            PROVE  \E y \in ToSet(seen.rels) : y.id = r.id /\ InScope(y, c, MatchesFilter)
        <4>1. r.id \in goneRels
          OBVIOUS
        <4>2. PICK x \in {y \in ToSet(seen.rels) : InScope(y, c, MatchesFilter)} : x.id = r.id
          BY <4>1, Zenon
        <4>. QED
          BY <4>2, Zenon
      <3>. QED
        BY <3>1
    <2>. HIDE DEF goneRels, goneInds, keys, groups, d
    <2>4. IsFiniteSet(rels) /\ IsFiniteSet(inds)
      BY FS_Subset DEF AreTables
    <2>5. AreTables(d, E)
      BY <2>1, <2>2, <2>4 DEF AreTables, IdsApart
    <2>6. d.props = t.props /\ d.rels = rels
      BY <2>1
    <2>. HIDE DEF rels
    <2>7. /\ AreTables(d, E) /\ d.props \subseteq t.props
          /\ \A r \in t.rels \ d.rels :
                \E y \in ToSet(seen.rels) : y.id = r.id /\ InScope(y, c, MatchesFilter)
      BY <2>3, <2>5, <2>6
    <2>. QED
      BY <2>7, Zenon DEF d
  <1>. QED
    BY <1>2, <1>3

(***************************************************************************)
(* The inductive invariant                                                 *)
(***************************************************************************)
LEMMA DeclaredType ==
  ASSUME NEW b \in Backends
  PROVE  Declared(b) \in SUBSET ExclusiveGroupRecord
  <1>1. ASSUME NEW c \in Menu[b], c.op = "exclusive" PROVE c.group \in ExclusiveGroupRecord
    BY <1>1, MenuAssumption DEF IsCall
  <1>2. ASSUME NEW c \in Menu[b], c.op = "load"
        PROVE  ToSet(ForStore(c.data.groups, c.store)) \in SUBSET ExclusiveGroupRecord
    <2>1. IsGraph(c.data) /\ c.store \in Name
      BY <1>2, MenuAssumption DEF IsCall
    <2>2. c.data.groups \in Seq(ExclusiveGroupRecord)
      BY <2>1, GraphFields
    <2>3. ForStore(c.data.groups, c.store) \in Seq(ExclusiveGroupRecord)
      BY <2>1, <2>2, ForStoreType, MovedRecords
    <2>. QED
      BY <2>3, ToSetFinite
  <1>. QED
    BY <1>1, <1>2 DEF Declared

\* The groups a call on backend b brings are among those declared there.
BringsDeclared(b, c) ==
    /\ c.op = "exclusive" => c.group \in Declared(b)
    /\ c.op = "load" => ToSet(ForStore(c.data.groups, c.store)) \subseteq Declared(b)

LEMMA MenuCalls ==
  ASSUME NEW b \in Backends, NEW c \in Menu[b]
  PROVE  IsCall(c) /\ BringsDeclared(b, c)
  <1>1. IsCall(c)
    BY MenuAssumption
  <1>2. c.op = "exclusive" => c.group \in Declared(b)
    BY DEF Declared
  <1>3. c.op = "load" => ToSet(ForStore(c.data.groups, c.store)) \subseteq Declared(b)
    BY DEF Declared
  <1>. QED
    BY <1>1, <1>2, <1>3 DEF BringsDeclared

\* What a process has read is a graph that could be stored, and an import has
\* found it free of conflicts with what it brings; an assertion that went on
\* was not refused.
TaskInv(b, t) ==
    /\ t = [stage |-> t.stage, call |-> t.call, seen |-> t.seen, kept |-> t.kept,
            checked |-> t.checked, status |-> t.status]
    /\ t.stage \in {"idle", "check", "read", "relations", "rest", "write"}
    /\ t.stage # "idle" => IsCall(t.call) /\ BringsDeclared(b, t.call)
    /\ t.stage \in {"read", "relations", "rest", "write"} => ~Rejected(t.checked, t.call)
    /\ t.stage = "write" =>
        /\ t.kept \in Seq(PropositionRecord) /\ Distinct(t.kept, IdOfProposition)
        /\ ~AliasConflict(t.kept)
    /\ t.stage \in {"relations", "rest", "write"} =>
        /\ IsKeyedGraph(t.seen) /\ IdsApart(ToSet(t.seen.rels))
        /\ ToSet(t.seen.groups) \subseteq Declared(b)
        /\ t.call.op = "load" => ~AliasConflict(MergePropositions(t.seen.props, t.call.data.props))

IsSoundGraph(g) == IsKeyedGraph(g) /\ ~AliasConflict(g.props)
AreSoundTables(b, t) == AreTables(t, Declared(b)) /\ ~AliasConflict(Listed(t).props)

\* Every backend's graph could have been stored by calls one after another,
\* whatever the calls in progress read before the others wrote.
GraphInv ==
    /\ backend \in Backends
    /\ IsSoundGraph(mem) /\ IsSoundGraph(file)
    /\ AreSoundTables(backend, tables)
    /\ task = [p \in Procs |-> task[p]]
    /\ \A p \in Procs : TaskInv(backend, task[p])
    /\ calls \in 0..MaxCalls[backend]

LEMMA NoAliases == ~AliasConflict(<<>>)
  BY EmptyList DEF AliasConflict

\* A call that is not refused leaves a sound graph sound.
LEMMA AppliedFacts ==
  ASSUME NEW g, IsSoundGraph(g), NEW c, IsCall(c), ~Refused(g, c)
  PROVE  IsSoundGraph(Applied(g, c)) /\ (c.dry => Applied(g, c) = g)
  <1>1. IsKeyedGraph(g) /\ ~AliasConflict(g.props) /\ c.dry \in BOOLEAN
    BY DEF IsSoundGraph, IsCall
  <1>2. CASE c.dry
    BY <1>2, Zenon DEF Applied
  <1>3. CASE ~c.dry /\ c.op = "assert"
    <2>1. c.rels \in Seq(RelationRecord) /\ c.mode \in AssertMode
      BY <1>3 DEF IsCall
    <2>2. Applied(g, c) = MemoryAssert(g, c)
      BY <1>1, <1>3 DEF Applied
    <2>3. IsKeyedGraph(MemoryAssert(g, c)) /\ MemoryAssert(g, c).props = g.props
      BY <1>1, <2>1, MemoryAssertFacts
    <2>. QED
      BY <1>1, <1>3, <2>2, <2>3 DEF IsSoundGraph
  <1>4. CASE ~c.dry /\ c.op = "exclusive"
    <2>1. c.group \in ExclusiveGroupRecord
      BY <1>4 DEF IsCall
    <2>2. Applied(g, c) = MemoryExclusive(g, c)
      BY <1>1, <1>4 DEF Applied
    <2>3. IsKeyedGraph(MemoryExclusive(g, c)) /\ MemoryExclusive(g, c).props = g.props
      BY <1>1, <2>1, MemoryExclusiveFacts
    <2>. QED
      BY <1>1, <1>4, <2>2, <2>3 DEF IsSoundGraph
  <1>5. CASE ~c.dry /\ c.op = "clear"
    <2>1. Applied(g, c) = MemoryClear(g, c)
      BY <1>1, <1>5 DEF Applied
    <2>2. IsKeyedGraph(MemoryClear(g, c)) /\ MemoryClear(g, c).props \in {g.props, <<>>}
      BY <1>1, MemoryClearFacts
    <2>. QED
      BY <1>1, <1>5, <2>1, <2>2, NoAliases DEF IsSoundGraph
  <1>6. CASE ~c.dry /\ c.op = "load"
    <2>1. IsGraph(c.data) /\ c.store \in Name
      BY <1>6 DEF IsCall
    <2>2. Applied(g, c) = MemoryImport(g, c)
      BY <1>1, <1>6 DEF Applied
    <2>3. /\ IsKeyedGraph(MemoryImport(g, c))
          /\ MemoryImport(g, c).props = MergePropositions(g.props, c.data.props)
      BY <1>1, <2>1, MemoryImportFacts
    <2>4. ~AliasConflict(MergePropositions(g.props, c.data.props))
      BY <1>6 DEF Refused
    <2>. QED
      BY <1>6, <2>2, <2>3, <2>4 DEF IsSoundGraph
  <1>7. c.op \in {"assert", "exclusive", "clear", "load"}
    BY DEF IsCall
  <1>. QED
    BY <1>2, <1>3, <1>4, <1>5, <1>6, <1>7

LEMMA InitGraphInv == Init => GraphInv
  <1>. SUFFICES ASSUME Init PROVE GraphInv
    OBVIOUS
  <1>1. backend \in Backends /\ 0 \in 0..MaxCalls[backend]
    BY MaxCallsAssumption DEF Init
  <1>2. IsSoundGraph(EmptyGraph)
    BY EmptyGraphKeyed, NoAliases DEF IsSoundGraph, EmptyGraph
  <1>3. AreSoundTables(backend, EmptyTables)
    <2>1. AreTables(EmptyTables, Declared(backend))
      BY NoTables
    <2>2. Declared(backend) \in SUBSET ExclusiveGroupRecord
      BY <1>1, DeclaredType
    <2>3. ToSet(Listed(EmptyTables).props) = {}
      BY <2>1, <2>2, ListedFacts DEF EmptyTables
    <2>. QED
      BY <2>1, <2>3 DEF AreSoundTables, AliasConflict
  <1>4. TaskInv(backend, Idle)
    BY DEF TaskInv, Idle
  <1>. QED
    BY <1>1, <1>2, <1>3, <1>4 DEF Init, GraphInv

\* A step of one process, which leaves a task that is as it should be.
LEMMA OneTask ==
  ASSUME NEW b, NEW tasks, NEW p \in Procs, NEW v,
         tasks = [q \in Procs |-> tasks[q]], \A q \in Procs : TaskInv(b, tasks[q]), TaskInv(b, v)
  PROVE  LET t == [tasks EXCEPT ![p] = v]
         IN  t = [q \in Procs |-> t[q]] /\ \A q \in Procs : TaskInv(b, t[q])
  <1>. DEFINE t == [tasks EXCEPT ![p] = v]
  <1>1. t = [q \in Procs |-> IF q = p THEN v ELSE tasks[q]]
    OBVIOUS
  <1>. HIDE DEF t
  <1>2. \A q \in Procs : t[q] = IF q = p THEN v ELSE tasks[q]
    BY <1>1
  <1>3. t = [q \in Procs |-> t[q]]
    BY <1>1
  <1>4. \A q \in Procs : TaskInv(b, t[q])
    BY <1>2
  <1>. QED
    BY <1>3, <1>4 DEF t

LEMMA IdleTask == \A b, outcome : TaskInv(b, [Idle EXCEPT !.status = outcome])
  BY DEF TaskInv, Idle

LEMMA MemoryCallInv == GraphInv /\ MemoryCall => GraphInv'
  <1>. SUFFICES ASSUME GraphInv, MemoryCall PROVE GraphInv'
    OBVIOUS
  <1>. USE DEF GraphInv
  <1>1. backend' = backend /\ file' = file /\ tables' = tables /\ task' = task
    BY DEF MemoryCall
  <1>2. calls' \in 0..MaxCalls[backend']
    BY <1>1, MaxCallsAssumption DEF MemoryCall
  <1>3. PICK c \in Menu[backend] : mem' = mem \/ (~Refused(mem, c) /\ mem' = Applied(mem, c))
    BY DEF MemoryCall
  <1>4. IsSoundGraph(mem')
    BY <1>3, MenuCalls, AppliedFacts
  <1>. QED
    BY <1>1, <1>2, <1>4

\* What a call of the json backend does to the graph in memory and to the file.
LEMMA JsonCallFacts ==
  ASSUME JsonCall
  PROVE  \E c \in Menu[backend] :
            /\ \/ mem' = mem /\ status' = "error"
               \/ ~Refused(mem, c) /\ mem' = Applied(mem, c)
            /\ file' \in {mem', file}
            /\ status' = "error" => mem' = mem
            /\ status' = "ok" => file' = mem'
            /\ status' = "read" => c.dry
  <1>1. PICK c \in Menu[backend], written \in BOOLEAN, audited \in BOOLEAN :
            LET refused == Refused(mem, c)
                failed == ~refused /\ Persists(c) /\ ~written
                audits == ShouldAudit(c) /\ audited /\ (failed => c.op = "load")
            IN  /\ mem' = IF refused THEN mem ELSE Applied(mem, c)
                /\ status' = CASE refused             -> "error"
                               [] failed              -> "failed"
                               [] ~refused /\ ~failed -> IF Persists(c) THEN "ok" ELSE "read"
                /\ file' = IF audits \/ (~refused /\ Persists(c) /\ written) THEN mem' ELSE file
    BY DEF JsonCall
  <1>. DEFINE failed == ~Refused(mem, c) /\ Persists(c) /\ ~written
  <1>2. file' \in {mem', file}
    BY <1>1
  <1>3. CASE Refused(mem, c)
    <2>1. mem' = mem /\ status' = "error"
      BY <1>1, <1>3
    <2>. QED
      BY <1>2, <2>1
  <1>4. CASE failed
    <2>1. mem' = Applied(mem, c) /\ status' = "failed" /\ ~Refused(mem, c)
      BY <1>1, <1>4
    <2>. QED
      BY <1>2, <2>1
  <1>5. CASE ~Refused(mem, c) /\ ~failed
    <2>1. mem' = Applied(mem, c) /\ status' = IF Persists(c) THEN "ok" ELSE "read"
      BY <1>1, <1>5
    <2>2. Persists(c) => file' = mem'
      BY <1>1, <1>5
    <2>3. ~Persists(c) => c.dry
      BY DEF Persists
    <2>4. status' # "error" /\ (status' = "ok" => Persists(c)) /\ (status' = "read" => ~Persists(c))
      BY <2>1
    <2>. QED
      BY <1>2, <1>5, <2>1, <2>2, <2>3, <2>4
  <1>. QED
    BY <1>3, <1>4, <1>5

LEMMA JsonCallInv == GraphInv /\ JsonCall => GraphInv'
  <1>. SUFFICES ASSUME GraphInv, JsonCall PROVE GraphInv'
    OBVIOUS
  <1>. USE DEF GraphInv
  <1>1. backend' = backend /\ tables' = tables /\ task' = task
    BY DEF JsonCall
  <1>2. calls' \in 0..MaxCalls[backend']
    BY <1>1, MaxCallsAssumption DEF JsonCall
  <1>3. PICK c \in Menu[backend] : /\ \/ mem' = mem
                                      \/ ~Refused(mem, c) /\ mem' = Applied(mem, c)
                                   /\ file' \in {mem', file}
    BY JsonCallFacts
  <1>4. IsSoundGraph(mem') /\ IsSoundGraph(file')
    BY <1>3, MenuCalls, AppliedFacts
  <1>. QED
    BY <1>1, <1>2, <1>4

LEMMA JsonRestartInv == GraphInv /\ JsonRestart => GraphInv'
  BY DEF GraphInv, JsonRestart

LEMMA ListedInv ==
  ASSUME GraphInv
  PROVE  /\ IsSoundGraph(Listed(tables)) /\ IdsApart(ToSet(Listed(tables).rels))
         /\ ToSet(Listed(tables).groups) \subseteq Declared(backend)
         /\ ToSet(Listed(tables).rels) = tables.rels
         /\ ToSet(Listed(tables).props) = tables.props
         /\ RowsOf(ToSet(Listed(tables).groups)) = tables.groups
         /\ NoRepeats(Listed(tables).rels)
  <1>1. AreTables(tables, Declared(backend)) /\ ~AliasConflict(Listed(tables).props)
    BY DEF GraphInv, AreSoundTables
  <1>2. Declared(backend) \in SUBSET ExclusiveGroupRecord
    BY DeclaredType DEF GraphInv
  <1>. QED
    BY <1>1, <1>2, ListedFacts DEF IsSoundGraph, AreTables

\* A step of a process that leaves everything but its task alone.
LEMMA TaskStep ==
  ASSUME GraphInv, NEW p \in Procs, NEW v, TaskInv(backend, v), task' = [task EXCEPT ![p] = v],
         calls' = calls \/ (calls' = calls + 1 /\ calls < MaxCalls[backend]),
         UNCHANGED <<backend, mem, file>>, AreSoundTables(backend, tables')
  PROVE  GraphInv'
  <1>. USE DEF GraphInv
  <1>1. task' = [q \in Procs |-> task'[q]] /\ \A q \in Procs : TaskInv(backend, task'[q])
    BY OneTask
  <1>2. calls' \in 0..MaxCalls[backend]
    BY MaxCallsAssumption
  <1>. QED
    BY <1>1, <1>2

TaskOf(stage, call, seen, kept, checked, outcome) ==
    [stage |-> stage, call |-> call, seen |-> seen, kept |-> kept, checked |-> checked,
     status |-> outcome]

\* How a process goes on to its next stage.
Called(t, x, stage) == [t EXCEPT !.call = x, !.stage = stage]
Sees(t, x, stage) == [t EXCEPT !.seen = x, !.stage = stage]
Keeps(t, x, y, stage) == [t EXCEPT !.seen = x, !.kept = y, !.stage = stage]
Checked(t, x, y, stage) == [t EXCEPT !.call = x, !.checked = y, !.stage = stage]

LEMMA NextTask ==
  ASSUME NEW st, NEW c, NEW s, NEW q, NEW k, NEW o, NEW t, t = TaskOf(st, c, s, q, k, o),
         NEW stage, NEW x
  PROVE  /\ Called(t, x, stage) = TaskOf(stage, x, s, q, k, o)
         /\ Sees(t, x, stage) = TaskOf(stage, c, x, q, k, o)
  <1>. DEFINE called == [t EXCEPT !.call = x]
              sees == [t EXCEPT !.seen = x]
  <1>1. called = TaskOf(st, x, s, q, k, o)
    BY DEF TaskOf
  <1>2. sees = TaskOf(st, c, x, q, k, o)
    BY DEF TaskOf
  <1>3. Called(t, x, stage) = [called EXCEPT !.stage = stage]
    BY Zenon DEF Called
  <1>4. Sees(t, x, stage) = [sees EXCEPT !.stage = stage]
    BY Zenon DEF Sees
  <1>. HIDE DEF called, sees
  <1>5. [called EXCEPT !.stage = stage] = TaskOf(stage, x, s, q, k, o)
    BY <1>1 DEF TaskOf
  <1>6. [sees EXCEPT !.stage = stage] = TaskOf(stage, c, x, q, k, o)
    BY <1>2 DEF TaskOf
  <1>. QED
    BY <1>3, <1>4, <1>5, <1>6, Zenon

LEMMA NextTaskOfTwo ==
  ASSUME NEW st, NEW c, NEW s, NEW q, NEW k, NEW o, NEW t, t = TaskOf(st, c, s, q, k, o),
         NEW stage, NEW x, NEW y
  PROVE  /\ Keeps(t, x, y, stage) = TaskOf(stage, c, x, y, k, o)
         /\ Checked(t, x, y, stage) = TaskOf(stage, x, s, q, y, o)
  <1>. DEFINE called == [t EXCEPT !.call = x]
              sees == [t EXCEPT !.seen = x]
              keeps == [sees EXCEPT !.kept = y]
              checked == [called EXCEPT !.checked = y]
  <1>1. called = TaskOf(st, x, s, q, k, o)
    BY DEF TaskOf
  <1>2. sees = TaskOf(st, c, x, q, k, o)
    BY DEF TaskOf
  <1>3. Keeps(t, x, y, stage) = [keeps EXCEPT !.stage = stage]
    BY Zenon DEF Keeps
  <1>4. Checked(t, x, y, stage) = [checked EXCEPT !.stage = stage]
    BY Zenon DEF Checked
  <1>. HIDE DEF called, sees
  <1>5. keeps = TaskOf(st, c, x, y, k, o)
    BY <1>2 DEF TaskOf
  <1>6. checked = TaskOf(st, x, s, q, y, o)
    BY <1>1 DEF TaskOf
  <1>. HIDE DEF checked, keeps
  <1>7. [keeps EXCEPT !.stage = stage] = TaskOf(stage, c, x, y, k, o)
    BY <1>5 DEF TaskOf
  <1>8. [checked EXCEPT !.stage = stage] = TaskOf(stage, x, s, q, y, o)
    BY <1>6 DEF TaskOf
  <1>. QED
    BY <1>3, <1>4, <1>7, <1>8, Zenon

GraphOf(rels, groups, inds, props, meta) ==
    [rels |-> rels, groups |-> groups, inds |-> inds, props |-> props, meta |-> meta]

RestOf(g, x, y, z) == [g EXCEPT !.groups = x, !.inds = y, !.meta = z]

LEMMA RestRead ==
  ASSUME NEW r, NEW g, NEW i, NEW q, NEW m, NEW t, t = GraphOf(r, g, i, q, m),
         NEW x, NEW y, NEW z
  PROVE  RestOf(t, x, y, z) = GraphOf(r, x, y, q, z)
  <1>. DEFINE u == [t EXCEPT !.groups = x]
              v == [u EXCEPT !.inds = y]
  <1>1. u = GraphOf(r, x, i, q, m)
    BY DEF GraphOf
  <1>2. RestOf(t, x, y, z) = [v EXCEPT !.meta = z]
    BY Zenon DEF RestOf
  <1>. HIDE DEF u
  <1>3. v = GraphOf(r, x, y, q, m)
    BY <1>1 DEF GraphOf
  <1>. HIDE DEF v
  <1>4. [v EXCEPT !.meta = z] = GraphOf(r, x, y, q, z)
    BY <1>3 DEF GraphOf
  <1>. QED
    BY <1>2, <1>4, Zenon

LEMMA BeginInv == ASSUME GraphInv, NEW p \in Procs, Begin(p) PROVE GraphInv'
  <1>1. PICK c \in Menu[backend] :
            task' = [task EXCEPT ![p] = [Idle EXCEPT !.call = c, !.stage = "check"]]
    BY DEF Begin
  <1>2. IsCall(c) /\ BringsDeclared(backend, c)
    BY MenuCalls DEF GraphInv
  <1>. DEFINE v == [stage |-> "check", call |-> c, seen |-> EmptyGraph, kept |-> <<>>,
                    checked |-> EmptyGraph, status |-> "none"]
  <1>3. TaskInv(backend, v) /\ [Idle EXCEPT !.call = c, !.stage = "check"] = v
    <2>1. [Idle EXCEPT !.call = c, !.stage = "check"] = v
      <3>1. Idle = TaskOf("idle", NoCall, EmptyGraph, <<>>, EmptyGraph, "none")
        BY DEF Idle, TaskOf
      <3>2. v = TaskOf("check", c, EmptyGraph, <<>>, EmptyGraph, "none")
        BY DEF TaskOf
      <3>3. [Idle EXCEPT !.call = c, !.stage = "check"] = Called(Idle, c, "check")
        BY Zenon DEF Called
      <3>4. Called(Idle, c, "check") = TaskOf("check", c, EmptyGraph, <<>>, EmptyGraph, "none")
        BY <3>1, NextTask
      <3>. QED
        BY <3>2, <3>3, <3>4
    <2>2. TaskInv(backend, v)
      BY <1>2 DEF TaskInv
    <2>. QED
      BY <2>1, <2>2
  <1>4. UNCHANGED <<backend, mem, file, tables>>
    BY DEF Begin
  <1>5. calls' = calls + 1 /\ calls < MaxCalls[backend]
    BY DEF Begin
  <1>. QED
    BY <1>1, <1>3, <1>4, <1>5, TaskStep DEF GraphInv

LEMMA FinishInv ==
  ASSUME GraphInv, NEW p \in Procs, NEW outcome, Finish(p, outcome),
         UNCHANGED <<backend, mem, file, calls>>, AreSoundTables(backend, tables')
  PROVE  GraphInv'
  BY TaskStep, IdleTask DEF Finish

LEMMA CheckInv == ASSUME GraphInv, NEW p \in Procs, Check(p) PROVE GraphInv'
  <1>. DEFINE g == Listed(tables)
              c == task[p].call
              loaded == [c EXCEPT !.data = LoadedData(g, c)]
              call == IF c.op = "load" THEN loaded ELSE c
  <1>1. TaskInv(backend, task[p]) /\ task[p].stage = "check"
    BY DEF GraphInv, Check, At
  <1>2. /\ task[p] = [stage |-> "check", call |-> c, seen |-> task[p].seen, kept |-> task[p].kept,
                      checked |-> task[p].checked, status |-> task[p].status]
        /\ IsCall(c) /\ BringsDeclared(backend, c)
    BY <1>1 DEF TaskInv
  <1>3. UNCHANGED <<backend, mem, file, tables, calls>> /\ AreSoundTables(backend, tables')
    BY DEF Check, GraphInv
  <1>4. CASE Refused(g, c)
    <2>1. Finish(p, "error")
      BY <1>4 DEF Check
    <2>. QED
      BY <1>3, <2>1, FinishInv
  <1>5. CASE ~Refused(g, c)
    <2>1. task' = [task EXCEPT ![p].call = call, ![p].checked = g, ![p].stage = "read"]
      BY <1>5 DEF Check
    <2>2. IsCall(call) /\ BringsDeclared(backend, call) /\ ~Rejected(g, call)
      <3>1. CASE c.op = "load"
        <4>1. /\ c = [op |-> "load", data |-> c.data, mode |-> c.mode, store |-> c.store,
                      dry |-> c.dry]
              /\ IsGraph(c.data)
          BY <1>2, <3>1 DEF IsCall
        <4>2. IsGraph(g)
          BY ListedInv DEF IsSoundGraph, IsKeyedGraph
        <4>3. IsGraph(LoadedData(g, c)) /\ LoadedData(g, c).groups = c.data.groups
          BY <4>1, <4>2, LoadedDataFacts
        <4>4. PICK d : d = LoadedData(g, c)
          OBVIOUS
        <4>5. [c EXCEPT !.data = d] = [op |-> "load", data |-> d, mode |-> c.mode,
                                       store |-> c.store, dry |-> c.dry]
          BY <4>1
        <4>6. call = [op |-> "load", data |-> d, mode |-> c.mode, store |-> c.store,
                      dry |-> c.dry]
          BY <3>1, <4>4, <4>5, Zenon
        <4>. HIDE DEF call, g
        <4>7. IsCall(call)
          BY <1>2, <3>1, <4>3, <4>4, <4>6 DEF IsCall
        <4>8. BringsDeclared(backend, call)
          BY <1>2, <3>1, <4>3, <4>4, <4>6 DEF BringsDeclared
        <4>. QED
          BY <4>6, <4>7, <4>8 DEF Rejected
      <3>2. CASE c.op # "load"
        BY <1>2, <1>5, <3>2 DEF Refused
      <3>. QED
        BY <3>1, <3>2
    <2>. HIDE DEF call, g
    <2>. DEFINE v == [stage |-> "read", call |-> call, seen |-> task[p].seen,
                      kept |-> task[p].kept, checked |-> g, status |-> task[p].status]
    <2>3. task' = [task EXCEPT ![p] = v]
      <3>1. task = [q \in Procs |-> task[q]]
        BY DEF GraphInv
      <3>2. [task[p] EXCEPT !.call = call, !.checked = g, !.stage = "read"] = v
        <4>1. task[p] = TaskOf("check", c, task[p].seen, task[p].kept, task[p].checked,
                                 task[p].status)
          BY <1>2 DEF TaskOf
        <4>2. v = TaskOf("read", call, task[p].seen, task[p].kept, g, task[p].status)
          BY DEF TaskOf
        <4>3. [task[p] EXCEPT !.call = call, !.checked = g, !.stage = "read"]
                = Checked(task[p], call, g, "read")
          BY Zenon DEF Checked
        <4>. HIDE DEF v, c
        <4>4. Checked(task[p], call, g, "read") = v
          BY <4>1, <4>2, NextTaskOfTwo
        <4>. QED
          BY <4>3, <4>4, Zenon
      <3>3. task' = [task EXCEPT ![p] = [task[p] EXCEPT !.call = call, !.checked = g,
                                                        !.stage = "read"]]
        BY <2>1, <3>1
      <3>. QED
        BY <3>2, <3>3
    <2>4. TaskInv(backend, v)
      BY <2>2 DEF TaskInv
    <2>. HIDE DEF v
    <2>. QED
      BY <1>3, <2>3, <2>4, TaskStep
  <1>. QED
    BY <1>4, <1>5

LEMMA ReadInv == ASSUME GraphInv, NEW p \in Procs, Read(p) PROVE GraphInv'
  <1>. DEFINE g == Listed(tables)
              c == task[p].call
  <1>1. TaskInv(backend, task[p]) /\ task[p].stage = "read"
    BY DEF GraphInv, Read, At
  <1>2. /\ task[p] = [stage |-> "read", call |-> c, seen |-> task[p].seen, kept |-> task[p].kept,
                      checked |-> task[p].checked, status |-> task[p].status]
        /\ IsCall(c) /\ BringsDeclared(backend, c) /\ ~Rejected(task[p].checked, c)
    BY <1>1 DEF TaskInv
  <1>3. UNCHANGED <<backend, mem, file, tables, calls>> /\ AreSoundTables(backend, tables')
    BY DEF Read, GraphInv
  <1>4. CASE c.op = "load" /\ AliasConflict(MergePropositions(g.props, c.data.props))
    <2>1. Finish(p, "error")
      BY <1>4 DEF Read
    <2>. QED
      BY <1>3, <2>1, FinishInv
  <1>5. CASE ~(c.op = "load" /\ AliasConflict(MergePropositions(g.props, c.data.props)))
    <2>1. task' = [task EXCEPT ![p].seen = g, ![p].stage = "relations"]
      BY <1>5 DEF Read
    <2>2. /\ IsKeyedGraph(g) /\ IdsApart(ToSet(g.rels))
          /\ ToSet(g.groups) \subseteq Declared(backend)
      BY ListedInv DEF IsSoundGraph
    <2>. HIDE DEF g
    <2>. DEFINE v == [stage |-> "relations", call |-> c, seen |-> g, kept |-> task[p].kept,
                      checked |-> task[p].checked, status |-> task[p].status]
    <2>3. task' = [task EXCEPT ![p] = v]
      <3>1. task = [q \in Procs |-> task[q]]
        BY DEF GraphInv
      <3>2. [task[p] EXCEPT !.seen = g, !.stage = "relations"] = v
        <4>1. task[p] = TaskOf("read", c, task[p].seen, task[p].kept, task[p].checked,
                                 task[p].status)
          BY <1>2 DEF TaskOf
        <4>2. v = TaskOf("relations", c, g, task[p].kept, task[p].checked, task[p].status)
          BY DEF TaskOf
        <4>3. [task[p] EXCEPT !.seen = g, !.stage = "relations"] = Sees(task[p], g, "relations")
          BY Zenon DEF Sees
        <4>. HIDE DEF v, c
        <4>4. Sees(task[p], g, "relations") = v
          BY <4>1, <4>2, NextTask
        <4>. QED
          BY <4>3, <4>4, Zenon
      <3>3. task' = [task EXCEPT ![p] = [task[p] EXCEPT !.seen = g, !.stage = "relations"]]
        BY <2>1, <3>1
      <3>. QED
        BY <3>2, <3>3
    <2>. HIDE DEF c
    <2>4. TaskInv(backend, v)
      BY <1>2, <1>5, <2>2 DEF TaskInv
    <2>. HIDE DEF v
    <2>. QED
      BY <1>3, <2>3, <2>4, TaskStep
  <1>. QED
    BY <1>4, <1>5

LEMMA ReadRelationsInv == ASSUME GraphInv, NEW p \in Procs, ReadRelations(p) PROVE GraphInv'
  <1>. DEFINE rels == Listed(tables).rels
              t == task[p]
              s == t.seen
              seen == [s EXCEPT !.rels = rels]
  <1>1. TaskInv(backend, t) /\ t.stage = "relations"
    BY DEF GraphInv, ReadRelations, At
  <1>2. UNCHANGED <<backend, mem, file, tables, calls>> /\ AreSoundTables(backend, tables')
    BY DEF ReadRelations, GraphInv
  <1>3. /\ t = TaskOf("relations", t.call, s, t.kept, t.checked, t.status)
        /\ IsCall(t.call) /\ BringsDeclared(backend, t.call) /\ ~Rejected(t.checked, t.call)
        /\ IsKeyedGraph(s) /\ ToSet(s.groups) \subseteq Declared(backend)
        /\ t.call.op = "load" => ~AliasConflict(MergePropositions(s.props, t.call.data.props))
    BY <1>1 DEF TaskInv, TaskOf
  <1>4. rels \in Seq(RelationRecord) /\ IdsApart(ToSet(rels))
    BY ListedInv, GraphFields DEF IsSoundGraph, IsKeyedGraph
  <1>. HIDE DEF rels
  <1>5. s = [rels |-> s.rels, groups |-> s.groups, inds |-> s.inds, props |-> s.props,
             meta |-> s.meta]
    BY <1>3, GraphFields DEF IsKeyedGraph
  <1>6. seen = [rels |-> rels, groups |-> s.groups, inds |-> s.inds, props |-> s.props,
                meta |-> s.meta]
    BY <1>5
  <1>7. IsKeyedGraph(seen)
    BY <1>3, <1>4, <1>6, GraphFields DEF IsKeyedGraph, IsGraph
  <1>8. task' = [task EXCEPT ![p] = Sees(t, seen, "rest")]
    <2>1. task = [q \in Procs |-> task[q]]
      BY DEF GraphInv
    <2>2. PICK x : x = seen
      OBVIOUS
    <2>3. task' = [task EXCEPT ![p].seen = x, ![p].stage = "rest"]
      BY <2>2, Zenon DEF ReadRelations, rels
    <2>. QED
      BY <2>1, <2>2, <2>3 DEF Sees
  <1>. HIDE DEF seen
  <1>9. Sees(t, seen, "rest") = TaskOf("rest", t.call, seen, t.kept, t.checked, t.status)
    BY <1>3, NextTask
  <1>10. seen.groups = s.groups /\ seen.props = s.props /\ seen.rels = rels
    BY <1>6
  <1>. HIDE DEF t, s
  <1>11. TaskInv(backend, TaskOf("rest", t.call, seen, t.kept, t.checked, t.status))
    BY <1>3, <1>4, <1>7, <1>10 DEF TaskInv, TaskOf
  <1>. QED
    BY <1>2, <1>8, <1>9, <1>11, TaskStep

LEMMA ReadRestInv == ASSUME GraphInv, NEW p \in Procs, ReadRest(p) PROVE GraphInv'
  <1>. DEFINE g == Listed(tables)
              c == task[p].call
              s == task[p].seen
  <1>1. TaskInv(backend, task[p]) /\ task[p].stage = "rest"
    BY DEF GraphInv, ReadRest, At
  <1>2. /\ task[p] = [stage |-> "rest", call |-> c, seen |-> s, kept |-> task[p].kept,
                      checked |-> task[p].checked, status |-> task[p].status]
        /\ IsCall(c) /\ BringsDeclared(backend, c) /\ ~Rejected(task[p].checked, c)
        /\ IsKeyedGraph(s) /\ IdsApart(ToSet(s.rels))
        /\ c.op = "load" => ~AliasConflict(MergePropositions(s.props, c.data.props))
    BY <1>1 DEF TaskInv
  <1>3. UNCHANGED <<backend, mem, file, tables, calls>> /\ AreSoundTables(backend, tables')
    BY DEF ReadRest, GraphInv
  <1>4. CASE c.dry
    <2>1. Finish(p, "ok")
      BY <1>4 DEF ReadRest
    <2>. QED
      BY <1>3, <2>1, FinishInv
  <1>5. CASE ~c.dry
    <2>1. task' = [task EXCEPT ![p] =
                        [task[p] EXCEPT !.seen = [s EXCEPT !.groups = g.groups,
                                                    !.inds = g.inds, !.meta = g.meta],
                                        !.kept = g.props,
                                        !.stage = "write"]]
      BY <1>5 DEF ReadRest
    <2>2. /\ IsKeyedGraph(g) /\ ToSet(g.groups) \subseteq Declared(backend)
          /\ g.props \in Seq(PropositionRecord) /\ Distinct(g.props, IdOfProposition)
          /\ ~AliasConflict(g.props)
      BY ListedInv, GraphFields DEF IsSoundGraph, IsKeyedGraph
    <2>. HIDE DEF g
    <2>. DEFINE seen == [rels |-> s.rels, groups |-> g.groups, inds |-> g.inds,
                         props |-> s.props, meta |-> g.meta]
                v == [stage |-> "write", call |-> c, seen |-> seen, kept |-> g.props,
                      checked |-> task[p].checked, status |-> task[p].status]
    <2>3. s = [rels |-> s.rels, groups |-> s.groups, inds |-> s.inds, props |-> s.props,
               meta |-> s.meta]
      BY <1>2, GraphFields DEF IsKeyedGraph
    <2>4. task' = [task EXCEPT ![p] = v]
      <3>1. [s EXCEPT !.groups = g.groups, !.inds = g.inds, !.meta = g.meta] = seen
        <4>1. s = GraphOf(s.rels, s.groups, s.inds, s.props, s.meta)
          BY <2>3 DEF GraphOf
        <4>2. seen = GraphOf(s.rels, g.groups, g.inds, s.props, g.meta)
          BY DEF GraphOf
        <4>. HIDE DEF s, seen
        <4>3. [s EXCEPT !.groups = g.groups, !.inds = g.inds, !.meta = g.meta]
                = RestOf(s, g.groups, g.inds, g.meta)
          BY Zenon DEF RestOf
        <4>4. RestOf(s, g.groups, g.inds, g.meta) = seen
          BY <4>1, <4>2, RestRead
        <4>. QED
          BY <4>3, <4>4, Zenon
      <3>2. [task[p] EXCEPT !.seen = [s EXCEPT !.groups = g.groups, !.inds = g.inds,
                                               !.meta = g.meta], !.kept = g.props, !.stage = "write"] = v
        <4>1. task[p] = TaskOf("rest", c, s, task[p].kept, task[p].checked, task[p].status)
          BY <1>2 DEF TaskOf
        <4>2. v = TaskOf("write", c, seen, g.props, task[p].checked, task[p].status)
          BY DEF TaskOf
        <4>. HIDE DEF v, s
        <4>3. PICK u : u = [s EXCEPT !.groups = g.groups, !.inds = g.inds, !.meta = g.meta]
          OBVIOUS
        <4>4. u = seen
          BY <3>1, <4>3
        <4>. HIDE DEF seen
        <4>5. [task[p] EXCEPT !.seen = u, !.kept = g.props, !.stage = "write"]
                = Keeps(task[p], u, g.props, "write")
          BY Zenon DEF Keeps
        <4>6. Keeps(task[p], u, g.props, "write") = v
          BY <4>1, <4>2, <4>4, NextTaskOfTwo
        <4>. QED
          BY <4>3, <4>5, <4>6, Zenon
      <3>. QED
        BY <2>1, <3>2
    <2>5. IsKeyedGraph(seen)
      BY <1>2, <2>2, GraphFields DEF IsKeyedGraph, IsGraph
    <2>. HIDE DEF c, s
    <2>6. TaskInv(backend, v)
      BY <1>2, <2>2, <2>5 DEF TaskInv
    <2>. HIDE DEF v
    <2>. QED
      BY <1>3, <2>4, <2>6, TaskStep
  <1>. QED
    BY <1>4, <1>5

LEMMA SoundTables ==
  ASSUME NEW b \in Backends, NEW t, AreTables(t, Declared(b)), NEW props, ~AliasConflict(props),
         t.props \subseteq ToSet(props)
  PROVE  AreSoundTables(b, t)
  <1>1. ToSet(Listed(t).props) = t.props
    BY DeclaredType, ListedFacts
  <1>. QED
    BY <1>1 DEF AreSoundTables, AliasConflict

LEMMA StoreInv ==
  ASSUME GraphInv, NEW p \in Procs, NEW t, Store(p, t), UNCHANGED <<backend, mem, file, calls>>,
         AreTables(t, Declared(backend)), NEW props, ~AliasConflict(props),
         t.props \subseteq ToSet(props)
  PROVE  GraphInv'
  <1>1. AreSoundTables(backend, t)
    BY SoundTables DEF GraphInv
  <1>2. tables' = t /\ Finish(p, "ok")
    BY DEF Store
  <1>. QED
    BY <1>1, <1>2, FinishInv

LEMMA FailInv ==
  ASSUME GraphInv, NEW p \in Procs, Fail(p), UNCHANGED <<backend, mem, file, calls>>
  PROVE  GraphInv'
  <1>1. AreSoundTables(backend, tables') /\ Finish(p, "failed")
    BY DEF Fail, GraphInv
  <1>. QED
    BY <1>1, FinishInv

LEMMA RewriteInv ==
  ASSUME GraphInv, NEW p \in Procs, NEW g, Rewrite(p, g), UNCHANGED <<backend, mem, file, calls>>,
         IsSoundGraph(g), ToSet(g.groups) \subseteq Declared(backend)
  PROVE  GraphInv'
  <1>1. CASE Replaceable(g)
    <2>. DEFINE t == ReplaceAllRecords(tables, g)
    <2>1. Store(p, t)
      BY <1>1 DEF Rewrite
    <2>2. AreTables(t, Declared(backend))
      BY <1>1, RewrittenTables DEF IsSoundGraph
    <2>3. t.props = ToSet(g.props) /\ ~AliasConflict(g.props)
      BY Rewritten DEF IsSoundGraph, IsKeyedGraph
    <2>. HIDE DEF t
    <2>. QED
      BY <2>1, <2>2, <2>3, StoreInv
  <1>2. CASE ~Replaceable(g)
    BY <1>2, FailInv DEF Rewrite
  <1>. QED
    BY <1>1, <1>2

\* What is known of a process that writes.
LEMMA WritesWith ==
  ASSUME GraphInv, NEW p \in Procs, At(p, "write")
  PROVE  /\ IsCall(task[p].call) /\ BringsDeclared(backend, task[p].call)
         /\ ~Rejected(task[p].checked, task[p].call)
         /\ IsKeyedGraph(task[p].seen) /\ IdsApart(ToSet(task[p].seen.rels))
         /\ ToSet(task[p].seen.groups) \subseteq Declared(backend)
         /\ task[p].call.op = "load" =>
              ~AliasConflict(MergePropositions(task[p].seen.props, task[p].call.data.props))
         /\ task[p].kept \in Seq(PropositionRecord) /\ Distinct(task[p].kept, IdOfProposition)
         /\ ~AliasConflict(task[p].kept)
  <1>1. TaskInv(backend, task[p]) /\ task[p].stage = "write"
    BY DEF GraphInv, At
  <1>. QED
    BY <1>1 DEF TaskInv

\* What WriteMerged writes: the relations merged from what was read, and the
\* propositions as they were read last.
MergedGraph(p) == [MemoryAssert(task[p].seen, task[p].call) EXCEPT !.props = task[p].kept]

LEMMA MergedGraphFacts ==
  ASSUME GraphInv, NEW p \in Procs, At(p, "write"), task[p].call.op = "assert"
  PROVE  LET s == task[p].seen
             c == task[p].call
         IN  /\ c.rels \in Seq(RelationRecord) /\ c.mode \in AssertMode
             /\ AssertedRecords(s, c) \in Seq(RelationRecord)
             /\ IsSoundGraph(MergedGraph(p))
             /\ MergedGraph(p).rels = AfterAssert(s.rels, AssertedRecords(s, c), c.mode)
             /\ MergedGraph(p).groups = s.groups
             /\ MergedGraph(p).props = task[p].kept
  <1>. DEFINE s == task[p].seen
              c == task[p].call
              t == MemoryAssert(s, c)
              props == task[p].kept
              rels == AfterAssert(s.rels, AssertedRecords(s, c), c.mode)
  <1>1. IsCall(c) /\ IsKeyedGraph(s)
    BY WritesWith
  <1>2. c.rels \in Seq(RelationRecord) /\ c.mode \in AssertMode
    BY <1>1 DEF IsCall
  <1>3. AssertedRecords(s, c) \in Seq(RelationRecord)
    BY <1>1, <1>2, AssertedRecordsType DEF IsKeyedGraph
  <1>5. /\ IsKeyedGraph(t)
        /\ t = [rels |-> rels, groups |-> s.groups, inds |-> s.inds, props |-> s.props,
                meta |-> s.meta]
    BY <1>1, <1>2, MemoryAssertFacts
  <1>6. MergedGraph(p) = [t EXCEPT !.props = props]
    BY Zenon DEF MergedGraph
  <1>. HIDE DEF t, props, rels, s, c
  <1>7. MergedGraph(p) = [rels |-> rels, groups |-> s.groups, inds |-> s.inds, props |-> props,
                          meta |-> s.meta]
    BY <1>5, <1>6
  <1>8. props \in Seq(PropositionRecord) /\ Distinct(props, IdOfProposition) /\ ~AliasConflict(props)
    BY WritesWith DEF props
  <1>9. IsSoundGraph(MergedGraph(p))
    BY <1>5, <1>7, <1>8, GraphFields DEF IsSoundGraph, IsKeyedGraph, IsGraph
  <1>. QED
    BY <1>2, <1>3, <1>7, <1>9 DEF s, c, rels, props

LEMMA WriteInv == ASSUME GraphInv, NEW p \in Procs, Write(p) PROVE GraphInv'
  <1>. DEFINE c == task[p].call
              s == task[p].seen
  <1>0. At(p, "write") /\ UNCHANGED <<backend, mem, file, calls>>
    BY DEF Write
  <1>1. /\ IsCall(c) /\ BringsDeclared(backend, c) /\ IsKeyedGraph(s)
        /\ ToSet(s.groups) \subseteq Declared(backend)
        /\ c.op = "load" => ~AliasConflict(MergePropositions(s.props, c.data.props))
    BY <1>0, WritesWith
  <1>2. AreTables(tables, Declared(backend)) /\ ~AliasConflict(Listed(tables).props)
    BY DEF GraphInv, AreSoundTables
  <1>3. ToSet(Listed(tables).props) = tables.props
    BY ListedInv
  <1>4. ASSUME WriteAppend(p) PROVE GraphInv'
    <2>. DEFINE new == AssertedRecords(s, c)
    <2>1. new \in Seq(RelationRecord)
      BY <1>0, <1>4, MergedGraphFacts DEF WriteAppend
    <2>2. IF CanInsert(tables.rels, new)
          THEN Store(p, [tables EXCEPT !.rels = @ \cup ToSet(new)])
          ELSE Fail(p)
      BY <1>4 DEF WriteAppend
    <2>. HIDE DEF new
    <2>3. CASE CanInsert(tables.rels, new)
      <3>1. PICK t : t = [tables EXCEPT !.rels = @ \cup ToSet(new)]
        OBVIOUS
      <3>2. AreTables(t, Declared(backend))
        <4>1. AreTables([tables EXCEPT !.rels = @ \cup ToSet(new)], Declared(backend))
          BY <1>2, <2>1, <2>3, InsertedRelations
        <4>. QED
          BY <3>1, <4>1, Zenon
      <3>3. t.props = tables.props
        BY <3>1
      <3>4. Store(p, t)
        BY <2>2, <2>3, <3>1, Zenon
      <3>. QED
        BY <1>0, <1>2, <1>3, <3>2, <3>3, <3>4, StoreInv
    <2>4. CASE ~CanInsert(tables.rels, new)
      BY <1>0, <2>2, <2>4, FailInv
    <2>. QED
      BY <2>3, <2>4
  <1>5. ASSUME WriteMerged(p) PROVE GraphInv'
    <2>1. Rewrite(p, MergedGraph(p)) /\ c.op = "assert"
      BY <1>5, Zenon DEF WriteMerged, MergedGraph
    <2>2. IsSoundGraph(MergedGraph(p)) /\ MergedGraph(p).groups = s.groups
      BY <1>0, <2>1, MergedGraphFacts
    <2>. QED
      BY <1>0, <1>1, <2>1, <2>2, RewriteInv
  <1>6. ASSUME WriteImport(p) PROVE GraphInv'
    <2>1. c.op = "load" /\ Rewrite(p, MemoryImport(s, c))
      BY <1>6 DEF WriteImport
    <2>2. IsGraph(c.data) /\ c.store \in Name
      BY <1>1, <2>1 DEF IsCall
    <2>3. /\ IsKeyedGraph(MemoryImport(s, c))
          /\ MemoryImport(s, c).props = MergePropositions(s.props, c.data.props)
          /\ ToSet(MemoryImport(s, c).groups)
               \subseteq ToSet(s.groups) \cup ToSet(ForStore(c.data.groups, c.store))
      BY <1>1, <2>2, MemoryImportFacts
    <2>4. ToSet(MemoryImport(s, c).groups) \subseteq Declared(backend)
      BY <1>1, <2>1, <2>3 DEF BringsDeclared
    <2>. QED
      BY <1>0, <1>1, <2>1, <2>3, <2>4, RewriteInv DEF IsSoundGraph
  <1>7. ASSUME WriteExclusive(p) PROVE GraphInv'
    <2>1. c.op = "exclusive" /\ Store(p, [tables EXCEPT !.groups = InsertGroup(@, c.group)])
      BY <1>7 DEF WriteExclusive
    <2>2. PICK rows : rows = InsertGroup(tables.groups, c.group)
      OBVIOUS
    <2>3. HoldGroups(rows, Declared(backend))
      BY <1>1, <1>2, <2>1, <2>2, InsertedGroup DEF AreTables, BringsDeclared
    <2>4. PICK t : t = [tables EXCEPT !.groups = rows]
      OBVIOUS
    <2>5. t = [rels |-> tables.rels, groups |-> rows, inds |-> tables.inds,
               props |-> tables.props, meta |-> tables.meta]
      BY <1>2, <2>4 DEF AreTables
    <2>6. AreTables(t, Declared(backend)) /\ t.props = tables.props
      BY <1>2, <2>3, <2>5 DEF AreTables
    <2>7. Store(p, t)
      BY <2>1, <2>2, <2>4, Zenon
    <2>. QED
      BY <1>0, <1>2, <1>3, <2>6, <2>7, StoreInv
  <1>8. ASSUME WriteClear(p) PROVE GraphInv'
    <2>1. Store(p, DeleteCleared(tables, c.what, s))
      BY <1>8 DEF WriteClear
    <2>2. PICK t : t = DeleteCleared(tables, c.what, s)
      OBVIOUS
    <2>3. AreTables(t, Declared(backend)) /\ t.props \subseteq tables.props
      BY <1>2, <2>2, ClearedTables
    <2>4. Store(p, t)
      BY <2>1, <2>2, Zenon
    <2>. QED
      BY <1>0, <1>2, <1>3, <2>3, <2>4, StoreInv
  <1>. QED
    BY <1>4, <1>5, <1>6, <1>7, <1>8 DEF Write

LEMMA StutterInv == GraphInv /\ UNCHANGED vars => GraphInv'
  BY DEF GraphInv, vars

\* GraphInv is inductive.
THEOREM GraphInvariant == Spec => []GraphInv
  <1>1. GraphInv /\ [Next]_vars => GraphInv'
    <2>. SUFFICES ASSUME GraphInv, [Next]_vars PROVE GraphInv'
      OBVIOUS
    <2>1. CASE MemoryCall
      BY <2>1, MemoryCallInv
    <2>2. CASE JsonCall \/ JsonRestart
      BY <2>2, JsonCallInv, JsonRestartInv
    <2>3. ASSUME NEW p \in Procs,
                 \/ Begin(p) \/ Check(p) \/ Read(p) \/ ReadRelations(p) \/ ReadRest(p)
                 \/ Write(p)
          PROVE  GraphInv'
      BY <2>3, BeginInv, CheckInv, ReadInv, ReadRelationsInv, ReadRestInv, WriteInv
    <2>4. CASE Done \/ UNCHANGED vars
      BY <2>4, StutterInv DEF Done
    <2>. QED
      BY <2>1, <2>2, <2>3, <2>4 DEF Next
  <1>. QED
    BY InitGraphInv, <1>1, PTL DEF Spec

\* Every graph the backends hold, in memory, in the file or in the tables, is a
\* graph of well-formed records, and so is what each process has read.
THEOREM TypesCorrect == Spec => []TypeOK
  <1>1. GraphInv => TypeOK
    <2>. SUFFICES ASSUME GraphInv PROVE TypeOK
      OBVIOUS
    <2>1. IsGraph(mem) /\ IsGraph(file) /\ IsGraph(Listed(tables))
      BY ListedInv DEF GraphInv, IsSoundGraph, IsKeyedGraph
    <2>2. ASSUME NEW p \in Procs
          PROVE  /\ task[p].stage \in {"idle", "check", "read", "relations", "rest", "write"}
                 /\ task[p].stage # "idle" => IsCall(task[p].call)
                 /\ task[p].stage \in {"relations", "rest", "write"} => IsGraph(task[p].seen)
      <3>1. TaskInv(backend, task[p])
        BY DEF GraphInv
      <3>. QED
        BY <3>1 DEF TaskInv, IsKeyedGraph
    <2>. QED
      BY <2>1, <2>2 DEF TypeOK, GraphInv
  <1>. QED
    BY <1>1, GraphInvariant, PTL

\* No term names two propositions, in whatever order calls and processes
\* interleave.
THEOREM AliasesNameOne == Spec => []NoAliasConflict
  <1>1. GraphInv => NoAliasConflict
    BY DEF GraphInv, IsSoundGraph, AreSoundTables, NoAliasConflict
  <1>. QED
    BY <1>1, GraphInvariant, PTL

\* A group stored as rows is read back as one that was declared.
THEOREM GroupsStayWhole == Spec => []GroupsAreWhole
  <1>1. GraphInv => GroupsAreWhole
    BY ListedInv DEF GroupsAreWhole
  <1>. QED
    BY <1>1, GraphInvariant, PTL

(***************************************************************************)
(* What a step may not do                                                  *)
(***************************************************************************)
\* A json call that is acknowledged is in the file; one that is refused
\* changed nothing.
THEOREM AcknowledgedIsDurable == Spec => JsonAcknowledgedIsDurable
  <1>. DEFINE Durable == backend = "json" /\ calls' # calls =>
                            /\ status' \in {"ok", "read"} => file' = mem' \/ mem' = mem
                            /\ status' = "error" => mem' = mem
  <1>1. ASSUME GraphInv, [Next]_vars PROVE Durable
    <2>. SUFFICES ASSUME backend = "json", calls' # calls
                  PROVE  /\ status' \in {"ok", "read"} => file' = mem' \/ mem' = mem
                         /\ status' = "error" => mem' = mem
      OBVIOUS
    <2>1. JsonCall
      BY <1>1 DEF Next, vars, MemoryCall, JsonRestart, Begin, Check, Read, ReadRelations,
                      ReadRest, Write, Done, At
    <2>2. PICK c \in Menu[backend] :
            /\ mem' = mem \/ (~Refused(mem, c) /\ mem' = Applied(mem, c))
            /\ status' = "error" => mem' = mem
            /\ status' = "ok" => file' = mem'
            /\ status' = "read" => c.dry
      BY <2>1, JsonCallFacts
    <2>3. c.dry /\ ~Refused(mem, c) => Applied(mem, c) = mem
      BY <1>1, MenuCalls, AppliedFacts DEF GraphInv
    <2>. QED
      BY <2>2, <2>3
  <1>. QED
    BY <1>1, GraphInvariant, PTL DEF Spec, JsonAcknowledgedIsDurable

LEMMA FinishedTask ==
  ASSUME GraphInv, NEW p \in Procs, NEW outcome, Finish(p, outcome)
  PROVE  task'[p].stage = "idle" /\ task'[p].status = outcome
  <1>1. task = [q \in Procs |-> task[q]]
    BY DEF GraphInv
  <1>2. task'[p] = [Idle EXCEPT !.status = outcome]
    BY <1>1 DEF Finish
  <1>. QED
    BY <1>2 DEF Idle

\* A write that has gone through.
LEMMA Stored ==
  ASSUME GraphInv, NEW p \in Procs, Write(p)
  PROVE  /\ task'[p].stage = "idle" /\ task[p].stage = "write"
         /\ tables' = tables \/ task'[p].status = "ok"
         /\ task'[p].status = "ok" =>
              LET c == task[p].call
                  s == task[p].seen
              IN  \/ /\ c.op = "assert" /\ c.mode = "append"
                     /\ CanInsert(tables.rels, AssertedRecords(s, c))
                     /\ tables' = [tables EXCEPT !.rels = @ \cup ToSet(AssertedRecords(s, c))]
                  \/ /\ c.op = "assert" /\ c.mode # "append" /\ Replaceable(MergedGraph(p))
                     /\ tables' = ReplaceAllRecords(tables, MergedGraph(p))
                  \/ /\ c.op = "load" /\ Replaceable(MemoryImport(s, c))
                     /\ tables' = ReplaceAllRecords(tables, MemoryImport(s, c))
                  \/ /\ c.op = "exclusive"
                     /\ tables' = [tables EXCEPT !.groups = InsertGroup(@, c.group)]
                  \/ /\ c.op = "clear"
                     /\ tables' = DeleteCleared(tables, c.what, s)
  <1>. DEFINE c == task[p].call
              s == task[p].seen
              new == AssertedRecords(s, c)
  <1>0. task[p].stage = "write"
    BY DEF Write, At
  <1>1. \A t : Store(p, t) => /\ tables' = t /\ task'[p].stage = "idle"
                              /\ task'[p].status = "ok"
    BY FinishedTask DEF Store
  <1>2. Fail(p) => /\ tables' = tables /\ task'[p].stage = "idle"
                   /\ task'[p].status = "failed"
    BY FinishedTask DEF Fail
  <1>3. CASE WriteAppend(p)
    <2>1. /\ c.op = "assert" /\ c.mode = "append"
          /\ IF CanInsert(tables.rels, new)
             THEN Store(p, [tables EXCEPT !.rels = @ \cup ToSet(new)])
             ELSE Fail(p)
      BY <1>3 DEF WriteAppend
    <2>. QED
      BY <1>0, <1>1, <1>2, <2>1, Zenon
  <1>4. CASE WriteMerged(p)
    <2>1. c.op = "assert" /\ c.mode # "append" /\ Rewrite(p, MergedGraph(p))
      BY <1>4, Zenon DEF WriteMerged, MergedGraph
    <2>. QED
      BY <1>0, <1>1, <1>2, <2>1 DEF Rewrite
  <1>5. CASE WriteImport(p)
    BY <1>0, <1>1, <1>2, <1>5 DEF WriteImport, Rewrite
  <1>6. CASE WriteExclusive(p)
    BY <1>0, <1>1, <1>6, Zenon DEF WriteExclusive
  <1>7. CASE WriteClear(p)
    BY <1>0, <1>1, <1>7, Zenon DEF WriteClear
  <1>. QED
    BY <1>3, <1>4, <1>5, <1>6, <1>7 DEF Write

LEMMA Explained ==
  ASSUME GraphInv, NEW p \in Procs, Write(p), NEW r \in tables.rels,
         r.id \notin {x.id : x \in tables'.rels}
  PROVE  \/ MeansToRemove(task[p].call, task[p].seen, r)
         \/ /\ task[p].call.op \in {"assert", "load", "clear"}
            /\ r \notin ToSet(task[p].seen.rels)
  <1>. DEFINE c == task[p].call
              s == task[p].seen
              new == AssertedRecords(s, c)
              Gone(t) == r.id \notin {x.id : x \in t.rels}
  <1>0. /\ At(p, "write") /\ IsCall(c) /\ IsKeyedGraph(s) /\ IdsApart(ToSet(s.rels))
        /\ AreTables(tables, Declared(backend)) /\ s.rels \in Seq(RelationRecord)
    BY WritesWith, GraphFields DEF Write, GraphInv, AreSoundTables, IsKeyedGraph
  <1>1. ~(tables.rels \subseteq tables'.rels) /\ tables' # tables
    OBVIOUS
  <1>2. task'[p].status = "ok"
    BY <1>1, Stored
  <1>3. CASE c.op = "assert" /\ c.mode = "append"
    <2>1. tables' = [tables EXCEPT !.rels = @ \cup ToSet(new)]
      BY <1>2, <1>3, Stored
    <2>2. tables = [rels |-> tables.rels, groups |-> tables.groups, inds |-> tables.inds,
                    props |-> tables.props, meta |-> tables.meta]
      BY <1>0 DEF AreTables
    <2>3. tables'.rels = tables.rels \cup ToSet(new)
      BY <2>1, <2>2
    <2>. QED
      BY <1>1, <2>3
  <1>4. CASE c.op = "assert" /\ c.mode # "append"
    <2>1. tables' = ReplaceAllRecords(tables, MergedGraph(p))
      BY <1>2, <1>4, Stored
    <2>2. /\ IsSoundGraph(MergedGraph(p)) /\ new \in Seq(RelationRecord) /\ c.mode \in AssertMode
          /\ MergedGraph(p).rels = AfterAssert(s.rels, new, c.mode)
      BY <1>0, <1>4, MergedGraphFacts
    <2>3. tables'.rels = ToSet(AfterAssert(s.rels, new, c.mode))
      BY <2>1, <2>2, Rewritten DEF IsSoundGraph, IsKeyedGraph
    <2>4. ASSUME r \in ToSet(s.rels)
          PROVE  c.mode = "replace_same_pair" /\ PairKey(r) \in {PairKey(x) : x \in ToSet(new)}
      BY <1>0, <2>2, <2>3, <2>4, AfterAssertFacts
    <2>. QED
      BY <1>4, <2>4 DEF MeansToRemove
  <1>5. CASE c.op = "load"
    <2>1. tables' = ReplaceAllRecords(tables, MemoryImport(s, c))
      BY <1>2, <1>5, Stored
    <2>2. IsGraph(c.data) /\ c.store \in Name
      BY <1>0, <1>5 DEF IsCall
    <2>3. /\ IsKeyedGraph(MemoryImport(s, c))
          /\ \A x \in ToSet(s.rels) :
               \/ x.id \in {y.id : y \in ToSet(MemoryImport(s, c).rels)}
               \/ c.mode = "replace_store" /\ x.store = c.store
      BY <1>0, <2>2, MemoryImportFacts
    <2>4. tables'.rels = ToSet(MemoryImport(s, c).rels)
      BY <2>1, <2>3, Rewritten DEF IsKeyedGraph
    <2>5. ASSUME r \in ToSet(s.rels) PROVE c.mode = "replace_store" /\ r.store = c.store
      BY <2>3, <2>4, <2>5
    <2>. QED
      BY <1>5, <2>5 DEF MeansToRemove
  <1>6. CASE c.op = "exclusive"
    <2>1. tables' = [tables EXCEPT !.groups = InsertGroup(@, c.group)]
      BY <1>2, <1>6, Stored
    <2>2. tables'.rels = tables.rels
      BY <1>0, <2>1 DEF AreTables
    <2>. QED
      BY <1>1, <2>2
  <1>7. CASE c.op = "clear"
    <2>1. tables' = DeleteCleared(tables, c.what, s)
      BY <1>2, <1>7, Stored
    <2>2. \/ c.what.scope = "all"
          \/ \E y \in ToSet(s.rels) : y.id = r.id /\ InScope(y, c.what, MatchesFilter)
      BY <1>0, <2>1, ClearedTables
    <2>3. c.what.scope = "all" => InScope(r, c.what, MatchesFilter)
      BY DEF InScope
    <2>4. ASSUME r \in ToSet(s.rels) PROVE InScope(r, c.what, MatchesFilter)
      <3>1. CASE c.what.scope = "all"
        BY <2>3, <3>1
      <3>2. CASE \E y \in ToSet(s.rels) : y.id = r.id /\ InScope(y, c.what, MatchesFilter)
        <4>1. PICK y \in ToSet(s.rels) : y.id = r.id /\ InScope(y, c.what, MatchesFilter)
          BY <3>2
        <4>2. y = r
          BY <1>0, <2>4, <4>1 DEF IdsApart
        <4>. QED
          BY <4>1, <4>2, Zenon
      <3>. QED
        BY <2>2, <3>1, <3>2
    <2>. QED
      BY <1>7, <2>4 DEF MeansToRemove
  <1>. QED
    BY <1>0, <1>3, <1>4, <1>5, <1>6, <1>7 DEF IsCall

\* A relation leaves the tables only when a call means to remove it, or by a
\* process that had not read it as it is.
THEOREM RemovalsAreExplained == Spec => RemovalExplained
  <1>. DEFINE Accounted ==
        \A r \in tables.rels : r.id \in {x.id : x \in tables'.rels}
            \/ \E p \in Procs :
                /\ task[p].stage = "write" /\ task'[p].stage = "idle"
                /\ \/ MeansToRemove(task[p].call, task[p].seen, r)
                   \/ /\ task[p].call.op \in {"assert", "load", "clear"}
                      /\ r \notin ToSet(task[p].seen.rels)
  <1>1. ASSUME GraphInv, [Next]_vars PROVE Accounted
    <2>. SUFFICES ASSUME NEW r \in tables.rels, r.id \notin {x.id : x \in tables'.rels}
                  PROVE  \E p \in Procs :
                            /\ task[p].stage = "write" /\ task'[p].stage = "idle"
                            /\ \/ MeansToRemove(task[p].call, task[p].seen, r)
                               \/ /\ task[p].call.op \in {"assert", "load", "clear"}
                                  /\ r \notin ToSet(task[p].seen.rels)
      OBVIOUS
    <2>1. tables' # tables
      OBVIOUS
    <2>2. PICK p \in Procs : Write(p)
      BY <1>1, <2>1 DEF Next, vars, MemoryCall, JsonCall, JsonRestart, Begin, Check, Read,
                        ReadRelations, ReadRest, Done
    <2>3. task[p].stage = "write" /\ task'[p].stage = "idle"
      BY <1>1, <2>2, Stored
    <2>. QED
      BY <1>1, <2>2, <2>3, Explained
  <1>. QED
    BY <1>1, GraphInvariant, PTL DEF Spec, RemovalExplained

\* A list without repetitions is one of the orders of its elements.
LEMMA ListingOf ==
  ASSUME NEW V, NEW s \in Seq(V), NoRepeats(s)
  PROVE  s \in SetToSeqs(ToSet(s))
  <1>1. PICK n \in Nat : n = Len(s) /\ DOMAIN s = 1..n
    OBVIOUS
  <1>2. IsFiniteSet(1..n) /\ Cardinality(1..n) = n
    BY FS_Interval
  <1>3. s \in [1..n -> ToSet(s)]
    BY <1>1 DEF ToSet
  <1>4. s \in Surjection(1..n, ToSet(s)) /\ s \in Injection(1..n, ToSet(s))
    BY <1>1, <1>3 DEF Surjection, Injection, IsInjective, ToSet, NoRepeats
  <1>5. Cardinality(ToSet(s)) = n
    BY <1>2, <1>4, FS_Surjection
  <1>6. \A i, j \in 1..n : i # j => s[i] # s[j]
    BY <1>1 DEF NoRepeats
  <1>. QED
    BY <1>3, <1>5, <1>6 DEF SetToSeqs

\* Records with new ids at the end of a list without repetitions.
LEMMA InsertedNoRepeats ==
  ASSUME NEW V, NEW s \in Seq(V), NEW new \in Seq(V), NoRepeats(s), CanInsert(ToSet(s), new)
  PROVE  NoRepeats(s \o new)
  <1>1. NoRepeats(new) /\ Ids(new) \cap {x.id : x \in ToSet(s)} = {}
    BY UniqueIdsNoRepeats DEF CanInsert
  <1>2. PICK n, m \in Nat : n = Len(s) /\ m = Len(new) /\ DOMAIN s = 1..n /\ DOMAIN new = 1..m
    OBVIOUS
  <1>3. /\ DOMAIN (s \o new) = 1..(n + m)
        /\ \A i \in 1..n : (s \o new)[i] = s[i]
        /\ \A i \in 1..m : (s \o new)[n + i] = new[i]
    BY <1>2
  <1>4. ASSUME NEW i \in 1..n, NEW j \in 1..m PROVE s[i] # new[j]
    <2>1. s[i] \in ToSet(s) /\ new[j].id \in Ids(new)
      BY <1>2 DEF ToSet, Ids
    <2>2. s[i].id \in {x.id : x \in ToSet(s)}
      BY <2>1
    <2>. QED
      BY <1>1, <2>1, <2>2
  <1>5. \A i \in 1..(n + m) : i \in 1..n \/ \E j \in 1..m : i = n + j
    <2>1. ASSUME NEW i \in 1..(n + m), i \notin 1..n PROVE \E j \in 1..m : i = n + j
      <3>1. i - n \in 1..m /\ i = n + (i - n)
        BY <2>1
      <3>. QED
        BY <3>1
    <2>. QED
      BY <2>1
  <1>6. ASSUME NEW i \in 1..(n + m), NEW j \in 1..(n + m), (s \o new)[i] = (s \o new)[j]
        PROVE  i = j
    <2>1. CASE i \in 1..n /\ j \in 1..n
      BY <1>2, <1>3, <1>6, <2>1 DEF NoRepeats
    <2>2. CASE i \in 1..n /\ j \notin 1..n
      <3>1. PICK k \in 1..m : j = n + k
        BY <1>5, <2>2
      <3>2. s[i] = new[k]
        BY <1>3, <1>6, <2>2, <3>1
      <3>. QED
        BY <1>4, <2>2, <3>2
    <2>3. CASE i \notin 1..n /\ j \in 1..n
      <3>1. PICK k \in 1..m : i = n + k
        BY <1>5, <2>3
      <3>2. s[j] = new[k]
        BY <1>3, <1>6, <2>3, <3>1
      <3>. QED
        BY <1>4, <2>3, <3>2
    <2>4. CASE i \notin 1..n /\ j \notin 1..n
      <3>1. PICK h, k \in 1..m : i = n + h /\ j = n + k
        BY <1>5, <2>4
      <3>2. new[h] = new[k]
        BY <1>3, <1>6, <3>1
      <3>3. h = k
        BY <1>1, <1>2, <3>2 DEF NoRepeats
      <3>. QED
        BY <3>1, <3>3
    <2>. QED
      BY <2>1, <2>2, <2>3, <2>4
  <1>. QED
    BY <1>3, <1>6 DEF NoRepeats

\* A rejecting assertion that nobody wrote between its check and its write
\* stores the graph that was checked.
LEMMA RejectingWrite ==
  ASSUME GraphInv, NEW p \in Procs, Write(p), task'[p].status = "ok",
         task[p].call.op = "assert", task[p].call.reject,
         task[p].checked = Listed(tables), task[p].seen = task[p].checked,
         task[p].kept = task[p].checked.props
  PROVE  \E s \in SetToSeqs(tables'.rels) : GraphContradictions(Listed(tables'), s) = {}
  <1>. DEFINE c == task[p].call
              g == Listed(tables)
              new == AssertedRecords(g, c)
              s == AfterAssert(g.rels, new, c.mode)
  <1>0. At(p, "write") /\ task[p].seen = g
    BY DEF Write
  <1>1. GraphContradictions(g, s) = {}
    <2>1. ~Rejected(g, c)
      BY <1>0, WritesWith
    <2>. QED
      BY <2>1 DEF Rejected
  <1>2. /\ IsKeyedGraph(g) /\ ToSet(g.rels) = tables.rels /\ NoRepeats(g.rels)
        /\ ToSet(g.props) = tables.props /\ RowsOf(ToSet(g.groups)) = tables.groups
        /\ g.rels \in Seq(RelationRecord)
    BY ListedInv, GraphFields DEF IsSoundGraph, IsKeyedGraph
  <1>3. c.rels \in Seq(RelationRecord) /\ c.mode \in AssertMode /\ new \in Seq(RelationRecord)
    BY <1>0, MergedGraphFacts
  <1>4. s \in Seq(RelationRecord)
    BY <1>2, <1>3, AfterAssertFacts
  <1>5. ASSUME c.mode = "append"
        PROVE  /\ tables'.rels = ToSet(s) /\ NoRepeats(s)
               /\ tables'.groups = tables.groups /\ tables'.props = tables.props
    <2>1. CanInsert(tables.rels, new) /\ tables' = [tables EXCEPT !.rels = @ \cup ToSet(new)]
      BY <1>0, <1>5, Stored
    <2>2. tables = [rels |-> tables.rels, groups |-> tables.groups, inds |-> tables.inds,
                    props |-> tables.props, meta |-> tables.meta]
      BY DEF GraphInv, AreSoundTables, AreTables
    <2>3. s = g.rels \o new
      BY <1>5 DEF AfterAssert
    <2>. HIDE DEF g, new, s
    <2>4. /\ tables'.rels = tables.rels \cup ToSet(new) /\ tables'.groups = tables.groups
          /\ tables'.props = tables.props
      BY <2>1, <2>2
    <2>5. tables'.rels = ToSet(s) /\ NoRepeats(s)
      BY <1>2, <1>3, <2>1, <2>3, <2>4, ConcatFacts, InsertedNoRepeats
    <2>. QED
      BY <2>4, <2>5
  <1>6. ASSUME c.mode # "append"
        PROVE  /\ tables'.rels = ToSet(s) /\ NoRepeats(s)
               /\ tables'.groups = tables.groups /\ tables'.props = tables.props
    <2>1. Replaceable(MergedGraph(p)) /\ tables' = ReplaceAllRecords(tables, MergedGraph(p))
      BY <1>6, Stored
    <2>2. /\ IsGraph(MergedGraph(p)) /\ MergedGraph(p).rels = s
          /\ MergedGraph(p).groups = g.groups /\ MergedGraph(p).props = g.props
      BY <1>0, MergedGraphFacts DEF IsSoundGraph, IsKeyedGraph
    <2>. HIDE DEF g, new, s
    <2>3. /\ tables'.rels = ToSet(s) /\ tables'.groups = tables.groups
          /\ tables'.props = tables.props
      BY <1>2, <2>1, <2>2, Rewritten
    <2>4. NoRepeats(s)
      BY <1>4, <2>1, <2>2, UniqueIdsNoRepeats DEF Replaceable
    <2>. QED
      BY <2>3, <2>4
  <1>7. /\ tables'.rels = ToSet(s) /\ NoRepeats(s)
        /\ tables'.groups = tables.groups /\ tables'.props = tables.props
    BY <1>5, <1>6
  <1>8. Listed(tables').groups = g.groups /\ Listed(tables').props = g.props
    BY <1>7 DEF Listed
  <1>. HIDE DEF g, s
  <1>9. GraphContradictions(Listed(tables'), s) = {}
    BY <1>1, <1>8 DEF GraphContradictions
  <1>10. s \in SetToSeqs(tables'.rels)
    BY <1>4, <1>7, ListingOf
  <1>. QED
    BY <1>9, <1>10

\* A process is done with its write only by writing.
LEMMA OnlyItsWrite ==
  ASSUME GraphInv, [Next]_vars, NEW p \in Procs,
         task[p].stage = "write", task'[p].stage = "idle"
  PROVE  Write(p)
  <1>1. task = [q \in Procs |-> task[q]] /\ task' # task
    BY DEF GraphInv
  <1>2. PICK q \in Procs : \/ Begin(q) \/ Check(q) \/ Read(q) \/ ReadRelations(q)
                           \/ ReadRest(q) \/ Write(q)
    BY <1>1 DEF Next, vars, MemoryCall, JsonCall, JsonRestart, Done
  <1>3. CASE q # p
    <2>1. \A outcome : Finish(q, outcome) => task'[p] = task[p]
      BY <1>1, <1>3 DEF Finish
    <2>2. CASE Begin(q)
      BY <1>1, <1>3, <2>2 DEF Begin
    <2>3. CASE Check(q)
      BY <1>1, <1>3, <2>1, <2>3 DEF Check
    <2>4. CASE Read(q)
      BY <1>1, <1>3, <2>1, <2>4 DEF Read
    <2>7. CASE ReadRelations(q)
      BY <1>1, <1>3, <2>7 DEF ReadRelations
    <2>5. CASE ReadRest(q)
      BY <1>1, <1>3, <2>1, <2>5 DEF ReadRest
    <2>6. CASE Write(q)
      BY <1>1, <1>3, <2>1, <2>6
      DEF Write, WriteAppend, WriteMerged, WriteImport, WriteExclusive, WriteClear, Rewrite,
          Store, Fail
    <2>. QED
      BY <1>2, <2>2, <2>3, <2>4, <2>5, <2>6, <2>7
  <1>4. CASE q = p
    BY <1>2, <1>4 DEF Begin, Check, Read, ReadRelations, ReadRest, At
  <1>. QED
    BY <1>3, <1>4

\* With on_contradiction = reject, what is written has no hard contradiction.
THEOREM RejectionHolds == Spec => RejectHolds
  <1>. DEFINE Clean ==
        /\ backend # "sqlite" /\ calls' # calls /\ mem' # mem =>
            \E c \in Menu[backend] :
                /\ mem' = Applied(mem, c)
                /\ c.op = "assert" /\ c.reject => GraphContradictions(mem', mem'.rels) = {}
        /\ \A p \in Procs :
            /\ task[p].stage = "write" /\ task'[p].stage = "idle" /\ task'[p].status = "ok"
            /\ task[p].call.op = "assert" /\ task[p].call.reject
            /\ task[p].checked = Listed(tables) /\ task[p].seen = task[p].checked
            /\ task[p].kept = task[p].checked.props
            => \E s \in SetToSeqs(tables'.rels) :
                    GraphContradictions(Listed(tables'), s) = {}
  <1>1. ASSUME GraphInv, [Next]_vars PROVE Clean
    <2>1. ASSUME backend # "sqlite", calls' # calls, mem' # mem
          PROVE  \E c \in Menu[backend] :
                    /\ mem' = Applied(mem, c)
                    /\ c.op = "assert" /\ c.reject => GraphContradictions(mem', mem'.rels) = {}
      <3>1. MemoryCall \/ JsonCall
        BY <1>1, <2>1 DEF Next, vars, JsonRestart, Begin, Check, Read, ReadRelations, ReadRest,
                                Write, Done
      <3>2. PICK c \in Menu[backend] : ~Refused(mem, c) /\ mem' = Applied(mem, c)
        BY <2>1, <3>1, JsonCallFacts DEF MemoryCall
      <3>3. IsCall(c) /\ IsKeyedGraph(mem)
        BY <1>1, MenuCalls DEF GraphInv, IsSoundGraph
      <3>4. ~c.dry
        BY <1>1, <2>1, <3>2, <3>3, AppliedFacts DEF GraphInv
      <3>5. ASSUME c.op = "assert", c.reject PROVE GraphContradictions(mem', mem'.rels) = {}
        <4>1. Applied(mem, c) = MemoryAssert(mem, c)
          BY <3>4, <3>5 DEF Applied
        <4>2. c.rels \in Seq(RelationRecord) /\ c.mode \in AssertMode
          BY <3>3, <3>5 DEF IsCall
        <4>3. /\ mem'.rels = AfterAssert(mem.rels, AssertedRecords(mem, c), c.mode)
              /\ mem'.groups = mem.groups /\ mem'.props = mem.props
          BY <3>2, <3>3, <4>1, <4>2, MemoryAssertFacts
        <4>4. GraphContradictions(mem, AfterAssert(mem.rels, AssertedRecords(mem, c), c.mode)) = {}
          BY <3>2, <3>5 DEF Refused, Rejected
        <4>. QED
          BY <4>3, <4>4 DEF GraphContradictions
      <3>. QED
        BY <3>2, <3>5
    <2>2. ASSUME NEW p \in Procs,
                 task[p].stage = "write", task'[p].stage = "idle", task'[p].status = "ok",
                 task[p].call.op = "assert", task[p].call.reject,
                 task[p].checked = Listed(tables), task[p].seen = task[p].checked,
                 task[p].kept = task[p].checked.props
          PROVE  \E s \in SetToSeqs(tables'.rels) : GraphContradictions(Listed(tables'), s) = {}
      <3>1. Write(p)
        BY <1>1, <2>2, OnlyItsWrite
      <3>. QED
        BY <1>1, <2>2, <3>1, RejectingWrite
    <2>. QED
      BY <2>1, <2>2
  <1>. QED
    BY <1>1, GraphInvariant, PTL DEF Spec, RejectHolds

(***************************************************************************)
(* An export of a store                                                    *)
(***************************************************************************)
OfStore(store) == [Nothing EXCEPT !.store = store]

\* A filter with nothing but a store matches what is in that store.
LEMMA OfStoreMatches ==
  ASSUME NEW store, store # None, NEW x
  PROVE  /\ MatchesFilter(x, OfStore(store)) <=> store = x.store
         /\ GroupMatchesFilter(x, OfStore(store)) <=> store = x.store
         /\ IndependenceMatchesFilter(x, OfStore(store)) <=> store = x.store
  <1>. DEFINE f == OfStore(store)
  <1>1. f = [src |-> None, tgt |-> None, type |-> None, ctx |-> None, store |-> store,
             dom |-> None]
    BY DEF OfStore, Nothing
  <1>2. /\ f["src"] = None /\ f["tgt"] = None /\ f["type"] = None /\ f["ctx"] = None
        /\ f["store"] = store /\ f["dom"] = None /\ f.src = None /\ f.tgt = None
    BY <1>1
  <1>. HIDE DEF f
  <1>3. NamesOneOf(x.pair, f)
    BY <1>2 DEF NamesOneOf
  <1>4. \A fields : {"store"} \subseteq fields
                    /\ fields \subseteq {"src", "tgt", "type", "ctx", "store", "dom"}
                    => (Agrees(x, f, fields) <=> store = x.store)
    BY <1>2 DEF Agrees
  <1>5. /\ MatchesFilter(x, f) <=> store = x.store
        /\ GroupMatchesFilter(x, f) <=> store = x.store
        /\ IndependenceMatchesFilter(x, f) <=> store = x.store
    BY <1>3, <1>4 DEF MatchesFilter, GroupMatchesFilter, IndependenceMatchesFilter
  <1>. QED
    BY <1>5 DEF f

\* Records that are in a store already are not changed by moving them there.
InStore(x, store) == [x EXCEPT !.store = store]

LEMMA ForStoreSame ==
  ASSUME NEW V, NEW s \in Seq(V), NEW store, \A x \in ToSet(s) : InStore(x, store) = x
  PROVE  ForStore(s, store) = s
  <1>1. PICK n \in Nat : n = Len(s) /\ DOMAIN s = 1..n /\ s = [i \in 1..n |-> s[i]]
    OBVIOUS
  <1>2. \A i \in 1..n : InStore(s[i], store) = s[i]
    BY <1>1 DEF ToSet
  <1>3. ForStore(s, store) = [i \in DOMAIN s |-> InStore(s[i], store)]
    BY Zenon DEF ForStore, InStore
  <1>. QED
    BY <1>1, <1>2, <1>3

LEMMA StayingRecords ==
  ASSUME NEW store
  PROVE  /\ \A r \in RelationRecord : r.store = store => InStore(r, store) = r
         /\ \A g \in ExclusiveGroupRecord : g.store = store => InStore(g, store) = g
         /\ \A i \in IndependenceRecord : i.store = store => InStore(i, store) = i
  <1>1. ASSUME NEW r \in RelationRecord, r.store = store PROVE InStore(r, store) = r
    BY <1>1 DEF InStore, RelationRecord
  <1>2. ASSUME NEW g \in ExclusiveGroupRecord, g.store = store PROVE InStore(g, store) = g
    BY <1>2 DEF InStore, ExclusiveGroupRecord
  <1>3. ASSUME NEW i \in IndependenceRecord, i.store = store PROVE InStore(i, store) = i
    BY <1>3 DEF InStore, IndependenceRecord
  <1>. QED
    BY <1>1, <1>2, <1>3

\* What an export of one store holds.
Mine(s, store) == Among(s, {x \in ToSet(s) : x.store = store})
KeepsMeta(rels, meta, all) ==
    \A r \in ToSet(rels) :
        r.ctx \in DOMAIN all => r.ctx \in DOMAIN meta /\ meta[r.ctx] = all[r.ctx]
Gives(meta, some) == \A c \in DOMAIN some : meta[c] = some[c]

LEMMA ExportOfStore ==
  ASSUME NEW g, NEW store, store # None
  PROVE  \E meta :
            /\ Export(g, OfStore(store), TRUE, TRUE) =
                    GraphOf(Mine(g.rels, store), Mine(g.groups, store), Mine(g.inds, store),
                            g.props, meta)
            /\ KeepsMeta(Mine(g.rels, store), meta, g.meta)
  <1>. DEFINE R == {x \in ToSet(g.rels) : x.store = store}
              G == {x \in ToSet(g.groups) : x.store = store}
              I == {x \in ToSet(g.inds) : x.store = store}
              f == OfStore(store)
  <1>1. /\ {x \in ToSet(g.rels) : MatchesFilter(x, f)} = R
        /\ {x \in ToSet(g.groups) : GroupMatchesFilter(x, f)} = G
        /\ {x \in ToSet(g.inds) : IndependenceMatchesFilter(x, f)} = I
    BY OfStoreMatches
  <1>2. ExportedGroups(g, f, TRUE) = Mine(g.groups, store)
    BY <1>1 DEF ExportedGroups, Mine
  <1>. DEFINE rels == Mine(g.rels, store)
              groups == Mine(g.groups, store)
              inds == Mine(g.inds, store)
              ctxs == {x.ctx : x \in ToSet(rels) \cup ToSet(groups) \cup ToSet(inds)}
              meta == [c \in ctxs \cap DOMAIN g.meta |-> g.meta[c]]
  <1>3. Export(g, f, TRUE, TRUE) = GraphOf(rels, groups, inds, g.props, meta)
    BY <1>1, <1>2 DEF Export, Mine, GraphOf
  <1>4. ASSUME NEW r \in ToSet(rels), r.ctx \in DOMAIN g.meta
        PROVE  r.ctx \in DOMAIN meta /\ meta[r.ctx] = g.meta[r.ctx]
    <2>1. r.ctx \in ctxs
      OBVIOUS
    <2>. HIDE DEF ctxs
    <2>. QED
      BY <1>4, <2>1
  <1>. HIDE DEF rels, groups, inds, meta
  <1>5. KeepsMeta(rels, meta, g.meta)
    BY <1>4 DEF KeepsMeta
  <1>6. \E m : /\ Export(g, f, TRUE, TRUE) = GraphOf(rels, groups, inds, g.props, m)
              /\ KeepsMeta(rels, m, g.meta)
    BY <1>3, <1>5
  <1>. QED
    BY <1>6 DEF rels, groups, inds

LEMMA MergeReplaces ==
  ASSUME NEW V, NEW inds \in Seq(V), NEW new \in Seq(V), NEW store
  PROVE  \/ inds # <<>>
         \/ MergeIndependence(inds, new, "replace_store", store) = new
  <1>1. \A mode : \/ mode = "upsert" \/ inds # <<>>
                  \/ MergeIndependence(inds, new, mode, store) = new
    BY MergeIndependenceFacts
  <1>. QED
    BY <1>1

LEMMA MergeIntoEmpty ==
  ASSUME NEW new \in Seq(IndependenceRecord), NEW store
  PROVE  MergeIndependence(<<>>, new, "replace_store", store) = new
  <1>1. <<>> \in Seq(IndependenceRecord)
    BY EmptyList
  <1>. QED
    BY <1>1, MergeReplaces

\* An import into an empty store of records that are of that store.
LEMMA ImportIntoEmpty ==
  ASSUME NEW d, NEW store,
         d.rels \in Seq(RelationRecord), d.groups \in Seq(ExclusiveGroupRecord),
         d.inds \in Seq(IndependenceRecord), d.props \in Seq(PropositionRecord),
         Distinct(d.groups, KeyOfGroup), Distinct(d.props, IdOfProposition),
         \A x \in ToSet(d.rels) \cup ToSet(d.groups) \cup ToSet(d.inds) : x.store = store,
         NEW back, back = AfterImport(EmptyGraph, d, "replace_store", store)
  PROVE  /\ back.rels = WithIdentities(d.rels, d.props)
         /\ back.groups = d.groups /\ back.inds = d.inds /\ back.props = d.props
         /\ Gives(back.meta, d.meta)
  <1>1. MergePropositions(<<>>, d.props) = d.props
    BY PutPropositions, EmptyList DEF MergePropositions
  <1>2. \A V : KeptOnImport(<<>>, "replace_store", store) = <<>>
    <2>1. KeptOnImport(<<>>, "replace_store", store) \in Seq({})
      BY EmptyList, KeptOnImportFacts
    <2>2. ToSet(KeptOnImport(<<>>, "replace_store", store)) = {}
      BY EmptyList, KeptOnImportFacts
    <2>. QED
      BY <2>1, <2>2, NoElements
  <1>3. ForStore(WithIdentities(d.rels, d.props), store) = WithIdentities(d.rels, d.props)
    <2>. DEFINE w == WithIdentities(d.rels, d.props)
    <2>a. /\ w \in Seq(RelationRecord) /\ Len(w) = Len(d.rels)
          /\ \A i \in 1..Len(d.rels) : w[i].store = d.rels[i].store
      BY WithIdentitiesType
    <2>. HIDE DEF w
    <2>1. PICK n \in Nat : /\ n = Len(d.rels) /\ n = Len(w) /\ DOMAIN w = 1..n
                           /\ DOMAIN d.rels = 1..n
                           /\ w \in Seq(RelationRecord)
                           /\ \A i \in 1..n : w[i].store = d.rels[i].store
      BY <2>a
    <2>2. \A i \in 1..n : d.rels[i].store = store /\ w[i] \in RelationRecord
      BY <2>1 DEF ToSet
    <2>3. \A x \in ToSet(w) : InStore(x, store) = x
      BY <2>1, <2>2, StayingRecords DEF ToSet
    <2>4. ForStore(w, store) = w
      BY <2>1, <2>3, ForStoreSame
    <2>. QED
      BY <2>4 DEF w
  <1>4. ForStore(d.groups, store) = d.groups
    <2>1. ToSet(d.groups) \in SUBSET ExclusiveGroupRecord
      BY DEF ToSet
    <2>2. \A x \in ToSet(d.groups) : InStore(x, store) = x
      BY <2>1, StayingRecords
    <2>. QED
      BY <2>2, ForStoreSame
  <1>5. ForStore(d.inds, store) = d.inds
    <2>1. ToSet(d.inds) \in SUBSET IndependenceRecord
      BY DEF ToSet
    <2>2. \A x \in ToSet(d.inds) : InStore(x, store) = x
      BY <2>1, StayingRecords
    <2>. QED
      BY <2>2, ForStoreSame
  <1>6. PutAll(GroupKey, <<>>, d.groups) = d.groups
    BY PutGroups, EmptyList
  <1>7. MergeIndependence(<<>>, d.inds, "replace_store", store) = d.inds
    BY MergeIntoEmpty
  <1>8. Gives(MergeMetadata(<<>>, d.meta), d.meta)
    BY DEF MergeMetadata, Gives
  <1>9. WithIdentities(d.rels, d.props) \in Seq(RelationRecord)
    BY WithIdentitiesType
  <1>10. <<>> \o WithIdentities(d.rels, d.props) = WithIdentities(d.rels, d.props)
    BY <1>9
  <1>11. /\ EmptyGraph.rels = <<>> /\ EmptyGraph.groups = <<>> /\ EmptyGraph.inds = <<>>
         /\ EmptyGraph.props = <<>> /\ EmptyGraph.meta = <<>>
    BY DEF EmptyGraph
  <1>. QED
    BY <1>1, <1>2, <1>3, <1>4, <1>5, <1>6, <1>7, <1>8, <1>10, <1>11 DEF AfterImport

\* Loading an export of a store into an empty store gives the store back.
THEOREM ExportsRoundTrip == Spec => []ExportRoundTrips
  <1>1. ASSUME GraphInv PROVE ExportRoundTrips
    <2>1. IsKeyedGraph(mem)
      BY <1>1 DEF GraphInv, IsSoundGraph
    <2>2. /\ IsGraph(mem) /\ mem.rels \in Seq(RelationRecord)
          /\ mem.groups \in Seq(ExclusiveGroupRecord) /\ mem.inds \in Seq(IndependenceRecord)
          /\ mem.props \in Seq(PropositionRecord)
          /\ Distinct(mem.groups, KeyOfGroup) /\ Distinct(mem.props, IdOfProposition)
      BY <2>1, GraphFields DEF IsKeyedGraph
    <2>. SUFFICES
          ASSUME NEW store \in {r.store : r \in ToSet(mem.rels)}
          PROVE  LET out == Export(mem, OfStore(store), TRUE, TRUE)
                     back == AfterImport(EmptyGraph, out, "replace_store", store)
                     mine(s) == Among(s, {x \in ToSet(s) : x.store = store})
                 IN  /\ back.rels = WithIdentities(mine(mem.rels), mem.props)
                     /\ back.groups = mine(mem.groups)
                     /\ back.inds = mine(mem.inds)
                     /\ back.props = mem.props
                     /\ \A c \in {r.ctx : r \in ToSet(back.rels)} :
                            c \in DOMAIN mem.meta => back.meta[c] = mem.meta[c]
      BY Zenon DEF ExportRoundTrips, OfStore
    <2>3. store # None
      <3>1. ToSet(mem.rels) \in SUBSET RelationRecord
        BY <2>2 DEF ToSet
      <3>. QED
        BY <3>1 DEF RelationRecord, Name
    <2>. DEFINE out == Export(mem, OfStore(store), TRUE, TRUE)
                back == AfterImport(EmptyGraph, out, "replace_store", store)
                R == Mine(mem.rels, store)
                G == Mine(mem.groups, store)
                I == Mine(mem.inds, store)
    <2>4. /\ out.rels = R /\ out.groups = G /\ out.inds = I /\ out.props = mem.props
          /\ KeepsMeta(R, out.meta, mem.meta)
      <3>1. PICK meta :
                /\ out = GraphOf(R, G, I, mem.props, meta)
                /\ KeepsMeta(R, meta, mem.meta)
        BY <2>3, ExportOfStore
      <3>. HIDE DEF out, R, G, I
      <3>2. /\ out.rels = R /\ out.groups = G /\ out.inds = I /\ out.props = mem.props
            /\ out.meta = meta
        BY <3>1 DEF GraphOf
      <3>. QED
        BY <3>1, <3>2
    <2>5. /\ R \in Seq(RelationRecord) /\ G \in Seq(ExclusiveGroupRecord)
          /\ I \in Seq(IndependenceRecord) /\ Distinct(G, KeyOfGroup)
          /\ \A x \in ToSet(R) \cup ToSet(G) \cup ToSet(I) : x.store = store
      <3>1. /\ R \in Seq(RelationRecord)
            /\ ToSet(R) = ToSet(mem.rels) \cap {x \in ToSet(mem.rels) : x.store = store}
        BY <2>2, AmongFacts DEF Mine
      <3>2. /\ G \in Seq(ExclusiveGroupRecord)
            /\ ToSet(G) = ToSet(mem.groups) \cap {x \in ToSet(mem.groups) : x.store = store}
            /\ \A key : Distinct(mem.groups, key) => Distinct(G, key)
        BY <2>2, AmongFacts DEF Mine
      <3>3. /\ I \in Seq(IndependenceRecord)
            /\ ToSet(I) = ToSet(mem.inds) \cap {x \in ToSet(mem.inds) : x.store = store}
        BY <2>2, AmongFacts DEF Mine
      <3>. HIDE DEF R, G, I
      <3>. QED
        BY <2>2, <3>1, <3>2, <3>3
    <2>. HIDE DEF R, G, I, out
    <2>6. /\ back.rels = WithIdentities(R, mem.props)
          /\ back.groups = G /\ back.inds = I /\ back.props = mem.props
          /\ Gives(back.meta, out.meta)
      <3>. HIDE DEF back
      <3>1. back = AfterImport(EmptyGraph, out, "replace_store", store)
        BY DEF back
      <3>2. /\ out.rels \in Seq(RelationRecord) /\ out.groups \in Seq(ExclusiveGroupRecord)
            /\ out.inds \in Seq(IndependenceRecord) /\ out.props \in Seq(PropositionRecord)
            /\ Distinct(out.groups, KeyOfGroup) /\ Distinct(out.props, IdOfProposition)
        BY <2>2, <2>4, <2>5
      <3>3. \A x \in ToSet(out.rels) \cup ToSet(out.groups) \cup ToSet(out.inds) :
                x.store = store
        BY <2>4, <2>5
      <3>. QED
        BY <2>4, <3>1, <3>2, <3>3, ImportIntoEmpty
    <2>. HIDE DEF back
    <2>7. \A c \in {r.ctx : r \in ToSet(back.rels)} : c \in {r.ctx : r \in ToSet(R)}
      <3>a. /\ WithIdentities(R, mem.props) \in Seq(RelationRecord)
            /\ Len(WithIdentities(R, mem.props)) = Len(R)
            /\ \A i \in 1..Len(R) : WithIdentities(R, mem.props)[i].ctx = R[i].ctx
        BY <2>2, <2>5, WithIdentitiesType
      <3>1. PICK n \in Nat : /\ n = Len(R) /\ DOMAIN R = 1..n /\ DOMAIN back.rels = 1..n
                             /\ \A i \in 1..n : back.rels[i].ctx = R[i].ctx
        BY <2>5, <2>6, <3>a
      <3>. QED
        BY <3>1 DEF ToSet
    <2>8. \A c \in {r.ctx : r \in ToSet(back.rels)} :
            c \in DOMAIN mem.meta => back.meta[c] = mem.meta[c]
      BY <2>4, <2>6, <2>7 DEF KeepsMeta, Gives
    <2>. QED
      BY <2>6, <2>8 DEF R, G, I, back, out, Mine
  <1>. QED
    BY <1>1, GraphInvariant, PTL DEF Spec

(***************************************************************************)
(* The answers of the reasoning tools                                      *)
(***************************************************************************)
LEMMA NamesFacts ==
  ASSUME GraphInv
  PROVE  /\ mem.rels \in Seq(RelationRecord) /\ mem.groups \in Seq(ExclusiveGroupRecord)
         /\ Names = Propositions(mem.rels) /\ Names \in SUBSET Name /\ IsFiniteSet(Names)
  <1>1. mem.rels \in Seq(RelationRecord) /\ mem.groups \in Seq(ExclusiveGroupRecord)
    BY DEF GraphInv, IsSoundGraph, IsKeyedGraph, IsGraph
  <1>2. Names = Propositions(mem.rels)
    BY DEF Names, Propositions
  <1>. QED
    BY <1>1, <1>2, PropositionsFacts

\* What the tools see of the relations is what the filter means.
LEMMA SeenFacts ==
  ASSUME GraphInv, NEW cf \in Views
  PROVE  /\ Compatible(mem.rels, cf) \in Seq(RelationRecord)
         /\ ToSet(Compatible(mem.rels, cf)) = ToSet(Seen(cf))
         /\ Propositions(Compatible(mem.rels, cf)) \subseteq Names
  <1>1. mem.rels \in Seq(RelationRecord)
    BY NamesFacts
  <1>2. cf.at \in Nat
    BY ViewsAssumption
  <1>3. ASSUME NEW r \in ToSet(mem.rels)
        PROVE  Visible(r, cf) <=> /\ Agrees(r, cf, {"store", "ctx", "dom"})
                                  /\ cf.asm \subseteq r.asm
                                  /\ cf.at = 0 \/ ValidAt(r, cf.at)
    <2>0. r \in RelationRecord
      BY <1>1, RecordsOf
    <2>1. r.from \in Nat /\ r.to \in Nat
      BY <2>0 DEF RelationRecord
    <2>2. (cf.at = 0 \/ ValidAt(r, cf.at)) <=> (cf.at # 0 => cf.at \in r.from .. r.to)
      BY <1>2, <2>1 DEF ValidAt
    <2>. QED
      BY <2>2 DEF Visible, Agrees
  <1>. DEFINE V == {r \in ToSet(mem.rels) : Visible(r, cf)}
  <1>4. ToSet(Compatible(mem.rels, cf)) = V
    BY <1>1, <1>3, CompatibleFacts
  <1>5. ToSet(Seen(cf)) = V
    <2>1. Seen(cf) = Among(mem.rels, V)
      BY Zenon DEF Seen
    <2>2. V \subseteq ToSet(mem.rels)
      OBVIOUS
    <2>. HIDE DEF V
    <2>3. ToSet(Among(mem.rels, V)) = ToSet(mem.rels) \cap V
      BY <1>1, AmongFacts
    <2>. QED
      BY <2>1, <2>2, <2>3
  <1>6. Propositions(Compatible(mem.rels, cf)) \subseteq Names
    BY <1>4, NamesFacts DEF Propositions
  <1>. QED
    BY <1>1, <1>4, <1>5, <1>6, CompatibleFacts

IsThorough(q) == q \in SearchRecord /\ ~q.direct /\ q.floor = NoConfidence /\ q.depth = Best.depth

LEMMA ThoroughSearches ==
  /\ IsThorough(ByConfidence(Best))
  /\ IsThorough([ByConfidence(Best) EXCEPT !.direct = FALSE])
  /\ \A by \in {"all", "shortest"} :
        IsThorough([[Best EXCEPT !.strategy = by] EXCEPT !.direct = FALSE])
  /\ IsThorough(HardChecks)
  <1>1. PICK no : no = FALSE
    OBVIOUS
  <1>. DEFINE With(by) == [depth |-> 8, floor |-> NoConfidence, direct |-> no,
                           strategy |-> by, most |-> 5]
  <1>2. HardChecks = With("shortest")
    BY <1>1, Zenon DEF HardChecks
  <1>3. ASSUME NEW by PROVE [With(by) EXCEPT !.direct = no] = With(by)
    OBVIOUS
  <1>4. ASSUME NEW by, NEW other PROVE [With(by) EXCEPT !.strategy = other] = With(other)
    OBVIOUS
  <1>5. ASSUME NEW by \in {"shortest", "best_confidence", "all"}
        PROVE  /\ With(by) \in SearchRecord /\ With(by).direct = no
               /\ With(by).floor = NoConfidence /\ With(by).depth = 8
    <2>1. no \in BOOLEAN
      BY <1>1
    <2>2. NoConfidence \in Nat
      BY DEF NoConfidence
    <2>. QED
      BY <2>1, <2>2 DEF SearchRecord
  <1>. HIDE DEF With
  <1>6. Best = With("best_confidence")
    BY <1>2, <1>4, Zenon DEF Best
  <1>7. \A by \in {"shortest", "best_confidence", "all"} : IsThorough(With(by))
    BY <1>1, <1>5, <1>6, Zenon DEF IsThorough
  <1>8. ByConfidence(Best) = With("best_confidence")
    BY <1>4, <1>6, Zenon DEF ByConfidence
  <1>9. \A by : [[Best EXCEPT !.strategy = by] EXCEPT !.direct = FALSE] = With(by)
    BY <1>1, <1>3, <1>4, <1>6, Zenon
  <1>10. [ByConfidence(Best) EXCEPT !.direct = FALSE] = With("best_confidence")
    BY <1>1, <1>3, <1>8, Zenon
  <1>. QED
    BY <1>2, <1>7, <1>8, <1>9, <1>10, Zenon

\* A search finds a path exactly when there is an entailment.
LEMMA SearchMeans ==
  ASSUME GraphInv, NEW cf \in Views, NEW s \in Names, NEW t \in Names, NEW q, IsThorough(q)
  PROVE  /\ Reaches(Edges(Compatible(mem.rels, cf)), s, t, q) => Entails(Seen(cf), Names, s, t)
         /\ NoDeeper /\ Entails(Seen(cf), Names, s, t) =>
                Reaches(Edges(Compatible(mem.rels, cf)), s, t, q)
  <1>. DEFINE rels == Compatible(mem.rels, cf)
  <1>1. rels \in Seq(RelationRecord) /\ Propositions(rels) \subseteq Names
    BY SeenFacts
  <1>2. Entails(rels, Names, s, t) <=> Entails(Seen(cf), Names, s, t)
    BY SeenFacts, SameWorlds
  <1>. HIDE DEF rels
  <1>3. q \in SearchRecord /\ (NoDeeper => DeepEnough(q, Names))
    BY DEF IsThorough, DeepEnough, NoDeeper
  <1>4. Names \in SUBSET Name /\ IsFiniteSet(Names)
    BY NamesFacts
  <1>5. Reaches(Edges(rels), s, t, q) => Entails(rels, Names, s, t)
    BY <1>1, <1>3, <1>4, SearchEntails
  <1>6. NoDeeper /\ Entails(rels, Names, s, t) => Reaches(Edges(rels), s, t, q)
    BY <1>1, <1>3, <1>4, EntailsSearch
  <1>. QED
    BY <1>2, <1>5, <1>6 DEF rels

LEMMA ClassifyMeans ==
  ASSUME GraphInv, NEW cf \in Views, NEW s \in Names, NEW t \in Names, NEW call,
         call = [s |-> s, t |-> t, cf |-> cf, q |-> Best]
  PROVE  LET answer == Classify(mem, call)
             reverse == Entails(Seen(cf), Names, t, s)
         IN  /\ Finds(answer.forward, Entails(Seen(cf), Names, s, t))
             /\ Finds(answer.reverse, reverse)
             /\ Finds(answer.necessity = "proven_necessary", reverse)
  <1>. DEFINE answer == Classify(mem, call)
              edges == Edges(Compatible(mem.rels, cf))
              fwd == Reaches(edges, s, t, ByConfidence(Best))
              rev == Reaches(edges, t, s, ByConfidence(Best))
  <1>1. call.s = s /\ call.t = t /\ call.cf = cf /\ call.q = Best
    OBVIOUS
  <1>2. /\ answer.forward <=> fwd
        /\ answer.reverse <=> rev
        /\ answer.necessity = "proven_necessary" <=> rev
    BY <1>1, Zenon DEF Classify
  <1>3. /\ fwd => Entails(Seen(cf), Names, s, t)
        /\ NoDeeper /\ Entails(Seen(cf), Names, s, t) => fwd
        /\ rev => Entails(Seen(cf), Names, t, s)
        /\ NoDeeper /\ Entails(Seen(cf), Names, t, s) => rev
    BY SearchMeans, ThoroughSearches
  <1>. HIDE DEF answer, fwd, rev
  <1>. QED
    BY <1>2, <1>3, Zenon DEF Finds, answer

\* What verify_chain says of a pair when it searches, and of an explicit chain.
LEMMA VerifyMeans ==
  ASSUME GraphInv, NEW cf \in Views, NEW s \in Names, NEW t \in Names,
         NEW expected \in {"sufficient", "equivalent"}, NEW by \in {"all", "shortest"}, NEW call,
         call = [s |-> s, t |-> t, cf |-> cf, chain |-> <<>>, expected |-> expected,
                 q |-> [Best EXCEPT !.strategy = by]]
  PROVE  LET truth == /\ Entails(Seen(cf), Names, s, t)
                      /\ expected = "equivalent" => Entails(Seen(cf), Names, t, s)
         IN  Finds(VerifyChain(mem, call).valid, truth)
  <1>. DEFINE edges == Edges(Compatible(mem.rels, cf))
              q == [[Best EXCEPT !.strategy = by] EXCEPT !.direct = FALSE]
              fwd == Reaches(edges, s, t, q)
              rev == Reaches(edges, t, s, q)
              class == Reachability(fwd, rev)
              valid == class # "unknown" /\ ExpectedMatches(expected, class)
  <1>1. call.s = s /\ call.t = t /\ call.cf = cf /\ call.chain = <<>> /\ call.expected = expected
        /\ call.q = [Best EXCEPT !.strategy = by]
    BY Zenon
  <1>2. VerifyChain(mem, call).valid <=> valid
    BY <1>1, Zenon DEF VerifyChain
  <1>3. /\ fwd => Entails(Seen(cf), Names, s, t)
        /\ NoDeeper /\ Entails(Seen(cf), Names, s, t) => fwd
        /\ rev => Entails(Seen(cf), Names, t, s)
        /\ NoDeeper /\ Entails(Seen(cf), Names, t, s) => rev
    <2>1. IsThorough(q)
      BY ThoroughSearches
    <2>. HIDE DEF q
    <2>. QED
      BY <2>1, SearchMeans
  <1>4. valid <=> fwd /\ (expected = "equivalent" => rev)
    <2>. HIDE DEF fwd, rev
    <2>1. CASE fwd /\ rev
      <3>1. class = "equivalent"
        BY <2>1, Zenon DEF Reachability
      <3>. HIDE DEF class
      <3>. QED
        BY <2>1, <3>1 DEF ExpectedMatches
    <2>2. CASE fwd /\ ~rev
      <3>1. class = "sufficient"
        BY <2>2, Zenon DEF Reachability
      <3>. HIDE DEF class
      <3>. QED
        BY <2>2, <3>1 DEF ExpectedMatches
    <2>3. CASE ~fwd /\ rev
      <3>1. class = "necessary"
        BY <2>3, Zenon DEF Reachability
      <3>. HIDE DEF class
      <3>. QED
        BY <2>3, <3>1 DEF ExpectedMatches
    <2>4. CASE ~fwd /\ ~rev
      <3>1. class = "unknown"
        BY <2>4, Zenon DEF Reachability
      <3>. HIDE DEF class
      <3>. QED
        BY <2>4, <3>1
    <2>. QED
      BY <2>1, <2>2, <2>3, <2>4
  <1>. HIDE DEF fwd, rev, valid
  <1>. QED
    BY <1>2, <1>3, <1>4, Zenon DEF Finds

LEMMA ExplicitChainMeans ==
  ASSUME GraphInv, NEW cf \in Views, NEW s \in Names, NEW t \in Names, NEW m \in Names, NEW call,
         call = [s |-> s, t |-> t, cf |-> cf, chain |-> <<s, m, t>>, expected |-> "any",
                 q |-> [Best EXCEPT !.strategy = "shortest"]],
         VerifyChain(mem, call).reachable
  PROVE  Entails(Seen(cf), Names, s, t)
  <1>. DEFINE rels == Compatible(mem.rels, cf)
              strong == SearchGraph(Edges(rels), call.q.floor)
              chain == <<s, m, t>>
              gaps == {i \in 1..(Len(chain) - 1) : ~HasEdge(strong, chain[i], chain[i + 1])}
  <1>1. call.s = s /\ call.t = t /\ call.cf = cf /\ call.chain = chain /\ chain # <<>>
    <2>1. call.s = s /\ call.t = t /\ call.cf = cf /\ call.chain = chain
      BY Zenon
    <2>. QED
      BY <2>1
  <1>2. chain[1] = s /\ chain[2] = m /\ chain[3] = t /\ Last(chain) = t /\ Len(chain) = 3
    BY DEF Last
  <1>3. BrokenAt(strong, chain) = 0
    <2>. HIDE DEF chain
    <2>. QED
      BY <1>1, <1>2, Zenon DEF VerifyChain
  <1>4. gaps = {}
    <2>1. SUFFICES ASSUME gaps # {} PROVE FALSE
      OBVIOUS
    <2>2. BrokenAt(strong, chain) = Min(gaps)
      BY <2>1, Zenon DEF BrokenAt
    <2>3. gaps \in SUBSET Nat /\ 0 \notin gaps
      BY <1>2
    <2>. HIDE DEF gaps
    <2>. QED
      BY <1>3, <2>1, <2>2, <2>3, MinIsMember
  <1>5. HasEdge(Edges(rels), s, m) /\ HasEdge(Edges(rels), m, t)
    <2>1. 1 \in 1..(Len(chain) - 1) /\ 2 \in 1..(Len(chain) - 1)
      BY <1>2
    <2>2. HasEdge(strong, chain[1], chain[1 + 1]) /\ HasEdge(strong, chain[2], chain[2 + 1])
      BY <1>4, <2>1
    <2>. QED
      BY <1>2, <2>2, StrongerChain
  <1>6. chain \in ChainTo(Edges(rels), s, t)
    <2>1. chain \in Seq(Name)
      BY NamesFacts
    <2>2. \A i \in 1..(Len(chain) - 1) : HasEdge(Edges(rels), chain[i], chain[i + 1])
      <3>1. \A i \in 1..(Len(chain) - 1) : i = 1 \/ i = 2
        BY <1>2
      <3>. HIDE DEF chain, rels
      <3>. QED
        BY <1>2, <1>5, <3>1
    <2>. HIDE DEF chain, rels
    <2>3. IsChain(Edges(rels), chain)
      BY <2>2, Zenon DEF IsChain
    <2>4. Len(chain) >= 1
      BY <1>2
    <2>5. chain \in Chain(Edges(rels))
      BY <2>1, <2>3, <2>4, Zenon DEF Chain
    <2>. QED
      BY <1>2, <2>5, Zenon DEF ChainTo
  <1>7. rels \in Seq(RelationRecord)
    BY SeenFacts
  <1>8. Entails(rels, Names, s, t)
    <2>. HIDE DEF chain, rels
    <2>. QED
      BY <1>6, <1>7, ChainEntails
  <1>. QED
    BY <1>8, SeenFacts, SameWorlds

\* Classification is entailment, whatever calls made the graph.
THEOREM ClassificationIsEntailment == Spec => []ClassifyMeansEntailment
  <1>1. GraphInv => ClassifyMeansEntailment
    <2>. SUFFICES ASSUME GraphInv, NEW cf \in Views, NEW s \in Names, NEW t \in Names
                  PROVE  LET call == [s |-> s, t |-> t, cf |-> cf, q |-> Best]
                             answer == Classify(mem, call)
                             forward == Entails(Seen(cf), Names, s, t)
                             reverse == Entails(Seen(cf), Names, t, s)
                             chain(c, e, by) ==
                                VerifyChain(mem, [s |-> s, t |-> t, cf |-> cf, chain |-> c,
                                    expected |-> e, q |-> [Best EXCEPT !.strategy = by]])
                         IN  /\ Finds(answer.forward, forward)
                             /\ Finds(answer.reverse, reverse)
                             /\ Finds(answer.necessity = "proven_necessary", reverse)
                             /\ Finds(chain(<<>>, "sufficient", "all").valid, forward)
                             /\ Finds(chain(<<>>, "equivalent", "shortest").valid,
                                      forward /\ reverse)
                             /\ \A m \in Names :
                                    chain(<<s, m, t>>, "any", "shortest").reachable => forward
      BY Zenon DEF ClassifyMeansEntailment
    <2>. DEFINE forward == Entails(Seen(cf), Names, s, t)
                reverse == Entails(Seen(cf), Names, t, s)
                search(by) == [Best EXCEPT !.strategy = by]
                call == [s |-> s, t |-> t, cf |-> cf, q |-> Best]
                chain(c, e, by) == [s |-> s, t |-> t, cf |-> cf, chain |-> c, expected |-> e,
                                    q |-> search(by)]
    <2>1. /\ Finds(Classify(mem, call).forward, forward)
          /\ Finds(Classify(mem, call).reverse, reverse)
          /\ Finds(Classify(mem, call).necessity = "proven_necessary", reverse)
      BY ClassifyMeans, Zenon
    <2>2. Finds(VerifyChain(mem, chain(<<>>, "sufficient", "all")).valid, forward)
      <3>1. "sufficient" # "equivalent"
        OBVIOUS
      <3>2. LET truth == forward /\ ("sufficient" = "equivalent" => reverse)
            IN  Finds(VerifyChain(mem, chain(<<>>, "sufficient", "all")).valid, truth)
        BY VerifyMeans, Zenon
      <3>. QED
        BY <3>1, <3>2, Zenon DEF Finds
    <2>3. Finds(VerifyChain(mem, chain(<<>>, "equivalent", "shortest")).valid, forward /\ reverse)
      <3>1. LET truth == forward /\ ("equivalent" = "equivalent" => reverse)
            IN  Finds(VerifyChain(mem, chain(<<>>, "equivalent", "shortest")).valid, truth)
        BY VerifyMeans, Zenon
      <3>. QED
        BY <3>1, Zenon DEF Finds
    <2>4. ASSUME NEW m \in Names,
                 VerifyChain(mem, chain(<<s, m, t>>, "any", "shortest")).reachable
          PROVE  forward
      BY <2>4, ExplicitChainMeans, Zenon
    <2>. QED
      BY <2>1, <2>2, <2>3, <2>4, Zenon
  <1>. QED
    BY <1>1, GraphInvariant, PTL

(***************************************************************************)
(* Counterfactuals                                                         *)
(***************************************************************************)
LEMMA CausesFacts ==
  ASSUME NEW rels \in Seq(RelationRecord), NEW t
  PROVE  /\ SufficientCauses(rels, t) \subseteq Propositions(rels)
         /\ \A other : ToSet(other) = ToSet(rels) =>
                SufficientCauses(other, t) = SufficientCauses(rels, t)
  <1>1. ASSUME NEW x \in SufficientCauses(rels, t) PROVE x \in Propositions(rels)
    <2>1. PICK r \in ToSet(rels) : \E i \in Implications(r) : x = i[1]
      BY DEF SufficientCauses
    <2>2. r \in RelationRecord
      BY RecordsOf
    <2>3. PICK i \in Implications(r) : x = i[1]
      BY <2>1
    <2>4. i \in {<<Source(r), Target(r)>>, <<Target(r), Source(r)>>}
      BY <2>2, ImplicationFacts
    <2>. QED
      BY <2>3, <2>4 DEF Propositions
  <1>. QED
    BY <1>1 DEF SufficientCauses

\* What the open world answers of t when n is assumed false.
LEMMA OpenWorldMeans ==
  ASSUME GraphInv, NEW cf \in Views, NEW n \in Names, NEW t \in Names, NEW c,
         c.s = n, c.cf = cf, c.q = Best
  PROVE  LET rels == Compatible(mem.rels, cf)
             answer == OpenWorld(mem, Edges(rels), rels, c, t)
             needs == t = n \/ Entails(Seen(cf), Names, t, n)
             brings == Entails(Seen(cf), Names, n, t)
         IN  /\ answer \in {"necessarily_blocked", "possibly_blocked", "still_possible", "unknown"}
             /\ answer = "necessarily_blocked" => needs
             /\ answer \in {"possibly_blocked", "still_possible"} =>
                    (NoDeeper => ~needs) /\ brings
             /\ answer = "unknown" => (NoDeeper => ~needs /\ ~brings)
  <1>. DEFINE rels == Compatible(mem.rels, cf)
              edges == Edges(rels)
              answer == OpenWorld(mem, edges, rels, c, t)
              q == [ByConfidence(Best) EXCEPT !.direct = FALSE]
              spared == \E p \in AvoidingPaths(edges, t, n, q) :
                            PathIndependent(mem, edges, rels, p, n, cf)
              needs == t = n \/ Reaches(edges, t, n, q)
              brings == Reaches(edges, n, t, q)
  <1>1. /\ Reaches(edges, t, n, q) => Entails(Seen(cf), Names, t, n)
        /\ NoDeeper /\ Entails(Seen(cf), Names, t, n) => Reaches(edges, t, n, q)
        /\ Reaches(edges, n, t, q) => Entails(Seen(cf), Names, n, t)
        /\ NoDeeper /\ Entails(Seen(cf), Names, n, t) => Reaches(edges, n, t, q)
    <2>1. IsThorough(q)
      BY ThoroughSearches
    <2>. HIDE DEF q
    <2>. QED
      BY <2>1, SearchMeans
  <1>2. answer = CASE needs                        -> "necessarily_blocked"
                   [] ~needs /\ ~brings            -> "unknown"
                   [] ~needs /\ brings /\ spared   -> "still_possible"
                   [] ~needs /\ brings /\ ~spared  -> "possibly_blocked"
    BY Zenon DEF OpenWorld
  <1>. HIDE DEF answer, spared
  <1>3. CASE needs
    <2>1. answer = "necessarily_blocked"
      BY <1>2, <1>3, Zenon
    <2>2. t = n \/ Entails(Seen(cf), Names, t, n)
      BY <1>1, <1>3, Zenon
    <2>. QED
      BY <2>1, <2>2 DEF answer
  <1>4. CASE ~needs /\ ~brings
    <2>1. answer = "unknown"
      BY <1>2, <1>4, Zenon
    <2>2. NoDeeper => /\ ~(t = n \/ Entails(Seen(cf), Names, t, n))
                      /\ ~Entails(Seen(cf), Names, n, t)
      BY <1>1, <1>4, Zenon
    <2>. QED
      BY <2>1, <2>2 DEF answer
  <1>5. CASE ~needs /\ brings
    <2>1. answer \in {"still_possible", "possibly_blocked"}
      <3>1. CASE spared
        <4>1. answer = "still_possible"
          BY <1>2, <1>5, <3>1, Zenon
        <4>. QED
          BY <4>1
      <3>2. CASE ~spared
        <4>1. answer = "possibly_blocked"
          BY <1>2, <1>5, <3>2, Zenon
        <4>. QED
          BY <4>1
      <3>. QED
        BY <3>1, <3>2
    <2>2. /\ NoDeeper => ~(t = n \/ Entails(Seen(cf), Names, t, n))
          /\ Entails(Seen(cf), Names, n, t)
      BY <1>1, <1>5, Zenon
    <2>. QED
      BY <2>1, <2>2 DEF answer
  <1>. QED
    BY <1>3, <1>4, <1>5

\* When every cause of t needs n, no complete world has t without n.
LEMMA BlockedCauses ==
  ASSUME GraphInv, NEW cf \in Views, NEW n \in Names, NEW t \in Names, NEW q, IsThorough(q),
         AllCausesBlocked(Edges(Compatible(mem.rels, cf)), Compatible(mem.rels, cf), n, t, q),
         NEW W \in CompleteWorlds(Seen(cf), Names), t \in W
  PROVE  n \in W
  <1>. DEFINE rels == Compatible(mem.rels, cf)
  <1>1. rels \in Seq(RelationRecord) /\ ToSet(rels) = ToSet(Seen(cf))
        /\ Propositions(rels) \subseteq Names
    BY SeenFacts
  <1>. HIDE DEF rels
  <1>2. /\ SufficientCauses(rels, t) # {}
        /\ \A x \in SufficientCauses(rels, t) : x = n \/ Reaches(Edges(rels), x, n, q)
    BY DEF AllCausesBlocked, rels
  <1>3. /\ SufficientCauses(Seen(cf), t) = SufficientCauses(rels, t)
        /\ SufficientCauses(rels, t) \subseteq Names
    BY <1>1, CausesFacts
  <1>4. PICK x \in SufficientCauses(rels, t) : x \in W
    BY <1>2, <1>3 DEF CompleteWorlds
  <1>5. W \in Worlds(Seen(cf), Names)
    BY DEF CompleteWorlds
  <1>6. CASE x = n
    BY <1>4, <1>6
  <1>7. CASE Reaches(Edges(rels), x, n, q)
    <2>1. Entails(Seen(cf), Names, x, n)
      BY <1>3, <1>7, SearchMeans DEF rels
    <2>. QED
      BY <1>4, <1>5, <2>1 DEF Entails
  <1>. QED
    BY <1>2, <1>6, <1>7

\* What a counterfactual answers of one target.
CounterfactualMeans(category, cf, n, t, complete) ==
    LET worlds == Worlds(Seen(cf), Names)
    IN  CASE category = "necessarily_blocked" ->
                ~\E W \in complete : t \in W /\ n \notin W
          [] category \in {"possibly_blocked", "still_possible"} ->
                /\ NoDeeper => \E W \in worlds : t \in W /\ n \notin W
                /\ ~\E W \in worlds : t \notin W /\ n \in W
          [] category = "unknown" ->
                NoDeeper =>
                    /\ \E W \in worlds : t \in W /\ n \notin W
                    /\ \E W \in worlds : t \notin W /\ n \in W

CompleteOf(cf, world) ==
    IF world = "closed" /\ CompletenessDeclared(mem, cf)
    THEN CompleteWorlds(Seen(cf), Names) ELSE Worlds(Seen(cf), Names)

LEMMA CounterfactualAnswers ==
  ASSUME GraphInv, NEW cf \in Views, NEW n \in Names, NEW world \in {"open", "closed"}, NEW c,
         c = [s |-> n, cf |-> cf, q |-> Best, targets |-> {}, world |-> world],
         NEW t \in DOMAIN Counterfactual(mem, c)
  PROVE  CounterfactualMeans(Counterfactual(mem, c)[t], cf, n, t, CompleteOf(cf, world))
  <1>. DEFINE rels == Compatible(mem.rels, cf)
              edges == Edges(rels)
              q == [ByConfidence(Best) EXCEPT !.direct = FALSE]
              targets == Nodes(edges) \ {n}
              upgrade(u) == /\ world = "closed" /\ CompletenessDeclared(mem, cf)
                            /\ AllCausesBlocked(edges, rels, n, u, q)
              open == [u \in targets |-> OpenWorld(mem, edges, rels, c, u)]
              answer == [u \in targets |-> IF open[u] = "possibly_blocked" /\ upgrade(u)
                                           THEN "necessarily_blocked" ELSE open[u]]
              worlds == Worlds(Seen(cf), Names)
              entails(x, y) == Entails(Seen(cf), Names, x, y)
  <1>1. c.s = n /\ c.cf = cf /\ c.q = Best /\ c.targets = {} /\ c.world = world
    OBVIOUS
  <1>2. Counterfactual(mem, c) = answer
    BY <1>1, Zenon DEF Counterfactual
  <1>3. t \in targets
    BY <1>2
  <1>4. t \in Names /\ t # n
    BY <1>3, SeenFacts, PropositionsFacts
  <1>5. answer[t] = IF open[t] = "possibly_blocked" /\ upgrade(t)
                    THEN "necessarily_blocked" ELSE open[t]
    BY <1>3, Zenon
  <1>6. open[t] = OpenWorld(mem, edges, rels, c, t)
    BY <1>3, Zenon
  <1>. HIDE DEF answer, open, targets
  <1>7. /\ open[t] \in {"necessarily_blocked", "possibly_blocked", "still_possible", "unknown"}
        /\ open[t] = "necessarily_blocked" => entails(t, n)
        /\ open[t] \in {"possibly_blocked", "still_possible"} =>
                (NoDeeper => ~entails(t, n)) /\ entails(n, t)
        /\ open[t] = "unknown" => (NoDeeper => ~entails(t, n) /\ ~entails(n, t))
    <2>. HIDE DEF open
    <2>. QED
      BY <1>1, <1>4, <1>6, OpenWorldMeans
  <1>8. ASSUME NEW x, NEW y
        PROVE  entails(x, y) <=> ~\E W \in worlds : x \in W /\ y \notin W
    BY DEF Entails
  <1>. HIDE DEF worlds, entails
  <1>9. CompleteOf(cf, world) \subseteq worlds
    BY DEF CompleteOf, CompleteWorlds, worlds
  <1>10. CASE open[t] = "possibly_blocked" /\ upgrade(t)
    <2>1. answer[t] = "necessarily_blocked"
      BY <1>5, <1>10
    <2>2. CompleteOf(cf, world) = CompleteWorlds(Seen(cf), Names)
      BY <1>10, Zenon DEF CompleteOf
    <2>3. ~\E W \in CompleteOf(cf, world) : t \in W /\ n \notin W
      <3>1. IsThorough(q)
        BY ThoroughSearches
      <3>2. AllCausesBlocked(edges, rels, n, t, q)
        BY <1>10, Zenon
      <3>. HIDE DEF q
      <3>. QED
        BY <1>4, <2>2, <3>1, <3>2, BlockedCauses
    <2>. QED
      BY <1>2, <2>1, <2>3, Zenon DEF CounterfactualMeans
  <1>11. CASE ~(open[t] = "possibly_blocked" /\ upgrade(t))
    <2>1. answer[t] = open[t]
      BY <1>5, <1>11, Zenon
    <2>. HIDE DEF upgrade
    <2>2. CASE open[t] = "necessarily_blocked"
      <3>1. ~\E W \in CompleteOf(cf, world) : t \in W /\ n \notin W
        BY <1>7, <1>8, <1>9, <2>2
      <3>. QED
        BY <1>2, <2>1, <2>2, <3>1, Zenon DEF CounterfactualMeans
    <2>3. CASE open[t] \in {"possibly_blocked", "still_possible"}
      <3>1. /\ NoDeeper => \E W \in worlds : t \in W /\ n \notin W
            /\ ~\E W \in worlds : t \notin W /\ n \in W
        BY <1>7, <1>8, <2>3
      <3>2. open[t] # "necessarily_blocked"
        BY <2>3
      <3>. QED
        BY <1>2, <2>1, <2>3, <3>1, <3>2, Zenon DEF CounterfactualMeans, worlds
    <2>4. CASE open[t] = "unknown"
      <3>1. NoDeeper => /\ \E W \in worlds : t \in W /\ n \notin W
                        /\ \E W \in worlds : t \notin W /\ n \in W
        BY <1>7, <1>8, <2>4
      <3>2. open[t] # "necessarily_blocked" /\ open[t] \notin {"possibly_blocked", "still_possible"}
        BY <2>4
      <3>. QED
        BY <1>2, <2>1, <2>4, <3>1, <3>2, Zenon DEF CounterfactualMeans, worlds
    <2>. QED
      BY <1>7, <2>2, <2>3, <2>4
  <1>. QED
    BY <1>10, <1>11

\* Counterfactuals are sound, whatever calls made the graph.
THEOREM CounterfactualsAreSound == Spec => []CounterfactualSound
  <1>1. GraphInv => CounterfactualSound
    <2>. SUFFICES ASSUME GraphInv, NEW cf \in Views, NEW n \in Names,
                         NEW world \in {"open", "closed"}
                  PROVE  LET answer == Counterfactual(mem, [s |-> n, cf |-> cf, q |-> Best,
                                                    targets |-> {}, world |-> world])
                         IN  \A t \in DOMAIN answer :
                                CounterfactualMeans(answer[t], cf, n, t, CompleteOf(cf, world))
      BY Zenon DEF CounterfactualSound, CounterfactualMeans, CompleteOf
    <2>. QED
      BY CounterfactualAnswers, Zenon
  <1>. QED
    BY <1>1, GraphInvariant, PTL

(***************************************************************************)
(* Contradictions                                                          *)
(***************************************************************************)
LEMMA WithinFacts ==
  ASSUME GraphInv, NEW store, NEW ctx, NEW at
  PROVE  /\ Within(store, ctx, at) \in Seq(RelationRecord)
         /\ ToSet(Within(store, ctx, at)) =
                {r \in ToSet(mem.rels) : /\ r.store = store /\ ctx \in {None, r.ctx}
                                         /\ at # 0 => ValidAt(r, at)}
  <1>. DEFINE S == {r \in ToSet(mem.rels) : /\ r.store = store /\ ctx \in {None, r.ctx}
                                            /\ at # 0 => ValidAt(r, at)}
  <1>1. Within(store, ctx, at) = Among(mem.rels, S)
    BY Zenon DEF Within
  <1>2. S \subseteq ToSet(mem.rels)
    OBVIOUS
  <1>. HIDE DEF S
  <1>3. Among(mem.rels, S) \in Seq(RelationRecord) /\ ToSet(Among(mem.rels, S)) = ToSet(mem.rels) \cap S
    BY NamesFacts, AmongFacts
  <1>4. Within(store, ctx, at) \in Seq(RelationRecord) /\ ToSet(Within(store, ctx, at)) = S
    BY <1>1, <1>2, <1>3
  <1>. QED
    BY <1>4 DEF S

LEMMA RealContradiction ==
  ASSUME GraphInv, NEW x, IsReal(mem.rels, x)
  PROVE  \E at \in ({r.from : r \in ToSet(mem.rels)} \ {Always}) \cup {1} :
            \A t \in x.targets : Entails(Within(x.store, x.ctx, at), Names, x.source, t)
  <1>1. PICK at \in Instants(mem.rels) :
            \A now \in Seq(RelationRecord) :
                {r \in Valid(mem.rels, at) : r.store = x.store /\ x.ctx \in {None, r.ctx}}
                    \subseteq ToSet(now)
                => \A t \in x.targets : \A N : Entails(now, N, x.source, t)
    BY DEF IsReal
  <1>. DEFINE now == Within(x.store, x.ctx, at)
  <1>2. now \in Seq(RelationRecord)
    BY WithinFacts
  <1>3. {r \in Valid(mem.rels, at) : r.store = x.store /\ x.ctx \in {None, r.ctx}} \subseteq ToSet(now)
    BY WithinFacts DEF Valid
  <1>. HIDE DEF now
  <1>4. \A t \in x.targets : Entails(now, Names, x.source, t)
    BY <1>1, <1>2, <1>3
  <1>. QED
    BY <1>4 DEF now, Instants

LEMMA FoundContradiction ==
  ASSUME GraphInv, NoDeeper, \A r \in ToSet(mem.rels) : r.from = Always /\ r.to = Forever,
         NEW g \in ToSet(mem.groups), NEW scoped,
         scoped = Within(g.store, IF g.glob THEN None ELSE g.ctx, 0),
         NEW s \in Nodes(Edges(scoped)), NEW implied,
         implied = {m \in g.members : Entails(scoped, Names \cup g.members, s, m)},
         Cardinality(implied) >= 2, NEW soft \in BOOLEAN
  PROVE  IsReported(FindContradictions(mem.rels, mem.groups, mem.props, NoFilter, soft, HardChecks),
                    s, implied)
  <1>1. /\ mem.rels \in Seq(RelationRecord) /\ mem.groups \in Seq(ExclusiveGroupRecord)
        /\ Names = Propositions(mem.rels)
    BY NamesFacts
  <1>2. g \in ExclusiveGroupRecord
    BY <1>1, RecordsOf
  <1>3. scoped \in Seq(RelationRecord)
    BY WithinFacts
  <1>4. ToSet(scoped) = {r \in ToSet(mem.rels) : r.store = g.store /\ (g.glob \/ r.ctx = g.ctx)}
    <2>1. g.glob \in BOOLEAN /\ g.ctx # None
      BY <1>2 DEF ExclusiveGroupRecord, Name
    <2>2. CASE g.glob
      <3>1. scoped = Within(g.store, None, 0)
        BY <2>2
      <3>. QED
        BY <2>2, <3>1, WithinFacts
    <2>3. CASE ~g.glob
      <3>1. scoped = Within(g.store, g.ctx, 0)
        BY <2>3
      <3>. QED
        BY <2>1, <2>3, <3>1, WithinFacts
    <2>. QED
      BY <2>1, <2>2, <2>3
  <1>5. ASSUME NEW m \in implied PROVE Entails(scoped, Propositions(mem.rels), s, m)
    <2>1. Names \subseteq Names \cup g.members
      OBVIOUS
    <2>2. Entails(scoped, Names \cup g.members, s, m)
      OBVIOUS
    <2>. QED
      BY <1>1, <2>1, <2>2, FewerPropositions
  <1>6. \A r, o \in ToSet(mem.rels) : r.from <= o.to
    BY DEF Always, Forever
  <1>7. HardChecks \in SearchRecord /\ HardChecks.floor = NoConfidence /\ HardChecks.depth = Best.depth
    BY ThoroughSearches DEF IsThorough
  <1>8. Cardinality(Propositions(mem.rels)) <= HardChecks.depth + 1
    BY <1>1, <1>7 DEF NoDeeper
  <1>9. ImpliesSeveral(mem.rels, g, scoped, s, implied, HardChecks)
    <2>. HIDE DEF HardChecks
    <2>. QED
      BY <1>3, <1>4, <1>5, <1>6, <1>7, <1>8 DEF ImpliesSeveral
  <1>. HIDE DEF HardChecks
  <1>. QED
    BY <1>1, <1>9, GroupContradictionsFound

\* What the hard checks report is there and, without time limits and as deep
\* as they look, what is there they report, whatever calls made the graph.
THEOREM ContradictionsAreExact == Spec => []ContradictionsExact
  <1>. DEFINE found == FindContradictions(mem.rels, mem.groups, mem.props, NoFilter, TRUE,
                                          HardChecks)
  <1>1. GraphInv => ContradictionsReal
    <2>. SUFFICES ASSUME GraphInv, NEW x \in found, x.severity = "hard"
                  PROVE  \E at \in ({r.from : r \in ToSet(mem.rels)} \ {Always}) \cup {1} :
                            \A t \in x.targets :
                                Entails(Within(x.store, x.ctx, at), Names, x.source, t)
      BY Zenon DEF ContradictionsReal
    <2>1. mem.rels \in Seq(RelationRecord) /\ mem.groups \in Seq(ExclusiveGroupRecord)
      BY NamesFacts
    <2>2. HardChecks \in SearchRecord /\ TRUE \in BOOLEAN
      BY ThoroughSearches DEF IsThorough
    <2>3. IsReal(mem.rels, x)
      BY <2>1, <2>2, HardContradictionsReal
    <2>. QED
      BY <2>3, RealContradiction
  <1>2. GraphInv => ContradictionsFound
    <2>. SUFFICES ASSUME GraphInv, NoDeeper,
                         \A r \in ToSet(mem.rels) : r.from = Always /\ r.to = Forever,
                         NEW g \in ToSet(mem.groups), NEW s \in Names
                  PROVE  LET scoped == Within(g.store, IF g.glob THEN None ELSE g.ctx, 0)
                             implied == {m \in g.members :
                                            Entails(scoped, Names \cup g.members, s, m)}
                         IN  Cardinality(implied) >= 2 /\ s \in Nodes(Edges(scoped)) =>
                                \E x \in found : /\ x.severity = "hard" /\ x.source = s
                                                 /\ implied \subseteq x.targets
      BY Zenon DEF ContradictionsFound
    <2>. DEFINE scoped == Within(g.store, IF g.glob THEN None ELSE g.ctx, 0)
                implied == {m \in g.members : Entails(scoped, Names \cup g.members, s, m)}
    <2>1. ASSUME Cardinality(implied) >= 2, s \in Nodes(Edges(scoped))
          PROVE  \E x \in found : /\ x.severity = "hard" /\ x.source = s
                                  /\ implied \subseteq x.targets
      <3>1. PICK scope : scope = scoped
        OBVIOUS
      <3>2. PICK many : many = implied
        OBVIOUS
      <3>3. many = {m \in g.members : Entails(scope, Names \cup g.members, s, m)}
        BY <3>1, <3>2
      <3>4. Cardinality(many) >= 2 /\ s \in Nodes(Edges(scope))
        BY <2>1, <3>1, <3>2, Zenon
      <3>5. \E x \in found : x.severity = "hard" /\ x.source = s /\ many \subseteq x.targets
        <4>1. PICK soft \in BOOLEAN : soft = TRUE
          OBVIOUS
        <4>2. PICK reports : reports = FindContradictions(mem.rels, mem.groups, mem.props, NoFilter,
                                                          soft, HardChecks)
          OBVIOUS
        <4>3. found = reports
          BY <4>1, <4>2, Zenon
        <4>. HIDE DEF found
        <4>4. IsReported(reports, s, many)
          BY <3>1, <3>3, <3>4, <4>2, FoundContradiction
        <4>. QED
          BY <4>3, <4>4, Zenon DEF IsReported
      <3>. QED
        BY <3>2, <3>5, Zenon
    <2>. QED
      BY <2>1, Zenon
  <1>. QED
    BY <1>1, <1>2, GraphInvariant, PTL DEF ContradictionsExact
=============================================================================
