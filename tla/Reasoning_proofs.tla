--------------------------- MODULE Reasoning_proofs ---------------------------
(***************************************************************************)
(* Proofs about the reasoning tools, for every list of relations.          *)
(*                                                                         *)
(* The edges of the graph are the implications of the relations; the       *)
(* search finds the chains of edges and, as far as max_depth allows, all   *)
(* that matter; and a chain is what makes one proposition entail another,  *)
(* since the propositions that the chains reach are a world.               *)
(***************************************************************************)
EXTENDS ReasoningTools, ListFacts

(***************************************************************************)
(* Sets and lists                                                          *)
(***************************************************************************)
LEMMA MinIsMember ==
  ASSUME NEW T \in SUBSET Nat, T # {}
  PROVE  Min(T) \in T /\ \A n \in T : Min(T) <= n
  <1>1. \E x \in T : \A y \in T : x <= y
    BY LeastNat
  <1>. QED
    BY <1>1 DEF Min

LEMMA ImageFinite ==
  ASSUME NEW S, IsFiniteSet(S), NEW f
  PROVE  IsFiniteSet({f[x] : x \in S})
  <1>. DEFINE T == {f[x] : x \in S}
              g == [x \in S |-> f[x]]
  <1>1. g \in Surjection(S, T)
    BY DEF Surjection
  <1>. QED
    BY <1>1, FS_Surjection

\* A list without repeats is as long as it has elements.
LEMMA NoRepeatsLength ==
  ASSUME NEW V, NEW s \in Seq(V), NoRepeats(s)
  PROVE  IsFiniteSet(ToSet(s)) /\ Cardinality(ToSet(s)) = Len(s)
  <1>1. s \in Bijection(1..Len(s), ToSet(s))
    <2>1. s \in [1..Len(s) -> ToSet(s)]
      BY DEF ToSet
    <2>2. \A x \in ToSet(s) : \E i \in 1..Len(s) : s[i] = x
      BY DEF ToSet
    <2>3. \A i, j \in 1..Len(s) : s[i] = s[j] => i = j
      BY DEF NoRepeats
    <2>. QED
      BY <2>1, <2>2, <2>3 DEF Bijection, Injection, Surjection, IsInjective
  <1>2. ExistsBijection(1..Len(s), ToSet(s))
    BY <1>1 DEF ExistsBijection
  <1>. QED
    BY <1>2, FS_CountingElements, ToSetFinite

\* Two elements make a pair.
LEMMA TwoElements ==
  ASSUME NEW S, IsFiniteSet(S)
  PROVE  Cardinality(S) >= 2 <=> \E x, y \in S : x # y
  <1>0. Cardinality(S) \in Nat
    BY FS_CardinalityType
  <1>1. ASSUME NEW x \in S, NEW y \in S, x # y PROVE Cardinality(S) >= 2
    <2>1. Cardinality(S) # 0
      BY FS_EmptySet
    <2>2. Cardinality(S) # 1
      BY <1>1, FS_Singleton
    <2>. QED
      BY <1>0, <2>1, <2>2
  <1>2. ASSUME Cardinality(S) >= 2 PROVE \E x, y \in S : x # y
    <2>1. S # {}
      BY <1>2, FS_EmptySet
    <2>2. PICK x \in S : TRUE
      BY <2>1
    <2>3. S # {x}
      BY <1>2, FS_Singleton
    <2>. QED
      BY <2>2, <2>3
  <1>. QED
    BY <1>1, <1>2

(***************************************************************************)
(* The edges of the graph                                                  *)
(***************************************************************************)
Edge == [ante : Name, cons : Name, rel : Name, cost : 0..NoConfidence, from : Nat,
         to : Nat \ {Always}, at : Nat]

LEMMA ImplicationFacts ==
  ASSUME NEW r \in RelationRecord
  PROVE  /\ Source(r) \in Name /\ Target(r) \in Name
         /\ Implications(r) \subseteq {<<Source(r), Target(r)>>, <<Target(r), Source(r)>>}
  <1>1. Source(r) \in Name /\ Target(r) \in Name
    BY DEF Source, Target, RelationRecord, NameOrNone, Name
  <1>. QED
    BY <1>1 DEF Implications

\* The edge e stands for an implication of the relation r.
StandsFor(e, r) ==
    <<e.ante, e.cons>> \in Implications(r) /\ e.from = r.from /\ e.to = r.to

EdgesMatch(edges, rels) ==
    /\ edges \in SUBSET Edge /\ IsFiniteSet(edges)
    /\ \A e \in edges : \E r \in ToSet(rels) : StandsFor(e, r)
    /\ \A r \in ToSet(rels) : \A x \in Implications(r) : HasEdge(edges, x[1], x[2])

LEMMA EdgesFacts ==
  ASSUME NEW rels \in Seq(RelationRecord)
  PROVE  EdgesMatch(Edges(rels), rels)
  <1>. DEFINE n == Len(rels)
              same(i, x) == {k \in DOMAIN rels : /\ rels[k].id = rels[i].id
                                                  /\ x \in Implications(rels[k])
                                                  /\ Suffix(rels[k], x) = Suffix(rels[i], x)}
              all == UNION {{i} \X Implications(rels[i]) : i \in DOMAIN rels}
              last == {x \in all : x[1] = Max(same(x[1], x[2]))}
              E(x) == [ante |-> x[2][1], cons |-> x[2][2], rel |-> rels[x[1]].id,
                       cost |-> rels[x[1]].cost, from |-> rels[x[1]].from,
                       to |-> rels[x[1]].to, at |-> Min(same(x[1], x[2]))]
  <1>1. Edges(rels) = {E(x) : x \in last}
    BY Zenon DEF Edges
  <1>2. \A i \in 1..n : rels[i] \in RelationRecord /\ DOMAIN rels = 1..n /\ n \in Nat
    OBVIOUS
  <1>3. \A x : x \in all <=> \E i \in 1..n : \E y \in Implications(rels[i]) : x = <<i, y>>
    BY <1>2
  <1>4. \A i \in 1..n : \A y \in Implications(rels[i]) :
            /\ same(i, y) \in SUBSET (1..n) /\ i \in same(i, y)
            /\ Max(same(i, y)) \in same(i, y) /\ Min(same(i, y)) \in Nat
    <2>1. SUFFICES ASSUME NEW i \in 1..n, NEW y \in Implications(rels[i])
                   PROVE  /\ same(i, y) \in SUBSET (1..n) /\ i \in same(i, y)
                          /\ Max(same(i, y)) \in same(i, y) /\ Min(same(i, y)) \in Nat
      OBVIOUS
    <2>2. same(i, y) \in SUBSET (1..n) /\ i \in same(i, y)
      BY <1>2
    <2>. HIDE DEF same
    <2>3. same(i, y) \in SUBSET Nat /\ same(i, y) # {}
      BY <2>2
    <2>4. Max(same(i, y)) \in same(i, y)
      BY <1>2, <2>2, MaxIsMember
    <2>5. Min(same(i, y)) \in Nat
      BY <2>3, MinIsMember
    <2>. QED
      BY <2>2, <2>4, <2>5
  <1>5. \A x \in last : E(x) \in Edge /\ StandsFor(E(x), rels[x[1]]) /\ rels[x[1]] \in ToSet(rels)
    <2>1. SUFFICES ASSUME NEW i \in 1..n, NEW y \in Implications(rels[i]), NEW x, x = <<i, y>>
                   PROVE  E(x) \in Edge /\ StandsFor(E(x), rels[x[1]]) /\ rels[x[1]] \in ToSet(rels)
      BY <1>3
    <2>2. rels[i] \in RelationRecord /\ x[1] = i /\ x[2] = y
      BY <1>2, <2>1
    <2>3. y = <<y[1], y[2]>> /\ y[1] \in Name /\ y[2] \in Name
      BY <2>2, ImplicationFacts
    <2>4. Min(same(x[1], x[2])) \in Nat
      BY <1>4, <2>1, <2>2
    <2>. HIDE DEF same
    <2>5. PICK at \in Nat : at = Min(same(x[1], x[2]))
      BY <2>4
    <2>6. E(x) = [ante |-> y[1], cons |-> y[2], rel |-> rels[i].id, cost |-> rels[i].cost,
                  from |-> rels[i].from, to |-> rels[i].to, at |-> at]
      BY <2>2, <2>5
    <2>. HIDE DEF E
    <2>7. E(x) \in Edge
      BY <2>2, <2>3, <2>6 DEF Edge, RelationRecord
    <2>8. StandsFor(E(x), rels[i])
      BY <2>3, <2>6 DEF StandsFor
    <2>. QED
      BY <1>2, <2>2, <2>7, <2>8 DEF ToSet
  <1>6. IsFiniteSet(last)
    <2>. DEFINE f == [i \in 1..n |-> <<i, <<Source(rels[i]), Target(rels[i])>>>>]
                b == [i \in 1..n |-> <<i, <<Target(rels[i]), Source(rels[i])>>>>]
    <2>1. IsFiniteSet(1..n)
      BY FS_Interval
    <2>2. IsFiniteSet({f[i] : i \in 1..n}) /\ IsFiniteSet({b[i] : i \in 1..n})
      <3>. HIDE DEF f, b
      <3>. QED
        BY <2>1, ImageFinite
    <2>3. IsFiniteSet({f[i] : i \in 1..n} \cup {b[i] : i \in 1..n})
      BY <2>2, FS_Union
    <2>4. last \subseteq {f[i] : i \in 1..n} \cup {b[i] : i \in 1..n}
      <3>1. SUFFICES ASSUME NEW i \in 1..n, NEW y \in Implications(rels[i])
                     PROVE  <<i, y>> \in {f[k] : k \in 1..n} \cup {b[k] : k \in 1..n}
        BY <1>3
      <3>2. y = <<Source(rels[i]), Target(rels[i])>> \/ y = <<Target(rels[i]), Source(rels[i])>>
        BY <1>2, ImplicationFacts
      <3>. QED
        BY <3>2
    <2>. QED
      BY <2>3, <2>4, FS_Subset
  <1>7. \A i \in 1..n : \A y \in Implications(rels[i]) : \E x \in last : x[2] = y
    <2>1. SUFFICES ASSUME NEW i \in 1..n, NEW y \in Implications(rels[i])
                   PROVE  \E x \in last : x[2] = y
      OBVIOUS
    <2>2. PICK k : k = Max(same(i, y))
      OBVIOUS
    <2>3. k \in 1..n /\ rels[k].id = rels[i].id /\ y \in Implications(rels[k])
            /\ Suffix(rels[k], y) = Suffix(rels[i], y)
      BY <1>2, <1>4, <2>2
    <2>4. same(k, y) = same(i, y)
      BY <2>3
    <2>5. <<k, y>> \in all
      BY <1>3, <2>3
    <2>6. <<k, y>>[1] = k /\ <<k, y>>[2] = y
      OBVIOUS
    <2>. HIDE DEF same, all
    <2>7. <<k, y>> \in last
      BY <2>2, <2>4, <2>5, <2>6
    <2>. QED
      BY <2>6, <2>7
  <1>. HIDE DEF last, E, same, all
  <1>8. Edges(rels) \in SUBSET Edge
    BY <1>1, <1>5
  <1>9. IsFiniteSet(Edges(rels))
    <2>. DEFINE f == [x \in last |-> E(x)]
    <2>1. Edges(rels) = {f[x] : x \in last}
      BY <1>1
    <2>. HIDE DEF f
    <2>2. IsFiniteSet({f[x] : x \in last})
      BY <1>6, ImageFinite
    <2>. QED
      BY <2>1, <2>2, Zenon
  <1>10. \A e \in Edges(rels) : \E r \in ToSet(rels) : StandsFor(e, r)
    BY <1>1, <1>5
  <1>11. \A r \in ToSet(rels) : \A y \in Implications(r) : HasEdge(Edges(rels), y[1], y[2])
    <2>1. SUFFICES ASSUME NEW i \in 1..n, NEW y \in Implications(rels[i])
                   PROVE  HasEdge(Edges(rels), y[1], y[2])
      BY <1>2 DEF ToSet
    <2>2. PICK x \in last : x[2] = y
      BY <1>7
    <2>3. E(x) \in Edges(rels) /\ E(x).ante = y[1] /\ E(x).cons = y[2]
      BY <1>1, <2>2 DEF E
    <2>. QED
      BY <2>3 DEF HasEdge
  <1>. QED
    BY <1>8, <1>9, <1>10, <1>11 DEF EdgesMatch

LEMMA NodesFacts ==
  ASSUME NEW edges \in SUBSET Edge, IsFiniteSet(edges)
  PROVE  /\ IsFiniteSet(Nodes(edges)) /\ Nodes(edges) \in SUBSET Name
         /\ Cardinality(Nodes(edges)) \in Nat
         /\ \A a, c : HasEdge(edges, a, c) => a \in Nodes(edges) /\ c \in Nodes(edges)
  <1>. DEFINE f == [e \in edges |-> e.ante]
              g == [e \in edges |-> e.cons]
  <1>1. {e.ante : e \in edges} = {f[e] : e \in edges}
    OBVIOUS
  <1>2. {e.cons : e \in edges} = {g[e] : e \in edges}
    OBVIOUS
  <1>. HIDE DEF f, g
  <1>3. IsFiniteSet({f[e] : e \in edges}) /\ IsFiniteSet({g[e] : e \in edges})
    BY ImageFinite
  <1>4. IsFiniteSet(Nodes(edges))
    BY <1>1, <1>2, <1>3, FS_Union DEF Nodes
  <1>5. Nodes(edges) \in SUBSET Name
    BY DEF Nodes, Edge
  <1>. QED
    BY <1>4, <1>5, FS_CardinalityType DEF Nodes, HasEdge

LEMMA BestEdgeFacts ==
  ASSUME NEW edges \in SUBSET Edge, NEW a, NEW c, HasEdge(edges, a, c)
  PROVE  /\ BestEdge(edges, a, c) \in edges
         /\ BestEdge(edges, a, c).ante = a /\ BestEdge(edges, a, c).cons = c
  <1>. DEFINE between == {e \in edges : e.ante = a /\ e.cons = c}
              costs == {e.cost : e \in between}
              Least(e) == \A o \in between : e.cost < o.cost \/ (e.cost = o.cost /\ e.at <= o.at)
  <1>1. between # {} /\ \A e \in between : e.cost \in Nat /\ e.at \in Nat
    BY DEF HasEdge, Edge
  <1>2. costs \in SUBSET Nat /\ costs # {}
    BY <1>1
  <1>3. PICK n \in costs : \A m \in costs : n <= m
    BY <1>2, LeastNat
  <1>. DEFINE ats == {e.at : e \in {x \in between : x.cost = n}}
  <1>4. ats \in SUBSET Nat /\ ats # {}
    BY <1>1, <1>3
  <1>5. PICK k \in ats : \A m \in ats : k <= m
    BY <1>4, LeastNat
  <1>6. PICK e \in between : e.cost = n /\ e.at = k
    BY <1>5
  <1>7. Least(e)
    <2>1. ASSUME NEW o \in between PROVE e.cost < o.cost \/ (e.cost = o.cost /\ e.at <= o.at)
      <3>1. n <= o.cost /\ n \in Nat /\ o.cost \in Nat
        BY <1>1, <1>2, <1>3
      <3>2. n = o.cost => k <= o.at
        BY <1>5
      <3>. QED
        BY <1>6, <3>1, <3>2
    <2>. QED
      BY <2>1
  <1>8. BestEdge(edges, a, c) \in between
    <2>. HIDE DEF between, Least
    <2>1. (CHOOSE x \in between : Least(x)) \in between
      BY <1>6, <1>7
    <2>. QED
      BY <2>1, Zenon DEF BestEdge, between, Least
  <1>. QED
    BY <1>8

(***************************************************************************)
(* Chains of edges, and the simple paths from a node                       *)
(***************************************************************************)
IsChain(edges, p) == \A i \in 1..(Len(p) - 1) : HasEdge(edges, p[i], p[i + 1])

Chain(edges) == {p \in Seq(Name) : Len(p) >= 1 /\ IsChain(edges, p)}

\* W holds with an antecedent its consequents.
Closed(W, edges) == \A e \in edges : e.ante \in W => e.cons \in W

LEMMA ChainStays ==
  ASSUME NEW edges, NEW p \in Chain(edges), NEW W, Closed(W, edges), p[1] \in W
  PROVE  Last(p) \in W
  <1>. DEFINE G == {k \in Nat : k + 1 <= Len(p) => p[k + 1] \in W}
  <1>1. Len(p) \in Nat /\ Len(p) >= 1 /\ IsChain(edges, p)
    BY DEF Chain
  <1>2. 0 \in G
    OBVIOUS
  <1>3. ASSUME NEW k \in Nat, k \in G PROVE k + 1 \in G
    <2>. SUFFICES ASSUME k + 2 <= Len(p) PROVE p[k + 2] \in W
      OBVIOUS
    <2>1. HasEdge(edges, p[k + 1], p[k + 2])
      BY <1>1 DEF IsChain
    <2>2. p[k + 1] \in W
      BY <1>3
    <2>. QED
      BY <2>1, <2>2 DEF HasEdge, Closed
  <1>. HIDE DEF G
  <1>4. Len(p) - 1 \in G
    BY <1>1, <1>2, <1>3, InductionOnNat
  <1>. QED
    BY <1>1, <1>4 DEF G, Last

LEMMA PathCostType ==
  ASSUME NEW edges \in SUBSET Edge, NEW p \in Chain(edges)
  PROVE  PathCost(edges, p) \in Nat
  <1>1. PICK n \in Nat : n = Len(p) - 1
    BY DEF Chain
  <1>. DEFINE cost(i) == BestEdge(edges, p[i], p[i + 1]).cost
              step == [i \in 1..n |-> [y \in Nat |-> y + cost(i)]]
              Rec(f) == [i \in 0..n |-> IF i = 0 THEN 0 ELSE f[i - 1] + cost(i)]
              f == CHOOSE g : g = Rec(g)
  <1>2. \A i \in 1..n : cost(i) \in Nat
    <2>1. ASSUME NEW i \in 1..n PROVE cost(i) \in Nat
      <3>1. HasEdge(edges, p[i], p[i + 1])
        BY <1>1 DEF Chain, IsChain
      <3>2. BestEdge(edges, p[i], p[i + 1]) \in Edge
        BY <3>1, BestEdgeFacts
      <3>. QED
        BY <3>2 DEF Edge, NoConfidence
    <2>. QED
      BY <2>1
  <1>. HIDE DEF cost
  <1>3. \A i \in 1..n, y \in Nat : step[i][y] = y + cost(i) /\ step[i][y] \in Nat
    BY <1>2
  <1>. HIDE DEF step
  <1>4. Preserves(step, 1..n, Nat)
    BY <1>3 DEF Preserves
  <1>. HIDE DEF f
  <1>5. PICK g \in [0..n -> Nat] : IsRecursion(g, n, 0, step)
    BY <1>4, RecursionExists
  <1>6. g[0] = 0 /\ \A i \in 1..n : g[i] = g[i - 1] + cost(i)
    <2>1. ASSUME NEW i \in 1..n PROVE g[i] = g[i - 1] + cost(i)
      <3>1. g[i] = step[i][g[i - 1]] /\ g[i - 1] \in Nat
        BY <1>5 DEF IsRecursion
      <3>. QED
        BY <1>3, <3>1
    <2>. QED
      BY <1>5, <2>1 DEF IsRecursion
  <1>7. g = Rec(g)
    <2>. DEFINE v(i) == IF i = 0 THEN 0 ELSE g[i - 1] + cost(i)
    <2>1. \A i \in 0..n : g[i] = v(i)
      BY <1>6
    <2>. HIDE DEF v
    <2>2. g = [i \in 0..n |-> v(i)]
      BY <2>1
    <2>. QED
      BY <2>2 DEF v
  <1>8. f = Rec(f)
    <2>. HIDE DEF Rec
    <2>. QED
      BY <1>7 DEF f
  <1>. DEFINE G == {k \in Nat : k <= n => f[k] \in Nat}
  <1>9. 0 \in G
    BY <1>8
  <1>10. ASSUME NEW k \in Nat, k \in G PROVE k + 1 \in G
    <2>. SUFFICES ASSUME k + 1 <= n PROVE f[k + 1] \in Nat
      OBVIOUS
    <2>1. k + 1 \in 1..n /\ k + 1 \in 0..n /\ k + 1 # 0 /\ (k + 1) - 1 = k
      OBVIOUS
    <2>2. f[k] \in Nat
      BY <1>10
    <2>3. f[k + 1] = f[(k + 1) - 1] + cost(k + 1)
      BY <1>8, <2>1
    <2>. QED
      BY <1>2, <2>1, <2>2, <2>3
  <1>. HIDE DEF G
  <1>11. n \in G
    BY <1>9, <1>10, InductionOnNat
  <1>12. PathCost(edges, p) = f[n]
    BY <1>1, Zenon DEF PathCost, f, cost
  <1>. QED
    BY <1>11, <1>12 DEF G

\* The paths that are one edge longer.
Longer(edges, P) ==
    UNION {{Append(p, e.cons) : e \in {x \in edges :
                x.ante = Last(p) /\ x.cons \notin ToSet(p)}} : p \in P}

IsLevels(f, edges, s) ==
    /\ f[0] = {<<s>>}
    /\ \A k \in 1..Cardinality(Nodes(edges)) : f[k] = Longer(edges, f[k - 1])

LEMMA LongerPaths ==
  ASSUME NEW edges, NEW P, NEW o
  PROVE  o \in Longer(edges, P) <=>
            \E p \in P : \E e \in edges : /\ e.ante = Last(p) /\ e.cons \notin ToSet(p)
                                          /\ o = Append(p, e.cons)
  BY DEF Longer

LEMMA LevelsExist ==
  ASSUME NEW edges \in SUBSET Edge, IsFiniteSet(edges), NEW s \in Name
  PROVE  \E f : /\ IsLevels(f, edges, s)
                /\ SimplePaths(edges, s) = UNION {f[k] : k \in 0..Cardinality(Nodes(edges))}
  <1>1. PICK n \in Nat : n = Cardinality(Nodes(edges))
    BY NodesFacts
  <1>. DEFINE Y == SUBSET Seq(Name)
              step == [i \in 1..n |-> [y \in Y |-> Longer(edges, y)]]
              Rec(f) == [k \in 0..n |-> IF k = 0 THEN {<<s>>} ELSE Longer(edges, f[k - 1])]
              f == CHOOSE g : g = Rec(g)
  <1>2. \A y \in Y : Longer(edges, y) \in Y
    <2>1. SUFFICES ASSUME NEW y \in Y, NEW o \in Longer(edges, y) PROVE o \in Seq(Name)
      OBVIOUS
    <2>2. PICK p \in y : \E e \in edges : o = Append(p, e.cons)
      BY LongerPaths
    <2>3. PICK e \in edges : o = Append(p, e.cons)
      BY <2>2
    <2>4. p \in Seq(Name) /\ e.cons \in Name
      BY DEF Edge
    <2>. QED
      BY <2>3, <2>4
  <1>3. \A i \in 1..n, y \in Y : step[i][y] = Longer(edges, y)
    OBVIOUS
  <1>. HIDE DEF step
  <1>4. Preserves(step, 1..n, Y)
    BY <1>2, <1>3 DEF Preserves
  <1>5. {<<s>>} \in Y
    OBVIOUS
  <1>. HIDE DEF f, Y
  <1>6. PICK g \in [0..n -> Y] : IsRecursion(g, n, {<<s>>}, step)
    BY <1>4, <1>5, RecursionExists
  <1>7. g[0] = {<<s>>} /\ \A i \in 1..n : g[i] = Longer(edges, g[i - 1])
    <2>1. ASSUME NEW i \in 1..n PROVE g[i] = Longer(edges, g[i - 1])
      <3>1. g[i] = step[i][g[i - 1]] /\ g[i - 1] \in Y
        BY <1>6 DEF IsRecursion
      <3>. QED
        BY <1>3, <3>1
    <2>. QED
      BY <1>6, <2>1 DEF IsRecursion
  <1>8. g = Rec(g)
    <2>. DEFINE v(i) == IF i = 0 THEN {<<s>>} ELSE Longer(edges, g[i - 1])
    <2>1. \A i \in 0..n : g[i] = v(i)
      BY <1>7
    <2>. HIDE DEF v
    <2>2. g = [i \in 0..n |-> v(i)]
      BY <2>1
    <2>. QED
      BY <2>2 DEF v
  <1>9. f = Rec(f)
    <2>. HIDE DEF Rec
    <2>. QED
      BY <1>8 DEF f
  <1>10. f[0] = {<<s>>} /\ \A k \in 1..n : f[k] = Longer(edges, f[k - 1])
    <2>1. f[0] = {<<s>>}
      BY <1>9
    <2>2. ASSUME NEW k \in 1..n PROVE f[k] = Longer(edges, f[k - 1])
      <3>1. k \in 0..n /\ k # 0
        OBVIOUS
      <3>. QED
        BY <1>9, <3>1
    <2>. QED
      BY <2>1, <2>2
  <1>11. SimplePaths(edges, s) = UNION {f[k] : k \in 0..n}
    BY <1>1, Zenon DEF SimplePaths, f, Longer
  <1>. QED
    BY <1>1, <1>10, <1>11 DEF IsLevels

\* A chain from s without repeats.
SimplePath(edges, s) == {p \in Chain(edges) : p[1] = s /\ NoRepeats(p)}

LEMMA LongerPath ==
  ASSUME NEW edges \in SUBSET Edge, NEW s, NEW p \in SimplePath(edges, s), NEW e \in edges,
         e.ante = Last(p), e.cons \notin ToSet(p)
  PROVE  /\ Append(p, e.cons) \in SimplePath(edges, s)
         /\ Len(Append(p, e.cons)) = Len(p) + 1
         /\ Last(Append(p, e.cons)) = e.cons
         /\ ToSet(Append(p, e.cons)) = ToSet(p) \cup {e.cons}
  <1>1. p \in Seq(Name) /\ Len(p) \in Nat /\ Len(p) >= 1 /\ p[1] = s /\ e.cons \in Name
    BY DEF SimplePath, Chain, Edge
  <1>2. PICK o : o = Append(p, e.cons)
    OBVIOUS
  <1>3. /\ o \in Seq(Name) /\ Len(o) = Len(p) + 1 /\ o[Len(p) + 1] = e.cons
        /\ \A i \in 1..Len(p) : o[i] = p[i]
        /\ ToSet(o) = ToSet(p) \cup {e.cons}
    BY <1>1, <1>2, AppendFacts
  <1>4. IsChain(edges, o)
    <2>1. SUFFICES ASSUME NEW i \in 1..Len(p) PROVE HasEdge(edges, o[i], o[i + 1])
      BY <1>1, <1>3 DEF IsChain
    <2>2. CASE i = Len(p)
      BY <1>1, <1>3, <2>2 DEF HasEdge, Last
    <2>3. CASE i # Len(p)
      <3>1. i \in 1..(Len(p) - 1) /\ i + 1 \in 1..Len(p)
        BY <1>1, <2>3
      <3>2. HasEdge(edges, p[i], p[i + 1])
        BY <3>1 DEF SimplePath, Chain, IsChain
      <3>. QED
        BY <1>3, <3>1, <3>2
    <2>. QED
      BY <2>2, <2>3
  <1>5. NoRepeats(o)
    <2>1. \A i \in 1..Len(p) : p[i] # e.cons
      BY <1>1 DEF ToSet
    <2>2. DOMAIN o = 1..(Len(p) + 1) /\ DOMAIN p = 1..Len(p)
      BY <1>1, <1>3
    <2>3. \A i, j \in 1..Len(p) : p[i] = p[j] => i = j
      BY <2>2 DEF SimplePath, NoRepeats
    <2>4. \A i \in 1..(Len(p) + 1) : i \in 1..Len(p) \/ i = Len(p) + 1
      BY <1>1
    <2>. QED
      BY <1>1, <1>3, <2>1, <2>2, <2>3, <2>4 DEF NoRepeats
  <1>6. o[1] = s /\ Last(o) = e.cons /\ Len(o) >= 1
    BY <1>1, <1>3 DEF Last
  <1>7. o \in SimplePath(edges, s)
    BY <1>3, <1>4, <1>5, <1>6 DEF SimplePath, Chain
  <1>. QED
    BY <1>2, <1>3, <1>6, <1>7

\* The propositions that the paths from s reach.
Ends(edges, s) == {Last(p) : p \in SimplePaths(edges, s)}

LEMMA SimplePathsFacts ==
  ASSUME NEW edges \in SUBSET Edge, IsFiniteSet(edges), NEW s \in Name
  PROVE  /\ SimplePaths(edges, s) \in SUBSET SimplePath(edges, s)
         /\ s \in Ends(edges, s) /\ Closed(Ends(edges, s), edges)
  <1>1. PICK n \in Nat : n = Cardinality(Nodes(edges))
    BY NodesFacts
  <1>2. PICK f : IsLevels(f, edges, s) /\ SimplePaths(edges, s) = UNION {f[k] : k \in 0..n}
    BY <1>1, LevelsExist
  <1>3. f[0] = {<<s>>} /\ \A k \in 1..n : f[k] = Longer(edges, f[k - 1])
    BY <1>1, <1>2 DEF IsLevels
  <1>. DEFINE E == Ends(edges, s)
              OK(p, k) == p \in SimplePath(edges, s) /\ Len(p) = k + 1 /\ ToSet(p) \subseteq E
              G == {k \in Nat : k <= n => \A p \in f[k] : OK(p, k)}
  <1>4. \A k \in 0..n : \A p \in f[k] : p \in SimplePaths(edges, s) /\ Last(p) \in E
    BY <1>2 DEF Ends
  <1>5. 0 \in G
    <2>1. <<s>> \in Seq(Name) /\ Len(<<s>>) = 1 /\ <<s>>[1] = s /\ DOMAIN <<s>> = {1}
      OBVIOUS
    <2>2. <<s>> \in Chain(edges)
      BY <2>1 DEF Chain, IsChain
    <2>3. NoRepeats(<<s>>)
      BY <2>1 DEF NoRepeats
    <2>4. ToSet(<<s>>) = {s} /\ Last(<<s>>) = s
      BY <2>1 DEF ToSet, Last
    <2>5. s \in E
      <3>1. <<s>> \in f[0] /\ 0 \in 0..n
        BY <1>3
      <3>. QED
        BY <1>4, <2>4, <3>1
    <2>. HIDE DEF E
    <2>. QED
      BY <1>3, <2>1, <2>2, <2>3, <2>4, <2>5 DEF SimplePath
  <1>6. ASSUME NEW k \in Nat, k \in G PROVE k + 1 \in G
    <2>1. SUFFICES ASSUME k + 1 <= n, NEW o \in f[k + 1] PROVE OK(o, k + 1)
      BY DEF G
    <2>2. k + 1 \in 1..n /\ k + 1 \in 0..n /\ (k + 1) - 1 = k /\ k <= n
      BY <2>1
    <2>3. o \in Longer(edges, f[k])
      BY <1>3, <2>1, <2>2
    <2>4. PICK p \in f[k] : \E e \in edges : /\ e.ante = Last(p) /\ e.cons \notin ToSet(p)
                                             /\ o = Append(p, e.cons)
      BY <2>3, LongerPaths
    <2>5. PICK e \in edges : /\ e.ante = Last(p) /\ e.cons \notin ToSet(p)
                             /\ o = Append(p, e.cons)
      BY <2>4
    <2>6. OK(p, k)
      BY <1>6, <2>2
    <2>7. /\ o \in SimplePath(edges, s) /\ Len(o) = Len(p) + 1 /\ Last(o) = e.cons
          /\ ToSet(o) = ToSet(p) \cup {e.cons}
      BY <2>5, <2>6, LongerPath
    <2>8. e.cons \in E
      BY <1>4, <2>1, <2>2, <2>7
    <2>. QED
      BY <2>6, <2>7, <2>8
  <1>. HIDE DEF G
  <1>a. Nat \subseteq G
    BY <1>5, <1>6, InductionOnNat
  <1>7. \A k \in 0..n : \A p \in f[k] : OK(p, k)
    <2>1. ASSUME NEW k \in 0..n PROVE \A p \in f[k] : OK(p, k)
      <3>1. k \in G /\ k <= n
        BY <1>a
      <3>. QED
        BY <3>1 DEF G
    <2>. QED
      BY <2>1
  <1>8. SimplePaths(edges, s) \in SUBSET SimplePath(edges, s)
    BY <1>2, <1>7
  <1>9. s \in E
    <2>1. Last(<<s>>) = s /\ <<s>> \in f[0] /\ 0 \in 0..n
      BY <1>3 DEF Last
    <2>. QED
      BY <1>4, <2>1
  <1>10. ASSUME NEW e \in edges, e.ante \in E PROVE e.cons \in E
    <2>1. PICK k \in 0..n : \E p \in f[k] : Last(p) = e.ante
      BY <1>2, <1>10 DEF Ends
    <2>2. PICK p \in f[k] : Last(p) = e.ante
      BY <2>1
    <2>3. OK(p, k)
      BY <1>7
    <2>4. CASE e.cons \in ToSet(p)
      BY <2>3, <2>4
    <2>5. CASE e.cons \notin ToSet(p)
      <3>. DEFINE o == Append(p, e.cons)
      <3>1. o \in SimplePath(edges, s) /\ Len(o) = k + 2 /\ Last(o) = e.cons
        BY <2>2, <2>3, <2>5, LongerPath
      <3>2. \A x \in ToSet(o) : x \in Nodes(edges)
        <4>1. DOMAIN o = 1..(k + 2) /\ o \in Seq(Name) /\ IsChain(edges, o)
          BY <3>1 DEF SimplePath, Chain
        <4>2. \A i \in 1..(k + 1) : HasEdge(edges, o[i], o[i + 1])
          BY <3>1, <4>1 DEF IsChain
        <4>. HIDE DEF o
        <4>3. \A i \in 1..(k + 2) : o[i] \in Nodes(edges)
          <5>1. ASSUME NEW i \in 1..(k + 2) PROVE o[i] \in Nodes(edges)
            <6>1. CASE i = k + 2
              <7>1. k + 1 \in 1..(k + 1) /\ (k + 1) + 1 = k + 2
                OBVIOUS
              <7>2. HasEdge(edges, o[k + 1], o[k + 2])
                BY <4>2, <7>1
              <7>. QED
                BY <6>1, <7>2, NodesFacts
            <6>2. CASE i # k + 2
              BY <4>2, <6>2, NodesFacts
            <6>. QED
              BY <6>1, <6>2
          <5>. QED
            BY <5>1
        <4>. QED
          BY <4>1, <4>3 DEF ToSet
      <3>3. Cardinality(ToSet(o)) = k + 2
        <4>1. o \in Seq(Name) /\ NoRepeats(o)
          BY <3>1 DEF SimplePath, Chain
        <4>. HIDE DEF o
        <4>. QED
          BY <3>1, <4>1, NoRepeatsLength
      <3>4. k + 2 <= n
        <4>. HIDE DEF o
        <4>1. Cardinality(ToSet(o)) <= Cardinality(Nodes(edges))
          BY <3>2, NodesFacts, FS_Subset
        <4>. QED
          BY <1>1, <3>3, <4>1
      <3>5. o \in f[k + 1]
        <4>1. k + 1 \in 1..n /\ (k + 1) - 1 = k
          BY <3>4
        <4>2. o \in Longer(edges, f[k])
          BY <2>2, <2>5, LongerPaths
        <4>. HIDE DEF o
        <4>. QED
          BY <1>3, <4>1, <4>2
      <3>. HIDE DEF o, E
      <3>6. k + 1 \in 0..n
        BY <3>4
      <3>. QED
        BY <1>4, <3>1, <3>5, <3>6
    <2>. QED
      BY <2>4, <2>5
  <1>. QED
    BY <1>8, <1>9, <1>10 DEF Closed

(***************************************************************************)
(* What a search keeps of the paths                                        *)
(***************************************************************************)
SearchRecord == [depth : Nat, floor : Nat, direct : BOOLEAN,
           strategy : {"shortest", "best_confidence", "all"}, most : Nat \ {0}]

LEMMA BestOfFacts ==
  ASSUME NEW edges \in SUBSET Edge, NEW paths \in SUBSET Chain(edges), paths # {}, NEW q
  PROVE  BestOf(paths, edges, q) \in paths
  <1>. DEFINE cost(p) == PathCost(edges, p)
              Least(p) == \A o \in paths : Better(edges, q, p, o)
  <1>1. \A p \in paths : cost(p) \in Nat /\ Len(p) \in Nat
    BY PathCostType DEF Chain
  <1>. HIDE DEF cost
  <1>2. \A T \in SUBSET paths : T # {} => \E p \in T : \A o \in T : Len(p) <= Len(o)
    <2>1. SUFFICES ASSUME NEW T \in SUBSET paths, T # {}
                   PROVE  \E p \in T : \A o \in T : Len(p) <= Len(o)
      OBVIOUS
    <2>. DEFINE L == {Len(p) : p \in T}
    <2>2. L \in SUBSET Nat /\ L # {}
      BY <1>1, <2>1
    <2>3. PICK n \in L : \A m \in L : n <= m
      BY <2>2, LeastNat
    <2>. QED
      BY <2>3
  <1>3. \E p \in paths : Least(p)
    <2>1. CASE q.strategy = "shortest"
      BY <1>2, <2>1 DEF Better
    <2>2. CASE q.strategy # "shortest"
      <3>. DEFINE C == {cost(p) : p \in paths}
      <3>1. C \in SUBSET Nat /\ C # {}
        BY <1>1
      <3>2. PICK n \in C : \A m \in C : n <= m
        BY <3>1, LeastNat
      <3>3. PICK p \in {o \in paths : cost(o) = n} :
                \A o \in {x \in paths : cost(x) = n} : Len(p) <= Len(o)
        BY <1>2, <3>2
      <3>4. ASSUME NEW o \in paths PROVE Better(edges, q, p, o)
        <4>1. n <= cost(o) /\ n \in Nat /\ cost(o) \in Nat
          BY <1>1, <3>1, <3>2
        <4>2. cost(p) < cost(o) \/ (cost(p) = cost(o) /\ Len(p) <= Len(o))
          BY <3>3, <4>1
        <4>. QED
          BY <2>2, <4>2 DEF Better, cost
      <3>. QED
        BY <3>3, <3>4
    <2>. QED
      BY <2>1, <2>2
  <1>. HIDE DEF Least
  <1>4. (CHOOSE p \in paths : Least(p)) \in paths
    BY <1>3
  <1>. QED
    BY <1>4, Zenon DEF BestOf, Least

OneMore(paths, edges, q, y) ==
    IF paths \ ToSet(y) = {} THEN y ELSE Append(y, BestOf(paths \ ToSet(y), edges, q))

LEMMA RankedFacts ==
  ASSUME NEW edges \in SUBSET Edge, NEW paths \in SUBSET Chain(edges), NEW q,
         q.most \in Nat \ {0}
  PROVE  /\ Ranked(paths, edges, q) \in Seq(paths)
         /\ paths # {} => Ranked(paths, edges, q) # <<>>
  <1>1. PICK n \in Nat \ {0} : n = q.most
    OBVIOUS
  <1>. DEFINE Y == Seq(paths)
              more(y) == OneMore(paths, edges, q, y)
              step == [i \in 1..n |-> [y \in Y |-> more(y)]]
              Rec(f) == [k \in 0..n |-> IF k = 0 THEN <<>> ELSE more(f[k - 1])]
              f == CHOOSE g : g = Rec(g)
  <1>2. \A y \in Y : more(y) \in Y /\ (y # <<>> => more(y) # <<>>) /\ (paths # {} => more(y) # <<>>)
    <2>1. SUFFICES ASSUME NEW y \in Y
                   PROVE  /\ more(y) \in Y /\ (y # <<>> => more(y) # <<>>)
                          /\ paths # {} => more(y) # <<>>
      OBVIOUS
    <2>2. CASE paths \ ToSet(y) = {}
      <3>1. more(y) = y
        BY <2>2 DEF OneMore
      <3>2. y = <<>> => ToSet(y) = {}
        BY DEF ToSet
      <3>. QED
        BY <2>2, <3>1, <3>2
    <2>3. CASE paths \ ToSet(y) # {}
      <3>1. PICK x \in paths : x = BestOf(paths \ ToSet(y), edges, q)
        BY <2>3, BestOfFacts
      <3>2. more(y) = Append(y, x)
        BY <2>3, <3>1 DEF OneMore
      <3>3. Append(y, x) \in Y /\ Len(Append(y, x)) = Len(y) + 1 /\ Len(y) \in Nat
        BY <3>1
      <3>4. Append(y, x) # <<>>
        BY <3>3
      <3>. QED
        BY <3>2, <3>3, <3>4
    <2>. QED
      BY <2>2, <2>3
  <1>. HIDE DEF more
  <1>3. \A i \in 1..n, y \in Y : step[i][y] = more(y)
    OBVIOUS
  <1>. HIDE DEF step
  <1>4. Preserves(step, 1..n, Y)
    BY <1>2, <1>3 DEF Preserves
  <1>5. <<>> \in Y
    OBVIOUS
  <1>. HIDE DEF f, Y
  <1>6. PICK g \in [0..n -> Y] : IsRecursion(g, n, <<>>, step)
    BY <1>4, <1>5, RecursionExists
  <1>7. g[0] = <<>> /\ \A i \in 1..n : g[i] = more(g[i - 1])
    <2>1. ASSUME NEW i \in 1..n PROVE g[i] = more(g[i - 1])
      <3>1. g[i] = step[i][g[i - 1]] /\ g[i - 1] \in Y
        BY <1>6 DEF IsRecursion
      <3>. QED
        BY <1>3, <3>1
    <2>. QED
      BY <1>6, <2>1 DEF IsRecursion
  <1>8. g = Rec(g)
    <2>. DEFINE v(i) == IF i = 0 THEN <<>> ELSE more(g[i - 1])
    <2>1. \A i \in 0..n : g[i] = v(i)
      BY <1>7
    <2>. HIDE DEF v
    <2>2. g = [i \in 0..n |-> v(i)]
      BY <2>1
    <2>. QED
      BY <2>2 DEF v
  <1>9. f = Rec(f)
    <2>. HIDE DEF Rec
    <2>. QED
      BY <1>8 DEF f
  <1>10. f[0] = <<>> /\ \A k \in 1..n : f[k] = more(f[k - 1])
    <2>1. f[0] = <<>>
      BY <1>9
    <2>2. ASSUME NEW k \in 1..n PROVE f[k] = more(f[k - 1])
      <3>1. k \in 0..n /\ k # 0
        OBVIOUS
      <3>. QED
        BY <1>9, <3>1
    <2>. QED
      BY <2>1, <2>2
  <1>. DEFINE G == {k \in Nat : k <= n => f[k] \in Y /\ (k # 0 /\ paths # {} => f[k] # <<>>)}
  <1>11. 0 \in G
    BY <1>5, <1>10
  <1>12. ASSUME NEW k \in Nat, k \in G PROVE k + 1 \in G
    <2>1. SUFFICES ASSUME k + 1 <= n
                   PROVE f[k + 1] \in Y /\ (k + 1 # 0 /\ paths # {} => f[k + 1] # <<>>)
      OBVIOUS
    <2>2. k + 1 \in 1..n /\ (k + 1) - 1 = k
      BY <2>1
    <2>3. f[k] \in Y
      BY <1>12, <2>1
    <2>4. f[k + 1] = more(f[k])
      BY <1>10, <2>2
    <2>. QED
      BY <1>2, <2>3, <2>4
  <1>. HIDE DEF G
  <1>13. n \in G
    BY <1>11, <1>12, InductionOnNat
  <1>14. Ranked(paths, edges, q) = f[n]
    BY <1>1, Zenon DEF Ranked, f, more, OneMore
  <1>. QED
    BY <1>13, <1>14 DEF G, Y

LEMMA KeptFacts ==
  ASSUME NEW edges \in SUBSET Edge, NEW all \in SUBSET Chain(edges), NEW q \in SearchRecord
  PROVE  /\ Kept(all, edges, q) \in Seq(all)
         /\ q.strategy # "all" => Len(Kept(all, edges, q)) <= 1
         /\ all # {} /\ (\A p \in all : Len(p) - 1 <= q.depth) => Kept(all, edges, q) # <<>>
  <1>. DEFINE short == {p \in all : Len(p) - 1 <= q.depth}
  <1>1. q.most \in Nat \ {0}
    BY DEF SearchRecord
  <1>2. CASE q.strategy = "all"
    <2>1. Kept(all, edges, q) = Ranked(short, edges, q)
      BY <1>2, Zenon DEF Kept
    <2>2. short \in SUBSET Chain(edges) /\ Seq(short) \subseteq Seq(all)
      OBVIOUS
    <2>3. /\ Ranked(short, edges, q) \in Seq(short)
          /\ short # {} => Ranked(short, edges, q) # <<>>
      <3>. HIDE DEF short
      <3>. QED
        BY <1>1, <2>2, RankedFacts
    <2>. QED
      BY <1>2, <2>1, <2>2, <2>3
  <1>3. CASE q.strategy # "all" /\ all # {} /\ BestOf(all, edges, q) \in short
    <2>1. Kept(all, edges, q) = <<BestOf(all, edges, q)>>
      BY <1>3, Zenon DEF Kept
    <2>2. PICK p \in all : p = BestOf(all, edges, q)
      BY <1>3
    <2>3. <<p>> \in Seq(all) /\ Len(<<p>>) = 1 /\ <<p>> # <<>>
      OBVIOUS
    <2>. QED
      BY <2>1, <2>2, <2>3
  <1>4. CASE q.strategy # "all" /\ ~(all # {} /\ BestOf(all, edges, q) \in short)
    <2>1. Kept(all, edges, q) = <<>>
      BY <1>4, Zenon DEF Kept
    <2>2. all # {} => BestOf(all, edges, q) \in all
      BY BestOfFacts
    <2>. QED
      BY <1>4, <2>1, <2>2
  <1>. QED
    BY <1>2, <1>3, <1>4

\* The chains from s to t.
ChainTo(edges, s, t) == {p \in Chain(edges) : p[1] = s /\ Last(p) = t}

LEMMA TrivialChain ==
  ASSUME NEW edges, NEW s \in Name
  PROVE  <<s>> \in ChainTo(edges, s, s)
  BY DEF ChainTo, Chain, IsChain, Last

LEMMA EdgeChain ==
  ASSUME NEW edges, NEW s \in Name, NEW t \in Name, HasEdge(edges, s, t)
  PROVE  <<s, t>> \in ChainTo(edges, s, t)
  <1>1. <<s, t>> \in Seq(Name) /\ Len(<<s, t>>) = 2 /\ <<s, t>>[1] = s /\ <<s, t>>[2] = t
    OBVIOUS
  <1>2. IsChain(edges, <<s, t>>)
    BY <1>1 DEF IsChain
  <1>. QED
    BY <1>1, <1>2 DEF ChainTo, Chain, Last

LEMMA StrongerChain ==
  ASSUME NEW edges, NEW floor
  PROVE  /\ Chain(SearchGraph(edges, floor)) \subseteq Chain(edges)
         /\ \A a, c : HasEdge(SearchGraph(edges, floor), a, c) => HasEdge(edges, a, c)
  BY DEF Chain, IsChain, HasEdge, SearchGraph

\* Whatever is found is a chain from the source to the target.
LEMMA FindPathsFacts ==
  ASSUME NEW edges \in SUBSET Edge, IsFiniteSet(edges), NEW s \in Name, NEW t,
         NEW q \in SearchRecord
  PROVE  /\ FindPaths(edges, s, t, q) \in Seq(ChainTo(edges, s, t))
         /\ q.strategy # "all" => Len(FindPaths(edges, s, t, q)) <= 1
  <1>. DEFINE strong == SearchGraph(edges, q.floor)
              all == {p \in SimplePaths(strong, s) : Last(p) = t}
  <1>0. q.direct \in BOOLEAN
    BY DEF SearchRecord
  <1>1. CASE s = t
    <2>1. FindPaths(edges, s, t, q) = << <<s>> >>
      BY <1>1, Zenon DEF FindPaths
    <2>2. PICK p \in ChainTo(edges, s, t) : p = <<s>>
      BY <1>1, TrivialChain
    <2>3. <<p>> \in Seq(ChainTo(edges, s, t)) /\ Len(<<p>>) = 1
      OBVIOUS
    <2>. QED
      BY <2>1, <2>2, <2>3
  <1>2. CASE s # t /\ q.direct
    <2>1. FindPaths(edges, s, t, q) = IF HasEdge(strong, s, t) THEN << <<s, t>> >> ELSE <<>>
      BY <1>2, Zenon DEF FindPaths
    <2>. HIDE DEF strong
    <2>2. CASE HasEdge(strong, s, t)
      <3>1. HasEdge(edges, s, t) /\ t \in Name
        BY <2>2, StrongerChain, NodesFacts DEF strong
      <3>2. PICK p \in ChainTo(edges, s, t) : p = <<s, t>>
        BY <3>1, EdgeChain
      <3>3. <<p>> \in Seq(ChainTo(edges, s, t)) /\ Len(<<p>>) = 1
        OBVIOUS
      <3>. QED
        BY <2>1, <2>2, <3>2, <3>3
    <2>3. CASE ~HasEdge(strong, s, t)
      BY <2>1, <2>3
    <2>. QED
      BY <2>2, <2>3
  <1>3. CASE s # t /\ ~q.direct
    <2>1. FindPaths(edges, s, t, q) = Kept(all, edges, q)
      BY <1>3, Zenon DEF FindPaths
    <2>2. strong \in SUBSET Edge /\ IsFiniteSet(strong)
      BY FS_Subset DEF SearchGraph
    <2>. HIDE DEF strong
    <2>3. SimplePaths(strong, s) \in SUBSET SimplePath(strong, s)
      BY <2>2, SimplePathsFacts
    <2>4. all \in SUBSET ChainTo(edges, s, t) /\ all \in SUBSET Chain(edges)
      BY <2>3, StrongerChain DEF SimplePath, ChainTo, strong
    <2>. HIDE DEF all
    <2>5. Kept(all, edges, q) \in Seq(all) /\ (q.strategy # "all" => Len(Kept(all, edges, q)) <= 1)
      BY <2>4, KeptFacts
    <2>. QED
      BY <2>1, <2>4, <2>5
  <1>. QED
    BY <1>0, <1>1, <1>2, <1>3

\* Whatever a chain reaches is found, in a graph that is no deeper than the
\* search.
LEMMA FindPathsReach ==
  ASSUME NEW edges \in SUBSET Edge, IsFiniteSet(edges), NEW s \in Name, NEW t,
         NEW q \in SearchRecord, ~q.direct, q.floor = NoConfidence,
         NEW N \in SUBSET Name, IsFiniteSet(N), Nodes(edges) \subseteq N, s \in N,
         Cardinality(N) <= q.depth + 1, t \in Ends(edges, s)
  PROVE  FindPaths(edges, s, t, q) # <<>>
  <1>. DEFINE all == {p \in SimplePaths(edges, s) : Last(p) = t}
  <1>1. SearchGraph(edges, q.floor) = edges
    BY DEF SearchGraph, Edge
  <1>2. CASE s = t
    BY <1>2, Zenon DEF FindPaths
  <1>3. CASE s # t
    <2>1. FindPaths(edges, s, t, q) = Kept(all, edges, q)
      BY <1>1, <1>3, Zenon DEF FindPaths
    <2>2. SimplePaths(edges, s) \in SUBSET SimplePath(edges, s)
      BY SimplePathsFacts
    <2>3. all # {} /\ all \in SUBSET Chain(edges)
      BY <2>2 DEF Ends, SimplePath
    <2>4. ASSUME NEW p \in all PROVE Len(p) - 1 <= q.depth
      <3>1. p \in Seq(Name) /\ Len(p) \in Nat /\ Len(p) >= 1 /\ IsChain(edges, p) /\ p[1] = s
            /\ NoRepeats(p)
        BY <2>2 DEF SimplePath, Chain
      <3>2. ASSUME NEW i \in 1..Len(p) PROVE p[i] \in N
        <4>1. CASE i = 1
          BY <3>1, <4>1
        <4>2. CASE i # 1
          <5>1. i - 1 \in 1..(Len(p) - 1) /\ (i - 1) + 1 = i
            BY <3>1, <4>2
          <5>2. HasEdge(edges, p[i - 1], p[i])
            BY <3>1, <5>1 DEF IsChain
          <5>. QED
            BY <5>2, NodesFacts
        <4>. QED
          BY <4>1, <4>2
      <3>3. ToSet(p) \subseteq N
        BY <3>1, <3>2 DEF ToSet
      <3>4. Cardinality(ToSet(p)) <= Cardinality(N)
        BY <3>3, FS_Subset
      <3>5. Cardinality(ToSet(p)) = Len(p)
        BY <3>1, NoRepeatsLength
      <3>6. Cardinality(N) \in Nat /\ q.depth \in Nat
        BY FS_CardinalityType DEF SearchRecord
      <3>. QED
        BY <3>1, <3>4, <3>5, <3>6
    <2>. HIDE DEF all
    <2>. QED
      BY <2>1, <2>3, <2>4, KeptFacts
  <1>. QED
    BY <1>2, <1>3

(***************************************************************************)
(* Worlds and entailment                                                   *)
(***************************************************************************)
LEMMA SatisfiesMeans ==
  ASSUME NEW W, NEW r \in RelationRecord
  PROVE  Satisfies(W, r) <=> \A x \in Implications(r) : x[1] \in W => x[2] \in W
  <1>1. r.type \in {"sufficient", "necessary", "equivalent"}
    BY DEF RelationRecord, RelationType
  <1>2. CASE r.type = "sufficient"
    <2>1. Implications(r) = {<<Source(r), Target(r)>>}
      BY <1>2 DEF Implications
    <2>2. Satisfies(W, r) <=> (Source(r) \in W => Target(r) \in W)
      BY <1>2, Zenon DEF Satisfies
    <2>. QED
      BY <2>1, <2>2
  <1>3. CASE r.type = "necessary"
    <2>1. Implications(r) = {<<Target(r), Source(r)>>}
      BY <1>3 DEF Implications
    <2>2. Satisfies(W, r) <=> (Target(r) \in W => Source(r) \in W)
      BY <1>3 DEF Satisfies
    <2>. QED
      BY <2>1, <2>2
  <1>4. CASE r.type = "equivalent"
    <2>1. Implications(r) = {<<Source(r), Target(r)>>, <<Target(r), Source(r)>>}
      BY <1>4 DEF Implications
    <2>2. Satisfies(W, r) <=> (Source(r) \in W <=> Target(r) \in W)
      BY <1>4 DEF Satisfies
    <2>. QED
      BY <2>1, <2>2
  <1>. QED
    BY <1>1, <1>2, <1>3, <1>4

LEMMA RecordsOf ==
  ASSUME NEW V, NEW s \in Seq(V)
  PROVE  ToSet(s) \in SUBSET V
  BY DEF ToSet

\* The sets that satisfy the relations are those closed under the edges.
LEMMA ClosedMeans ==
  ASSUME NEW rels \in Seq(RelationRecord), NEW W
  PROVE  (\A r \in ToSet(rels) : Satisfies(W, r)) <=> Closed(W, Edges(rels))
  <1>1. ToSet(rels) \in SUBSET RelationRecord
    BY RecordsOf
  <1>2. EdgesMatch(Edges(rels), rels)
    BY EdgesFacts
  <1>3. ASSUME \A r \in ToSet(rels) : Satisfies(W, r), NEW e \in Edges(rels), e.ante \in W
        PROVE  e.cons \in W
    <2>1. PICK r \in ToSet(rels) : StandsFor(e, r)
      BY <1>2 DEF EdgesMatch
    <2>2. <<e.ante, e.cons>> \in Implications(r)
      BY <2>1 DEF StandsFor
    <2>3. <<e.ante, e.cons>>[1] = e.ante /\ <<e.ante, e.cons>>[2] = e.cons
      OBVIOUS
    <2>. QED
      BY <1>1, <1>3, <2>2, <2>3, SatisfiesMeans
  <1>4. ASSUME Closed(W, Edges(rels)), NEW r \in ToSet(rels) PROVE Satisfies(W, r)
    <2>1. ASSUME NEW x \in Implications(r), x[1] \in W PROVE x[2] \in W
      <3>1. HasEdge(Edges(rels), x[1], x[2])
        BY <1>2 DEF EdgesMatch
      <3>. QED
        BY <1>4, <2>1, <3>1 DEF HasEdge, Closed
    <2>. QED
      BY <1>1, <2>1, SatisfiesMeans
  <1>. QED
    BY <1>3, <1>4 DEF Closed

Propositions(rels) == UNION {{Source(r), Target(r)} : r \in ToSet(rels)}

LEMMA PropositionsFacts ==
  ASSUME NEW rels \in Seq(RelationRecord)
  PROVE  /\ Propositions(rels) \in SUBSET Name /\ IsFiniteSet(Propositions(rels))
         /\ Nodes(Edges(rels)) \subseteq Propositions(rels)
  <1>1. ToSet(rels) \in SUBSET RelationRecord /\ IsFiniteSet(ToSet(rels))
    BY ToSetFinite
  <1>2. \A r \in ToSet(rels) : Source(r) \in Name /\ Target(r) \in Name
    BY <1>1, ImplicationFacts
  <1>3. IsFiniteSet(Propositions(rels))
    <2>. DEFINE f == [r \in ToSet(rels) |-> Source(r)]
                g == [r \in ToSet(rels) |-> Target(r)]
    <2>1. Propositions(rels) = {f[r] : r \in ToSet(rels)} \cup {g[r] : r \in ToSet(rels)}
      BY DEF Propositions
    <2>. HIDE DEF f, g
    <2>2. IsFiniteSet({f[r] : r \in ToSet(rels)}) /\ IsFiniteSet({g[r] : r \in ToSet(rels)})
      BY <1>1, ImageFinite
    <2>. QED
      BY <2>1, <2>2, FS_Union
  <1>4. ASSUME NEW e \in Edges(rels) PROVE e.ante \in Propositions(rels) /\ e.cons \in Propositions(rels)
    <2>1. PICK r \in ToSet(rels) : <<e.ante, e.cons>> \in Implications(r)
      BY EdgesFacts DEF EdgesMatch, StandsFor
    <2>2. <<e.ante, e.cons>> \in {<<Source(r), Target(r)>>, <<Target(r), Source(r)>>}
      BY <1>1, <2>1, ImplicationFacts
    <2>. QED
      BY <2>2 DEF Propositions
  <1>. QED
    BY <1>2, <1>3, <1>4 DEF Propositions, Nodes

LEMMA ChainEntails ==
  ASSUME NEW rels \in Seq(RelationRecord), NEW N, NEW s, NEW t,
         NEW p \in ChainTo(Edges(rels), s, t)
  PROVE  Entails(rels, N, s, t)
  <1>1. SUFFICES ASSUME NEW W \in Worlds(rels, N), s \in W PROVE t \in W
    BY DEF Entails
  <1>2. Closed(W, Edges(rels))
    BY ClosedMeans DEF Worlds
  <1>. QED
    BY <1>1, <1>2, ChainStays DEF ChainTo

\* The propositions that s reaches are a world in which s is true.
LEMMA EndsAreAWorld ==
  ASSUME NEW rels \in Seq(RelationRecord), NEW N, Propositions(rels) \subseteq N,
         NEW s \in Name, s \in N
  PROVE  Ends(Edges(rels), s) \in Worlds(rels, N) /\ s \in Ends(Edges(rels), s)
  <1>. DEFINE edges == Edges(rels)
  <1>1. edges \in SUBSET Edge /\ IsFiniteSet(edges)
    BY EdgesFacts DEF EdgesMatch
  <1>. HIDE DEF edges
  <1>2. /\ SimplePaths(edges, s) \in SUBSET SimplePath(edges, s)
        /\ s \in Ends(edges, s) /\ Closed(Ends(edges, s), edges)
    BY <1>1, SimplePathsFacts
  <1>3. ASSUME NEW p \in SimplePaths(edges, s) PROVE Last(p) \in N
    <2>1. p \in Seq(Name) /\ Len(p) \in Nat /\ Len(p) >= 1 /\ IsChain(edges, p) /\ p[1] = s
      BY <1>2 DEF SimplePath, Chain
    <2>2. CASE Len(p) = 1
      BY <2>1, <2>2 DEF Last
    <2>3. CASE Len(p) # 1
      <3>1. Len(p) - 1 \in 1..(Len(p) - 1) /\ (Len(p) - 1) + 1 = Len(p)
        <4>1. PICK n \in Nat : n = Len(p)
          BY <2>1
        <4>. QED
          BY <2>1, <2>3, <4>1
      <3>2. HasEdge(edges, p[Len(p) - 1], p[Len(p)])
        BY <2>1, <3>1 DEF IsChain
      <3>3. p[Len(p)] \in Nodes(edges)
        BY <1>1, <3>2, NodesFacts
      <3>. QED
        BY <3>3, PropositionsFacts DEF Last, edges
    <2>. QED
      BY <2>2, <2>3
  <1>4. \A r \in ToSet(rels) : Satisfies(Ends(edges, s), r)
    BY <1>2, ClosedMeans DEF edges
  <1>. QED
    BY <1>2, <1>3, <1>4 DEF Worlds, Ends, edges

\* A search that finds something proves an entailment, and one that is deep
\* enough finds every entailment.
LEMMA SearchEntails ==
  ASSUME NEW rels \in Seq(RelationRecord), NEW N, NEW s \in Name, NEW t,
         NEW q \in SearchRecord, Reaches(Edges(rels), s, t, q)
  PROVE  Entails(rels, N, s, t)
  <1>. DEFINE found == FindPaths(Edges(rels), s, t, q)
  <1>1. Edges(rels) \in SUBSET Edge /\ IsFiniteSet(Edges(rels))
    BY EdgesFacts DEF EdgesMatch
  <1>2. found \in Seq(ChainTo(Edges(rels), s, t)) /\ found # <<>>
    BY <1>1, FindPathsFacts DEF Reaches
  <1>. HIDE DEF found
  <1>3. found[1] \in ChainTo(Edges(rels), s, t)
    BY <1>2
  <1>. QED
    BY <1>3, ChainEntails

DeepEnough(q, N) == ~q.direct /\ q.floor = NoConfidence /\ Cardinality(N) <= q.depth + 1

LEMMA EntailsSearch ==
  ASSUME NEW rels \in Seq(RelationRecord), NEW N \in SUBSET Name, IsFiniteSet(N),
         Propositions(rels) \subseteq N, NEW s \in N, NEW t,
         NEW q \in SearchRecord, DeepEnough(q, N), Entails(rels, N, s, t)
  PROVE  Reaches(Edges(rels), s, t, q)
  <1>1. Edges(rels) \in SUBSET Edge /\ IsFiniteSet(Edges(rels))
    BY EdgesFacts DEF EdgesMatch
  <1>2. t \in Ends(Edges(rels), s)
    BY EndsAreAWorld DEF Entails
  <1>3. Nodes(Edges(rels)) \subseteq N
    BY PropositionsFacts
  <1>. QED
    BY <1>1, <1>2, <1>3, FindPathsReach DEF Reaches, DeepEnough

(***************************************************************************)
(* Relations that hold at one instant                                      *)
(***************************************************************************)
Instants(rels) == ({r.from : r \in ToSet(rels)} \ {Always}) \cup {1}
Valid(rels, at) == {r \in ToSet(rels) : ValidAt(r, at)}

\* Windows that overlap in pairs have an instant in common, one of those where
\* a window begins.
LEMMA CommonInstant ==
  ASSUME NEW used \in SUBSET Edge, \A e, f \in used : e.from <= f.to
  PROVE  \E at \in ({e.from : e \in used} \ {Always}) \cup {1} :
            \A e \in used : e.from <= at /\ at <= e.to
  <1>. DEFINE starts == {e.from : e \in used} \ {Always}
  <1>1. \A e \in used : e.from \in Nat /\ e.to \in Nat /\ e.to # 0
    BY DEF Edge, Always
  <1>2. CASE starts = {}
    <2>1. \A e \in used : e.from = 0
      BY <1>2 DEF Always
    <2>. QED
      BY <1>1, <2>1
  <1>3. CASE starts # {}
    <2>1. PICK o \in used : TRUE
      BY <1>3
    <2>2. PICK n \in Nat : n = o.to
      BY <1>1
    <2>3. starts \in SUBSET (1..n)
      BY <1>1, <2>2 DEF Always
    <2>4. PICK at \in starts : \A m \in starts : m <= at
      BY <1>3, <2>3, Greatest
    <2>5. PICK e \in used : e.from = at
      BY <2>4
    <2>6. at \in 1..n
      BY <2>3
    <2>7. \A f \in used : f.from <= at
      <3>1. ASSUME NEW f \in used PROVE f.from <= at
        <4>1. CASE f.from = Always
          BY <2>6, <4>1 DEF Always
        <4>2. CASE f.from # Always
          BY <2>4, <4>2
        <4>. QED
          BY <4>1, <4>2
      <3>. QED
        BY <3>1
    <2>. QED
      BY <2>4, <2>5, <2>7
  <1>. QED
    BY <1>2, <1>3

\* When the windows of all edges of some chains overlap, there is an instant
\* at which every chain is an entailment.
LEMMA OverlapEntails ==
  ASSUME NEW rels \in Seq(RelationRecord), NEW paths \in SUBSET Chain(Edges(rels)),
         Overlap(Edges(rels), paths)
  PROVE  \E at \in Instants(rels) :
            \A now \in Seq(RelationRecord) : Valid(rels, at) \subseteq ToSet(now) =>
                \A p \in paths : \A N : Entails(now, N, p[1], Last(p))
  <1>. DEFINE edges == Edges(rels)
              used == UNION {PathEdges(edges, p) : p \in paths}
  <1>1. EdgesMatch(edges, rels)
    BY EdgesFacts
  <1>2. edges \in SUBSET Edge
    BY <1>1 DEF EdgesMatch
  <1>. HIDE DEF edges
  <1>3. ASSUME NEW p \in paths, NEW i \in 1..(Len(p) - 1)
        PROVE  /\ BestEdge(edges, p[i], p[i + 1]) \in edges
               /\ BestEdge(edges, p[i], p[i + 1]) \in used
               /\ BestEdge(edges, p[i], p[i + 1]).ante = p[i]
               /\ BestEdge(edges, p[i], p[i + 1]).cons = p[i + 1]
    <2>1. HasEdge(edges, p[i], p[i + 1])
      BY DEF edges, Chain, IsChain
    <2>. QED
      BY <1>2, <2>1, BestEdgeFacts DEF PathEdges
  <1>4. used \in SUBSET edges
    BY <1>3 DEF PathEdges
  <1>5. \A e, f \in used : e.from <= f.to
    BY Zenon DEF Overlap, edges
  <1>. HIDE DEF used
  <1>6. PICK at \in ({e.from : e \in used} \ {Always}) \cup {1} :
            \A e \in used : e.from <= at /\ at <= e.to
    BY <1>2, <1>4, <1>5, CommonInstant
  <1>7. at \in Instants(rels)
    BY <1>1, <1>4, <1>6 DEF Instants, EdgesMatch, StandsFor
  <1>8. ASSUME NEW now \in Seq(RelationRecord), Valid(rels, at) \subseteq ToSet(now),
               NEW p \in paths, NEW N
        PROVE  Entails(now, N, p[1], Last(p))
    <2>1. ASSUME NEW i \in 1..(Len(p) - 1) PROVE HasEdge(Edges(now), p[i], p[i + 1])
      <3>1. PICK e \in used : e \in edges /\ e.ante = p[i] /\ e.cons = p[i + 1]
        BY <1>3
      <3>2. PICK r \in ToSet(rels) : StandsFor(e, r)
        BY <1>1, <3>1 DEF EdgesMatch
      <3>3. r \in ToSet(now)
        BY <1>6, <1>8, <3>2 DEF Valid, ValidAt, StandsFor
      <3>4. <<p[i], p[i + 1]>> \in Implications(r)
        BY <3>1, <3>2 DEF StandsFor
      <3>5. HasEdge(Edges(now), <<p[i], p[i + 1]>>[1], <<p[i], p[i + 1]>>[2])
        BY <3>3, <3>4, EdgesFacts DEF EdgesMatch
      <3>. QED
        BY <3>5
    <2>2. p \in ChainTo(Edges(now), p[1], Last(p))
      BY <2>1 DEF Chain, IsChain, ChainTo
    <2>. QED
      BY <2>2, ChainEntails
  <1>. QED
    BY <1>7, <1>8

(***************************************************************************)
(* Contradictions                                                          *)
(***************************************************************************)
LEMMA CompatibleFacts ==
  ASSUME NEW rels \in Seq(RelationRecord), NEW cf
  PROVE  /\ Compatible(rels, cf) \in Seq(RelationRecord)
         /\ ToSet(Compatible(rels, cf)) =
                {r \in ToSet(rels) : /\ Agrees(r, cf, {"store", "ctx", "dom"})
                                     /\ cf.asm \subseteq r.asm
                                     /\ cf.at = 0 \/ ValidAt(r, cf.at)}
  <1>. DEFINE S == {r \in ToSet(rels) : /\ Agrees(r, cf, {"store", "ctx", "dom"})
                                        /\ cf.asm \subseteq r.asm
                                        /\ cf.at = 0 \/ ValidAt(r, cf.at)}
  <1>1. Compatible(rels, cf) = Among(rels, S)
    BY Zenon DEF Compatible
  <1>2. S \subseteq ToSet(rels)
    OBVIOUS
  <1>. HIDE DEF S
  <1>3. Among(rels, S) \in Seq(RelationRecord) /\ ToSet(Among(rels, S)) = ToSet(rels) \cap S
    BY AmongFacts
  <1>4. Compatible(rels, cf) \in Seq(RelationRecord) /\ ToSet(Compatible(rels, cf)) = S
    BY <1>1, <1>2, <1>3
  <1>. QED
    BY <1>4 DEF S

LEMMA NoFilterMatches ==
  ASSUME NEW rels \in Seq(RelationRecord)
  PROVE  ToSet(Compatible(rels, NoFilter)) = ToSet(rels)
  <1>1. ASSUME NEW r PROVE Agrees(r, NoFilter, {"store", "ctx", "dom"})
    BY DEF Agrees, NoFilter
  <1>2. NoFilter.asm = {} /\ NoFilter.at = 0
    BY DEF NoFilter
  <1>. QED
    BY <1>1, <1>2, CompatibleFacts

LEMMA GroupRelations ==
  ASSUME NEW rels \in Seq(RelationRecord), NEW g
  PROVE  /\ RelationsForGroup(rels, g, NoFilter) \in Seq(RelationRecord)
         /\ ToSet(RelationsForGroup(rels, g, NoFilter)) =
                {r \in ToSet(rels) : r.store = g.store /\ (g.glob \/ r.ctx = g.ctx)}
  <1>. DEFINE S == {r \in ToSet(rels) : r.store = g.store /\ (g.glob \/ r.ctx = g.ctx)}
  <1>1. RelationsForGroup(rels, g, NoFilter) = Among(Compatible(rels, NoFilter), S)
    BY Zenon DEF RelationsForGroup
  <1>2. Compatible(rels, NoFilter) \in Seq(RelationRecord)
    BY CompatibleFacts
  <1>3. ToSet(Compatible(rels, NoFilter)) = ToSet(rels) /\ S \subseteq ToSet(rels)
    BY NoFilterMatches
  <1>. HIDE DEF S
  <1>4. /\ RelationsForGroup(rels, g, NoFilter) \in Seq(RelationRecord)
        /\ ToSet(RelationsForGroup(rels, g, NoFilter)) = S
    <2>1. /\ Among(Compatible(rels, NoFilter), S) \in Seq(RelationRecord)
          /\ ToSet(Among(Compatible(rels, NoFilter), S)) =
                ToSet(Compatible(rels, NoFilter)) \cap S
      BY <1>2, AmongFacts
    <2>. QED
      BY <1>1, <1>3, <2>1
  <1>. QED
    BY <1>4 DEF S

LEMMA ShortestIsSearch ==
  ASSUME NEW q \in SearchRecord
  PROVE  /\ Shortest(q) \in SearchRecord /\ Shortest(q).strategy = "shortest"
         /\ Shortest(q).direct = FALSE
         /\ Shortest(q).depth = q.depth /\ Shortest(q).floor = q.floor
  BY DEF SearchRecord, Shortest

LEMMA HitPathsFacts ==
  ASSUME NEW edges \in SUBSET Edge, IsFiniteSet(edges), NEW s \in Name, NEW g, NEW q \in SearchRecord
  PROVE  /\ HitPaths(edges, s, g, q) \in SUBSET Chain(edges)
         /\ \A p \in HitPaths(edges, s, g, q) : p[1] = s /\ Last(p) \in g.members
         /\ IsFiniteSet(g.members) => IsFiniteSet(HitPaths(edges, s, g, q))
         /\ \A m \in g.members : FindPaths(edges, s, m, Shortest(q)) # <<>> =>
                \E p \in HitPaths(edges, s, g, q) : Last(p) = m
  <1>. DEFINE found(m) == FindPaths(edges, s, m, Shortest(q))
  <1>1. \A m : found(m) \in Seq(ChainTo(edges, s, m))
    BY ShortestIsSearch, FindPathsFacts
  <1>2. HitPaths(edges, s, g, q) = UNION {ToSet(found(m)) : m \in g.members}
    BY DEF HitPaths
  <1>. HIDE DEF found
  <1>3. \A m : ToSet(found(m)) \in SUBSET ChainTo(edges, s, m) /\ IsFiniteSet(ToSet(found(m)))
    BY <1>1, ToSetFinite
  <1>4. ASSUME IsFiniteSet(g.members) PROVE IsFiniteSet(HitPaths(edges, s, g, q))
    <2>. DEFINE f == [m \in g.members |-> ToSet(found(m))]
    <2>1. HitPaths(edges, s, g, q) = UNION {f[m] : m \in g.members}
      BY <1>2
    <2>2. \A m \in g.members : IsFiniteSet(f[m])
      BY <1>3
    <2>. HIDE DEF f
    <2>3. IsFiniteSet({f[m] : m \in g.members})
      BY <1>4, ImageFinite
    <2>4. \A T \in {f[m] : m \in g.members} : IsFiniteSet(T)
      BY <2>2
    <2>. QED
      BY <2>1, <2>3, <2>4, FS_UNION
  <1>5. ASSUME NEW m \in g.members, found(m) # <<>>
        PROVE  \E p \in HitPaths(edges, s, g, q) : Last(p) = m
    <2>1. found(m)[1] \in ChainTo(edges, s, m) /\ found(m)[1] \in ToSet(found(m))
      BY <1>1, <1>5 DEF ToSet
    <2>. QED
      BY <1>2, <2>1 DEF ChainTo
  <1>6. ASSUME NEW p \in HitPaths(edges, s, g, q)
        PROVE  p \in Chain(edges) /\ p[1] = s /\ Last(p) \in g.members
    BY <1>2, <1>3 DEF ChainTo
  <1>. QED
    BY <1>4, <1>5, <1>6 DEF found

\* At some instant the relations of x's store and context that are then valid
\* make its source imply every target.
IsReal(rels, x) ==
    \E at \in Instants(rels) :
        \A now \in Seq(RelationRecord) :
            {r \in Valid(rels, at) : r.store = x.store /\ x.ctx \in {None, r.ctx}}
                \subseteq ToSet(now)
            => \A t \in x.targets : \A N : Entails(now, N, x.source, t)

LEMMA ChainsAreReal ==
  ASSUME NEW rels \in Seq(RelationRecord), NEW scoped \in Seq(RelationRecord), NEW x,
         \A r \in ToSet(scoped) : r \in ToSet(rels) /\ r.store = x.store /\ x.ctx \in {None, r.ctx},
         NEW paths \in SUBSET Chain(Edges(scoped)), Overlap(Edges(scoped), paths),
         \A p \in paths : p[1] = x.source, x.targets = {Last(p) : p \in paths}
  PROVE  IsReal(rels, x)
  <1>1. PICK at \in Instants(scoped) :
            \A now \in Seq(RelationRecord) : Valid(scoped, at) \subseteq ToSet(now) =>
                \A p \in paths : \A N : Entails(now, N, p[1], Last(p))
    BY OverlapEntails
  <1>2. at \in Instants(rels)
    BY DEF Instants
  <1>3. ASSUME NEW now \in Seq(RelationRecord),
               {r \in Valid(rels, at) : r.store = x.store /\ x.ctx \in {None, r.ctx}}
                    \subseteq ToSet(now),
               NEW t \in x.targets, NEW N
        PROVE  Entails(now, N, x.source, t)
    <2>1. Valid(scoped, at) \subseteq ToSet(now)
      BY <1>3 DEF Valid
    <2>2. PICK p \in paths : t = Last(p)
      OBVIOUS
    <2>. QED
      BY <1>1, <2>1, <2>2
  <1>. QED
    BY <1>2, <1>3 DEF IsReal

LEMMA GroupContradictionsReal ==
  ASSUME NEW rels \in Seq(RelationRecord), NEW g \in ExclusiveGroupRecord, NEW q \in SearchRecord,
         NEW x \in HardGroupContradictions(rels, g, NoFilter, q)
  PROVE  IsReal(rels, x)
  <1>. DEFINE scoped == RelationsForGroup(rels, g, NoFilter)
              edges == Edges(scoped)
  <1>1. PICK s \in Nodes(edges) :
            \E paths : /\ paths = HitPaths(edges, s, g, q) /\ Overlap(edges, paths)
                       /\ x.source = s /\ x.targets = {Last(p) : p \in paths}
                       /\ x.store = g.store /\ x.ctx = IF g.glob THEN None ELSE g.ctx
    BY DEF HardGroupContradictions
  <1>2. PICK paths : /\ paths = HitPaths(edges, s, g, q) /\ Overlap(edges, paths)
                     /\ x.source = s /\ x.targets = {Last(p) : p \in paths}
                     /\ x.store = g.store /\ x.ctx = IF g.glob THEN None ELSE g.ctx
    BY <1>1
  <1>3. scoped \in Seq(RelationRecord)
    BY GroupRelations
  <1>4. \A r \in ToSet(scoped) : r \in ToSet(rels) /\ r.store = x.store /\ x.ctx \in {None, r.ctx}
    <2>1. ASSUME NEW r \in ToSet(scoped)
          PROVE  r \in ToSet(rels) /\ r.store = g.store /\ (g.glob \/ r.ctx = g.ctx)
      BY GroupRelations
    <2>2. g.glob \in BOOLEAN
      BY DEF ExclusiveGroupRecord
    <2>. HIDE DEF scoped
    <2>3. CASE g.glob
      BY <1>2, <2>1, <2>3
    <2>4. CASE ~g.glob
      BY <1>2, <2>1, <2>4
    <2>. QED
      BY <2>2, <2>3, <2>4
  <1>. HIDE DEF scoped
  <1>5. edges \in SUBSET Edge /\ IsFiniteSet(edges)
    BY <1>3, EdgesFacts DEF EdgesMatch
  <1>6. s \in Name
    BY <1>5, NodesFacts
  <1>7. paths \in SUBSET Chain(edges) /\ \A p \in paths : p[1] = s
    BY <1>2, <1>5, <1>6, HitPathsFacts
  <1>. QED
    BY <1>2, <1>3, <1>4, <1>7, ChainsAreReal

LEMMA NegationContradictionsReal ==
  ASSUME NEW rels \in Seq(RelationRecord), NEW props, NEW q \in SearchRecord,
         NEW x \in NegationContradictions(rels, props, q)
  PROVE  IsReal(rels, x)
  <1>. DEFINE path(edges, s, t) == ToSet(FindPaths(edges, s, t, Shortest(q)))
              opposed(edges) ==
                {o \in UNION {{[from |-> s, base |-> n[2], neg |-> n[1], pos |-> pos, con |-> con] :
                                 pos \in path(edges, s, n[2]), con \in path(edges, s, n[1])} :
                              s \in Nodes(edges), n \in NegationPairs(Nodes(edges), props)} :
                    Overlap(edges, {o.pos, o.con})}
              report(o, scope) ==
                [type |-> IF o.from = o.base /\ Len(o.con) > 2 THEN "cycle_to_exclusion"
                          ELSE "direct_opposition",
                 severity |-> "hard", source |-> o.from, targets |-> {o.base, o.neg},
                 store |-> scope[1], ctx |-> scope[2]]
              reports(scope) == {report(o, scope) : o \in opposed(Edges(OfScope(rels, scope)))}
  <1>0. NegationContradictions(rels, props, q) = UNION {reports(scope) : scope \in Scopes(rels)}
    BY SMT DEF NegationContradictions
  <1>. HIDE DEF opposed, report
  <1>1. PICK scope \in Scopes(rels) : x \in reports(scope)
    <2>. HIDE DEF reports
    <2>. QED
      BY <1>0
  <1>. DEFINE scoped == OfScope(rels, scope)
              edges == Edges(scoped)
  <1>2. PICK o \in opposed(edges) : x = report(o, scope)
    BY <1>1
  <1>. HIDE DEF reports, path
  <1>3. PICK s \in Nodes(edges), n \in NegationPairs(Nodes(edges), props) :
            \E pos \in path(edges, s, n[2]), con \in path(edges, s, n[1]) :
                /\ o = [from |-> s, base |-> n[2], neg |-> n[1], pos |-> pos, con |-> con]
                /\ Overlap(edges, {o.pos, o.con})
    <2>. HIDE DEF edges
    <2>. QED
      BY <1>2 DEF opposed
  <1>a. PICK b, m : b = n[2] /\ m = n[1]
    OBVIOUS
  <1>b. PICK pos \in path(edges, s, b), con \in path(edges, s, m) :
                /\ o = [from |-> s, base |-> b, neg |-> m, pos |-> pos, con |-> con]
                /\ Overlap(edges, {o.pos, o.con})
    BY <1>3, <1>a
  <1>4. /\ Overlap(edges, {pos, con})
        /\ x.source = s /\ x.targets = {b, m}
        /\ x.store = scope[1] /\ x.ctx = scope[2]
    <2>1. o.pos = pos /\ o.con = con /\ o.from = s /\ o.base = b /\ o.neg = m
      BY <1>b
    <2>2. /\ x.source = o.from /\ x.targets = {o.base, o.neg}
          /\ x.store = scope[1] /\ x.ctx = scope[2]
      <3>. HIDE DEF edges
      <3>. QED
        BY <1>2 DEF report
    <2>. HIDE DEF edges
    <2>. QED
      BY <1>b, <2>1, <2>2
  <1>5. /\ scoped \in Seq(RelationRecord)
        /\ ToSet(scoped) = ToSet(rels) \cap {r \in ToSet(rels) : <<r.store, r.ctx>> = scope}
    BY AmongFacts DEF OfScope
  <1>6. \A r \in ToSet(scoped) : r \in ToSet(rels) /\ r.store = x.store /\ x.ctx \in {None, r.ctx}
    <2>1. ASSUME NEW r \in ToSet(scoped)
          PROVE  r \in ToSet(rels) /\ r.store = scope[1] /\ r.ctx = scope[2]
      <3>1. <<r.store, r.ctx>> = scope
        BY <1>5
      <3>. QED
        BY <1>5, <3>1
    <2>. QED
      BY <1>4, <2>1
  <1>. HIDE DEF scoped
  <1>7. edges \in SUBSET Edge /\ IsFiniteSet(edges)
    BY <1>5, EdgesFacts DEF EdgesMatch
  <1>8. s \in Name
    BY <1>7, NodesFacts
  <1>9. \A t : path(edges, s, t) \in SUBSET ChainTo(edges, s, t)
    <2>. HIDE DEF edges
    <2>1. \A t : FindPaths(edges, s, t, Shortest(q)) \in Seq(ChainTo(edges, s, t))
      BY <1>7, <1>8, ShortestIsSearch, FindPathsFacts
    <2>. QED
      BY <2>1, RecordsOf DEF path
  <1>. HIDE DEF edges
  <1>10. pos \in ChainTo(edges, s, b) /\ con \in ChainTo(edges, s, m)
    BY <1>9
  <1>11. {pos, con} \in SUBSET Chain(edges) /\ \A p \in {pos, con} : p[1] = x.source
    BY <1>4, <1>10 DEF ChainTo
  <1>12. x.targets = {Last(p) : p \in {pos, con}}
    BY <1>4, <1>10 DEF ChainTo
  <1>. QED
    BY <1>4, <1>5, <1>6, <1>11, <1>12, ChainsAreReal DEF edges

LEMMA SameReal ==
  ASSUME NEW rels, NEW other, ToSet(rels) = ToSet(other), NEW x, IsReal(rels, x)
  PROVE  IsReal(other, x)
  <1>1. Instants(rels) = Instants(other) /\ \A at : Valid(rels, at) = Valid(other, at)
    BY DEF Instants, Valid
  <1>. QED
    BY <1>1 DEF IsReal

\* Every hard contradiction that is found is one.
LEMMA HardContradictionsReal ==
  ASSUME NEW rels \in Seq(RelationRecord), NEW groups \in Seq(ExclusiveGroupRecord), NEW props,
         NEW soft \in BOOLEAN, NEW q \in SearchRecord,
         NEW x \in FindContradictions(rels, groups, props, NoFilter, soft, q),
         x.severity = "hard"
  PROVE  IsReal(rels, x)
  <1>. DEFINE seen == Compatible(rels, NoFilter)
  <1>1. seen \in Seq(RelationRecord) /\ ToSet(seen) = ToSet(rels)
    BY CompatibleFacts, NoFilterMatches
  <1>. HIDE DEF seen
  <1>2. \/ x \in NegationContradictions(seen, props, q)
        \/ x \in ConfidenceTensions(seen)
        \/ \E g \in ToSet(groups) : x \in HardGroupContradictions(rels, g, NoFilter, q)
    BY DEF FindContradictions, seen
  <1>3. CASE x \in NegationContradictions(seen, props, q)
    BY <1>1, <1>3, NegationContradictionsReal, SameReal
  <1>4. x \notin ConfidenceTensions(seen)
    BY DEF ConfidenceTensions
  <1>5. CASE \E g \in ToSet(groups) : x \in HardGroupContradictions(rels, g, NoFilter, q)
    BY <1>5, RecordsOf, GroupContradictionsReal
  <1>. QED
    BY <1>2, <1>3, <1>4, <1>5

LEMMA NodesMean ==
  ASSUME NEW rels \in Seq(RelationRecord), NEW n
  PROVE  n \in Nodes(Edges(rels)) <=>
            \E r \in ToSet(rels) : \E x \in Implications(r) : n = x[1] \/ n = x[2]
  <1>1. EdgesMatch(Edges(rels), rels)
    BY EdgesFacts
  <1>2. ASSUME NEW e \in Edges(rels), n = e.ante \/ n = e.cons
        PROVE  \E r \in ToSet(rels) : \E x \in Implications(r) : n = x[1] \/ n = x[2]
    <2>1. PICK r \in ToSet(rels) : <<e.ante, e.cons>> \in Implications(r)
      BY <1>1 DEF EdgesMatch, StandsFor
    <2>2. <<e.ante, e.cons>>[1] = e.ante /\ <<e.ante, e.cons>>[2] = e.cons
      OBVIOUS
    <2>. QED
      BY <1>2, <2>1, <2>2
  <1>3. ASSUME NEW r \in ToSet(rels), NEW x \in Implications(r), n = x[1] \/ n = x[2]
        PROVE  n \in Nodes(Edges(rels))
    <2>1. HasEdge(Edges(rels), x[1], x[2])
      BY <1>1 DEF EdgesMatch
    <2>. QED
      BY <1>3, <2>1 DEF HasEdge, Nodes
  <1>. QED
    BY <1>2, <1>3 DEF Nodes

LEMMA SameWorlds ==
  ASSUME NEW rels, NEW other, ToSet(rels) = ToSet(other), NEW N
  PROVE  /\ Worlds(rels, N) = Worlds(other, N)
         /\ \A s, t : Entails(rels, N, s, t) <=> Entails(other, N, s, t)
         /\ Propositions(rels) = Propositions(other)
  BY DEF Worlds, Entails, Propositions

\* A world of a few propositions is one among more of them.
LEMMA FewerPropositions ==
  ASSUME NEW rels, NEW N, NEW M, N \subseteq M, NEW s, NEW t, Entails(rels, M, s, t)
  PROVE  Entails(rels, N, s, t)
  BY DEF Entails, Worlds

\* The source s implies several members of the group g in the relations of the
\* group's scope, no window separates the implications, and q looks deep enough.
ImpliesSeveral(rels, g, scoped, s, implied, q) ==
    /\ q \in SearchRecord /\ q.floor = NoConfidence
    /\ Cardinality(Propositions(rels)) <= q.depth + 1
    /\ \A r, o \in ToSet(rels) : r.from <= o.to
    /\ scoped \in Seq(RelationRecord)
    /\ ToSet(scoped) = {r \in ToSet(rels) : r.store = g.store /\ (g.glob \/ r.ctx = g.ctx)}
    /\ s \in Nodes(Edges(scoped)) /\ implied \subseteq g.members
    /\ \A m \in implied : Entails(scoped, Propositions(rels), s, m)
    /\ Cardinality(implied) >= 2

IsReported(found, s, implied) ==
    \E x \in found : x.severity = "hard" /\ x.source = s /\ implied \subseteq x.targets

\* Such a source is found.
LEMMA GroupContradictionsFound ==
  ASSUME NEW rels \in Seq(RelationRecord), NEW groups \in Seq(ExclusiveGroupRecord), NEW props,
         NEW soft \in BOOLEAN, NEW g \in ToSet(groups), NEW scoped, NEW s, NEW implied, NEW q,
         ImpliesSeveral(rels, g, scoped, s, implied, q)
  PROVE  IsReported(FindContradictions(rels, groups, props, NoFilter, soft, q), s, implied)
  <1>. DEFINE mine == RelationsForGroup(rels, g, NoFilter)
              edges == Edges(mine)
              N == Propositions(rels)
              paths == HitPaths(edges, s, g, q)
  <1>0. /\ q \in SearchRecord /\ q.floor = NoConfidence
        /\ Cardinality(Propositions(rels)) <= q.depth + 1
        /\ \A r, o \in ToSet(rels) : r.from <= o.to
        /\ scoped \in Seq(RelationRecord)
        /\ ToSet(scoped) = {r \in ToSet(rels) : r.store = g.store /\ (g.glob \/ r.ctx = g.ctx)}
        /\ s \in Nodes(Edges(scoped)) /\ implied \in SUBSET g.members
        /\ \A m \in implied : Entails(scoped, Propositions(rels), s, m)
        /\ Cardinality(implied) >= 2
    BY DEF ImpliesSeveral
  <1>1. mine \in Seq(RelationRecord) /\ ToSet(mine) = ToSet(scoped)
    BY <1>0, GroupRelations
  <1>2. g \in ExclusiveGroupRecord /\ IsFiniteSet(g.members)
    BY RecordsOf DEF ExclusiveGroupRecord
  <1>. HIDE DEF mine
  <1>3. EdgesMatch(edges, mine)
    BY <1>1, EdgesFacts
  <1>4. edges \in SUBSET Edge /\ IsFiniteSet(edges)
    BY <1>3 DEF EdgesMatch
  <1>5. s \in Nodes(edges)
    BY <1>0, <1>1, NodesMean
  <1>6. N \in SUBSET Name /\ IsFiniteSet(N) /\ Propositions(mine) \subseteq N
    <2>1. Propositions(mine) \subseteq N
      BY <1>0, <1>1 DEF Propositions
    <2>. QED
      BY <2>1, PropositionsFacts
  <1>7. s \in Name /\ s \in N
    BY <1>0, <1>1, <1>4, <1>5, <1>6, NodesFacts, PropositionsFacts
  <1>8. ASSUME NEW m \in implied PROVE FindPaths(edges, s, m, Shortest(q)) # <<>>
    <2>1. Entails(mine, N, s, m)
      BY <1>0, <1>1, SameWorlds
    <2>2. Shortest(q) \in SearchRecord /\ DeepEnough(Shortest(q), N)
      BY <1>0, ShortestIsSearch DEF DeepEnough
    <2>. HIDE DEF N
    <2>3. Reaches(edges, s, m, Shortest(q))
      BY <1>1, <1>6, <1>7, <2>1, <2>2, EntailsSearch
    <2>. QED
      BY <2>3 DEF Reaches
  <1>9. /\ paths \in SUBSET Chain(edges) /\ IsFiniteSet(paths)
        /\ \A m \in implied : \E p \in paths : Last(p) = m
    <2>. HIDE DEF edges
    <2>. QED
      BY <1>0, <1>2, <1>4, <1>7, <1>8, HitPathsFacts
  <1>10. Cardinality(paths) >= 2
    <2>. HIDE DEF paths
    <2>1. IsFiniteSet(implied)
      BY <1>0, <1>2, FS_Subset
    <2>2. PICK m, o \in implied : m # o
      BY <1>0, <2>1, TwoElements
    <2>. QED
      BY <1>9, <2>2, TwoElements
  <1>11. Overlap(edges, paths)
    <2>1. ASSUME NEW p \in paths, NEW e \in PathEdges(edges, p) PROVE e \in edges
      <3>1. PICK i \in 1..(Len(p) - 1) : e = BestEdge(edges, p[i], p[i + 1])
        BY DEF PathEdges
      <3>2. HasEdge(edges, p[i], p[i + 1])
        BY <1>9 DEF Chain, IsChain
      <3>. QED
        BY <1>4, <3>1, <3>2, BestEdgeFacts
    <2>2. \A e \in edges : \E r \in ToSet(rels) : e.from = r.from /\ e.to = r.to
      BY <1>0, <1>1, <1>3 DEF EdgesMatch, StandsFor
    <2>. HIDE DEF paths, edges
    <2>3. \A e, f \in edges : e.from <= f.to
      BY <1>0, <2>2
    <2>. QED
      BY <2>1, <2>3 DEF Overlap
  <1>. DEFINE x == [type |-> IF \A p \in paths : Len(p) <= 2 THEN "exclusive_targets"
                             ELSE "transitive_exclusive_targets",
                    severity |-> "hard", source |-> s, targets |-> {Last(p) : p \in paths},
                    store |-> g.store, ctx |-> IF g.glob THEN None ELSE g.ctx]
  <1>12. x \in HardGroupContradictions(rels, g, NoFilter, q)
    <2>. DEFINE h == [from |-> s, paths |-> paths]
                among == {k \in {[from |-> n, paths |-> HitPaths(edges, n, g, q)] : n \in Nodes(edges)} :
                            Cardinality(k.paths) >= 2 /\ Overlap(edges, k.paths)}
                report(k) == [type |-> IF \A p \in k.paths : Len(p) <= 2 THEN "exclusive_targets"
                                       ELSE "transitive_exclusive_targets",
                              severity |-> "hard", source |-> k.from,
                              targets |-> {Last(p) : p \in k.paths},
                              store |-> g.store, ctx |-> IF g.glob THEN None ELSE g.ctx]
    <2>1. HardGroupContradictions(rels, g, NoFilter, q) = {report(k) : k \in among}
      BY SMT DEF HardGroupContradictions, mine
    <2>2. h.from = s /\ h.paths = paths
      OBVIOUS
    <2>3. h \in among
      <3>. HIDE DEF edges
      <3>. QED
        BY <1>5, <1>10, <1>11, <2>2
    <2>4. report(h) = x
      BY <2>2, Zenon
    <2>. HIDE DEF among, report, x
    <2>. QED
      BY <2>1, <2>3, <2>4
  <1>13. GroupCompatible(g, NoFilter)
    BY DEF GroupCompatible, NoFilter
  <1>14. x \in FindContradictions(rels, groups, props, NoFilter, soft, q)
    <2>. HIDE DEF x
    <2>. QED
      BY <1>12, <1>13 DEF FindContradictions
  <1>15. x.severity = "hard" /\ x.source = s /\ x.targets = {Last(p) : p \in paths}
    <2>. HIDE DEF paths
    <2>. QED
      OBVIOUS
  <1>16. implied \subseteq x.targets
    <2>. HIDE DEF x, paths
    <2>. QED
      BY <1>9, <1>15
  <1>. HIDE DEF x
  <1>. QED
    BY <1>14, <1>15, <1>16 DEF IsReported

(***************************************************************************)
(* Fewer relations: what is no contradiction among all is none among some  *)
(***************************************************************************)
LEMMA SimplePathLength ==
  ASSUME NEW edges \in SUBSET Edge, IsFiniteSet(edges), NEW s \in Name,
         NEW p \in SimplePath(edges, s)
  PROVE  Len(p) - 1 <= Cardinality(Nodes(edges))
  <1>1. p \in Seq(Name) /\ Len(p) \in Nat /\ Len(p) >= 1 /\ IsChain(edges, p) /\ NoRepeats(p)
    BY DEF SimplePath, Chain
  <1>2. Cardinality(Nodes(edges)) \in Nat /\ IsFiniteSet(Nodes(edges))
    BY NodesFacts
  <1>3. CASE Len(p) = 1
    BY <1>2, <1>3
  <1>4. CASE Len(p) # 1
    <2>1. ASSUME NEW i \in 1..Len(p) PROVE p[i] \in Nodes(edges)
      <3>1. CASE i = Len(p)
        <4>1. i - 1 \in 1..(Len(p) - 1) /\ (i - 1) + 1 = i
          BY <1>1, <1>4, <3>1
        <4>. QED
          BY <1>1, <4>1, NodesFacts DEF IsChain
      <3>2. CASE i # Len(p)
        <4>1. i \in 1..(Len(p) - 1)
          BY <1>1, <3>2
        <4>. QED
          BY <1>1, <4>1, NodesFacts DEF IsChain
      <3>. QED
        BY <3>1, <3>2
    <2>2. ToSet(p) \subseteq Nodes(edges)
      BY <1>1, <2>1 DEF ToSet
    <2>3. Cardinality(ToSet(p)) = Len(p)
      BY <1>1, NoRepeatsLength
    <2>4. Cardinality(ToSet(p)) <= Cardinality(Nodes(edges))
      BY <1>2, <2>2, FS_Subset
    <2>. QED
      BY <1>1, <1>2, <2>3, <2>4
  <1>. QED
    BY <1>3, <1>4

\* Every chain from s without repeats is one of the simple paths.
LEMMA SimplePathsAll ==
  ASSUME NEW edges \in SUBSET Edge, IsFiniteSet(edges), NEW s \in Name
  PROVE  SimplePath(edges, s) \subseteq SimplePaths(edges, s)
  <1>1. PICK n \in Nat : n = Cardinality(Nodes(edges))
    BY NodesFacts
  <1>2. PICK f : IsLevels(f, edges, s) /\ SimplePaths(edges, s) = UNION {f[k] : k \in 0..n}
    BY <1>1, LevelsExist
  <1>3. f[0] = {<<s>>} /\ \A k \in 1..n : f[k] = Longer(edges, f[k - 1])
    BY <1>1, <1>2 DEF IsLevels
  <1>. DEFINE G == {k \in Nat : k <= n => \A p \in SimplePath(edges, s) : Len(p) = k + 1 => p \in f[k]}
  <1>4. 0 \in G
    <2>1. ASSUME NEW p \in SimplePath(edges, s), Len(p) = 1 PROVE p = <<s>>
      <3>1. p \in Seq(Name) /\ p[1] = s
        BY DEF SimplePath, Chain
      <3>. QED
        BY <2>1, <3>1
    <2>. QED
      BY <1>3, <2>1
  <1>5. ASSUME NEW k \in Nat, k \in G PROVE k + 1 \in G
    <2>1. SUFFICES ASSUME k + 1 <= n, NEW o \in SimplePath(edges, s), Len(o) = (k + 1) + 1
                   PROVE  o \in f[k + 1]
      BY DEF G
    <2>2. k + 1 \in 1..n /\ (k + 1) - 1 = k /\ k <= n
      BY <2>1
    <2>3. /\ o \in Seq(Name) /\ Len(o) = k + 2 /\ o[1] = s
          /\ DOMAIN o = 1..(k + 2) /\ IsChain(edges, o) /\ NoRepeats(o)
      BY <2>1 DEF SimplePath, Chain
    <2>4. PICK p : p = [i \in 1..(k + 1) |-> o[i]]
      OBVIOUS
    <2>5. /\ p \in Seq(Name) /\ Len(p) = k + 1 /\ DOMAIN p = 1..(k + 1)
          /\ \A i \in 1..(k + 1) : p[i] = o[i]
      BY <2>3, <2>4
    <2>6. o[k + 2] \in Name /\ o = Append(p, o[k + 2])
      BY <2>3, <2>4, <2>5
    <2>7. \A i \in 1..(k + 1) : HasEdge(edges, o[i], o[i + 1])
      BY <2>3 DEF IsChain
    <2>8. IsChain(edges, p)
      <3>1. ASSUME NEW i \in 1..(Len(p) - 1) PROVE HasEdge(edges, p[i], p[i + 1])
        <4>1. i \in 1..(k + 1) /\ i + 1 \in 1..(k + 1)
          BY <2>5
        <4>. QED
          BY <2>5, <2>7, <4>1
      <3>. QED
        BY <3>1 DEF IsChain
    <2>9. NoRepeats(p)
      <3>1. \A i \in 1..(k + 1) : i \in 1..(k + 2)
        OBVIOUS
      <3>. QED
        BY <2>3, <2>5, <3>1 DEF NoRepeats
    <2>10. p[1] = s /\ Last(p) = o[k + 1]
      BY <2>3, <2>5 DEF Last
    <2>11. p \in SimplePath(edges, s)
      BY <2>5, <2>8, <2>9, <2>10 DEF SimplePath, Chain
    <2>12. p \in f[k]
      BY <1>5, <2>2, <2>5, <2>11
    <2>13. PICK e \in edges : e.ante = o[k + 1] /\ e.cons = o[k + 2]
      <3>1. HasEdge(edges, o[k + 1], o[(k + 1) + 1])
        BY <2>7
      <3>. QED
        BY <3>1 DEF HasEdge
    <2>14. e.cons \notin ToSet(p)
      <3>1. ASSUME NEW i \in 1..(k + 1) PROVE p[i] # o[k + 2]
        <4>1. i \in DOMAIN o /\ k + 2 \in DOMAIN o /\ i # k + 2
          BY <2>3
        <4>. QED
          BY <2>3, <2>5, <4>1 DEF NoRepeats
      <3>. QED
        BY <2>5, <2>13, <3>1 DEF ToSet
    <2>15. o \in Longer(edges, f[k])
      BY <2>6, <2>10, <2>12, <2>13, <2>14, LongerPaths
    <2>. QED
      BY <1>3, <2>2, <2>15
  <1>. HIDE DEF G
  <1>6. Nat \subseteq G
    BY <1>4, <1>5, InductionOnNat
  <1>7. ASSUME NEW p \in SimplePath(edges, s) PROVE p \in SimplePaths(edges, s)
    <2>1. PICK k \in Nat : Len(p) = k + 1
      <3>1. Len(p) \in Nat /\ Len(p) >= 1 /\ Len(p) - 1 \in Nat /\ Len(p) = (Len(p) - 1) + 1
        BY DEF SimplePath, Chain
      <3>. QED
        BY <3>1
    <2>2. k <= n
      BY <1>1, <2>1, SimplePathLength
    <2>3. p \in f[k] /\ k \in 0..n
      BY <1>6, <2>1, <2>2 DEF G
    <2>. QED
      BY <1>2, <2>3
  <1>. QED
    BY <1>7

LEMMA BestOfShortest ==
  ASSUME NEW edges, NEW paths \in SUBSET Chain(edges), NEW q, q.strategy = "shortest",
         NEW o \in paths
  PROVE  BestOf(paths, edges, q) \in paths /\ Len(BestOf(paths, edges, q)) <= Len(o)
  <1>. DEFINE Least(p) == \A x \in paths : Better(edges, q, p, x)
              L == {Len(p) : p \in paths}
  <1>0. \A p \in paths : Len(p) \in Nat
    BY DEF Chain
  <1>1. L \in SUBSET Nat /\ L # {}
    BY <1>0
  <1>2. PICK n \in L : \A m \in L : n <= m
    BY <1>1, LeastNat
  <1>3. PICK p \in paths : Least(p)
    BY <1>0, <1>2 DEF Better
  <1>. HIDE DEF Least
  <1>4. BestOf(paths, edges, q) \in paths /\ Least(BestOf(paths, edges, q))
    <2>1. \E x \in paths : Least(x)
      BY <1>3
    <2>2. (CHOOSE x \in paths : Least(x)) \in paths /\ Least(CHOOSE x \in paths : Least(x))
      BY <2>1, Zenon
    <2>. QED
      BY <2>2, Zenon DEF BestOf, Least
  <1>5. PICK b \in paths : b = BestOf(paths, edges, q) /\ Least(b)
    BY <1>4
  <1>. QED
    BY <1>5 DEF Least, Better

\* The nodes and the edges of one graph are among those of another.
EdgesWithin(few, many) == \A a, c : HasEdge(few, a, c) => HasEdge(many, a, c)

\* What a search for the shortest path finds, it finds in a greater graph too.
LEMMA FindPathsMore ==
  ASSUME NEW few \in SUBSET Edge, IsFiniteSet(few), NEW many \in SUBSET Edge, IsFiniteSet(many),
         EdgesWithin(few, many), NEW s \in Name, NEW t, NEW q \in SearchRecord,
         q.floor = NoConfidence, q.strategy = "shortest", q.direct = FALSE,
         FindPaths(few, s, t, q) # <<>>
  PROVE  FindPaths(many, s, t, q) # <<>>
  <1>. DEFINE Paths(edges) == {p \in SimplePaths(edges, s) : Last(p) = t}
              Short(edges) == {p \in Paths(edges) : Len(p) - 1 <= q.depth}
  <1>1. SearchGraph(few, q.floor) = few /\ SearchGraph(many, q.floor) = many
    BY DEF SearchGraph, Edge
  <1>2. CASE s = t
    BY <1>2, Zenon DEF FindPaths
  <1>3. CASE s # t
    <2>1. FindPaths(few, s, t, q) = Kept(Paths(few), few, q)
      BY <1>1, <1>3, Zenon DEF FindPaths
    <2>2. FindPaths(many, s, t, q) = Kept(Paths(many), many, q)
      BY <1>1, <1>3, Zenon DEF FindPaths
    <2>3. Paths(few) # {} /\ BestOf(Paths(few), few, q) \in Short(few)
      <3>1. q.strategy # "all"
        OBVIOUS
      <3>2. CASE ~(Paths(few) # {} /\ BestOf(Paths(few), few, q) \in Short(few))
        <4>1. Kept(Paths(few), few, q) = <<>>
          BY <3>1, <3>2, Zenon DEF Kept
        <4>. QED
          BY <2>1, <4>1
      <3>. QED
        BY <3>2
    <2>4. PICK p \in Paths(few) : Len(p) - 1 <= q.depth
      BY <2>3
    <2>5. p \in SimplePath(few, s) /\ Last(p) = t
      BY SimplePathsFacts
    <2>6. p \in SimplePath(many, s)
      BY <2>5 DEF SimplePath, Chain, IsChain, EdgesWithin
    <2>7. p \in Paths(many)
      BY <2>5, <2>6, SimplePathsAll
    <2>8. Paths(many) \in SUBSET Chain(many)
      BY SimplePathsFacts DEF SimplePath
    <2>. HIDE DEF Paths
    <2>9. PICK b \in Paths(many) : b = BestOf(Paths(many), many, q) /\ Len(b) <= Len(p)
      BY <2>7, <2>8, BestOfShortest
    <2>10. Len(b) \in Nat /\ Len(p) \in Nat /\ q.depth \in Nat
      BY <2>6, <2>8 DEF Chain, SearchRecord, SimplePath
    <2>11. BestOf(Paths(many), many, q) \in Short(many)
      BY <2>4, <2>9, <2>10
    <2>12. Kept(Paths(many), many, q) = <<BestOf(Paths(many), many, q)>>
      <3>1. q.strategy # "all" /\ Paths(many) # {}
        BY <2>7
      <3>. QED
        BY <2>11, <3>1, Zenon DEF Kept, Short
    <2>. QED
      BY <2>2, <2>12
  <1>. QED
    BY <1>2, <1>3

\* From s a proposition b is found, and m that reads "not b".
Opposes(edges, props, q, s, b, m) ==
    /\ s \in Nodes(edges) /\ <<m, b>> \in NegationPairs(Nodes(edges), props)
    /\ \E pos \in ToSet(FindPaths(edges, s, b, Shortest(q))),
          con \in ToSet(FindPaths(edges, s, m, Shortest(q))) : Overlap(edges, {pos, con})

LEMMA NegationsOppose ==
  ASSUME NEW rels, NEW props, NEW q
  PROVE  NegationContradictions(rels, props, q) # {} <=>
            \E scope \in Scopes(rels) : \E s, b, m :
                Opposes(Edges(OfScope(rels, scope)), props, q, s, b, m)
  <1>. DEFINE path(edges, s, t) == ToSet(FindPaths(edges, s, t, Shortest(q)))
              Found(s, n, pos, con) ==
                [from |-> s, base |-> n[2], neg |-> n[1], pos |-> pos, con |-> con]
              hits(edges) == UNION {{Found(s, n, pos, con) :
                                 pos \in path(edges, s, n[2]), con \in path(edges, s, n[1])} :
                              s \in Nodes(edges), n \in NegationPairs(Nodes(edges), props)}
              opposed(edges) == {o \in hits(edges) : Overlap(edges, {o.pos, o.con})}
              report(o, scope) ==
                [type |-> IF o.from = o.base /\ Len(o.con) > 2 THEN "cycle_to_exclusion"
                          ELSE "direct_opposition",
                 severity |-> "hard", source |-> o.from, targets |-> {o.base, o.neg},
                 store |-> scope[1], ctx |-> scope[2]]
              reports(scope) == {report(o, scope) : o \in opposed(Edges(OfScope(rels, scope)))}
  <1>0. NegationContradictions(rels, props, q) = UNION {reports(scope) : scope \in Scopes(rels)}
    BY SMT DEF NegationContradictions
  <1>1. ASSUME NEW edges
        PROVE  opposed(edges) # {} <=> \E s, b, m : Opposes(edges, props, q, s, b, m)
    <2>1. ASSUME NEW o \in opposed(edges) PROVE \E s, b, m : Opposes(edges, props, q, s, b, m)
      <3>1. PICK s \in Nodes(edges), n \in NegationPairs(Nodes(edges), props) :
                \E pos \in path(edges, s, n[2]), con \in path(edges, s, n[1]) :
                    o = Found(s, n, pos, con) /\ Overlap(edges, {o.pos, o.con})
        <4>. HIDE DEF Found, path
        <4>. QED
          OBVIOUS
      <3>2. PICK pos \in path(edges, s, n[2]), con \in path(edges, s, n[1]) :
                o = Found(s, n, pos, con) /\ Overlap(edges, {o.pos, o.con})
        BY <3>1
      <3>3. o.pos = pos /\ o.con = con
        BY <3>2
      <3>4. n = <<n[1], n[2]>>
        BY DEF NegationPairs
      <3>5. PICK b, m : b = n[2] /\ m = n[1]
        OBVIOUS
      <3>6. <<m, b>> \in NegationPairs(Nodes(edges), props)
        BY <3>4, <3>5
      <3>7. pos \in path(edges, s, b) /\ con \in path(edges, s, m) /\ Overlap(edges, {pos, con})
        BY <3>2, <3>3, <3>5
      <3>8. Opposes(edges, props, q, s, b, m)
        <4>1. \E y \in path(edges, s, b), z \in path(edges, s, m) : Overlap(edges, {y, z})
          BY <3>7
        <4>2. s \in Nodes(edges)
          OBVIOUS
        <4>. HIDE DEF opposed
        <4>. QED
          BY <3>6, <4>1, <4>2, Zenon DEF Opposes, path
      <3>. QED
        BY <3>8
    <2>2. ASSUME NEW s, NEW b, NEW m, Opposes(edges, props, q, s, b, m) PROVE opposed(edges) # {}
      <3>1. PICK n : n = <<m, b>>
        OBVIOUS
      <3>2. n \in NegationPairs(Nodes(edges), props) /\ s \in Nodes(edges) /\ n[1] = m /\ n[2] = b
        BY <2>2, <3>1 DEF Opposes
      <3>3. PICK pos \in path(edges, s, n[2]), con \in path(edges, s, n[1]) :
                Overlap(edges, {pos, con})
        BY <2>2, <3>2 DEF Opposes
      <3>4. Found(s, n, pos, con).pos = pos /\ Found(s, n, pos, con).con = con
        OBVIOUS
      <3>. HIDE DEF Found, path
      <3>. DEFINE of(x, y) == {Found(x, y, p, c) : p \in path(edges, x, y[2]), c \in path(edges, x, y[1])}
      <3>5. Found(s, n, pos, con) \in hits(edges)
        <4>1. Found(s, n, pos, con) \in of(s, n)
          BY <3>3
        <4>. HIDE DEF of
        <4>2. of(s, n) \in {of(x, y) : x \in Nodes(edges), y \in NegationPairs(Nodes(edges), props)}
          BY <3>2
        <4>3. hits(edges) = UNION {of(x, y) : x \in Nodes(edges), y \in NegationPairs(Nodes(edges), props)}
          BY SMT DEF of
        <4>. HIDE DEF hits
        <4>. QED
          BY <4>1, <4>2, <4>3
      <3>6. Found(s, n, pos, con) \in opposed(edges)
        BY <3>3, <3>4, <3>5
      <3>. QED
        BY <3>6
    <2>. HIDE DEF opposed
    <2>. QED
      BY <2>1, <2>2
  <1>. HIDE DEF opposed, report
  <1>2. \A scope : reports(scope) # {} <=> opposed(Edges(OfScope(rels, scope))) # {}
    OBVIOUS
  <1>. HIDE DEF reports
  <1>3. NegationContradictions(rels, props, q) # {} <=> \E scope \in Scopes(rels) : reports(scope) # {}
    BY <1>0
  <1>. QED
    BY <1>1, <1>2, <1>3

\* No window of the relations excludes another.
Coincide(rels) == \A r, o \in ToSet(rels) : r.from <= o.to

LEMMA CoincidingOverlap ==
  ASSUME NEW rels, Coincide(rels), NEW edges, EdgesMatch(edges, rels),
         NEW paths \in SUBSET Chain(edges)
  PROVE  Overlap(edges, paths)
  <1>. DEFINE used == UNION {PathEdges(edges, p) : p \in paths}
  <1>1. edges \in SUBSET Edge
    BY DEF EdgesMatch
  <1>2. ASSUME NEW e \in used PROVE \E r \in ToSet(rels) : e.from = r.from /\ e.to = r.to
    <2>1. PICK p \in paths : e \in PathEdges(edges, p)
      OBVIOUS
    <2>2. PICK i \in 1..(Len(p) - 1) : e = BestEdge(edges, p[i], p[i + 1])
      BY <2>1 DEF PathEdges
    <2>3. HasEdge(edges, p[i], p[i + 1])
      BY <2>2 DEF Chain, IsChain
    <2>4. e \in edges
      BY <1>1, <2>2, <2>3, BestEdgeFacts
    <2>. QED
      BY <2>4 DEF EdgesMatch, StandsFor
  <1>. HIDE DEF used
  <1>3. \A e, f \in used : e.from <= f.to
    BY <1>2 DEF Coincide
  <1>. QED
    BY <1>3 DEF Overlap, used

LEMMA NegationsFewer ==
  ASSUME NEW rels \in Seq(RelationRecord), NEW few \in Seq(RelationRecord),
         ToSet(few) \subseteq ToSet(rels), Coincide(rels),
         NEW props, NEW q \in SearchRecord, q.floor = NoConfidence,
         NegationContradictions(rels, props, q) = {}
  PROVE  NegationContradictions(few, props, q) = {}
  <1>1. SUFFICES ASSUME NegationContradictions(few, props, q) # {} PROVE FALSE
    OBVIOUS
  <1>2. PICK scope \in Scopes(few) : \E s, b, m :
            Opposes(Edges(OfScope(few, scope)), props, q, s, b, m)
    BY <1>1, NegationsOppose
  <1>. DEFINE fewOf == OfScope(few, scope)
              all == OfScope(rels, scope)
              less == Edges(fewOf)
              more == Edges(all)
  <1>3. PICK s, b, m : Opposes(less, props, q, s, b, m)
    BY <1>2
  <1>4. scope \in Scopes(rels)
    BY DEF Scopes
  <1>5. /\ fewOf \in Seq(RelationRecord) /\ all \in Seq(RelationRecord)
        /\ ToSet(fewOf) = {r \in ToSet(few) : <<r.store, r.ctx>> = scope}
        /\ ToSet(all) = {r \in ToSet(rels) : <<r.store, r.ctx>> = scope}
    <2>. DEFINE A(list) == {r \in ToSet(list) : <<r.store, r.ctx>> = scope}
    <2>1. \A list : A(list) \subseteq ToSet(list)
      OBVIOUS
    <2>2. OfScope(few, scope) = Among(few, A(few)) /\ OfScope(rels, scope) = Among(rels, A(rels))
      BY Zenon DEF OfScope
    <2>. HIDE DEF A
    <2>3. /\ Among(few, A(few)) \in Seq(RelationRecord)
          /\ ToSet(Among(few, A(few))) = ToSet(few) \cap A(few)
      BY AmongFacts
    <2>4. /\ Among(rels, A(rels)) \in Seq(RelationRecord)
          /\ ToSet(Among(rels, A(rels))) = ToSet(rels) \cap A(rels)
      BY AmongFacts
    <2>5. ToSet(fewOf) = A(few) /\ ToSet(all) = A(rels)
      BY <2>1, <2>2, <2>3, <2>4
    <2>. QED
      BY <2>2, <2>3, <2>4, <2>5 DEF A
  <1>. HIDE DEF fewOf, all
  <1>6. EdgesMatch(less, fewOf) /\ EdgesMatch(more, all)
    BY <1>5, EdgesFacts
  <1>. HIDE DEF less, more
  <1>7. /\ less \in SUBSET Edge /\ IsFiniteSet(less)
        /\ more \in SUBSET Edge /\ IsFiniteSet(more)
    BY <1>6 DEF EdgesMatch
  <1>8. ASSUME NEW e \in less PROVE HasEdge(more, e.ante, e.cons)
    <2>1. PICK r \in ToSet(fewOf) : StandsFor(e, r)
      BY <1>6 DEF EdgesMatch
    <2>2. r \in ToSet(all)
      BY <1>5
    <2>3. PICK x : x = <<e.ante, e.cons>> /\ x \in Implications(r) /\ x[1] = e.ante /\ x[2] = e.cons
      BY <2>1 DEF StandsFor
    <2>. QED
      BY <1>6, <2>2, <2>3 DEF EdgesMatch
  <1>9. EdgesWithin(less, more)
    BY <1>8 DEF EdgesWithin, HasEdge
  <1>10. Nodes(less) \subseteq Nodes(more) /\ Nodes(less) \in SUBSET Name
    <2>1. \A e \in less : e.ante \in Nodes(more) /\ e.cons \in Nodes(more)
      BY <1>7, <1>8, NodesFacts
    <2>. QED
      BY <1>7, <2>1, NodesFacts DEF Nodes
  <1>11. /\ s \in Nodes(more) /\ s \in Name
         /\ <<m, b>> \in NegationPairs(Nodes(more), props)
    BY <1>3, <1>10 DEF Opposes, NegationPairs
  <1>12. PICK p \in SearchRecord : p = Shortest(q) /\ p.floor = NoConfidence /\ p.strategy = "shortest"
                             /\ p.direct = FALSE
    BY ShortestIsSearch
  <1>13. ASSUME NEW t, ToSet(FindPaths(less, s, t, p)) # {}
         PROVE  \E o \in ToSet(FindPaths(more, s, t, p)) : o \in Chain(more)
    <2>1. FindPaths(less, s, t, p) # <<>>
      BY <1>13, EmptyList
    <2>2. FindPaths(more, s, t, p) # <<>>
      BY <1>7, <1>9, <1>11, <1>12, <2>1, FindPathsMore
    <2>3. FindPaths(more, s, t, p) \in Seq(ChainTo(more, s, t))
      BY <1>7, <1>11, FindPathsFacts
    <2>4. ToSet(FindPaths(more, s, t, p)) # {}
      BY <2>2, <2>3, NoElements
    <2>. QED
      BY <2>3, <2>4, RecordsOf DEF ChainTo
  <1>14. /\ ToSet(FindPaths(less, s, b, p)) # {}
         /\ ToSet(FindPaths(less, s, m, p)) # {}
    BY <1>3, <1>12 DEF Opposes
  <1>15. PICK pos \in ToSet(FindPaths(more, s, b, p)) : pos \in Chain(more)
    BY <1>13, <1>14
  <1>16. PICK con \in ToSet(FindPaths(more, s, m, p)) : con \in Chain(more)
    BY <1>13, <1>14
  <1>17. Overlap(more, {pos, con})
    <2>1. Coincide(all)
      BY <1>5 DEF Coincide
    <2>2. {pos, con} \in SUBSET Chain(more)
      BY <1>15, <1>16
    <2>. QED
      BY <1>6, <2>1, <2>2, CoincidingOverlap
  <1>18. Opposes(more, props, q, s, b, m)
    BY <1>11, <1>12, <1>15, <1>16, <1>17 DEF Opposes
  <1>19. NegationContradictions(rels, props, q) # {}
    BY <1>4, <1>18, NegationsOppose DEF more, all
  <1>. QED
    BY <1>19

\* Of relations that hold at one time, some have no negation in contradiction
\* if all together have none.
LEMMA ContradictionsFewer ==
  ASSUME NEW rels \in Seq(RelationRecord), NEW few \in Seq(RelationRecord),
         ToSet(few) \subseteq ToSet(rels), Coincide(rels),
         NEW props, NEW q \in SearchRecord, q.floor = NoConfidence,
         FindContradictions(rels, <<>>, props, NoFilter, FALSE, q) = {}
  PROVE  FindContradictions(few, <<>>, props, NoFilter, FALSE, q) = {}
  <1>1. ASSUME NEW list
        PROVE  FindContradictions(list, <<>>, props, NoFilter, FALSE, q) =
                    NegationContradictions(Compatible(list, NoFilter), props, q)
    <2>1. {g \in ToSet(<<>>) : GroupCompatible(g, NoFilter)} = {}
      BY EmptyList
    <2>. QED
      BY <2>1, SMT DEF FindContradictions
  <1>2. /\ Compatible(rels, NoFilter) \in Seq(RelationRecord)
        /\ ToSet(Compatible(rels, NoFilter)) = ToSet(rels)
    BY CompatibleFacts, NoFilterMatches
  <1>3. /\ Compatible(few, NoFilter) \in Seq(RelationRecord)
        /\ ToSet(Compatible(few, NoFilter)) = ToSet(few)
    BY CompatibleFacts, NoFilterMatches
  <1>4. Coincide(Compatible(rels, NoFilter))
    BY <1>2 DEF Coincide
  <1>5. NegationContradictions(Compatible(rels, NoFilter), props, q) = {}
    BY <1>1
  <1>6. NegationContradictions(Compatible(few, NoFilter), props, q) = {}
    BY <1>2, <1>3, <1>4, <1>5, NegationsFewer
  <1>. QED
    BY <1>1, <1>6

(***************************************************************************)
(* Relations with the identities of their labels                           *)
(***************************************************************************)
LEMMA IdentityFacts ==
  ASSUME NEW props, \A p \in ToSet(props) : p.id \in Name, NEW term
  PROVE  Identity(term, props) \in NameOrNone
  <1>. DEFINE named == {p \in ToSet(props) : term \in p.terms}
              first == CHOOSE p \in named : TRUE
  <1>1. named # {} => first \in named
    OBVIOUS
  <1>2. Identity(term, props) = IF named = {} THEN None ELSE first.id
    BY DEF Identity
  <1>. HIDE DEF first
  <1>. QED
    BY <1>1, <1>2 DEF NameOrNone

\* A relation keeps all but the ids it lacks.
LEMMA WithIdentityFacts ==
  ASSUME NEW r \in RelationRecord, NEW props, \A p \in ToSet(props) : p.id \in Name
  PROVE  LET x == WithIdentity(r, props)
         IN  /\ x \in RelationRecord
             /\ x.id = r.id /\ x.store = r.store /\ x.ctx = r.ctx /\ x.from = r.from /\ x.to = r.to
             /\ None \notin {r.sid, r.tid} => x = r
  <1>1. Identity(r.src, props) \in NameOrNone /\ Identity(r.tgt, props) \in NameOrNone
    BY IdentityFacts
  <1>. DEFINE sid == IF r.sid = None THEN Identity(r.src, props) ELSE r.sid
              tid == IF r.tid = None THEN Identity(r.tgt, props) ELSE r.tid
  <1>2. sid \in NameOrNone /\ tid \in NameOrNone
    BY <1>1 DEF RelationRecord
  <1>3. WithIdentity(r, props) = [r EXCEPT !.sid = sid, !.tid = tid]
    BY DEF WithIdentity, RelationRecord
  <1>4. None \notin {r.sid, r.tid} => sid = r.sid /\ tid = r.tid
    OBVIOUS
  <1>. HIDE DEF sid, tid
  <1>5. PICK x : x = [r EXCEPT !.sid = sid, !.tid = tid]
    OBVIOUS
  <1>6. /\ x \in RelationRecord
        /\ x.id = r.id /\ x.store = r.store /\ x.ctx = r.ctx /\ x.from = r.from /\ x.to = r.to
    BY <1>2, <1>5 DEF RelationRecord
  <1>7. None \notin {r.sid, r.tid} => x = r
    BY <1>4, <1>5 DEF RelationRecord
  <1>. QED
    BY <1>3, <1>5, <1>6, <1>7

LEMMA WithIdentitiesFacts ==
  ASSUME NEW rels \in Seq(RelationRecord), NEW props, \A p \in ToSet(props) : p.id \in Name
  PROVE  LET list == WithIdentities(rels, props)
         IN  /\ list \in Seq(RelationRecord) /\ Len(list) = Len(rels)
             /\ \A i \in 1..Len(rels) : list[i] = WithIdentity(rels[i], props)
             /\ ToSet(list) = {WithIdentity(r, props) : r \in ToSet(rels)}
  <1>1. PICK n \in Nat : n = Len(rels) /\ DOMAIN rels = 1..n
    OBVIOUS
  <1>2. \A i \in 1..n : WithIdentity(rels[i], props) \in RelationRecord
    BY <1>1, WithIdentityFacts
  <1>3. PICK t : t = [i \in 1..n |-> WithIdentity(rels[i], props)]
    OBVIOUS
  <1>4. t \in Seq(RelationRecord) /\ Len(t) = n /\ DOMAIN t = 1..n
    BY <1>2, <1>3
  <1>5. WithIdentities(rels, props) = t
    BY <1>1, <1>3 DEF WithIdentities
  <1>6. \A i \in 1..n : t[i] = WithIdentity(rels[i], props)
    BY <1>3
  <1>7. ToSet(t) = {WithIdentity(r, props) : r \in ToSet(rels)}
    BY <1>1, <1>4, <1>6 DEF ToSet
  <1>. QED
    BY <1>1, <1>4, <1>5, <1>6, <1>7
=============================================================================
