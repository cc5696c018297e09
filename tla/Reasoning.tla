------------------------------ MODULE Reasoning ------------------------------
(***************************************************************************)
(* The reasoning tools: paths over the implication graph of the relations, *)
(* classification, chain verification, counterfactuals and contradictions, *)
(* as functions of a graph and a call; and, at the end, what their answers *)
(* are meant to say.                                                       *)
(*                                                                         *)
(* A path is the sequence of its nodes.  A search is a record              *)
(*   [depth, floor, direct, strategy, most]                                *)
(* where floor is the cost of min_confidence (NoConfidence when it is 0)   *)
(* and most is max_paths.  A context filter is                             *)
(*   [store, ctx, dom, asm, at], None, {} and 0 standing for "not given".  *)
(* Between paths of one length, or one cost, the code keeps the one its    *)
(* graph library meets first; CHOOSE stands for that.                      *)
(***************************************************************************)
EXTENDS RelationData

CONSTANT TextNegates    \* the pairs <<n, b>> of labels where n reads "not b"

NoFilter == [store |-> None, ctx |-> None, dom |-> None, asm |-> {}, at |-> 0]

ValidAt(r, t) == r.from <= t /\ t <= r.to

Compatible(rels, cf) ==
    Among(rels, {r \in ToSet(rels) : /\ Agrees(r, cf, {"store", "ctx", "dom"})
                                     /\ cf.asm \subseteq r.asm
                                     /\ cf.at = 0 \/ ValidAt(r, cf.at)})

(***************************************************************************)
(* The graph: one edge per edge id, which is that of the relation with a   *)
(* suffix, and node pair, the last of them.                                *)
(***************************************************************************)
Suffix(r, e) == IF r.type = "equivalent" /\ e # <<Source(r), Target(r)>> THEN "b" ELSE "a"

Edges(rels) ==
    LET same(i, e) == {k \in DOMAIN rels : /\ rels[k].id = rels[i].id
                                            /\ e \in Implications(rels[k])
                                            /\ Suffix(rels[k], e) = Suffix(rels[i], e)}
        last == {x \in UNION {{i} \X Implications(rels[i]) : i \in DOMAIN rels} :
                    x[1] = Max(same(x[1], x[2]))}
    IN  {[ante |-> x[2][1], cons |-> x[2][2], rel |-> rels[x[1]].id,
          cost |-> rels[x[1]].cost, from |-> rels[x[1]].from, to |-> rels[x[1]].to,
          at |-> Min(same(x[1], x[2]))] : x \in last}

Nodes(edges) == {e.ante : e \in edges} \cup {e.cons : e \in edges}
SearchGraph(edges, floor) == {e \in edges : e.cost <= floor}

HasEdge(edges, a, c) == \E e \in edges : e.ante = a /\ e.cons = c

\* best_direct_edge: the most confident, and of those the first added.
BestEdge(edges, a, c) ==
    LET between == {e \in edges : e.ante = a /\ e.cons = c}
    IN  CHOOSE e \in between : \A o \in between :
            e.cost < o.cost \/ (e.cost = o.cost /\ e.at <= o.at)

PathEdges(edges, p) == {BestEdge(edges, p[i], p[i + 1]) : i \in 1..(Len(p) - 1)}
PathCost(edges, p) ==
    LET sum[i \in 0..(Len(p) - 1)] ==
            IF i = 0 THEN 0 ELSE sum[i - 1] + BestEdge(edges, p[i], p[i + 1]).cost
    IN  sum[Len(p) - 1]

SimplePaths(edges, s) ==
    LET level[k \in 0..Cardinality(Nodes(edges))] ==
            IF k = 0 THEN {<<s>>}
            ELSE UNION {{Append(p, e.cons) : e \in {x \in edges :
                            x.ante = Last(p) /\ x.cons \notin ToSet(p)}} : p \in level[k - 1]}
    IN  UNION {level[k] : k \in 0..Cardinality(Nodes(edges))}

\* How a strategy ranks two paths.
Better(edges, q, p, o) ==
    IF q.strategy = "shortest" THEN Len(p) <= Len(o)
    ELSE \/ PathCost(edges, p) < PathCost(edges, o)
         \/ /\ PathCost(edges, p) = PathCost(edges, o)
            /\ q.strategy = "all" => Len(p) <= Len(o)

BestOf(paths, edges, q) == CHOOSE p \in paths : \A o \in paths : Better(edges, q, p, o)

\* The max_paths best ones, the best first.
Ranked(paths, edges, q) ==
    LET best[k \in 0..q.most] ==
            IF k = 0 THEN <<>>
            ELSE LET left == paths \ ToSet(best[k - 1])
                 IN  IF left = {} THEN best[k - 1]
                     ELSE Append(best[k - 1], BestOf(left, edges, q))
    IN  best[q.most]

\* The paths that a strategy keeps.  _shortest_path looks for the least path
\* of the whole graph, and then whether it is short enough.
Kept(all, edges, q) ==
    LET short == {p \in all : Len(p) - 1 <= q.depth}
    IN  IF q.strategy = "all" THEN Ranked(short, edges, q)
        ELSE IF all # {} /\ BestOf(all, edges, q) \in short THEN <<BestOf(all, edges, q)>>
        ELSE <<>>

FindPaths(edges, s, t, q) ==
    CASE s = t -> << <<s>> >>
      [] s # t /\ q.direct ->
            IF HasEdge(SearchGraph(edges, q.floor), s, t) THEN << <<s, t>> >> ELSE <<>>
      [] s # t /\ ~q.direct ->
            Kept({p \in SimplePaths(SearchGraph(edges, q.floor), s) : Last(p) = t}, edges, q)

Reaches(edges, s, t, q) == FindPaths(edges, s, t, q) # <<>>
ByConfidence(q) == [q EXCEPT !.strategy = "best_confidence"]
Shortest(q) == [q EXCEPT !.strategy = "shortest", !.direct = FALSE]

\* Seeded fault: windows are not compared.
OverlapIgnored(edges, paths) == paths # {}

\* The windows of all edges of the paths have an instant in common.
Overlap(edges, paths) ==
    LET used == UNION {PathEdges(edges, p) : p \in paths}
    IN  \A e, f \in used : e.from <= f.to

(***************************************************************************)
(* Exclusive groups                                                        *)
(***************************************************************************)
GroupCompatible(g, cf) ==
    cf.store \in {None, g.store} /\ (g.glob \/ cf.ctx \in {None, g.ctx})

RelationsForGroup(rels, g, cf) ==
    Among(Compatible(rels, cf),
          {r \in ToSet(rels) : r.store = g.store /\ (g.glob \/ r.ctx = g.ctx)})

\* _reachable_group_members: the shortest path to each member that has one.
HitPaths(edges, s, g, q) == UNION {ToSet(FindPaths(edges, s, m, Shortest(q))) : m \in g.members}

HardGroupContradictions(rels, g, cf, q) ==
    LET among(edges) ==
            {h \in {[from |-> s, paths |-> HitPaths(edges, s, g, q)] : s \in Nodes(edges)} :
                Cardinality(h.paths) >= 2 /\ Overlap(edges, h.paths)}
    IN  {[type |-> IF \A p \in h.paths : Len(p) <= 2 THEN "exclusive_targets"
                   ELSE "transitive_exclusive_targets",
          severity |-> "hard", source |-> h.from, targets |-> {Last(p) : p \in h.paths},
          store |-> g.store, ctx |-> IF g.glob THEN None ELSE g.ctx] :
            h \in among(Edges(RelationsForGroup(rels, g, cf)))}

\* A source that implies several members, in different contexts.
ContextSeparated(rels, g, cf, q) ==
    LET here == Among(Compatible(rels, cf), {r \in ToSet(rels) : r.store = g.store})
        hits(edges, c) ==
            UNION {{[from |-> s, ctx |-> c, member |-> Last(p)] : p \in HitPaths(edges, s, g, q)} :
                    s \in Nodes(edges)}
        by(source, all) ==
            LET mine == {h \in all : h.from = source}
            IN  [source |-> source, targets |-> {h.member : h \in mine},
                 contexts |-> {h.ctx : h \in mine}]
        separated(all) ==
            {x \in {by(h.from, all) : h \in all} :
                Cardinality(x.targets) >= 2 /\ Cardinality(x.contexts) >= 2}
    IN  separated(UNION {hits(Edges(Among(here, {r \in ToSet(here) : r.ctx = c})), c) :
                            c \in {r.ctx : r \in ToSet(here)}})

(***************************************************************************)
(* Explicit negations, by the registry or by the text of a label           *)
(***************************************************************************)
NegationPairs(nodes, props) ==
    ({<<p.id, p.neg>> : p \in ToSet(props)} \cup TextNegates) \cap (nodes \X nodes)

Scopes(rels) == {<<r.store, r.ctx>> : r \in ToSet(rels)}
OfScope(rels, scope) == Among(rels, {r \in ToSet(rels) : <<r.store, r.ctx>> = scope})

\* A node that implies a proposition and its negation; a proposition that
\* implies its own negation over others is a cycle, one that does so directly
\* an opposition.
NegationContradictions(rels, props, q) ==
    LET path(edges, s, t) == ToSet(FindPaths(edges, s, t, Shortest(q)))
        opposed(edges) ==
            {o \in UNION {{[from |-> x, base |-> n[2], neg |-> n[1], pos |-> pos, con |-> con] :
                             pos \in path(edges, x, n[2]), con \in path(edges, x, n[1])} :
                          x \in Nodes(edges), n \in NegationPairs(Nodes(edges), props)} :
                Overlap(edges, {o.pos, o.con})}
    IN  UNION {{[type |-> IF o.from = o.base /\ Len(o.con) > 2 THEN "cycle_to_exclusion"
                          ELSE "direct_opposition",
                 severity |-> "hard", source |-> o.from, targets |-> {o.base, o.neg},
                 store |-> scope[1], ctx |-> scope[2]] :
                    o \in opposed(Edges(OfScope(rels, scope)))} :
                scope \in Scopes(rels)}

\* Two records of one claim, half a unit of confidence apart.
Divergent(a, b) == (a = 0 /\ b >= 1) \/ (a = 1 /\ b = NoConfidence)
ConfidenceTensions(rels) ==
    {[type |-> "confidence_tension", severity |-> "soft", source |-> Source(r),
      targets |-> {Target(r)}, store |-> r.store, ctx |-> r.ctx] :
        r \in {x \in ToSet(rels) : \E y \in ToSet(rels) :
                /\ PairKey(x) = PairKey(y) /\ x.type = y.type
                /\ Divergent(x.cost, y.cost)}}

FindContradictions(rels, groups, props, cf, soft, q) ==
    LET applicable == {g \in ToSet(groups) : GroupCompatible(g, cf)}
    IN  NegationContradictions(Compatible(rels, cf), props, q)
        \cup (IF soft THEN ConfidenceTensions(Compatible(rels, cf)) ELSE {})
        \cup UNION {HardGroupContradictions(rels, g, cf, q) : g \in applicable}

FindSeparated(rels, groups, cf, q) ==
    UNION {ContextSeparated(rels, g, cf, q) :
            g \in {x \in ToSet(groups) : GroupCompatible(x, cf) /\ ~x.glob}}

\* nesy.check_contradictions: c is [mode, facts, props, cf, soft, q].
CheckContradictions(g, c) ==
    LET props == MergePropositions(g.props, c.props)
        rels == WithIdentities(CASE c.mode = "graph"    -> g.rels
                                 [] c.mode = "facts"    -> c.facts
                                 [] c.mode = "combined" -> g.rels \o c.facts, props)
        found == FindContradictions(rels, g.groups, props, c.cf, c.soft, c.q)
    IN  IF AliasConflict(props)
        THEN [status |-> "error", found |-> {}, separated |-> {}]
        ELSE [status |-> IF found # {} THEN "warning" ELSE "ok",
              found |-> found, separated |-> FindSeparated(rels, g.groups, c.cf, c.q)]
=============================================================================
