---------------------------- MODULE ReasoningTools ----------------------------
(***************************************************************************)
(* The answers of nesy.classify, nesy.verify_chain, nesy.counterfactual    *)
(* and nesy.reason_over_relations about a graph, and what they are meant   *)
(* to say about the worlds the graph allows.                               *)
(*                                                                         *)
(* A call is a record with s, t (source and target), cf (context filter)   *)
(* and q (search), and the fields named at each tool.                      *)
(***************************************************************************)
EXTENDS Reasoning

CONSTANT DefaultContext

(***************************************************************************)
(* Independence of a path's start from a proposition                       *)
(***************************************************************************)
IndependenceCompatible(i, cf) == Agrees(i, cf, {"store", "ctx", "dom"})

PairIndependent(g, a, b, cf) ==
    \/ \E i \in ToSet(g.inds) : i.pair = {a, b} /\ IndependenceCompatible(i, cf)
    \/ \E x \in ToSet(g.groups) : {a, b} \subseteq x.members /\ GroupCompatible(x, cf)

PathIndependent(g, edges, rels, p, n, cf) ==
    /\ Len(p) > 1 /\ n \notin ToSet(p)
    /\ \/ PairIndependent(g, p[1], n, cf)
       \/ LET first == BestEdge(edges, p[1], p[2])
              owners == {i \in DOMAIN rels : rels[i].id = first.rel}
              r == rels[Max(owners)]
          IN  Source(r) = first.ante /\ n \in r.ind

\* The paths from other propositions to t that avoid n.
AvoidingPaths(edges, t, n, q) ==
    UNION {{p \in ToSet(FindPaths(edges, c, t, ByConfidence(q))) : n \notin ToSet(p)} :
            c \in Nodes(edges) \ {n, t}}

(***************************************************************************)
(* nesy.classify                                                           *)
(***************************************************************************)
Reachability(fwd, rev) ==
    CASE fwd /\ rev   -> "equivalent"
      [] fwd /\ ~rev  -> "sufficient"
      [] ~fwd /\ rev  -> "necessary"
      [] ~fwd /\ ~rev -> "unknown"

\* find_classification_contradiction: the source also implies a sibling.
ImpliesSibling(g, c) ==
    \E x \in {y \in ToSet(g.groups) : c.t \in y.members /\ GroupCompatible(y, c.cf)} :
        LET scoped == RelationsForGroup(g.rels, x, c.cf)
            edges == Edges(scoped)
            to(m) == FindPaths(edges, c.s, m, ByConfidence(c.q))
        IN  /\ scoped # <<>> /\ to(c.t) # <<>>
            /\ \E m \in x.members \ {c.t} :
                    to(m) # <<>> /\ Overlap(edges, {to(c.t)[1], to(m)[1]})

Classify(g, c) ==
    LET rels == Compatible(g.rels, c.cf)
        edges == Edges(rels)
        fwd == Reaches(edges, c.s, c.t, ByConfidence(c.q))
        rev == Reaches(edges, c.t, c.s, ByConfidence(c.q))
        \* _non_necessity_counterexample
        counterexample ==
            c.s # c.t /\ \E p \in AvoidingPaths(edges, c.t, c.s, c.q) :
                            PathIndependent(g, edges, rels, p, c.s, c.cf)
    IN  [class |-> IF ImpliesSibling(g, c) THEN "contradictory" ELSE Reachability(fwd, rev),
         forward |-> fwd, reverse |-> rev,
         necessity |-> IF rev THEN "proven_necessary"
                       ELSE IF counterexample THEN "proven_not_necessary" ELSE "unknown"]

(***************************************************************************)
(* nesy.verify_chain: chain is <<>> when the path is to be searched,       *)
(* expected is expected_relation.                                          *)
(***************************************************************************)
ExpectedMatches(expected, class) ==
    class \in CASE expected = "any"        -> {"sufficient", "necessary", "equivalent"}
                [] expected = "sufficient" -> {"sufficient", "equivalent"}
                [] expected = "necessary"  -> {"necessary", "equivalent"}
                [] expected = "equivalent" -> {"equivalent"}

\* The first gap of an explicit chain, 0 when there is none.
BrokenAt(edges, chain) ==
    LET gaps == {i \in 1..(Len(chain) - 1) : ~HasEdge(edges, chain[i], chain[i + 1])}
    IN  IF gaps = {} THEN 0 ELSE Min(gaps)

VerifyChain(g, c) ==
    LET edges == Edges(Compatible(g.rels, c.cf))
        strong == SearchGraph(edges, c.q.floor)
        q == [c.q EXCEPT !.direct = FALSE]
        fwd == Reaches(edges, c.s, c.t, q)
        rev == Reaches(edges, c.t, c.s, q)
        class == Reachability(fwd, rev)
        gap == BrokenAt(strong, c.chain)
        reachable == IF c.chain # <<>> THEN gap = 0 ELSE class # "unknown"
        valid == reachable /\ ExpectedMatches(c.expected, class)
    IN  IF c.chain # <<>> /\ (c.chain[1] # c.s \/ Last(c.chain) # c.t)
        THEN [status |-> "error", reachable |-> FALSE, established |-> FALSE,
              class |-> "unknown", valid |-> FALSE, mismatch |-> FALSE]
        ELSE [status |-> "ok", reachable |-> reachable, established |-> fwd \/ rev,
              class |-> class, valid |-> valid,
              mismatch |-> gap # 0 /\ HasEdge(strong, c.chain[gap + 1], c.chain[gap])]

(***************************************************************************)
(* nesy.counterfactual: targets ({} for every other node) assuming not s,  *)
(* in the world mode "open" or "closed".  The answer gives each target its *)
(* category.  (The cap of five alternative paths is above the number of    *)
(* propositions of the instances.)                                         *)
(***************************************************************************)
CompletenessDeclared(g, cf) ==
    LET ctx == IF cf.ctx = None THEN DefaultContext ELSE cf.ctx
    IN  ctx \in DOMAIN g.meta /\ g.meta[ctx]

SufficientCauses(rels, t) ==
    {i[1] : i \in {x \in UNION {Implications(r) : r \in {y \in ToSet(rels) :
                                    y.type \in {"sufficient", "equivalent"}}} : x[2] = t}}

\* Seeded fault: one blocked cause is enough.
AllCausesBlockedSome(edges, rels, n, t, q) ==
    \E x \in SufficientCauses(rels, t) : x = n \/ Reaches(edges, x, n, q)

AllCausesBlocked(edges, rels, n, t, q) ==
    /\ SufficientCauses(rels, t) # {}
    /\ \A x \in SufficientCauses(rels, t) : x = n \/ Reaches(edges, x, n, q)

OpenWorld(g, edges, rels, c, t) ==
    LET q == [ByConfidence(c.q) EXCEPT !.direct = FALSE]
        spared == \E p \in AvoidingPaths(edges, t, c.s, q) :
                        PathIndependent(g, edges, rels, p, c.s, c.cf)
        needs == t = c.s \/ Reaches(edges, t, c.s, q)
    IN  CASE needs                                                -> "necessarily_blocked"
          [] ~needs /\ ~Reaches(edges, c.s, t, q)                 -> "unknown"
          [] ~needs /\ Reaches(edges, c.s, t, q) /\ spared        -> "still_possible"
          [] ~needs /\ Reaches(edges, c.s, t, q) /\ ~spared       -> "possibly_blocked"

Counterfactual(g, c) ==
    LET rels == Compatible(g.rels, c.cf)
        edges == Edges(rels)
        q == [ByConfidence(c.q) EXCEPT !.direct = FALSE]
        targets == IF c.targets = {} THEN Nodes(edges) \ {c.s} ELSE c.targets
        upgrade(t) == /\ c.world = "closed" /\ CompletenessDeclared(g, c.cf)
                      /\ AllCausesBlocked(edges, rels, c.s, t, q)
        open == [t \in targets |-> OpenWorld(g, edges, rels, c, t)]
    IN  [t \in targets |-> IF open[t] = "possibly_blocked" /\ upgrade(t)
                           THEN "necessarily_blocked" ELSE open[t]]

(***************************************************************************)
(* nesy.reason_over_relations: one of the tools over a graph of its own.   *)
(***************************************************************************)
Ephemeral(p) ==
    [rels |-> WithIdentities(p.rels, p.props), groups |-> p.groups, inds |-> p.inds,
     props |-> p.props, meta |-> p.meta]

(***************************************************************************)
(* What the answers mean.  A world is the set of propositions true in it;  *)
(* each relation must be satisfied in it.                                  *)
(***************************************************************************)
Satisfies(W, r) ==
    LET s == Source(r) \in W
        t == Target(r) \in W
    IN  CASE r.type = "sufficient" -> s => t
          [] r.type = "necessary"  -> t => s
          [] r.type = "equivalent" -> s <=> t
Worlds(rels, nodes) == {W \in SUBSET nodes : \A r \in ToSet(rels) : Satisfies(W, r)}
Entails(rels, nodes, s, t) == \A W \in Worlds(rels, nodes) : s \in W => t \in W

\* Worlds in which nothing is true without one of its sufficient causes,
\* where it has any.
CompleteWorlds(rels, nodes) ==
    {W \in Worlds(rels, nodes) :
        \A n \in W : SufficientCauses(rels, n) # {} =>
            SufficientCauses(rels, n) \cap W # {}}
=============================================================================
