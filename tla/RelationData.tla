----------------------------- MODULE RelationData -----------------------------
(***************************************************************************)
(* The records of the relation graph, and the pure functions every storage *)
(* backend merges them with: filters, scopes, proposition identities, and  *)
(* the assert and import modes.                                            *)
(*                                                                         *)
(* A graph is a record of lists, in the order the backend returns them.    *)
(* Text (labels, provenance, timestamps) is left out.  A confidence c is   *)
(* kept as its cost, the n with c = 2^-n, so that the product of           *)
(* confidences is the sum of costs and edge_weight is proportional to the  *)
(* cost; NoConfidence is the cost of confidence 0.                         *)
(***************************************************************************)
EXTENDS Integers, Sequences, FiniteSets, SequencesExt

None == "none"
NoConfidence == 1000
Always == 0
Forever == 99

(***************************************************************************)
(* Relations                                                               *)
(*   id, src, tgt, sid, tid, type, cost, ctx, store: as in the code, sid   *)
(*   and tid being source_id and target_id.                                *)
(*   from, to: the temporal window, Always and Forever when open.          *)
(*   dom: metadata.domain.   asm: assumptions.                             *)
(*   ind: metadata.independent_of, and the assumptions that say as much.   *)
(***************************************************************************)
RelationType == {"sufficient", "necessary", "equivalent"}

\* Text that is given; the schemas refuse an empty one.  Windows and pairs are
\* not checked: a window may be empty, a proposition independent of itself.
Name == STRING \ {None}
NameOrNone == Name \cup {None}

RelationRecord ==
    [id : Name, src : Name, tgt : Name, sid : NameOrNone, tid : NameOrNone, type : RelationType,
     cost : 0..NoConfidence, ctx : Name, store : Name, from : Nat, to : Nat \ {Always},
     dom : NameOrNone, asm : SUBSET STRING, ind : SUBSET STRING]

Source(r) == IF r.sid # None THEN r.sid ELSE r.src
Target(r) == IF r.tid # None THEN r.tid ELSE r.tgt

\* Seeded fault: a necessary condition is read as a sufficient one.
ImplicationsOneWay(r) ==
    {<<Source(r), Target(r)>>}
    \cup (IF r.type = "equivalent" THEN {<<Target(r), Source(r)>>} ELSE {})

\* The implications a relation stands for, as <<antecedent, consequent>>.
Implications(r) ==
    (IF r.type \in {"sufficient", "equivalent"} THEN {<<Source(r), Target(r)>>} ELSE {})
    \cup (IF r.type \in {"necessary", "equivalent"} THEN {<<Target(r), Source(r)>>} ELSE {})

\* A filter field that is None matches everything.
Agrees(x, f, fields) == \A k \in fields : f[k] \in {None, x[k]}
NamesOneOf(pair, f) == {f.src, f.tgt} \subseteq pair \cup {None}

MatchesFilter(r, f) == Agrees(r, f, {"src", "tgt", "type", "ctx", "store", "dom"})
GroupMatchesFilter(g, f) == Agrees(g, f, {"store", "ctx", "dom"})
IndependenceMatchesFilter(i, f) ==
    Agrees(i, f, {"store", "ctx", "dom"}) /\ NamesOneOf(i.pair, f)

\* What scope, store_id, context_id and filter of a clear select among
\* records that Match the filter.
InScope(x, c, Match(_, _)) ==
    CASE c.scope = "store"   -> x.store = c.store
      [] c.scope = "context" -> x.store = c.store /\ x.ctx = c.ctx
      [] c.scope = "filter"  -> Match(x, c.filter)
      [] c.scope = "all"     -> TRUE

(***************************************************************************)
(* Lists                                                                   *)
(***************************************************************************)
\* The elements of s that are in S, in their order: SelectSeq with a set for
\* the test, a form the provers can expand.
Among(s, S) ==
    LET kept[i \in 0..Len(s)] ==
            IF i = 0 THEN <<>>
            ELSE IF s[i] \in S THEN Append(kept[i - 1], s[i]) ELSE kept[i - 1]
    IN  kept[Len(s)]

\* The elements of s at the positions in S.
AtPositions(s, S) ==
    LET kept[i \in 0..Len(s)] ==
            IF i = 0 THEN <<>>
            ELSE IF i \in S THEN Append(kept[i - 1], s[i]) ELSE kept[i - 1]
    IN  kept[Len(s)]

Ids(s) == {s[i].id : i \in DOMAIN s}
UniqueIds(s) == Cardinality(Ids(s)) = Len(s)

\* Replace the last element with x's key, or append x.
Put(Key(_), s, x) ==
    LET at == {i \in DOMAIN s : Key(s[i]) = Key(x)}
    IN  IF at = {} THEN Append(s, x)
        ELSE [s EXCEPT ![CHOOSE i \in at : \A k \in at : k <= i] = x]
PutAll(Key(_), s, new) == FoldLeft(LAMBDA t, x : Put(Key, t, x), s, new)
IdOf(x) == x.id

(***************************************************************************)
(* Propositions: [id, terms, neg].  terms holds the id, the label and the  *)
(* aliases; neg is the id of the proposition it negates, or None.          *)
(***************************************************************************)
AliasConflict(props) ==
    \E p, q \in ToSet(props) : p.id # q.id /\ p.terms \cap q.terms # {}

PropositionRecord == [id : Name, terms : SUBSET STRING, neg : NameOrNone]

\* Look `term` up in the alias index.
Identity(term, props) ==
    LET named == {p \in ToSet(props) : term \in p.terms}
    IN  IF named = {} THEN None ELSE (CHOOSE p \in named : TRUE).id

WithIdentity(r, props) ==
    [r EXCEPT !.sid = IF @ = None THEN Identity(r.src, props) ELSE @,
              !.tid = IF @ = None THEN Identity(r.tgt, props) ELSE @]
WithIdentities(rels, props) == [i \in DOMAIN rels |-> WithIdentity(rels[i], props)]

\* The caller refuses the result when it has an alias conflict.
MergePropositions(props, new) == PutAll(IdOf, props, new)

(***************************************************************************)
(* The assert modes                                                        *)
(***************************************************************************)
AssertMode == {"append", "upsert", "replace_same_pair"}
PairKey(r) == <<Source(r), Target(r), r.ctx, r.store>>

ReplaceSamePair(rels, new) ==
    LET keys == {PairKey(r) : r \in ToSet(new)}
    IN  Among(rels, {r \in ToSet(rels) : PairKey(r) \notin keys}) \o new

AfterAssert(rels, new, mode) ==
    CASE mode = "append"            -> rels \o new
      [] mode = "upsert"            -> PutAll(IdOf, rels, new)
      [] mode = "replace_same_pair" -> ReplaceSamePair(rels, new)

(***************************************************************************)
(* The import modes.  Groups: [id, members, ctx, store, glob, dom].        *)
(* Independence records: [id, pair, ctx, store, dom].                      *)
(***************************************************************************)
ExclusiveGroupRecord ==
    {g \in [id : Name, members : SUBSET STRING, ctx : Name, store : Name, glob : BOOLEAN,
            dom : NameOrNone] : IsFiniteSet(g.members) /\ Cardinality(g.members) >= 2}
IndependenceRecord ==
    {i \in [id : Name, pair : SUBSET STRING, ctx : Name, store : Name, dom : NameOrNone] :
        \E left, right \in i.pair : i.pair = {left, right}}

GroupKey(g) == <<g.id, g.ctx, g.store>>
IndependenceKey(i) == <<i.pair, i.ctx, i.store>>

ImportMode == {"append", "upsert", "replace_store"}

Elsewhere(s, store) == Among(s, {x \in ToSet(s) : x.store # store})
\* Seeded fault: a replacing import clears every store.
KeptOnImportNone(s, mode, store) == IF mode = "replace_store" THEN <<>> ELSE s

KeptOnImport(s, mode, store) == IF mode = "replace_store" THEN Elsewhere(s, store) ELSE s

\* positions and pair_positions of _merge_independence_records: where the
\* last record with an id, or with a pair, was put.
Positions(Key(_), s) ==
    [k \in {Key(s[i]) : i \in DOMAIN s} |->
        CHOOSE i \in DOMAIN s : Key(s[i]) = k
            /\ \A h \in DOMAIN s : Key(s[h]) = k => h <= i]
Moved(pos, k, i) == [x \in DOMAIN pos \cup {k} |-> IF x = k THEN i ELSE pos[x]]
Without(pos, k) == [x \in DOMAIN pos \ {k} |-> pos[x]]

IndependencePut(m, x, mode) ==
    LET key(y) == IndependenceKey(y)
    IN  CASE mode = "upsert" /\ x.id \in DOMAIN m.ids ->
                LET i == m.ids[x.id]
                IN  [m EXCEPT !.list[i] = x,
                              !.pairs = Moved(Without(@, key(m.list[i])), key(x), i)]
          [] mode = "upsert" /\ x.id \notin DOMAIN m.ids /\ key(x) \in DOMAIN m.pairs ->
                LET i == m.pairs[key(x)]
                IN  [m EXCEPT !.list[i] = x,
                              !.ids = Moved(Without(@, m.list[i].id), x.id, i)]
          [] OTHER ->
                [list  |-> Append(m.list, x),
                 ids   |-> Moved(m.ids, x.id, Len(m.list) + 1),
                 pairs |-> Moved(m.pairs, key(x), Len(m.list) + 1)]

MergeIndependence(inds, new, mode, store) ==
    LET kept == KeptOnImport(inds, mode, store)
        start == [list  |-> kept,
                  ids   |-> Positions(IdOf, kept),
                  pairs |-> Positions(IndependenceKey, IF mode = "append" THEN <<>> ELSE kept)]
    IN  FoldLeft(LAMBDA m, x : IndependencePut(m, x, mode), start, new).list

MergeMetadata(meta, new) ==
    [c \in DOMAIN meta \cup DOMAIN new |-> IF c \in DOMAIN new THEN new[c] ELSE meta[c]]

ForStore(s, store) == [i \in DOMAIN s |-> [s[i] EXCEPT !.store = store]]

(***************************************************************************)
(* Graphs: [rels, groups, inds, props, meta], where meta gives, for each   *)
(* context with metadata, whether it declares causal_completeness.         *)
(***************************************************************************)
IsGraph(g) ==
    /\ g = [rels |-> g.rels, groups |-> g.groups, inds |-> g.inds, props |-> g.props,
            meta |-> g.meta]
    /\ g.rels \in Seq(RelationRecord)
    /\ g.groups \in Seq(ExclusiveGroupRecord)
    /\ g.inds \in Seq(IndependenceRecord)
    /\ g.props \in Seq(PropositionRecord)

EmptyGraph == [rels |-> <<>>, groups |-> <<>>, inds |-> <<>>, props |-> <<>>, meta |-> <<>>]

\* The graph after the relation set d is imported.
AfterImport(g, d, mode, store) ==
    LET props == MergePropositions(g.props, d.props)
        rels == ForStore(WithIdentities(d.rels, props), store)
    IN  [rels   |-> CASE mode = "upsert" -> PutAll(IdOf, g.rels, rels)
                      [] OTHER -> KeptOnImport(g.rels, mode, store) \o rels,
         groups |-> PutAll(GroupKey, KeptOnImport(g.groups, mode, store),
                           ForStore(d.groups, store)),
         inds   |-> MergeIndependence(g.inds, ForStore(d.inds, store), mode, store),
         props  |-> props,
         meta   |-> MergeMetadata(g.meta, d.meta)]

\* The graph after an exclusive group is declared, or declared again.
AfterExclusive(g, group) ==
    LET others == {x \in ToSet(g.groups) : GroupKey(x) # GroupKey(group)}
    IN  [g EXCEPT !.groups = Append(Among(@, others), group)]

\* The graph after a clear.  Whatever the store named, a cleared context loses
\* its metadata; propositions go with scope "all" only.
AfterClear(g, c) ==
    [rels   |-> Among(g.rels, {r \in ToSet(g.rels) : ~InScope(r, c, MatchesFilter)}),
     groups |-> Among(g.groups, {x \in ToSet(g.groups) :
                                    ~(c.groups /\ InScope(x, c, GroupMatchesFilter))}),
     inds   |-> Among(g.inds, {i \in ToSet(g.inds) :
                                    ~InScope(i, c, IndependenceMatchesFilter)}),
     props  |-> IF c.scope = "all" THEN <<>> ELSE g.props,
     meta   |-> CASE c.scope = "all"     -> <<>>
                  [] c.scope = "context" -> Without(g.meta, c.ctx)
                  [] OTHER               -> g.meta]
=============================================================================
