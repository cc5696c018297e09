------------------------------- MODULE MCGraph -------------------------------
(***************************************************************************)
(* Instances of GraphStore: a few relations over four propositions, two    *)
(* contexts and two stores, and the calls each backend is given.           *)
(***************************************************************************)
EXTENDS GraphStore

Rel(id, s, t, type) ==
    [id |-> id, src |-> s, tgt |-> t, sid |-> None, tid |-> None, type |-> type, cost |-> 0,
     ctx |-> "work", store |-> "main", from |-> Always, to |-> Forever, dom |-> None,
     asm |-> {}, ind |-> {}]
Group(id, members, glob) ==
    [id |-> id, members |-> members, ctx |-> "work", store |-> "main", glob |-> glob,
     dom |-> None]
Prop(id, terms, neg) == [id |-> id, terms |-> {id} \cup terms, neg |-> neg]
Ind(id, pair) == [id |-> id, pair |-> pair, ctx |-> "work", store |-> "main", dom |-> None]

AssertCall(rels, mode, reject) ==
    [op |-> "assert", rels |-> rels, mode |-> mode, reject |-> reject, dry |-> FALSE]
Exclusive(g) == [op |-> "exclusive", group |-> g, dry |-> FALSE]
Clear(scope, f) ==
    [op |-> "clear", dry |-> FALSE,
     what |-> [scope |-> scope, store |-> "main", ctx |-> "work", filter |-> f, groups |-> TRUE]]
Load(data, mode) ==
    [op |-> "load", data |-> data, mode |-> mode, store |-> "main", dry |-> FALSE]
Dry(c) == [c EXCEPT !.dry = TRUE]

\* a implies b, b is necessary for c, and d is an alternative cause of b.
AB == Rel("r1", "a", "b", "sufficient")
CB == [Rel("r2", "b", "c", "necessary") EXCEPT !.cost = 1]
DB == [Rel("r3", "d", "b", "sufficient") EXCEPT !.ind = {"a"}, !.cost = NoConfidence]
AC(from, to) == [Rel("r4", "a", "c", "sufficient") EXCEPT !.from = from, !.to = to]
BN == Rel("r5", "b", "not a", "sufficient")
Home(r) == [r EXCEPT !.ctx = "home", !.id = "h1"]
Other(r) == [r EXCEPT !.store = "other", !.id = "o1"]

Registry == <<Prop("p", {"a"}, None), Prop("q", {"c"}, "p")>>
Causes == [EmptyGraph EXCEPT !.rels = <<AB, DB>>, !.props = Registry,
                             !.inds = <<Ind("i1", {"c", "a"})>>, !.meta = "work" :> TRUE]
Loop == [EmptyGraph EXCEPT !.rels = <<Rel("r6", "b", "d", "equivalent"), AC(1, 2)>>,
                           !.groups = <<Group("g1", {"b", "d"}, FALSE)>>,
                           !.inds = <<Ind("i2", {"c"}), Ind("i1", {"d", "c"})>>]
Clash == [EmptyGraph EXCEPT !.props = <<Prop("z", {"a"}, None)>>]

MemoryMenu == {
    AssertCall(<<AB>>, "append", FALSE),
    AssertCall(<<CB, AC(Always, Forever)>>, "append", TRUE),
    AssertCall(<<AC(3, 4), [AB EXCEPT !.to = 2]>>, "upsert", FALSE),
    AssertCall(<<Rel("r7", "a", "b", "equivalent"), Home(AC(Always, Forever))>>,
           "replace_same_pair", TRUE),
    AssertCall(<<AB, BN, [AB EXCEPT !.id = "r8", !.cost = 1],
             [Other(DB) EXCEPT !.from = 5, !.to = 4]>>, "append", FALSE),
    Dry(AssertCall(<<AB>>, "append", FALSE)),
    Exclusive(Group("g1", {"b", "c"}, FALSE)),
    Exclusive(Group("g2", {"b", "c", "d"}, TRUE)),
    Load(Causes, "replace_store"), Load(Loop, "upsert"), Load(Loop, "append"),
    Load(Clash, "append"),
    Clear("context", Nothing), Clear("all", Nothing), Clear("store", Nothing),
    Clear("filter", [Nothing EXCEPT !.src = "a", !.ctx = "work"])}

JsonMenu == {
    AssertCall(<<AB>>, "append", FALSE), AssertCall(<<CB, AC(Always, Forever)>>, "upsert", TRUE),
    Dry(AssertCall(<<AB>>, "append", FALSE)),
    Exclusive(Group("g1", {"b", "c"}, FALSE)),
    Load(Causes, "replace_store"), Load(Clash, "append"), Clear("context", Nothing)}

SqliteMenu == {
    AssertCall(<<AB>>, "append", TRUE), AssertCall(<<AC(Always, Forever)>>, "upsert", TRUE),
    AssertCall(<<Other(DB)>>, "append", FALSE),
    Exclusive(Group("g1", {"b", "d"}, FALSE)),
    Exclusive(Group("g1", {"b", "c"}, FALSE)),
    Load(Causes, "replace_store"), Load(Clash, "append"),
    Clear("context", Nothing)}

MCMenu == [memory |-> MemoryMenu, json |-> JsonMenu, sqlite |-> SqliteMenu]
MCMaxCalls == [memory |-> 3, json |-> 3, sqlite |-> 3]

MCTextNegates == {<<"not a", "a">>}
MCViews == {NoFilter, [NoFilter EXCEPT !.ctx = "work", !.store = "main"],
            [NoFilter EXCEPT !.at = 3]}
=============================================================================
