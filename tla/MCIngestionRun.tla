---------------------------- MODULE MCIngestionRun ----------------------------
(***************************************************************************)
(* Instances of IngestionRun: claims about rain, wet roads and slipping,   *)
(* in a store that knows "rain", "wet" and "not wet", and a web of a few   *)
(* pages.                                                                  *)
(***************************************************************************)
EXTENDS IngestionRun

Claim(id, s, t, type) ==
    [id |-> id, src |-> s, tgt |-> t, sid |-> None, tid |-> None, type |-> type, cost |-> 0,
     ctx |-> "default", store |-> "default", from |-> Always, to |-> Forever, dom |-> None,
     asm |-> {}, ind |-> {}]
Prop(id, label, neg) == [id |-> id, label |-> label, terms |-> {id, label}, neg |-> neg]

MCStableId ==
    [t \in {"slip", "may slip", "wet road", "rain", "wet", "not wet", "not wet road",
            "handoff source", "handoff target"} |->
        CASE t = "slip" -> "p_slip"      [] t = "may slip" -> "p_may_slip"
          [] t = "rain" -> "p_rain"      [] t = "wet road" -> "p_wet_road"
          [] t = "wet" -> "p_wet"        [] t = "not wet" -> "p_dry"
          [] t = "not wet road" -> "p_dry_road"
          [] t = "handoff source" -> "p_from"  [] t = "handoff target" -> "p_to"]
Stored == << Prop("p_rain", "rain", None), Prop("p_wet", "wet", None),
             Prop("p_dry", "not wet", "p_wet") >>

MCInitialGraph ==
    [EmptyGraph EXCEPT !.rels = << Claim("e1", "wet road", "may slip", "sufficient") >>,
                       !.props = Stored]
MCOtherRelations == { [Claim("e2", "rain", "not wet", "sufficient") EXCEPT !.cost = 1] }
MCOtherPropositions == { Prop("q_slip", "slip", None) }

Rain == Claim("c1", "rain", "wet", "necessary")
Slip == Claim("c2", "wet road", "slip", "sufficient")
May  == Claim("c2", "wet", "may slip", "sufficient")
Dry  == Claim("c2", "rain", "not wet", "sufficient")
Firm == Claim("c2", "wet road", "not wet road", "sufficient")
Same == [Slip EXCEPT !.id = "c1"]     \* an id used twice
MCBatches == { <<>>, <<Rain, Slip>>, <<Rain, May>>, <<Rain, Dry>>, <<Rain, Firm>>, <<Rain, Same>> }

Decided(id, label, refs) == [id |-> id, label |-> label, aliases |-> {}, refs |-> refs]
Refs == [s1 |-> <<"c1", "source">>, t1 |-> <<"c1", "target">>,
         s2 |-> <<"c2", "source">>, t2 |-> <<"c2", "target">>]
MCGroupings == {
    << Decided("p_rain", "rain", {Refs.s1}), Decided("p_wet", "wet", {Refs.t1, Refs.s2}),
       Decided(None, "slip", {Refs.t2}) >>,
    << Decided("p_rain", "rain", {Refs.s1}), Decided("p_wet", "wet", {Refs.t1}),
       Decided(None, "wet road", {Refs.s2, Refs.t2}) >>,
    << Decided(None, "rain", {Refs.s1}), Decided(None, "wet", {Refs.t1}),
       Decided(None, "wet road", {Refs.s2}), Decided(None, "slip", {Refs.t2}) >>,
    << Decided("p_rain", "rain", {Refs.s1}), Decided("p_wet", "wet", {Refs.t1, Refs.s2}),
       Decided("q_slip", "may slip", {Refs.t2}) >>,     \* an id for another text
    << Decided("p_wet", "wet", {Refs.s1, Refs.t1, Refs.s2, Refs.t2}) >>,
    << Decided("p_rain", "rain", {Refs.s1, Refs.t1}) >> }

Vote(c, decision, type, cost, ok) ==
    [cand |-> c, decision |-> decision, type |-> type, cost |-> cost, ok |-> ok, by |-> "as told"]
Yes(c) == Vote(c, "approve", "sufficient", 0, TRUE)
No(c) == Vote(c, "reject", None, 0, FALSE)
MCAnswers == {
    << Yes("c1"), Yes("c2") >>,
    << Vote("c1", "approve", "sufficient", 1, TRUE), Yes("c2") >>,
    << Vote("c1", "approve", "necessary", 0, TRUE), No("c2") >>,
    << Vote("c1", "approve", "sufficient", 0, FALSE), Vote("c2", "approve", "sufficient", 3, TRUE) >>,
    << No("c1"), Yes("c2"), Yes("c2") >>,
    << Yes("c1") >> }

By(votes, m) == [i \in DOMAIN votes |-> [votes[i] EXCEPT !.by = m]]
MCHandoffReviews == { <<>>, By(<< Yes("c1") >>, "m1"), By(<< Yes("c1"), No("c2") >>, None) }

Writing ==
    [mode |-> "auto_write", policy |-> "unanimous", high |-> {}, reviewers |-> <<"m1", "m2">>,
     agents |-> FALSE, explicit |-> TRUE, preview |-> FALSE, given |-> <<>>, evidence |-> TRUE,
     urls |-> <<>>, crawl |-> FALSE, search |-> FALSE, retrieval |-> "none",
     batch |-> <<>>, reviews |-> <<>>, unproven |-> {}]
Validation ==
    [Writing EXCEPT !.mode = "validate", !.reviewers = <<>>, !.retrieval = "full",
                  !.batch = <<Rain, Dry>>,
                  !.reviews = By(<<Yes("c1")>>, "m1") \o By(<<Yes("c1"), Yes("c2")>>, "m2")]

MCSetups == {
    Writing,
    [Writing EXCEPT !.policy = "majority", !.reviewers = <<"m1", "m2", "m3">>],
    [Writing EXCEPT !.policy = "risk_tiered", !.high = {"m1"}, !.agents = TRUE],
    [Writing EXCEPT !.policy = "majority", !.high = {"m3"}, !.reviewers = <<"m1", "m2">>],
    [Writing EXCEPT !.reviewers = <<None>>, !.agents = TRUE, !.explicit = FALSE],
    [Writing EXCEPT !.mode = "dry_run", !.preview = TRUE, !.crawl = TRUE, !.evidence = FALSE,
                  !.urls = <<"private", "seed">>, !.reviewers = <<"m1">>],
    [Writing EXCEPT !.mode = "dry_run", !.search = TRUE, !.urls = <<"seed">>, !.evidence = FALSE,
                  !.reviewers = <<"m1">>, !.retrieval = "full"],
    [Writing EXCEPT !.mode = "dry_run", !.crawl = TRUE],
    [Writing EXCEPT !.mode = "dry_run", !.search = TRUE, !.retrieval = "partial"],
    Validation,
    [Validation EXCEPT !.policy = "majority", !.high = {"m1"}],
    [Validation EXCEPT !.batch = <<Dry>>, !.unproven = {"c2"}],
    [Validation EXCEPT !.batch = <<Rain, Slip>>, !.unproven = {"c2"}, !.policy = "risk_tiered",
                       !.high = {"m2"}],
    [Validation EXCEPT !.retrieval = "partial"] }

MCTextNegates == { <<"not wet", "wet">>, <<"not wet road", "wet road">> }
MCQualified == { "may slip" }
MCAlikeTexts == { {"wet", "wet road"} }
MCSharesWord == { {"wet", "wet road"}, {"slip", "may slip"} }

\* The web: "seed" links to "b", "a", a foreign and a private host; "a" moves
\* to "b", to a private host or stays, and links further down; "b/" is "b".
Web == {"seed", "a", "b", "b/", "deep", "foreign", "private"}
MCPublicUrls == Web \ {"private"}
MCAllowedUrls == Web \ {"foreign"}
MCCanonicalUrl == [u \in Web |-> IF u = "b/" THEN "b" ELSE u]
MCFinalUrls == [u \in Web |-> CASE u = "a" -> {"a", "b", "private"}
                                [] u = "b/" -> {"b", "foreign"}
                                [] OTHER -> {u}]
MCPageLinks == [u \in Web |-> CASE u = "seed" -> <<"b/", "a", "foreign", "private">>
                                [] u = "a" -> <<"seed", "b", "deep">>
                                [] OTHER -> <<"a">>]
MCPageBytes == [u \in Web |-> IF u = "a" THEN 3 ELSE 1]
=============================================================================
