------------------------------ MODULE ReviewGate ------------------------------
(***************************************************************************)
(* From the reviewers' decisions about a batch of candidates to the        *)
(* relations that may be written: the votes are aggregated under a policy, *)
(* and the gate queues, rejects or approves each candidate.                *)
(*                                                                         *)
(* A candidate is a relation record whose id is the candidate's.  A review *)
(* is [cand, decision, type, cost, ok, by]: cost stands for                *)
(* final_confidence, ok for normalized_implication_supported, and by is    *)
(* the reviewer_model or None.  A list of reviews is a sequence: one       *)
(* reviewer may decide a candidate twice.                                  *)
(***************************************************************************)
EXTENDS Reasoning

CONSTANTS
    Qualified,      \* the texts that speak of possibility or eligibility
    AlikeTexts      \* the sets {a, b} of texts whose words mostly coincide

Decision == {"approve", "downgrade", "reject", "needs_human"}
\* A decision that lets a candidate proceed names its type.
ReviewRecord ==
    {v \in [cand : Name, decision : Decision, type : RelationType \cup {None},
            cost : 0..NoConfidence, ok : BOOLEAN, by : NameOrNone] :
        v.decision \in {"approve", "downgrade"} => v.type # None}
ReviewVotingPolicy == {"unanimous", "majority", "risk_tiered"}

NeedsHuman(c, by) ==
    [cand |-> c, decision |-> "needs_human", type |-> None, cost |-> NoConfidence,
     ok |-> FALSE, by |-> by]
NoReview == NeedsHuman(None, None)

With(reviews, decision) == Among(reviews, {v \in ToSet(reviews) : v.decision = decision})
ByModels(reviews, models) == Among(reviews, {v \in ToSet(reviews) : v.by \in models})
ReviewsOf(reviews, c) == Among(reviews, {v \in ToSet(reviews) : v.cand = c})
Models(reviews) == {v.by : v \in ToSet(reviews)}

\* A model that was expected to decide and did not needs a human.
MissingVotes(c, reviews, models) ==
    SetToSeq({NeedsHuman(c, m) : m \in models \ Models(reviews)})

Ballots(c, reviews, expected, high) ==
    LET cast == ReviewsOf(reviews, c)
    IN  cast \o MissingVotes(c, cast, expected \cup high)

(***************************************************************************)
(* The policies: each gives a decision and, for an approval, the type that *)
(* enough approvals agree on.                                              *)
(***************************************************************************)
AgreedType(approvals, required) ==
    LET agreed(t) == Len(Among(approvals, {v \in ToSet(approvals) : v.type = t})) >= required
    IN  IF \E t \in RelationType : agreed(t)
        THEN CHOOSE t \in RelationType : agreed(t)
        ELSE None

Verdict(decision, type) == [decision |-> decision, type |-> type]
Undecided == Verdict("needs_human", None)

UnanimousVerdict(votes) ==
    LET type == AgreedType(With(votes, "approve"), Len(votes))
    IN  CASE With(votes, "reject") # <<>> -> Verdict("reject", None)
          [] With(votes, "reject") = <<>> /\ type # None -> Verdict("approve", type)
          [] OTHER -> Undecided

\* Seeded fault: half of the votes are enough.
StrictMajorityOrHalf(votes) == (Len(votes) + 1) \div 2

StrictMajority(votes) == Len(votes) \div 2 + 1

MajorityVerdict(votes) ==
    LET type == AgreedType(With(votes, "approve"), StrictMajority(votes))
    IN  CASE type # None -> Verdict("approve", type)
          [] type = None /\ 2 * Len(With(votes, "reject")) > Len(votes) -> Verdict("reject", None)
          [] OTHER -> Undecided

RiskTieredVerdict(votes, high) ==
    LET first == ByModels(votes, high)
        types == {v.type : v \in ToSet(first)}
        type == AgreedType(With(votes, "approve"), StrictMajority(votes))
    IN  CASE With(first, "reject") # <<>> -> Verdict("reject", None)
          [] With(first, "approve") = first /\ type # None /\ types \subseteq {type} ->
                Verdict("approve", type)
          [] OTHER -> Undecided

\* _aggregate_review: an approval needs every selected review to confirm the
\* implication, and takes the least of their confidences.
AggregateReview(c, votes, verdict) ==
    LET selected == {v \in ToSet(votes) : v.decision = "approve" /\ v.type = verdict.type}
    IN  CASE verdict.decision = "approve" /\ \A v \in selected : v.ok ->
                [cand |-> c, decision |-> "approve", type |-> verdict.type,
                 cost |-> Max({v.cost : v \in selected}), ok |-> TRUE, by |-> "aggregate"]
          [] verdict.decision = "reject" ->
                [NeedsHuman(c, "aggregate") EXCEPT !.decision = "reject"]
          [] OTHER -> NeedsHuman(c, "aggregate")

\* A lone vote stands as it is, unless a high priority model has none.
AggregateVotes(c, votes, policy, high) ==
    CASE votes = <<>> -> NoReview
      [] Len(votes) = 1 /\ high \subseteq Models(votes) -> votes[1]
      [] OTHER -> AggregateReview(c, votes,
            CASE policy = "unanimous"   -> UnanimousVerdict(votes)
              [] policy = "majority"    -> MajorityVerdict(votes)
              [] policy = "risk_tiered" -> RiskTieredVerdict(votes, high))

\* aggregate_review_decisions: the review the gate sees of each candidate.
Aggregated(cands, reviews, policy, high, expected) ==
    [i \in DOMAIN cands |->
        AggregateVotes(cands[i].id, Ballots(cands[i].id, reviews, expected, high), policy, high)]

(***************************************************************************)
(* Likely duplicates of relations in the graph                             *)
(***************************************************************************)
RelationKeys(r) ==
    {<<Source(r), Target(r), r.type, r.ctx, r.store>>, <<r.src, r.tgt, r.type, r.ctx, r.store>>}

EndpointTerms(label, id, props) ==
    LET named == {i \in DOMAIN props : props[i].id = id}
    IN  {label} \cup (IF id = None THEN {} ELSE {id})
                \cup (IF named = {} THEN {} ELSE props[Max(named)].terms)

EndpointMatch(a, aid, b, bid, props) ==
    LET left == EndpointTerms(a, aid, props)
        right == EndpointTerms(b, bid, props)
    IN  \/ aid # None /\ aid = bid
        \/ /\ a \in Qualified <=> b \in Qualified
           /\ left \cap right # {} \/ \E s \in left, t \in right : {s, t} \in AlikeTexts

\* An exact duplicate is left to the writer.
SemanticDuplicate(r, existing, props) ==
    \E x \in ToSet(existing) :
        /\ <<r.type, r.ctx, r.store>> = <<x.type, x.ctx, x.store>>
        /\ RelationKeys(WithIdentity(r, props)) \cap RelationKeys(WithIdentity(x, props)) = {}
        /\ EndpointMatch(r.src, r.sid, x.src, x.sid, props)
        /\ EndpointMatch(r.tgt, r.tid, x.tgt, x.tid, props)

(***************************************************************************)
(* The gate                                                                *)
(***************************************************************************)
GateAction == {"auto_write", "queue", "reject"}
GateChecks == [depth |-> 8, floor |-> NoConfidence, direct |-> FALSE,
               strategy |-> "shortest", most |-> 5]

\* Seeded fault: an unconfirmed implication passes.
PassesReviewUnconfirmed(v, floor) == v.decision = "approve" /\ v.cost <= floor

PassesReview(v, floor) == v.decision = "approve" /\ v.ok /\ v.cost <= floor

RelationFromReview(c, v) == [c EXCEPT !.type = v.type, !.cost = v.cost]

\* Seeded fault: the relations are checked one by one.
HardContradictionOneByOne(rels, props) ==
    \E i \in DOMAIN rels :
        FindContradictions(WithIdentities(<<rels[i]>>, props), <<>>, props, NoFilter, FALSE,
                           GateChecks) # {}

\* nesy.reason_over_relations about the approved relations alone.
HardContradiction(rels, props) ==
    FindContradictions(WithIdentities(rels, props), <<>>, props, NoFilter, FALSE, GateChecks) # {}

Passing(cands, reviews, floor) == {i \in DOMAIN cands : PassesReview(reviews[i], floor)}
FromReviews(cands, reviews) ==
    [i \in DOMAIN cands |-> RelationFromReview(cands[i], reviews[i])]

\* The positions of the candidates to write: none, if what passes clashes.
\* A likely duplicate is kept back by its candidate's id.
ApprovedAt(cands, reviews, g, props, floor, write) ==
    LET passing == Passing(cands, reviews, floor)
        rels == FromReviews(cands, reviews)
        blocked == /\ passing # {}
                   /\ AliasConflict(props) \/ HardContradiction(AtPositions(rels, passing), props)
        alike == {cands[i].id : i \in {k \in passing :
                    write /\ SemanticDuplicate(rels[k], g.rels, g.props \o props)}}
    IN  IF blocked THEN {} ELSE {i \in passing : cands[i].id \notin alike}

ActionOf(review, approved) ==
    CASE review.decision = "reject"               -> "reject"
      [] review.decision # "reject" /\ approved  -> "auto_write"
      [] review.decision # "reject" /\ ~approved -> "queue"

\* run_dry_run_gate: the action for each candidate, and the relations to write.
RunGate(cands, reviews, g, props, floor, write) ==
    LET approved == ApprovedAt(cands, reviews, g, props, floor, write)
    IN  [actions  |-> [i \in DOMAIN cands |-> ActionOf(reviews[i], i \in approved)],
         approved |-> AtPositions(FromReviews(cands, reviews), approved)]

\* nesy.validate_candidate_relations: what the gate lets pass is checked
\* against the graph too, and nothing is written.
CombinedCheckFails(g, rels, props) ==
    LET all == MergePropositions(g.props, props)
    IN  AliasConflict(all) \/
        FindContradictions(WithIdentities(g.rels \o rels, all), g.groups, all, NoFilter, FALSE,
                           GateChecks) # {}

Queued(result) ==
    [actions  |-> [i \in DOMAIN result.actions |->
                    IF result.actions[i] = "auto_write" THEN "queue" ELSE result.actions[i]],
     approved |-> <<>>]

ValidateCandidates(cands, reviews, g, props, floor) ==
    LET result == RunGate(cands, reviews, g, props, floor, TRUE)
    IN  IF result.approved # <<>> /\ CombinedCheckFails(g, result.approved, props)
        THEN Queued(result)
        ELSE result
=============================================================================
