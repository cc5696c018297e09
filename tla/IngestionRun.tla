----------------------------- MODULE IngestionRun -----------------------------
(***************************************************************************)
(* One run of "ingest agent-dry-run" (which writes with --auto-write) or   *)
(* of "ingest retrieval validate": evidence is gathered, a model extracts  *)
(* candidates, their endpoints are canonicalized, reviewers decide, the    *)
(* gate screens, and what it approves is written and the rest queued.      *)
(*                                                                         *)
(* The language models, the search provider and the web answer freely from *)
(* the menus below.  Other processes may change the store between any two  *)
(* steps of the run.                                                       *)
(*                                                                         *)
(* A setup is the command line and the input of a run:                     *)
(*   mode        "dry_run", "auto_write" or "validate"                     *)
(*   policy, high, reviewers (in order), agents (the Agents SDK and not a  *)
(*   JSON provider), explicit (reviewers were named), preview              *)
(*   given       the propositions of the input                             *)
(*   evidence, urls, crawl, search, retrieval ("none", "partial", "full":  *)
(*               whether its evidence has its provenance)                  *)
(*   batch, reviews, unproven: for "validate", the candidates and reviews  *)
(*               of the retrieval, and the candidates without provenance   *)
(***************************************************************************)
EXTENDS Canonicalization, Crawler

CONSTANTS
    Setups,
    MinWriteConfidence,     \* as a cost
    Batches,                \* candidate batches the extractor may return
    Groupings,              \* the answers of the canonicalizer
    Answers,                \* the reviews a reviewer may return, as reported
    HandoffReviews,         \* the reviews a handoff may return
    InitialGraph,
    OtherRelations, OtherPropositions   \* what other processes may add

Setup ==
    [mode : {"dry_run", "auto_write", "validate"}, policy : ReviewVotingPolicy,
     high : SUBSET Name, reviewers : Seq(NameOrNone \ {"handoff"}), agents : BOOLEAN,
     explicit : BOOLEAN, preview : BOOLEAN, given : Seq(NodeRecord), evidence : BOOLEAN,
     urls : Seq(Urls),
     crawl : BOOLEAN, search : BOOLEAN, retrieval : {"none", "partial", "full"},
     batch : Seq(CandidateRecord), reviews : Seq(ReviewRecord), unproven : SUBSET Name]

ASSUME SetupsAssumption ==
    Setups \subseteq Setup /\ \A s \in Setups : IsFiniteSet(s.high)
ASSUME AnswersAssumption ==
    /\ "default" \in Name     \* true, and not known to the provers
    /\ {"handoff source", "handoff target"} \subseteq Texts
    /\ Batches \subseteq Seq(CandidateRecord) /\ Groupings \subseteq Seq(DecisionRecord)
    /\ Answers \cup HandoffReviews \subseteq Seq(ReviewRecord)
ASSUME StoreAssumption ==
    /\ InitialGraph \in [rels : Seq(RelationRecord), groups : Seq(ExclusiveGroupRecord),
                         inds : Seq(IndependenceRecord), props : Seq(NodeRecord), meta : {<<>>}]
    /\ UniqueIds(InitialGraph.props) /\ ~AliasConflict(InitialGraph.props)
    /\ OtherRelations \subseteq RelationRecord /\ OtherPropositions \subseteq NodeRecord

VARIABLES
    run,        \* the setup
    phase,
    found,      \* whether there is evidence
    candidates, \* candidate_batch.candidates
    known,      \* the known propositions the canonicalizer was given
    grouping,   \* the canonicalizer's answer, if it was asked
    imports,    \* canonicalization_result.propositions
    answers,    \* the results of the reviewer calls that have ended, or of the "handoff"
    report,     \* gate results and approved relations
    outcome,    \* how the write ended
    writing,    \* what the write has in memory
    graph,      \* the store's relations and propositions
    queue       \* the candidates with a pending review queue record

canonVars == <<known, grouping>>
writeVars == <<outcome, writing>>
vars == <<run, phase, found, candidates, canonVars, imports, answers, report, writeVars, graph,
          queue, crawlVars>>

NoReport == [actions |-> <<>>, approved |-> <<>>]
\* rels: the relations to write, or the stored ones as an import read them;
\* props: the propositions as last read; seen: what was stored when duplicates
\* were looked for.
NothingRead == [rels |-> <<>>, props |-> <<>>, seen |-> {}]

Init ==
    /\ run \in Setups
    /\ phase = "start"
    /\ found = FALSE
    /\ candidates = <<>> /\ known = <<>> /\ grouping = <<>> /\ imports = <<>>
    /\ answers = <<>>
    /\ report = NoReport /\ outcome = "none" /\ writing = NothingRead
    /\ graph = InitialGraph
    /\ queue = {}
    /\ NoCrawl

AutoWrite == run.mode = "auto_write"
Goes(to) == phase' = to

(***************************************************************************)
(* Evidence                                                                *)
(***************************************************************************)
\* The retrieval input is read first: evidence without provenance is an error.
LoadInput ==
    /\ phase = "start"
    /\ run.mode # "validate"
    /\ IF run.retrieval = "partial" THEN Goes("error") /\ UNCHANGED found
       ELSE Goes("search") /\ found' = (run.evidence \/ run.retrieval = "full")
    /\ UNCHANGED <<run, candidates, canonVars, imports, answers, report, writeVars, graph, queue,
                    crawlVars>>

\* The search is over before the other sources are looked at.  An error of one
\* query ends the run; no accepted result is a warning.
Search ==
    /\ phase = "search"
    /\ \E result \in IF run.search THEN {"failed", "empty", "hits"} ELSE {"empty"} :
        /\ found' = (found \/ result = "hits")
        /\ phase' = CASE \/ run.crawl /\ run.urls = <<>>
                         \/ ~found /\ run.urls = <<>> /\ ~run.search -> "raised"
                      [] result = "failed" /\ ~(run.crawl /\ run.urls = <<>>) -> "error"
                      [] OTHER -> "fetch"
    /\ UNCHANGED <<run, candidates, canonVars, imports, answers, report, writeVars, graph, queue,
                    crawlVars>>

\* Without --crawl every URL must load.
FetchUrls ==
    /\ phase = "fetch"
    /\ ~run.crawl
    /\ \/ Goes("gathered") /\ found' = (found \/ run.urls # <<>>)
       \/ run.urls # <<>> /\ Goes("raised") /\ UNCHANGED found
    /\ UNCHANGED <<run, candidates, canonVars, imports, answers, report, writeVars, graph, queue,
                    crawlVars>>

BeginCrawl ==
    /\ phase = "fetch"
    /\ run.crawl
    /\ Goes("crawl")
    /\ CrawlBegins(run.urls)
    /\ UNCHANGED <<run, found, candidates, canonVars, imports, answers, report, writeVars, graph,
                    queue>>

Crawl ==
    /\ phase = "crawl"
    /\ CrawlStep
    /\ UNCHANGED <<run, phase, found, candidates, canonVars, imports, answers, report, writeVars,
                    graph, queue>>

EndCrawl ==
    /\ phase = "crawl"
    /\ ~CrawlGoesOn
    /\ Goes("gathered")
    /\ found' = (found \/ CrawlEvidence)
    /\ CrawlForgotten
    /\ UNCHANGED <<run, candidates, canonVars, imports, answers, report, writeVars, graph, queue>>

EvidenceCheck ==
    /\ phase = "gathered"
    /\ Goes(IF found THEN "extract" ELSE "error")
    /\ UNCHANGED <<run, found, candidates, canonVars, imports, answers, report, writeVars, graph,
                    queue, crawlVars>>

(***************************************************************************)
(* Extraction                                                              *)
(***************************************************************************)
CanonicalizesFirst(cands) == (AutoWrite \/ run.preview) /\ cands # <<>>
AfterExtraction(cands) == IF CanonicalizesFirst(cands) THEN "canonicalize" ELSE "review"

\* A failed call, or one that takes too long, is reported.  What an agent
\* returns is parsed after the call, and raises when it is malformed.
Extract ==
    /\ phase = "extract"
    /\ \/ \E batch \in Batches :
            candidates' = batch /\ Goes(AfterExtraction(batch))
       \/ Goes("error") /\ UNCHANGED candidates
       \/ run.agents /\ Goes("raised") /\ UNCHANGED candidates
    /\ UNCHANGED <<run, found, canonVars, imports, answers, report, writeVars, graph, queue,
                    crawlVars>>

\* handoff://source and handoff://target
Placeholder(id) ==
    [id |-> id, src |-> "handoff source", tgt |-> "handoff target", sid |-> None, tid |-> None,
     type |-> "necessary", cost |-> NoConfidence, ctx |-> "default", store |-> "default",
     from |-> Always, to |-> Forever, dom |-> None, asm |-> {}, ind |-> {}]

\* The extractor handed over to the default reviewer: the candidates are
\* made up from its reviews, which keep the model names they report.
Handoff ==
    /\ phase = "extract"
    /\ run.agents /\ ~run.explicit
    /\ \E reviews \in HandoffReviews :
        LET cands == [i \in 1..Cardinality({v.cand : v \in ToSet(reviews)}) |->
                        Placeholder(SetToSeq({v.cand : v \in ToSet(reviews)})[i])]
        IN  /\ answers' = [r \in {"handoff"} |-> [reviews |-> reviews, failed |-> FALSE]]
            /\ candidates' = cands
            /\ Goes(AfterExtraction(cands))
    /\ UNCHANGED <<run, found, canonVars, imports, report, writeVars, graph, queue, crawlVars>>

(***************************************************************************)
(* Canonicalization                                                        *)
(***************************************************************************)
\* The result stands when it has no error and, for a write, when its
\* propositions could be imported now.
Importable(props) == ~AliasConflict(MergePropositions(graph.props, props))

TakeCanonical(result) ==
    IF result.ok /\ (AutoWrite => Importable(result.props))
    THEN candidates' = result.cands /\ imports' = result.props /\ Goes("review")
    ELSE UNCHANGED <<candidates, imports>> /\ Goes("error")

\* The known propositions are read, and matched by exact terms if they suffice.
CanonicalizeStep ==
    /\ phase = "canonicalize"
    /\ LET props == KnownPropositions(graph.props, run.given)
       IN  /\ known' = props
           /\ IF NeedsModel(candidates, props)
              THEN Goes("grouping") /\ UNCHANGED <<candidates, imports>>
              ELSE TakeCanonical(CanonicalizeByTerm(candidates, props))
    /\ UNCHANGED <<run, found, grouping, answers, report, writeVars, graph, queue, crawlVars>>

GroupingAnswers ==
    /\ phase = "grouping"
    /\ \/ /\ grouping' \in Groupings
          /\ TakeCanonical(CanonicalizeBy(grouping', candidates, known))
       \/ Goes("error") /\ UNCHANGED <<grouping, candidates, imports>>
       \/ run.agents /\ Goes("raised") /\ UNCHANGED <<grouping, candidates, imports>>
    /\ UNCHANGED <<run, found, known, answers, report, writeVars, graph, queue, crawlVars>>

RunPropositions == run.given \o imports

(***************************************************************************)
(* Reviewers                                                               *)
(***************************************************************************)
ReviewerSet == ToSet(run.reviewers)
HighPriorityReviewers == ReviewerSet \cap run.high
HandedOff == "handoff" \in DOMAIN answers

\* _run_reviewer_calls: under risk_tiered the high priority reviewers go first.
TwoRounds == run.policy = "risk_tiered" /\ HighPriorityReviewers # {}
FirstRoundOver == HighPriorityReviewers \subseteq DOMAIN answers

\* _reviews_with_model
WithModel(reviews, by) ==
    IF by = None THEN reviews ELSE [i \in DOMAIN reviews |-> [reviews[i] EXCEPT !.by = by]]

NeedsHumanFrom(by, failed) ==
    [reviews |-> [i \in DOMAIN candidates |-> NeedsHuman(candidates[i].id, by)],
     failed |-> failed]

Answered(r, answer) ==
    [x \in DOMAIN answers \cup {r} |-> IF x = r THEN answer ELSE answers[x]]

\* The last review of a candidate by a model is the one looked at.
HighPriorityShouldShortCircuit ==
    \/ \E r \in HighPriorityReviewers : answers[r].failed
    \/ \E c \in {candidates[i].id : i \in DOMAIN candidates}, m \in run.high :
        LET cast == IF m \in HighPriorityReviewers THEN ReviewsOf(answers[m].reviews, c) ELSE <<>>
        IN  ~(cast # <<>> /\ Last(cast).decision = "approve" /\ Last(cast).ok)

\* The calls of a round run in parallel and end in any order.
MayAnswer(r) ==
    /\ phase = "review"
    /\ ~HandedOff
    /\ r \in ReviewerSet \ DOMAIN answers
    /\ TwoRounds => \/ r \in run.high
                    \/ FirstRoundOver /\ ~HighPriorityShouldShortCircuit

ReviewerAnswers(r) ==
    /\ MayAnswer(r)
    /\ \E reviews \in Answers :
        answers' = Answered(r, [reviews |-> WithModel(reviews, r), failed |-> FALSE])
    /\ UNCHANGED <<run, phase, found, candidates, canonVars, imports, report, writeVars, graph,
                    queue, crawlVars>>

\* A timeout or an error: every candidate needs a human.
ReviewerFails(r) ==
    /\ MayAnswer(r)
    /\ answers' = Answered(r, NeedsHumanFrom(r, TRUE))
    /\ UNCHANGED <<run, phase, found, candidates, canonVars, imports, report, writeVars, graph,
                    queue, crawlVars>>

\* An agent's malformed answer raises out of the task group: the other calls
\* are cancelled and the run ends.
ReviewerRaises(r) ==
    /\ MayAnswer(r)
    /\ run.agents
    /\ Goes("raised")
    /\ UNCHANGED <<run, found, candidates, canonVars, imports, answers, report, writeVars, graph,
                    queue, crawlVars>>

ShortCircuit ==
    /\ phase = "review"
    /\ ~HandedOff /\ TwoRounds /\ FirstRoundOver
    /\ ReviewerSet \ DOMAIN answers # {}
    /\ HighPriorityShouldShortCircuit
    /\ answers' = [r \in ReviewerSet |->
                    IF r \in DOMAIN answers THEN answers[r] ELSE NeedsHumanFrom(r, FALSE)]
    /\ UNCHANGED <<run, phase, found, candidates, canonVars, imports, report, writeVars, graph,
                    queue, crawlVars>>

(***************************************************************************)
(* The gate, and what follows it                                           *)
(***************************************************************************)
AllReviews ==
    IF HandedOff THEN answers["handoff"].reviews
    ELSE FlattenSeq([i \in DOMAIN run.reviewers |-> answers[run.reviewers[i]].reviews])
CallFailed == \E r \in DOMAIN answers : answers[r].failed

\* Seeded fault: a failed reviewer call does not stop the writing.
GuardedReviewsUnguarded(reviews) == reviews

\* _runtime_guard_reviews
GuardedReviews(reviews) ==
    IF AutoWrite /\ CallFailed
    THEN [i \in DOMAIN reviews |-> NeedsHuman(candidates[i].id, None)]
    ELSE reviews

Gate ==
    /\ phase = "review"
    /\ HandedOff \/ ReviewerSet = DOMAIN answers
    /\ LET reviews == GuardedReviews(Aggregated(candidates, AllReviews, run.policy, run.high,
                                                ReviewerSet \ {None}))
           floor == IF AutoWrite THEN MinWriteConfidence ELSE NoConfidence
           result == RunGate(candidates, reviews, graph, RunPropositions, floor, AutoWrite)
       IN  /\ report' = [actions |-> result.actions, approved |-> result.approved]
           /\ Goes(CASE ~AutoWrite -> "done"
                     [] AutoWrite /\ result.approved = <<>> -> "enqueue"
                     [] OTHER -> "write")
    /\ UNCHANGED <<run, found, candidates, canonVars, imports, answers, graph, queue, crawlVars,
                    writeVars>>

\* Seeded fault: nothing is a duplicate.
NewRelationsAll(prepared, existing) == prepared

\* _dedupe_relations: the relations neither in the graph nor earlier in the batch.
NewRelations(prepared, existing) ==
    LET keysOf(rels) == UNION {RelationKeys(r) : r \in ToSet(rels)}
    IN  FoldLeft(LAMBDA new, r : IF RelationKeys(r) \cap keysOf(existing \o new) = {}
                                 THEN Append(new, r) ELSE new,
                 <<>>, prepared)

(***************************************************************************)
(* write_approved_relations: prepare the relations, read the stored ones   *)
(* to de-duplicate, then nesy.assert_relations: read the propositions,     *)
(* check the graph as it would be, append.  Each is a store call.  What    *)
(* the store raises in the first two ends the run; call_tool turns a later *)
(* error into a diagnostic, and the run goes on to the queue.              *)
(***************************************************************************)
Written == outcome' = "written" /\ Goes(IF imports = <<>> THEN "enqueue" ELSE "import")
WriteStopped(how) == outcome' = how /\ Goes("enqueue")

PrepareRelations ==
    /\ phase = "write"
    /\ \/ /\ writing' = [writing EXCEPT !.rels = WithIdentities(report.approved, graph.props)]
          /\ Goes("dedupe")
       \/ Goes("raised") /\ UNCHANGED writing
    /\ UNCHANGED <<run, found, candidates, canonVars, imports, answers, report, outcome, graph,
                   queue, crawlVars>>

Dedupe ==
    /\ phase = "dedupe"
    /\ \/ LET new == NewRelations(writing.rels, graph.rels)
          IN  /\ writing' = [writing EXCEPT !.rels = new, !.seen = Ids(graph.rels)]
              /\ IF new = <<>> THEN Written ELSE Goes("assert") /\ UNCHANGED outcome
       \/ Goes("raised") /\ UNCHANGED <<outcome, writing>>
    /\ UNCHANGED <<run, found, candidates, canonVars, imports, answers, report, graph, queue,
                   crawlVars>>

ReadToCheck ==
    /\ phase = "assert"
    /\ \/ /\ writing' = [writing EXCEPT !.props = graph.props]
          /\ Goes("check") /\ UNCHANGED outcome
       \/ WriteStopped("failed") /\ UNCHANGED writing
    /\ UNCHANGED <<run, found, candidates, canonVars, imports, answers, report, graph, queue,
                   crawlVars>>

\* on_contradiction = reject
WriteRefused(new, props) ==
    FindContradictions(WithIdentities(graph.rels \o new, props), graph.groups, props, NoFilter,
                       FALSE, GateChecks) # {}

CheckWrite ==
    /\ phase = "check"
    /\ \/ WriteRefused(writing.rels, writing.props) /\ WriteStopped("refused")
       \/ ~WriteRefused(writing.rels, writing.props) /\ Goes("append") /\ UNCHANGED outcome
       \/ WriteStopped("failed")
    /\ UNCHANGED <<run, found, candidates, canonVars, imports, answers, report, writing, graph,
                   queue, crawlVars>>

\* The tool reads the store again after it has appended: it may fail then too.
AppendRelations ==
    /\ phase = "append"
    /\ \/ /\ graph' = [graph EXCEPT !.rels = @ \o writing.rels]
          /\ Written \/ WriteStopped("failed")
       \/ UNCHANGED graph /\ WriteStopped("failed")
    /\ UNCHANGED <<run, found, candidates, canonVars, imports, answers, report, writing, queue,
                   crawlVars>>

(***************************************************************************)
(* import_records, with the propositions of a successful write: what is    *)
(* stored is read, and then the store is rewritten.  If others have made   *)
(* the propositions clash since they were checked, or the store fails, the *)
(* run raises.                                                             *)
(***************************************************************************)
\* Seeded fault: the propositions are imported unchecked.
ImportedUnchecked(props) == TRUE

Imported(props) == Importable(props)

MergeImports ==
    /\ phase = "import"
    /\ \/ /\ Imported(imports)
          /\ writing' = [writing EXCEPT !.props = MergePropositions(graph.props, imports)]
          /\ Goes("merge")
       \/ Goes("raised") /\ UNCHANGED writing
    /\ UNCHANGED <<run, found, candidates, canonVars, imports, answers, report, outcome, graph,
                   queue, crawlVars>>

ReadRelations ==
    /\ phase = "merge"
    /\ \/ writing' = [writing EXCEPT !.rels = graph.rels] /\ Goes("rewrite")
       \/ Goes("raised") /\ UNCHANGED writing
    /\ UNCHANGED <<run, found, candidates, canonVars, imports, answers, report, outcome, graph,
                   queue, crawlVars>>

\* What others stored since the reads is lost.
RewriteStore ==
    /\ phase = "rewrite"
    /\ \/ /\ graph' = [graph EXCEPT !.rels = writing.rels, !.props = writing.props]
          /\ Goes("enqueue")
       \/ Goes("raised") /\ UNCHANGED graph
    /\ UNCHANGED <<run, found, candidates, canonVars, imports, answers, report, writeVars, queue,
                   crawlVars>>

\* Seeded fault: what the gate approved is queued too.
ToQueueAll(actions) == {candidates[i].id : i \in {k \in DOMAIN actions : actions[k] # "reject"}}

\* queued_records_from_report
ToQueue(actions) == {candidates[i].id : i \in {k \in DOMAIN actions : actions[k] = "queue"}}

Enqueue ==
    /\ phase = "enqueue"
    /\ \/ queue' = queue \cup ToQueue(report.actions) /\ Goes("done")
       \/ ToQueue(report.actions) # {} /\ Goes("raised") /\ UNCHANGED queue
    /\ UNCHANGED <<run, found, candidates, canonVars, imports, answers, report, writeVars, graph,
                    crawlVars>>

(***************************************************************************)
(* ingest retrieval validate                                               *)
(***************************************************************************)
\* _apply_retrieval_provenance_gate
ProvenanceGate(result) ==
    [actions  |-> [i \in DOMAIN run.batch |->
                    IF run.batch[i].id \in run.unproven /\ result.actions[i] = "auto_write"
                    THEN "queue" ELSE result.actions[i]],
     approved |-> Among(result.approved,
                        {r \in ToSet(result.approved) : r.id \notin run.unproven})]

Validate ==
    /\ phase = "start"
    /\ run.mode = "validate"
    /\ IF run.retrieval = "partial" \/ run.batch = <<>>
       THEN Goes("error") /\ UNCHANGED <<candidates, report>>
       ELSE LET reviews == Aggregated(run.batch, run.reviews, run.policy, run.high, {})
                result == ProvenanceGate(ValidateCandidates(run.batch, reviews, graph, run.given,
                                                            MinWriteConfidence))
            IN  /\ candidates' = run.batch
                /\ report' = result
                /\ Goes("done")
    /\ UNCHANGED <<run, found, canonVars, imports, answers, graph, queue, crawlVars, writeVars>>

(***************************************************************************)
(* Other processes                                                         *)
(***************************************************************************)
EndPhases == {"done", "error", "raised"}
Ended == phase \in EndPhases

OtherProcess ==
    /\ ~Ended
    /\ \/ \E r \in OtherRelations :
            /\ r.id \notin Ids(graph.rels)
            /\ graph' = [graph EXCEPT !.rels = Append(@, WithIdentity(r, graph.props))]
       \/ \E p \in OtherPropositions :
            /\ p.id \notin Ids(graph.props)
            /\ ~AliasConflict(MergePropositions(graph.props, <<p>>))
            /\ graph' = [graph EXCEPT !.props = Append(@, p)]
    /\ UNCHANGED <<run, phase, found, candidates, canonVars, imports, answers, report, writeVars,
                    queue, crawlVars>>

WriteStep ==
    PrepareRelations \/ Dedupe \/ ReadToCheck \/ CheckWrite \/ AppendRelations
ImportStep == MergeImports \/ ReadRelations \/ RewriteStore

RunStep ==
    \/ LoadInput \/ Search \/ FetchUrls \/ BeginCrawl \/ Crawl \/ EndCrawl \/ EvidenceCheck
    \/ Extract \/ Handoff \/ CanonicalizeStep \/ GroupingAnswers
    \/ \E r \in ReviewerSet : ReviewerAnswers(r) \/ ReviewerFails(r) \/ ReviewerRaises(r)
    \/ ShortCircuit \/ Gate \/ WriteStep \/ ImportStep \/ Enqueue \/ Validate

Finished == Ended /\ UNCHANGED vars

Next == RunStep \/ OtherProcess \/ Finished

Spec == Init /\ [][Next]_vars

(***************************************************************************)
(* Properties                                                              *)
(***************************************************************************)
\* The run is in a phase of the code, and the propositions of the store keep
\* one identity for each term, whatever was added while the run thought.
TypeOK ==
    /\ run \in Setups
    /\ phase \in {"start", "search", "fetch", "crawl", "gathered", "extract", "canonicalize",
                  "grouping", "review", "write", "dedupe", "assert", "check", "append", "import",
                  "merge", "rewrite", "enqueue"} \cup EndPhases
    /\ outcome \in {"none", "written", "refused", "failed"}
    /\ found \in BOOLEAN
    /\ DOMAIN answers \subseteq ReviewerSet \cup {"handoff"}
    /\ Len(report.actions) \in {0, Len(candidates)}
    /\ ToSet(report.actions) \subseteq GateAction
    /\ UniqueIds(imports) /\ UniqueIds(graph.props) /\ ~AliasConflict(graph.props)
    /\ queue \subseteq {candidates[i].id : i \in DOMAIN candidates}

\* What the votes on a candidate are, and who was asked and cast none.
Cast(c) == ReviewsOf(IF run.mode = "validate" THEN run.reviews ELSE AllReviews, c)
Silent(c) ==
    (run.high \cup (IF run.mode = "validate" THEN {} ELSE ReviewerSet \ {None})) \ Models(Cast(c))

\* The votes that carry an approved relation: approvals of its type.
Backs(v, r) == v.decision = "approve" /\ v.type = r.type

\* A relation is approved only with the votes its policy asks for, counted
\* here directly: more than half of those asked, none against or silent under
\* unanimous, every high priority model for it under risk_tiered; each of them
\* confirms the implication; and its confidence is the least of theirs.  A run
\* that lost a reviewer approves nothing for writing.
ApprovalSupported ==
    /\ \A r \in ToSet(report.approved) :
        LET cast == Cast(r.id)
            backers == Among(cast, {v \in ToSet(cast) : Backs(v, r)})
        IN  /\ backers # <<>>
            /\ \A v \in ToSet(backers) : v.ok
            /\ r.cost = Max({v.cost : v \in ToSet(backers)})
            /\ AutoWrite => r.cost <= MinWriteConfidence
            /\ 2 * Len(backers) > Len(cast) + Cardinality(Silent(r.id))
            /\ run.policy = "unanimous" => backers = cast /\ Silent(r.id) = {}
            /\ run.policy = "risk_tiered" =>
                /\ run.high \subseteq Models(cast)
                /\ \A v \in ToSet(cast) : v.by \in run.high => Backs(v, r)
    /\ AutoWrite /\ report.approved # <<>> => ~CallFailed

\* The relation r, or one the writer takes for the same, is in the graph.
InGraph(r) == \E x \in ToSet(graph.rels) : RelationKeys(x) \cap RelationKeys(r) # {}

\* What was added to the store and not by another process.
WrittenHere == Ids(graph.rels) \ (Ids(InitialGraph.rels) \cup {r.id : r \in OtherRelations})
ImportedHere == Ids(graph.props) \ (Ids(InitialGraph.props) \cup {p.id : p \in OtherPropositions})

\* The candidates with an action of the gate.
ActedOn(action) ==
    {candidates[i].id : i \in {k \in DOMAIN candidates : report.actions[k] = action}}

\* When a run with --auto-write is done, every candidate is accounted for in
\* one place: approved, and then written or refused with a diagnostic, or in
\* the review queue, or rejected.  Any other run, and one that ends in an
\* error, queues nothing.
AllAccountedFor ==
    /\ phase = "done" /\ AutoWrite =>
        LET approved == {r.id : r \in ToSet(report.approved)}
        IN  /\ queue = {c.id : c \in ToSet(candidates)} \ (approved \cup ActedOn("reject"))
            /\ approved \cap ActedOn("reject") = {}
            /\ approved # {} => outcome # "none"
    /\ phase = "error" \/ ~AutoWrite => queue = {}

\* What is approved together does not contradict itself.  Of a run with
\* --auto-write that has written, the store has what was approved, its
\* endpoints registered.  Only a write, or a store error while it appends,
\* leaves relations of the run in the store, and propositions follow a write
\* only.  Nothing is written that was not approved, that the batch already
\* had, or that the store had when duplicates were looked for; what another
\* process stored since then may be there twice.
StoreMatchesReport ==
    /\ AllAccountedFor
    /\ FindContradictions(WithIdentities(report.approved, RunPropositions), <<>>, RunPropositions,
                          NoFilter, FALSE, GateChecks) = {}
    /\ phase = "done" /\ AutoWrite /\ outcome = "written" =>
        \A r \in ToSet(report.approved) : InGraph(r) /\ {r.sid, r.tid} \subseteq Ids(graph.props)
    /\ phase = "error" \/ ~AutoWrite \/ outcome \notin {"written", "failed"} => WrittenHere = {}
    /\ phase = "error" \/ ~AutoWrite \/ outcome # "written" => ImportedHere = {}
    /\ WrittenHere \subseteq {r.id : r \in ToSet(report.approved)}
    /\ \A k \in DOMAIN graph.rels : graph.rels[k].id \in WrittenHere =>
        \A i \in 1..(k - 1) : graph.rels[i].id \in writing.seen \cup WrittenHere =>
            RelationKeys(graph.rels[i]) \cap RelationKeys(graph.rels[k]) = {}

\* A crawl keeps to its limits whatever the pages link and redirect to: no
\* more requests answered, and no more bytes read, than it was given; pages of
\* public and allowed hosts only, no deeper than asked, none of them twice.
CrawlWithinBudget ==
    /\ fetchedCount <= MaxCrawlPages
    /\ totalBytes <= MaxTotalBytes
    /\ \A i \in DOMAIN pages :
        /\ pages[i].url \in PublicUrls \cap AllowedUrls
        /\ pages[i].depth <= MaxCrawlDepth
        /\ \A k \in DOMAIN pages : i # k => CanonicalUrl[pages[i].url] # CanonicalUrl[pages[k].url]

\* The batches the candidates may have been extracted as.
Extracted == Batches \cup {[i \in DOMAIN candidates |-> Placeholder(candidates[i].id)]}

OwnId(batch, i) == \A k \in DOMAIN batch : batch[k].id = batch[i].id => k = i
SaidBy(c, d, props) ==
    c.src \in Named(props, d.sid).terms /\ c.tgt \in Named(props, d.tid).terms

\* Every candidate is still the one extracted, and each endpoint is now a
\* proposition to import.  If no other has the candidate's id, and with it
\* its refs, the extractor's text is among the proposition's terms.
TextsKept ==
    imports # <<>> => \E batch \in Extracted :
        /\ Len(batch) = Len(candidates)
        /\ \A i \in DOMAIN batch :
            /\ candidates[i].id = batch[i].id /\ candidates[i].type = batch[i].type
            /\ {candidates[i].sid, candidates[i].tid} \subseteq Ids(imports)
            /\ OwnId(batch, i) => SaidBy(batch[i], candidates[i], imports)

\* A decision that supplies the id of a known proposition labels it by one of
\* its texts.
Recognized(d) == d.id \in Ids(known) => d.label \in Named(known, d.id).terms

=============================================================================
