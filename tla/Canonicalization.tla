--------------------------- MODULE Canonicalization ---------------------------
(***************************************************************************)
(* Candidate endpoints resolved to proposition nodes, with the help of a   *)
(* language model where the exact terms do not decide.                     *)
(*                                                                         *)
(* A proposition here is [id, label, terms, neg].  An endpoint is named by *)
(* its ref, <<candidate id, "source">> or <<candidate id, "target">>.  The *)
(* model's answer is a sequence of decisions [id, label, aliases, refs],   *)
(* id being None when it names no known proposition.                       *)
(***************************************************************************)
EXTENDS ReviewGate

CONSTANTS
    StableId,       \* the id of the proposition a new text stands for
    SharesWord      \* the sets {a, b} of texts with a word in common

Texts == DOMAIN StableId

ASSUME TextsAssumption ==
    Texts \subseteq Name /\ StableId \in [Texts -> Name] /\ TextNegates \subseteq Name \X Texts

NodeRecord == [id : Name, label : Name, terms : SUBSET STRING, neg : NameOrNone]
\* A candidate has no temporal window and no assumptions.
CandidateRecord ==
    {r \in RelationRecord : /\ {r.src, r.tgt} \subseteq Texts
                            /\ r.from = Always /\ r.to = Forever /\ r.asm = {}}
DecisionRecord ==
    [id : NameOrNone, label : Texts, aliases : SUBSET STRING,
     refs : SUBSET (Name \X {"source", "target"})]

(***************************************************************************)
(* The known propositions: those of the store, then those of the input     *)
(***************************************************************************)
MergeRecord(known, p) ==
    IF p.id \in Ids(known)
    THEN [i \in DOMAIN known |->
            IF known[i].id = p.id THEN [known[i] EXCEPT !.terms = @ \cup p.terms] ELSE known[i]]
    ELSE Append(known, p)
MergeRecords(records) == FoldLeft(MergeRecord, <<>>, records)
KnownPropositions(stored, given) == MergeRecords(stored \o given)

Named(known, id) == known[CHOOSE i \in DOMAIN known : known[i].id = id]

\* _known_term_index: a term belongs to the first proposition with it.
Owner(term, known) ==
    LET with == {i \in DOMAIN known : term \in known[i].terms}
    IN  IF with = {} THEN None ELSE known[Min(with)].id

\* "not x" negates x, known or not.
Negates(text, known) ==
    LET bases == {n[2] : n \in {x \in TextNegates : x[1] = text}}
    IN  IF bases = {} THEN None
        ELSE LET base == CHOOSE b \in bases : TRUE
             IN  IF Owner(base, known) # None THEN Owner(base, known) ELSE StableId[base]

NewRecord(id, label, known) ==
    [id |-> id, label |-> label, terms |-> {id, label}, neg |-> Negates(label, known)]

(***************************************************************************)
(* Endpoints                                                               *)
(***************************************************************************)
CandidateEndpoints(cands) ==
    FlattenSeq([i \in DOMAIN cands |->
        << [ref |-> <<cands[i].id, "source">>, text |-> cands[i].src, id |-> cands[i].sid],
           [ref |-> <<cands[i].id, "target">>, text |-> cands[i].tgt, id |-> cands[i].tid] >>])

\* By ref: of two candidates with one id, the last has the refs.
RefOf(e) == e.ref
RefsOf(endpoints) == {e.ref : e \in ToSet(endpoints)}
Endpoints(cands) == PutAll(RefOf, <<>>, CandidateEndpoints(cands))

RecordForEndpoint(e, known) ==
    LET owner == IF e.id \in Ids(known) THEN e.id ELSE Owner(e.text, known)
    IN  IF owner # None
        THEN [Named(known, owner) EXCEPT !.terms = @ \cup {e.text}]
        ELSE NewRecord(IF e.id # None THEN e.id ELSE StableId[e.text], e.text, known)


UnsafeMerge(terms) ==
    LET mixed(S) == terms \cap S # {} /\ ~(terms \subseteq S)
    IN  mixed(Qualified) \/ mixed({n[1] : n \in TextNegates})

KnownIdFor(d, eps, known) ==
    LET terms == {d.label} \cup d.aliases \cup {e.text : e \in eps}
                           \cup ({e.id : e \in eps} \ {None})
        owners == {Owner(t, known) : t \in terms} \ {None}
    IN  CASE d.id \in Ids(known) -> d.id
          [] d.id \notin Ids(known) /\ Cardinality(owners) = 1 -> CHOOSE o \in owners : TRUE
          [] OTHER -> None

\* The proposition a decision stands for, or a refusal.
RecordForDecision(d, eps, known) ==
    LET merged == {d.label} \cup d.aliases \cup {e.text : e \in eps}
        owner == KnownIdFor(d, eps, known)
        record == IF owner # None THEN Named(known, owner)
                  ELSE NewRecord(StableId[d.label], d.label, known)
        foreign == {t \in merged \ {record.id, record.label} :
                        Owner(t, known) \notin {None, record.id}}
    IN  IF UnsafeMerge(merged) \/ foreign # {}
        THEN [ok |-> FALSE, record |-> record]
        ELSE [ok |-> TRUE, record |-> [record EXCEPT !.terms = @ \cup merged]]

\* A decision must name known refs that none before it took.
Taken(a, d, endpoints, known) ==
    LET r == RecordForDecision(d, {e \in ToSet(endpoints) : e.ref \in d.refs}, known)
    IN  IF d.refs \subseteq RefsOf(endpoints) /\ d.refs \cap DOMAIN a.at = {} /\ r.ok
        THEN [ok |-> a.ok, list |-> Append(a.list, r.record),
              at |-> [x \in DOMAIN a.at \cup d.refs |->
                        IF x \in d.refs THEN r.record ELSE a.at[x]]]
        ELSE [ok |-> FALSE, list |-> a.list, at |-> a.at]

AllTaken(start, grouping, endpoints, known) ==
    FoldLeft(LAMBDA a, d : Taken(a, d, endpoints, known), start, grouping)

Assigned(grouping, endpoints, known) ==
    LET all == AllTaken([ok |-> TRUE, list |-> <<>>, at |-> <<>>], grouping, endpoints, known)
    IN  [ok |-> all.ok /\ DOMAIN all.at = RefsOf(endpoints), list |-> all.list, at |-> all.at]

AssignedByTerm(endpoints, known) ==
    LET e(ref) == CHOOSE x \in ToSet(endpoints) : x.ref = ref
    IN  [ok |-> TRUE,
         list |-> [i \in DOMAIN endpoints |-> RecordForEndpoint(endpoints[i], known)],
         at |-> [ref \in RefsOf(endpoints) |-> RecordForEndpoint(e(ref), known)]]

CanonicalizedCandidate(c, at) ==
    LET s == at[<<c.id, "source">>]
        t == at[<<c.id, "target">>]
    IN  [c EXCEPT !.src = s.label, !.sid = s.id, !.tgt = t.label, !.tid = t.id]

\* canonicalize_candidate_relations, given how the endpoints were assigned.
Canonicalized(cands, a) ==
    IF a.ok
    THEN [ok |-> TRUE, props |-> MergeRecords(a.list),
          cands |-> [i \in DOMAIN cands |-> CanonicalizedCandidate(cands[i], a.at)]]
    ELSE [ok |-> FALSE, props |-> <<>>, cands |-> cands]
CanonicalizeByTerm(cands, known) == Canonicalized(cands, AssignedByTerm(Endpoints(cands), known))
CanonicalizeBy(grouping, cands, known) ==
    Canonicalized(cands, Assigned(grouping, Endpoints(cands), known))

\* _canonicalization_llm_prefilter: only an endpoint that is no exact term
\* and shares a word with one needs the model.
NeedsModel(cands, known) ==
    LET terms == UNION {p.terms : p \in ToSet(known)}
    IN  \E e \in ToSet(CandidateEndpoints(cands)) :
            e.text \notin terms /\ \E t \in terms : {e.text, t} \in SharesWord
=============================================================================
