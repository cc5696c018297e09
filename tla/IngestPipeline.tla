--------------------------- MODULE IngestPipeline ---------------------------
(***************************************************************************)
(* Conversation ingestion from the Stop hook to the relation graph: the    *)
(* hook enqueues turn jobs, ingestion workers extract candidate relations  *)
(* into the review queue, review workers gate them and write the approved  *)
(* ones, and the MCP tools commit or resolve queued records by hand.       *)
(*                                                                         *)
(* The processes share one store (SQLite) and nothing else.  Every store   *)
(* call is one step; every await, and every gap between two store calls,   *)
(* is a place where the other processes run.                               *)
(***************************************************************************)
EXTENDS QueueStore

CONSTANTS
    IngestWorkers,  \* processes that extract (`ingest worker`, nesy-worker)
    ReviewWorkers,  \* processes that review; one in both sets runs both
                    \* phases in turn, as run_ingestion_worker does
    Tools,          \* MCP or CLI callers of commit and resolve
    QueueDepth,     \* pending jobs kept by back-pressure
    JobLimit,       \* jobs claimed per iteration
    MergeLimit,     \* jobs merged into one extraction
    CandidateLimit, \* candidates one extraction returns
    RecordLimit,    \* review records claimed per iteration
    Conflicts,      \* sets of relation keys that contradict one another
    AutoWrite,      \* the review workers' auto_write option
    MayCrash,       \* processes may die and restart
    FaultAt         \* the program points at which a store call may raise

Workers == IngestWorkers \cup ReviewWorkers
Actors == Workers \cup Tools

ASSUME ActorsAssumption == Workers \cap Tools = {}
ASSUME LimitsAssumption ==
    /\ QueueDepth \in Nat /\ JobLimit \in Nat /\ RecordLimit \in Nat
    /\ CandidateLimit \in Nat /\ MergeLimit \in Nat \ {0}
ASSUME ConflictsAssumption == {} \notin Conflicts
ASSUME FlagsAssumption == AutoWrite \in BOOLEAN /\ MayCrash \in BOOLEAN

VARIABLES
    jobs,   \* durable: the ingestion queue
    recs,   \* durable: the review queue
    graph,  \* durable: how many stored relations have each key, up to 2
    proc    \* what each process holds in memory, and where it is

vars == <<jobs, recs, graph, proc>>

WorkerPc == {"drop", "claim", "group", "to_reviewing", "to_done", "to_failed",
             "review", "pick", "dedupe", "check", "write", "update",
             "writeback", "settle_done", "settle_failed", "retry"}
ToolPc == {"idle", "validate", "dedupe", "check", "write", "mark", "resolve"}

ASSUME FaultAssumption == FaultAt \subseteq WorkerPc

\* held: claimed jobs not yet grouped.     group: the jobs being extracted.
\* left: jobs whose status is unwritten.   claimed: claimed records not yet
\* grouped.  seen: the claimed rows, as claimed.
\* batch: the records under review, or selected by a tool.
\* approved, rejected: what the gate decided for them.  news: the keys to
\* assert, as the last de-duplication saw the graph.
LocalState == [pc : WorkerPc \cup ToolPc,
               held : SUBSET Jobs, group : SUBSET Jobs, left : SUBSET Jobs,
               claimed : SUBSET Records, seen : [Records -> RecordRow],
               batch : SUBSET Records,
               approved : SUBSET Records, rejected : SUBSET Records,
               news : SUBSET Keys]

NoRecord == [st |-> "absent", batch |-> {}, src |-> {},
             key |-> CHOOSE k \in Keys : TRUE,
             tries |-> 0, retry |-> "none", gate |-> "queue",
             reviewed |-> FALSE]

\* At program point l, holding nothing.
At(l) == [pc |-> l, held |-> {}, group |-> {}, left |-> {}, claimed |-> {},
          seen |-> [r \in Records |-> NoRecord], batch |-> {},
          approved |-> {}, rejected |-> {}, news |-> {}]

Become(a, p) == proc' = [proc EXCEPT ![a] = p]
Goto(a, l) == Become(a, [proc[a] EXCEPT !.pc = l])

\* Where a process starts, and restarts.
Start(a) == IF a \in Tools THEN "idle"
            ELSE IF a \in IngestWorkers THEN "drop" ELSE "review"
AfterIngest(w) == IF w \in ReviewWorkers THEN "review" ELSE "drop"

\* Seeded fault: only the first group of a claim is extracted.
AfterFirstGroup(w) == At(AfterIngest(w))

\* The end of one extraction group, or of one review group: the rest of the
\* claim is all that is remembered.
AfterGroup(w) ==
    [At(IF proc[w].held = {} THEN AfterIngest(w) ELSE "group")
        EXCEPT !.held = proc[w].held]
\* Seeded fault: a worker reviews until nothing is due before it ingests again.
AfterBatchReviewOn(w) ==
    IF proc[w].claimed = {} THEN At("review")
    ELSE [At("pick") EXCEPT !.claimed = proc[w].claimed, !.seen = proc[w].seen]

AfterBatch(w) ==
    IF proc[w].claimed = {} THEN At(Start(w))
    ELSE [At("pick") EXCEPT !.claimed = proc[w].claimed, !.seen = proc[w].seen]

Init ==
    /\ jobs = [j \in Jobs |-> [st |-> "absent", at |-> 0]]
    /\ recs = [r \in Records |-> NoRecord]
    /\ graph = [k \in Keys |-> 0]
    /\ proc = [a \in Actors |-> At(Start(a))]

(***************************************************************************)
(* Producers: the Stop hook, and direct ingestion runs, which queue the    *)
(* candidates their own gate did not approve, with no source job.          *)
(***************************************************************************)
Enqueue(j) ==
    /\ jobs[j].st = "absent"
    /\ jobs' = EnqueueJob(jobs, j)
    /\ UNCHANGED <<recs, graph, proc>>

QueueRun(B, key) ==
    /\ B \subseteq FreshRecords(recs) /\ B # {}
    /\ recs' = EnqueueRecords(recs, B, {}, key, TRUE)
    /\ UNCHANGED <<jobs, graph, proc>>

\* next_retry_at passes.
Elapse(r) ==
    /\ recs[r].st = "pending" /\ recs[r].retry = "waiting"
    /\ recs' = [recs EXCEPT ![r].retry = "due"]
    /\ UNCHANGED <<jobs, graph, proc>>

(***************************************************************************)
(* The ingestion phase of a worker                                         *)
(***************************************************************************)
DropOverDepth(w) ==
    /\ proc[w].pc = "drop"
    /\ jobs' = SetStatus(jobs, JobsOverDepth(jobs, QueueDepth), "dropped")
    /\ Goto(w, "claim")
    /\ UNCHANGED <<recs, graph>>

ClaimJobs(w) ==
    /\ proc[w].pc = "claim"
    /\ LET C == JobsToClaim(jobs, JobLimit)
       IN  /\ jobs' = SetStatus(jobs, C, "extracting")
           /\ Become(w, IF C = {} THEN At(AfterIngest(w))
                        ELSE [At("group") EXCEPT !.held = C])
    /\ UNCHANGED <<recs, graph>>

\* Seeded fault: any later turn may follow.
CanMergeLater(a, b) ==
    /\ Payload[a].conv = Payload[b].conv
    /\ Payload[a].skip = Payload[b].skip
    /\ NoTurn \notin {Payload[a].turn, Payload[b].turn}
    /\ Payload[b].turn > Payload[a].turn

CanMerge(a, b) ==
    /\ Payload[a].conv = Payload[b].conv
    /\ Payload[a].skip = Payload[b].skip
    /\ \/ Payload[a].turn = NoTurn /\ Payload[b].turn = NoTurn
       \/ /\ NoTurn \notin {Payload[a].turn, Payload[b].turn}
          /\ Payload[b].turn = Payload[a].turn + 1

\* b directly follows a in S, in claim order.
Follows(S, a, b) ==
    /\ ClaimedBefore(jobs, a, b)
    /\ ~\E c \in S : ClaimedBefore(jobs, a, c) /\ ClaimedBefore(jobs, c, b)

\* G is the first group _merge_claimed_jobs forms from S: the longest run
\* of mergeable jobs at the head of S that MergeLimit allows.
IsHeadGroup(G, S) ==
    /\ G \subseteq S /\ G # {} /\ Cardinality(G) <= MergeLimit
    /\ \A a \in G, b \in S \ G : ClaimedBefore(jobs, a, b)
    /\ \A a, b \in G : Follows(S, a, b) => CanMerge(a, b)
    /\ Cardinality(G) < MergeLimit =>
         \A a \in G, b \in S \ G : Follows(S, a, b) => ~CanMerge(a, b)

\* Leave the extraction of the group G with its statuses still to write.
TakeGroup(w, G, l) ==
    /\ proc[w].pc = "group"
    /\ IsHeadGroup(G, proc[w].held)
    /\ Become(w, [proc[w] EXCEPT !.pc = l, !.held = @ \ G,
                                 !.group = G, !.left = G])

\* Seeded fault: an extraction without candidates awaits review too.
ExtractAwaitsAlways(w) ==
    /\ \E G \in SUBSET proc[w].held : \E B \in SUBSET FreshRecords(recs) :
        /\ Cardinality(B) <= CandidateLimit
        /\ TakeGroup(w, G, "to_reviewing")
        /\ \E key \in [B -> Keys] : recs' = EnqueueRecords(recs, B, G, key, FALSE)
    /\ UNCHANGED <<jobs, graph>>

\* The extraction returned the candidates B: queue them for review.
Extract(w) ==
    /\ \E G \in SUBSET proc[w].held : \E B \in SUBSET FreshRecords(recs) :
        /\ Cardinality(B) <= CandidateLimit
        /\ TakeGroup(w, G, IF B = {} THEN "to_done" ELSE "to_reviewing")
        /\ \E key \in [B -> Keys] : recs' = EnqueueRecords(recs, B, G, key, FALSE)
    /\ UNCHANGED <<jobs, graph>>

\* The model call, the transcript or the enqueue failed.
ExtractRaises(w) ==
    /\ \E G \in SUBSET proc[w].held : TakeGroup(w, G, "to_failed")
    /\ UNCHANGED <<jobs, recs, graph>>

\* Seeded fault: a group that failed goes back to the queue.
GroupStatusRequeue(l) == CASE l = "to_reviewing" -> "reviewing"
                           [] l = "to_done" -> "done"
                           [] l = "to_failed" -> "pending"

\* The status each of the closing loops writes, from "extracting".
GroupStatus(l) == CASE l = "to_reviewing" -> "reviewing"
                    [] l = "to_done" -> "done"
                    [] l = "to_failed" -> "failed"

SetGroupStatus(w) ==
    /\ proc[w].pc \in {"to_reviewing", "to_done", "to_failed"}
    /\ \E j \in proc[w].left :
        /\ jobs' = UpdateJobStatus(jobs, j, GroupStatus(proc[w].pc), "extracting")
        /\ Become(w, IF proc[w].left = {j} THEN AfterGroup(w)
                     ELSE [proc[w] EXCEPT !.left = @ \ {j}])
    /\ UNCHANGED <<recs, graph>>

\* A status update raised: the handler fails what is still extracting.
SetGroupStatusRaises(w) ==
    /\ proc[w].pc \in {"to_reviewing", "to_done"} \cap FaultAt
    /\ Become(w, [proc[w] EXCEPT !.pc = "to_failed", !.left = proc[w].group])
    /\ UNCHANGED <<jobs, recs, graph>>

(***************************************************************************)
(* write_approved_relations, run by review workers and by commit: read the *)
(* graph to de-duplicate, read it again to check for contradictions, then  *)
(* append.  Three store calls.                                             *)
(***************************************************************************)
StoredKeys == {k \in Keys : graph[k] > 0}
KeysOf(R) == {recs[r].key : r \in R}
Contradictory(K) == \E c \in Conflicts : c \subseteq K

AfterWrite(a) == [proc[a] EXCEPT !.pc = IF a \in Tools THEN "mark" ELSE "update",
                                 !.news = {}]
AfterRefusal(a) == IF a \in Tools THEN At("idle")
                   ELSE [proc[a] EXCEPT !.pc = "retry", !.news = {}]

\* Seeded fault: what is stored already is asserted again.
DedupeNothing(a) ==
    /\ proc[a].pc = "dedupe"
    /\ Become(a, [proc[a] EXCEPT !.pc = "check", !.news = KeysOf(proc[a].approved)])
    /\ UNCHANGED <<jobs, recs, graph>>

Dedupe(a) ==
    /\ proc[a].pc = "dedupe"
    /\ LET K == KeysOf(proc[a].approved) \ StoredKeys
       IN  Become(a, IF K = {} THEN AfterWrite(a)
                     ELSE [proc[a] EXCEPT !.pc = "check", !.news = K])
    /\ UNCHANGED <<jobs, recs, graph>>

\* Seeded fault: the new relations are only checked against one another.
CheckNewOnly(a) ==
    /\ proc[a].pc = "check"
    /\ Become(a, IF Contradictory(proc[a].news)
                 THEN AfterRefusal(a) ELSE [proc[a] EXCEPT !.pc = "write"])
    /\ UNCHANGED <<jobs, recs, graph>>

CheckContradictions(a) ==
    /\ proc[a].pc = "check"
    /\ Become(a, IF Contradictory(StoredKeys \cup proc[a].news)
                 THEN AfterRefusal(a) ELSE [proc[a] EXCEPT !.pc = "write"])
    /\ UNCHANGED <<jobs, recs, graph>>

AssertRelations(a) ==
    /\ proc[a].pc = "write"
    /\ graph' = [k \in Keys |-> IF k \in proc[a].news /\ graph[k] < 2
                                THEN graph[k] + 1 ELSE graph[k]]
    /\ Become(a, AfterWrite(a))
    /\ UNCHANGED <<jobs, recs>>

(***************************************************************************)
(* The review phase of a worker                                            *)
(***************************************************************************)
ClaimReviews(w) ==
    /\ proc[w].pc = "review"
    /\ \E C \in SUBSET Records :
        /\ IsClaim(recs, C, RecordLimit)
        /\ recs' = ClaimRecords(recs, C)
        /\ Become(w, IF C = {} THEN At(Start(w))
                     ELSE [At("pick") EXCEPT
                             !.claimed = C,
                             !.seen = [r \in Records |-> IF r \in C
                                         THEN recs'[r] ELSE NoRecord]])
    /\ UNCHANGED <<jobs, graph>>

\* The groups a claim is reviewed in: the claimed records of one run.
ClaimedBatches(w) ==
    LET row == proc[w].seen
    IN  {{s \in proc[w].claimed : row[s].batch = row[r].batch} :
             r \in proc[w].claimed}

\* The reviewers vote and the gate decides for the group R; P is approved,
\* Q rejected, and the rest stays queued.  The gate approves nothing when
\* the approved set contradicts itself.  Without auto_write an approved
\* relation is not written, and what was approved and not written is an error.
Review(w) ==
    /\ proc[w].pc = "pick"
    /\ \E R \in ClaimedBatches(w) : \E P \in SUBSET R : \E Q \in SUBSET (R \ P) :
        /\ ~Contradictory(KeysOf(P))
        /\ Become(w, [proc[w] EXCEPT
                        !.pc = IF P = {} THEN "update"
                               ELSE IF AutoWrite THEN "dedupe" ELSE "retry",
                        !.claimed = @ \ R, !.batch = R,
                        !.approved = P, !.rejected = Q])
    /\ UNCHANGED <<jobs, recs, graph>>

\* A reviewer call failed or timed out.
ReviewRaises(w) ==
    /\ proc[w].pc = "pick"
    /\ \E R \in ClaimedBatches(w) :
        Become(w, [proc[w] EXCEPT !.pc = "retry", !.claimed = @ \ R, !.batch = R])
    /\ UNCHANGED <<jobs, recs, graph>>

\* Seeded fault: status and gate decision are swapped.
RewrittenSwapped(w, r, st, gate, retry) ==
    [proc[w].seen[r] EXCEPT !.st = gate, !.gate = st, !.retry = retry]

\* What the worker writes over the row of r: the record it claimed, with a new
\* status, gate decision and next_retry_at.
Rewritten(w, r, st, gate, retry) ==
    [proc[w].seen[r] EXCEPT !.st = st, !.gate = gate, !.retry = retry]

\* Seeded fault: what is not rejected counts as committed.
ReviewedByElimination(w, r) ==
    LET row == IF r \in proc[w].rejected
               THEN Rewritten(w, r, "resolved", "reject", "none")
               ELSE Rewritten(w, r, "committed", "auto_write", "none")
    IN  [row EXCEPT !.reviewed = TRUE]

\* Seeded fault: an undecided record goes back without a time to retry it.
ReviewedWithoutRetry(w, r) ==
    LET row == IF r \in proc[w].approved
               THEN Rewritten(w, r, "committed", "auto_write", "none")
               ELSE IF r \in proc[w].rejected
               THEN Rewritten(w, r, "resolved", "reject", "none")
               ELSE Rewritten(w, r, "pending", "queue", "none")
    IN  [row EXCEPT !.reviewed = TRUE]

Reviewed(w, r) ==
    LET row == IF r \in proc[w].approved
               THEN Rewritten(w, r, "committed", "auto_write", "none")
               ELSE IF r \in proc[w].rejected
               THEN Rewritten(w, r, "resolved", "reject", "none")
               ELSE Rewritten(w, r, "pending", "queue", "waiting")
    IN  [row EXCEPT !.reviewed = TRUE]

UpdateReviewed(w) ==
    /\ proc[w].pc = "update"
    /\ recs' = UpdateRecords(recs, [r \in proc[w].batch |-> Reviewed(w, r)],
                             "reviewing")
    /\ Goto(w, "writeback")
    /\ UNCHANGED <<jobs, graph>>

SourceJobs(R) == UNION {recs[r].src : r \in R}
RecordsOf(j) == {r \in Records : j \in recs[r].src}

\* Seeded faults: only the records just reviewed are looked at; only committed
\* records count as closed.
JobsToSettleByBatch(R) ==
    {j \in SourceJobs(R) : \A r \in R \cap RecordsOf(j) : Closed(recs[r])}
JobsToSettleCommitted(R) ==
    {j \in SourceJobs(R) : \A r \in RecordsOf(j) : recs[r].st = "committed"}

\* The source jobs of R with nothing left open in the review queue.
JobsToSettle(R) ==
    {j \in SourceJobs(R) : \A r \in RecordsOf(j) : Closed(recs[r])}

\* list_review_queue parses every row.
Readable == \A r \in Records : GateMatchesStatus(recs[r])

Writeback(w) ==
    /\ proc[w].pc = "writeback" /\ Readable
    /\ LET D == JobsToSettle(proc[w].batch)
       IN  Become(w, IF D = {} THEN AfterBatch(w)
                     ELSE [proc[w] EXCEPT !.pc = "settle_done", !.left = D])
    /\ UNCHANGED <<jobs, recs, graph>>

WritebackUnreadable(w) ==
    /\ proc[w].pc = "writeback" /\ ~Readable
    /\ Goto(w, "retry")
    /\ UNCHANGED <<jobs, recs, graph>>

\* Seeded fault: the last attempt is counted one early.
ExhaustedEarly(w) == {r \in proc[w].batch : proc[w].seen[r].tries >= MaxRetries}

\* The handler of any failure in the group: another attempt, or give up.
Exhausted(w) == {r \in proc[w].batch : proc[w].seen[r].tries > MaxRetries}
FailureRow(w, r) ==
    IF r \in Exhausted(w) THEN Rewritten(w, r, "failed", "queue", "none")
    ELSE Rewritten(w, r, "pending", "queue", "waiting")

\* Seeded fault: the jobs of the records still to be retried fail with the rest.
RetryOrFailAll(w) ==
    /\ proc[w].pc = "retry"
    /\ recs' = UpdateRecords(recs, [r \in proc[w].batch |-> FailureRow(w, r)],
                             "reviewing")
    /\ LET F == SourceJobs(proc[w].batch)
       IN  Become(w, IF F = {} THEN AfterBatch(w)
                     ELSE [proc[w] EXCEPT !.pc = "settle_failed", !.left = F])
    /\ UNCHANGED <<jobs, graph>>

RetryOrFail(w) ==
    /\ proc[w].pc = "retry"
    /\ recs' = UpdateRecords(recs, [r \in proc[w].batch |-> FailureRow(w, r)],
                             "reviewing")
    /\ LET F == SourceJobs(Exhausted(w))
       IN  Become(w, IF F = {} THEN AfterBatch(w)
                     ELSE [proc[w] EXCEPT !.pc = "settle_failed", !.left = F])
    /\ UNCHANGED <<jobs, graph>>

SettleJob(w) ==
    /\ proc[w].pc \in {"settle_done", "settle_failed"}
    /\ \E j \in proc[w].left :
        /\ jobs' = UpdateJobStatus(jobs, j,
                       IF proc[w].pc = "settle_done" THEN "done" ELSE "failed",
                       "reviewing")
        /\ Become(w, IF proc[w].left = {j} THEN AfterBatch(w)
                     ELSE [proc[w] EXCEPT !.left = @ \ {j}])
    /\ UNCHANGED <<recs, graph>>

\* A store call inside the group's try block raised.
ReviewFault(w) ==
    /\ proc[w].pc \in FaultAt \cap {"dedupe", "check", "write", "update",
                                    "writeback", "settle_done"}
    /\ Become(w, [proc[w] EXCEPT !.pc = "retry", !.left = {}, !.news = {}])
    /\ UNCHANGED <<jobs, recs, graph>>

(***************************************************************************)
(* commit_reviewed_relations and resolve_review_queue                      *)
(***************************************************************************)
\* Both refuse a selection with a record that is not pending.  A record no
\* reviewer has decided on cannot pass the validation that follows in commit.
Select(t, S, l) ==
    /\ proc[t].pc = "idle"
    /\ S # {} /\ S \subseteq InStatus(recs, "pending")
    /\ Become(t, [At(l) EXCEPT !.batch = S])
    /\ UNCHANGED <<jobs, recs, graph>>

SelectToCommit(t) ==
    \E S \in SUBSET {r \in Records : recs[r].reviewed} : Select(t, S, "validate")
SelectToResolve(t) == \E S \in SUBSET Records : Select(t, S, "resolve")

\* Validation approves the whole selection against the current graph.
ValidateApproves(t) ==
    /\ proc[t].pc = "validate"
    /\ ~Contradictory(StoredKeys \cup KeysOf(proc[t].batch))
    /\ Become(t, [proc[t] EXCEPT !.pc = "dedupe", !.approved = proc[t].batch])
    /\ UNCHANGED <<jobs, recs, graph>>

\* Or something queues or rejects, and nothing is written.
ValidateBlocks(t) ==
    /\ proc[t].pc = "validate"
    /\ Become(t, At("idle"))
    /\ UNCHANGED <<jobs, recs, graph>>

\* The rows are read again to be marked; one that does not parse is an error.
Marked(t, new) ==
    IF \A r \in proc[t].batch : GateMatchesStatus(recs[r]) THEN new ELSE recs

MarkSelected(t) ==
    /\ proc[t].pc = "mark"
    /\ recs' = Marked(t, MarkCommitted(recs, proc[t].batch))
    /\ Become(t, At("idle"))
    /\ UNCHANGED <<jobs, graph>>

ResolveSelected(t) ==
    /\ proc[t].pc = "resolve"
    /\ recs' = Marked(t, ResolveRecords(recs, proc[t].batch))
    /\ Become(t, At("idle"))
    /\ UNCHANGED <<jobs, graph>>

(***************************************************************************)
(* A process dies, or is cancelled by SIGINT (which no except clause of    *)
(* the workers catches), and is started again: it forgets what it held,    *)
(* and nothing returns its claims to the queues.                           *)
(***************************************************************************)
Crash(a) ==
    /\ MayCrash /\ proc[a].pc # Start(a)
    /\ Become(a, At(Start(a)))
    /\ UNCHANGED <<jobs, recs, graph>>

(***************************************************************************)
(* The whole system                                                        *)
(***************************************************************************)
IngestStep(w) ==
    \/ DropOverDepth(w) \/ ClaimJobs(w) \/ Extract(w) \/ ExtractRaises(w)
    \/ SetGroupStatus(w) \/ SetGroupStatusRaises(w)

WriteStep(a) == Dedupe(a) \/ CheckContradictions(a) \/ AssertRelations(a)

ReviewStep(w) ==
    \/ ClaimReviews(w) \/ Review(w) \/ ReviewRaises(w) \/ UpdateReviewed(w)
    \/ Writeback(w) \/ WritebackUnreadable(w) \/ RetryOrFail(w) \/ SettleJob(w) \/ ReviewFault(w)

ToolStep(t) ==
    \/ SelectToCommit(t) \/ SelectToResolve(t) \/ ValidateApproves(t)
    \/ ValidateBlocks(t) \/ MarkSelected(t) \/ ResolveSelected(t)

Produce ==
    \/ \E j \in Jobs : Enqueue(j)
    \/ \E B \in SUBSET Records : \E key \in [B -> Keys] : QueueRun(B, key)
    \/ \E r \in Records : Elapse(r)

Next ==
    \/ Produce
    \/ \E w \in Workers : IngestStep(w) \/ ReviewStep(w)
    \/ \E t \in Tools : ToolStep(t)
    \/ \E a \in Actors : WriteStep(a) \/ Crash(a)

Spec == Init /\ [][Next]_vars

\* Running processes keep running, and time passes.  Nothing is assumed of
\* what the models answer, of the hook, or of the tools' callers.
FairSpec ==
    /\ Spec
    /\ \A w \in Workers : WF_vars(IngestStep(w) \/ ReviewStep(w) \/ WriteStep(w))
    /\ \A r \in Records : WF_vars(Elapse(r))

(***************************************************************************)
(* Properties                                                              *)
(***************************************************************************)
TypeOK ==
    /\ jobs \in [Jobs -> JobRow]
    /\ recs \in [Records -> RecordRow]
    /\ graph \in [Keys -> 0..2]
    /\ proc \in [Actors -> LocalState]

\* The jobs a worker has claimed and not finished with, and the records.
ClaimedJobs(w) ==
    proc[w].held \cup (IF proc[w].pc \in {"to_reviewing", "to_done", "to_failed"}
                       THEN proc[w].left ELSE {})
ReviewPc == {"pick", "dedupe", "check", "write", "update", "retry"}
ClaimedRecords(w) ==
    IF proc[w].pc \in ReviewPc THEN proc[w].claimed \cup proc[w].batch
    ELSE proc[w].claimed

\* No two workers ever extract from the same job, and a job in a worker's
\* hands is "extracting" in the store, unless a status update raised and the
\* handler goes over its group again: a claim is exclusive until its owner
\* writes the final status, whoever crashes, drops or claims meanwhile.
JobHeldByOne ==
    /\ \A w \in Workers : \A j \in ClaimedJobs(w) :
          jobs[j].st = "extracting" \/ proc[w].pc = "to_failed"
    /\ \A w, v \in Workers : w # v => ClaimedJobs(w) \cap ClaimedJobs(v) = {}

\* No two workers ever review the same record, though a record goes back to
\* the queue after every failure and every undecided vote.
RecordHeldByOne ==
    \A w, v \in Workers : w # v => ClaimedRecords(w) \cap ClaimedRecords(v) = {}

\* A conversation turn is extracted at most once: the records that name a job
\* as their source were all queued by one extraction.
OneBatchPerJob ==
    \A r, s \in Records :
        recs[r].src \cap recs[s].src # {} => recs[r].batch = recs[s].batch

\* Turns are extracted together only when they are consecutive turns of one
\* conversation, in order: a turn that was dropped, came late or jumped the
\* queue splits the extraction in two.
MergedIsOneTalk ==
    \A r \in Records : \A i, j \in recs[r].src :
        LET a == Payload[i]
            b == Payload[j]
        IN  /\ a.conv = b.conv /\ a.skip = b.skip
            /\ \A n \in a.turn..b.turn : \E k \in recs[r].src : Payload[k].turn = n
            /\ a.turn < b.turn => jobs[i].at < jobs[j].at

\* A job is done only when every record extracted from it is closed, and it
\* stays so: no late answer, retry or tool call reopens one of them.
DoneMeansSettled ==
    \A j \in InStatus(jobs, "done") : \A r \in RecordsOf(j) : Closed(recs[r])

\* A job under review has records under review: the records are queued before
\* the job's status says so, never after.
ReviewingHasRecords == \A j \in InStatus(jobs, "reviewing") : RecordsOf(j) # {}

\* A committed record's relation is in the graph, whether a worker or a tool
\* committed it and whatever failed on the way.
CommittedIsWritten ==
    \A r \in InStatus(recs, "committed") : recs[r].key \in StoredKeys

\* A pending record can be claimed, now or when its retry time has come.
PendingIsClaimable ==
    \A r \in InStatus(recs, "pending") : recs[r].tries > 0 => recs[r].retry # "none"

\* A worker gives a record up only when it has been claimed more than
\* MaxRetries times.  An undecided vote is a claim too: only a record that was
\* never undecided gets MaxRetries more attempts after its first failure, and
\* one that was may be given up at its first.
GivenUpExhausted == \A r \in InStatus(recs, "failed") : recs[r].tries > MaxRetries

\* With one writer at a time, no relation is ever stored twice, although a
\* worker that dies after writing and before saying so writes it again.
WrittenOnce == \A k \in Keys : graph[k] <= 1

\* Without tools, a job fails only for a reason of its own: nothing was queued
\* for it, or one of its records used up its attempts.
FailedHasCause ==
    \A j \in InStatus(jobs, "failed") :
        \/ RecordsOf(j) = {}
        \/ \E r \in RecordsOf(j) : recs[r].st = "failed"

\* The stored graph never holds a contradiction.
GraphConsistent == ~Contradictory(StoredKeys)

\* Every stored record can be read back: its gate decision fits its status.
EveryRecordReadable == Readable

\* A closed record never opens again.  (The tools may still turn a resolved
\* record into a committed one, and the other way round.)
ClosedStaysClosed ==
    [][\A r \in Records : Closed(recs[r]) => Closed(recs'[r])]_vars

\* A job's last status is final: a late answer from a worker never revives it
\* and never turns a failure into a success.
JobEndsOnce ==
    [][\A j \in Jobs : jobs[j].st \in {"done", "failed", "dropped"} =>
                           jobs'[j].st = jobs[j].st]_vars

\* When every record of a job is closed, the job ends.
SettledJobEnds ==
    \A j \in Jobs :
        (jobs[j].st = "reviewing" /\ \A r \in RecordsOf(j) : Closed(recs[r]))
            ~> jobs[j].st \in {"done", "failed"}

\* A job a worker has started to extract is extracted or failed.
ExtractionEnds == \A j \in Jobs : jobs[j].st = "extracting" ~> jobs[j].st # "extracting"

\* A queued turn is handled, or dropped by back-pressure.
QueuedTurnLeaves == \A j \in Jobs : jobs[j].st = "pending" ~> jobs[j].st # "pending"

(***************************************************************************)
(* The promise, and how the two queues keep it                             *)
(***************************************************************************)
TurnOf(st) == CASE st = "absent" -> "none"
                [] st = "pending" -> "queued"
                [] st = "extracting" -> "taken"
                [] st \in {"reviewing", "done", "failed", "dropped"} -> st

ItemOf(row) == IF row.st = "absent" THEN "none"
               ELSE IF Closed(row) THEN "closed"
               ELSE IF row.st = "failed" THEN "failed" ELSE "open"

Ledger == INSTANCE TurnLedger WITH
              turn <- [j \in Jobs |-> TurnOf(jobs[j].st)],
              item <- [r \in Records |-> ItemOf(recs[r])],
              origin <- [r \in Records |-> recs[r].src]

\* Every run of the pipeline, with crashes, faults, late answers and tools,
\* is a run of the ledger: a turn is taken up once, its candidates appear
\* together, and it is done only when all of them are closed.
ImplementsLedger == Ledger!Spec
=============================================================================
