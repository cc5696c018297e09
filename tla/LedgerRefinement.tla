--------------------------- MODULE LedgerRefinement ---------------------------
(***************************************************************************)
(* Proof that IngestPipeline implements TurnLedger.  Every step of the     *)
(* pipeline is one step of the ledger, or leaves the ledger as it is; the  *)
(* inductive invariant of IngestPipeline_proofs says why a step that the   *)
(* code takes without looking is one the ledger allows.                    *)
(***************************************************************************)
EXTENDS IngestPipeline_proofs

\* The ledger's view of the two queues.
Turn(j) == TurnOf(jobs[j].st)
Item(r) == ItemOf(recs[r])

Typed == /\ jobs \in [Jobs -> JobRow] /\ jobs' \in [Jobs -> JobRow]
         /\ recs \in [Records -> RecordRow] /\ recs' \in [Records -> RecordRow]

LEMMA TurnCases ==
  /\ TurnOf("absent") = "none" /\ TurnOf("pending") = "queued"
  /\ TurnOf("extracting") = "taken"
  /\ \A s \in {"reviewing", "done", "failed", "dropped"} : TurnOf(s) = s
  BY DEF TurnOf

LEMMA ItemCases ==
  ASSUME NEW r \in Records
  PROVE  /\ recs[r].st = "absent" => Item(r) = "none"
         /\ recs[r].st \in {"pending", "reviewing"} => Item(r) = "open"
         /\ recs[r].st \in {"committed", "resolved"} => Item(r) = "closed"
         /\ recs[r].st = "failed" => Item(r) = "failed"
  BY DEF Item, ItemOf, Closed

LEMMA LedgerItems == \A j \in Jobs : Ledger!ItemsOf(j) = RecordsOf(j)
  BY DEF Ledger!ItemsOf, RecordsOf

\* Some jobs change their status and nothing else happens.
LEMMA MoveStep ==
  ASSUME NEW S \in SUBSET Jobs, NEW from, NEW to, recs' = recs,
         \A j \in S : Turn(j) = from,
         \A j \in Jobs : Turn(j)' = IF j \in S THEN to ELSE Turn(j)
  PROVE  Ledger!Move(S, from, to)
  BY DEF Ledger!Move, Turn

\* A step the ledger does not see.
LEMMA QuietStep ==
  ASSUME \A j \in Jobs : jobs'[j].st = jobs[j].st,
         \A r \in Records : Item(r)' = Item(r) /\ recs'[r].src = recs[r].src
  PROVE  UNCHANGED Ledger!vars
  BY DEF Ledger!vars, Item

\* Some candidates become open, all from the same turns.
LEMMA PublishStep ==
  ASSUME Typed, IInv, jobs' = jobs, NEW B \in SUBSET FreshRecords(recs), NEW G \in SUBSET Jobs,
         NEW key \in [B -> Keys], NEW v \in BOOLEAN,
         recs' = EnqueueRecords(recs, B, G, key, v),
         \A j \in G : jobs[j].st = "extracting" /\ RecordsOf(j) = {}
  PROVE  Ledger!Publish(B, G)
  <1>1. B \subseteq Records /\ \A r \in B : recs[r].st = "absent"
    BY DEF FreshRecords, InStatus, Typed
  <1>2. \A r \in Records :
           /\ r \in B => recs'[r].st = "pending" /\ recs'[r].src = G
           /\ r \notin B => recs'[r] = recs[r]
    BY DEF EnqueueRecords
  <1>3. \A r \in B : Item(r) = "none"
    BY <1>1, ItemCases
  <1>4. \A r \in Records : Item(r)' = IF r \in B THEN "open" ELSE Item(r)
    BY <1>2 DEF Item, ItemOf, Closed
  <1>5. \A j \in G : TurnOf(jobs[j].st) = "taken" /\ Ledger!ItemsOf(j) = {}
    BY TurnCases, LedgerItems
  <1>. QED
    BY <1>1, <1>2, <1>3, <1>4, <1>5 DEF Ledger!Publish, Item

\* Some candidates are decided, or given up.
LEMMA DecideStep ==
  ASSUME jobs' = jobs, NEW R \in SUBSET Records, NEW s,
         \A r \in Records : /\ recs'[r].src = recs[r].src
                            /\ Item(r)' = IF r \in R THEN s ELSE Item(r)
  PROVE  /\ (s = "closed" /\ \A r \in R : Item(r) # "none") => Ledger!Close(R)
         /\ (s = "failed" /\ \A r \in R : Item(r) = "open") => Ledger!GiveUp(R)
  BY DEF Ledger!Close, Ledger!GiveUp, Item

LEMMA RefineInit == Init => Ledger!Init
  BY TurnCases DEF Init, Ledger!Init, NoRecord, ItemOf

(***************************************************************************)
(* One lemma for each kind of step.                                        *)
(***************************************************************************)
\* The steps that touch neither queue.
LEMMA RefineLocal ==
  ASSUME jobs' = jobs, recs' = recs
  PROVE  UNCHANGED Ledger!vars
  BY QuietStep DEF Item

LEMMA RefineProduce ==
  ASSUME Typed, IInv, Produce
  PROVE  [Ledger!Next]_(Ledger!vars)
  <1>1. ASSUME NEW i \in Jobs, Enqueue(i)
        PROVE  Ledger!Next
    <2>1. \A j \in Jobs : jobs'[j].st = IF j = i THEN "pending" ELSE jobs[j].st
      BY <1>1 DEF Enqueue, EnqueueJob, Typed
    <2>2. Ledger!Move({i}, "none", "queued")
      BY <1>1, <2>1, TurnCases, MoveStep DEF Enqueue, Turn
    <2>. QED
      BY <2>2 DEF Ledger!Next, Ledger!Submit
  <1>2. ASSUME NEW B \in SUBSET Records, NEW key \in [B -> Keys], QueueRun(B, key)
        PROVE  Ledger!Next
    <2>1. /\ jobs' = jobs /\ B \in SUBSET FreshRecords(recs)
          /\ recs' = EnqueueRecords(recs, B, {}, key, TRUE)
      BY <1>2 DEF QueueRun
    <2>2. {} \in SUBSET Jobs /\ TRUE \in BOOLEAN
      OBVIOUS
    <2>3. Ledger!Publish(B, {})
      BY <2>1, <2>2, PublishStep
    <2>. QED
      BY <2>3 DEF Ledger!Next
  <1>3. ASSUME NEW i \in Records, Elapse(i)
        PROVE  UNCHANGED Ledger!vars
    <2>1. \A r \in Records : recs'[r].st = recs[r].st /\ recs'[r].src = recs[r].src
      BY <1>3 DEF Elapse, Typed, RecordRow
    <2>. QED
      BY <1>3, <2>1, QuietStep DEF Elapse, Item, ItemOf, Closed
  <1>. QED
    BY <1>1, <1>2, <1>3 DEF Produce

\* Back-pressure drops pending jobs, and a claim takes pending jobs up.
LEMMA RefineQueue ==
  ASSUME Typed, NEW w \in Workers, DropOverDepth(w) \/ ClaimJobs(w)
  PROVE  Ledger!Next
  <1>1. ASSUME NEW S, NEW s \in {"dropped", "extracting"}, jobs' = SetStatus(jobs, S, s),
               \A j \in S : j \in Jobs /\ jobs[j].st = "pending"
        PROVE  Ledger!Move(S, "queued", TurnOf(s))
    <2>1. \A j \in Jobs : jobs'[j].st = IF j \in S THEN s ELSE jobs[j].st
      BY <1>1, StatusAfter DEF Typed
    <2>2. recs' = recs
      BY DEF DropOverDepth, ClaimJobs
    <2>. QED
      BY <1>1, <2>1, <2>2, TurnCases, MoveStep DEF Turn
  <1>2. ASSUME NEW x PROVE
          /\ \A j \in JobsOverDepth(jobs, x) : j \in Jobs /\ jobs[j].st = "pending"
          /\ \A j \in JobsToClaim(jobs, x) : j \in Jobs /\ jobs[j].st = "pending"
    BY DEF JobsOverDepth, JobsToClaim, InStatus, Typed
  <1>3. CASE DropOverDepth(w)
    <2>. DEFINE S == JobsOverDepth(jobs, QueueDepth)
    <2>1. jobs' = SetStatus(jobs, S, "dropped")
      BY <1>3 DEF DropOverDepth
    <2>2. S \in SUBSET Jobs /\ \A j \in S : j \in Jobs /\ jobs[j].st = "pending"
      BY <1>2
    <2>. HIDE DEF S
    <2>3. Ledger!Move(S, "queued", "dropped")
      BY <1>1, <2>1, <2>2, TurnCases
    <2>. QED
      BY <2>2, <2>3 DEF Ledger!Next, Ledger!DropTurns
  <1>4. CASE ClaimJobs(w)
    <2>. DEFINE S == JobsToClaim(jobs, JobLimit)
    <2>1. jobs' = SetStatus(jobs, S, "extracting")
      BY <1>4 DEF ClaimJobs
    <2>2. S \in SUBSET Jobs /\ \A j \in S : j \in Jobs /\ jobs[j].st = "pending"
      BY <1>2
    <2>. HIDE DEF S
    <2>3. Ledger!Move(S, "queued", "taken")
      BY <1>1, <2>1, <2>2, TurnCases
    <2>. QED
      BY <2>2, <2>3 DEF Ledger!Next, Ledger!TakeUp
  <1>. QED
    BY <1>3, <1>4

\* An extraction publishes all its candidates at once, and its jobs have none.
LEMMA RefineExtract ==
  ASSUME Typed, IInv, NEW w \in Workers, Extract(w)
  PROVE  Ledger!Next
  <1>0. PICK G \in SUBSET proc[w].held, B \in SUBSET FreshRecords(recs) :
           \E key \in [B -> Keys] : recs' = EnqueueRecords(recs, B, G, key, FALSE)
    BY DEF Extract
  <1>1. PICK key \in [B -> Keys] : recs' = EnqueueRecords(recs, B, G, key, FALSE)
    BY <1>0
  <1>2. jobs' = jobs
    BY DEF Extract
  <1>3. G \in SUBSET Jobs /\ \A j \in G : jobs[j].st = "extracting"
    BY Hands
  <1>4. \A j \in G : RecordsOf(j) = {}
    BY DEF RecordsOf, IInv, Sources
  <1>5. Ledger!Publish(B, G)
    BY <1>1, <1>2, <1>3, <1>4, PublishStep
  <1>6. B \in SUBSET Records
    BY DEF FreshRecords, InStatus, Typed
  <1>. QED
    BY <1>3, <1>5, <1>6 DEF Ledger!Next

\* The status a worker writes for a job of its group is true of its records.
LEMMA RefineGroup ==
  ASSUME Typed, IInv, NEW w \in Workers, SetGroupStatus(w)
  PROVE  [Ledger!Next]_(Ledger!vars)
  <1>. DEFINE to == GroupStatus(proc[w].pc)
  <1>1. PICK i \in proc[w].left : jobs' = UpdateJobStatus(jobs, i, to, "extracting")
    BY DEF SetGroupStatus
  <1>2. recs' = recs /\ proc[w].pc \in GroupPc
    BY DEF SetGroupStatus, GroupPc
  <1>3. i \in Jobs /\ i \in proc[w].group
    BY <1>2, Hands DEF LocalState, IInv, InHand
  <1>4. /\ to \in {"reviewing", "done", "failed"}
        /\ to = "reviewing" => RecordsOf(i) # {}
        /\ to = "done" => RecordsOf(i) = {}
    BY <1>2, <1>3 DEF GroupPc, GroupStatus, IInv, Knows
  <1>. HIDE DEF to
  <1>5. \A j \in Jobs : jobs'[j].st = IF j = i /\ jobs[i].st = "extracting"
                                      THEN to ELSE jobs[j].st
    BY <1>1, <1>3, StatusUpdated DEF Typed
  <1>6. CASE jobs[i].st = "extracting"
    <2>1. Ledger!Move({i}, "taken", to)
      BY <1>2, <1>3, <1>4, <1>5, <1>6, TurnCases, MoveStep DEF Turn
    <2>. QED
      BY <1>3, <1>4, <2>1, LedgerItems
      DEF Ledger!Next, Ledger!AwaitReview, Ledger!Settle, Ledger!Abandon
  <1>7. CASE jobs[i].st # "extracting"
    BY <1>2, <1>5, <1>7, QuietStep DEF Item
  <1>. QED
    BY <1>6, <1>7

\* A reviewer ends a job after looking at its records; what it saw closed has
\* stayed closed since.
LEMMA RefineSettle ==
  ASSUME Typed, IInv, NEW w \in Workers, SettleJob(w)
  PROVE  [Ledger!Next]_(Ledger!vars)
  <1>. DEFINE to == IF proc[w].pc = "settle_done" THEN "done" ELSE "failed"
  <1>1. PICK i \in proc[w].left : jobs' = UpdateJobStatus(jobs, i, to, "reviewing")
    BY DEF SettleJob
  <1>2. recs' = recs
    BY DEF SettleJob
  <1>3. i \in Jobs
    BY Hands DEF LocalState
  <1>4. /\ to \in {"done", "failed"}
        /\ to = "done" => \A r \in RecordsOf(i) : Item(r) = "closed"
    BY ItemCases DEF IInv, Knows, Settleable, RecordsOf, Closed
  <1>. HIDE DEF to
  <1>5. \A j \in Jobs : jobs'[j].st = IF j = i /\ jobs[i].st = "reviewing"
                                      THEN to ELSE jobs[j].st
    BY <1>1, <1>3, StatusUpdated DEF Typed
  <1>6. CASE jobs[i].st = "reviewing"
    <2>1. Ledger!Move({i}, "reviewing", to)
      BY <1>2, <1>3, <1>4, <1>5, <1>6, TurnCases, MoveStep DEF Turn
    <2>2. to = "done" => \A r \in Ledger!ItemsOf(i) :
                            [x \in Records |-> ItemOf(recs[x])][r] = "closed"
      BY <1>3, <1>4, LedgerItems DEF Item, RecordsOf
    <2>. QED
      BY <1>3, <1>4, <2>1, <2>2 DEF Ledger!Next, Ledger!Settle, Ledger!Abandon
  <1>7. CASE jobs[i].st # "reviewing"
    BY <1>2, <1>5, <1>7, QuietStep DEF Item
  <1>. QED
    BY <1>6, <1>7

\* A claim leaves a record open.
LEMMA RefineClaim ==
  ASSUME Typed, NEW w \in Workers, ClaimReviews(w)
  PROVE  UNCHANGED Ledger!vars
  <1>1. PICK C \in SUBSET Records :
           IsClaim(recs, C, RecordLimit) /\ recs' = ClaimRecords(recs, C)
    BY DEF ClaimReviews
  <1>2. \A r \in C : recs[r].st = "pending"
    BY <1>1 DEF IsClaim, FirstAttempt, RetryDue, InStatus
  <1>3. \A r \in Records :
           /\ recs'[r].src = recs[r].src
           /\ recs'[r].st = IF r \in C THEN "reviewing" ELSE recs[r].st
    BY <1>1, ClaimedRows DEF Typed
  <1>4. \A r \in Records : Item(r)' = Item(r)
    BY <1>2, <1>3 DEF Item, ItemOf, Closed
  <1>5. jobs' = jobs
    BY DEF ClaimReviews
  <1>. QED
    BY <1>3, <1>4, <1>5, QuietStep

\* A worker's update decides, or gives up, the records it still holds.
LEMMA RefineUpdate ==
  ASSUME Typed, IInv, NEW w \in Workers, UpdateReviewed(w) \/ RetryOrFail(w)
  PROVE  Ledger!Next
  <1>t. proc[w] \in LocalState /\ proc[w].batch \subseteq Records
    BY Hands DEF LocalState
  <1>0. /\ jobs' = jobs
        /\ \A r \in proc[w].batch : recs[r].src = proc[w].seen[r].src
    BY Hands DEF UpdateReviewed, RetryOrFail, Remembers
  <1>1. ASSUME NEW r \in proc[w].batch
        PROVE  /\ Reviewed(w, r).src = recs[r].src
               /\ FailureRow(w, r).src = recs[r].src
               /\ Reviewed(w, r).st = IF r \in proc[w].approved THEN "committed"
                                      ELSE IF r \in proc[w].rejected THEN "resolved"
                                      ELSE "pending"
               /\ FailureRow(w, r).st = IF r \in Exhausted(w) THEN "failed" ELSE "pending"
    <2>1. proc[w].seen[r] \in RecordRow
      BY <1>t DEF LocalState
    <2>. QED
      BY <1>0, <2>1, WrittenRows DEF Reviewed, FailureRow, Rewritten, RecordRow
  <1>2. CASE UpdateReviewed(w)
    <2>. DEFINE R == {r \in proc[w].batch : /\ recs[r].st = "reviewing"
                                            /\ r \in proc[w].approved \cup proc[w].rejected}
    <2>1. \A r \in Records :
             recs'[r] = IF r \in proc[w].batch /\ recs[r].st = "reviewing"
                        THEN Reviewed(w, r) ELSE recs[r]
      BY <1>2 DEF UpdateReviewed, UpdateRecords
    <2>2. \A r \in Records : /\ recs'[r].src = recs[r].src
                             /\ Item(r)' = IF r \in R THEN "closed" ELSE Item(r)
      BY <1>1, <2>1 DEF Item, ItemOf, Closed
    <2>3. R \in SUBSET Records /\ \A r \in R : Item(r) # "none"
      BY <1>t DEF Item, ItemOf, Closed
    <2>. HIDE DEF R
    <2>4. Ledger!Close(R)
      BY <1>0, <2>2, <2>3, DecideStep
    <2>. QED
      BY <2>3, <2>4 DEF Ledger!Next
  <1>3. CASE RetryOrFail(w)
    <2>. DEFINE R == {r \in Exhausted(w) : recs[r].st = "reviewing"}
    <2>1. \A r \in Records :
             recs'[r] = IF r \in proc[w].batch /\ recs[r].st = "reviewing"
                        THEN FailureRow(w, r) ELSE recs[r]
      BY <1>3 DEF RetryOrFail, UpdateRecords
    <2>2. \A r \in Records : /\ recs'[r].src = recs[r].src
                             /\ Item(r)' = IF r \in R THEN "failed" ELSE Item(r)
      <3>1. Exhausted(w) \subseteq proc[w].batch
        BY DEF Exhausted
      <3>. QED
        BY <1>1, <2>1, <3>1 DEF Item, ItemOf, Closed
    <2>3. R \in SUBSET Records /\ \A r \in R : Item(r) = "open"
      BY <1>t DEF Item, ItemOf, Closed, Exhausted
    <2>. HIDE DEF R
    <2>4. Ledger!GiveUp(R)
      BY <1>0, <2>2, <2>3, DecideStep
    <2>. QED
      BY <2>3, <2>4 DEF Ledger!Next
  <1>. QED
    BY <1>2, <1>3

\* A tool closes what it selected, whatever has become of it since.
LEMMA RefineMark ==
  ASSUME Typed, IInv, NEW t \in Tools, MarkSelected(t) \/ ResolveSelected(t)
  PROVE  [Ledger!Next]_(Ledger!vars)
  <1>. DEFINE R == proc[t].batch
  <1>1. jobs' = jobs
    BY DEF MarkSelected, ResolveSelected
  <1>2. R \in SUBSET Records /\ \A r \in R : recs[r].st # "absent"
    BY DEF IInv, TypeOK, Actors, LocalState, Selected
  <1>3. CASE recs' = recs
    BY <1>1, <1>3, RefineLocal
  <1>4. CASE recs' # recs
    <2>1. PICK s \in {"committed", "resolved"} : recs' = SetStatus(recs, R, s)
      BY <1>4 DEF MarkSelected, ResolveSelected, Marked, MarkCommitted, ResolveRecords
    <2>2. \A r \in Records : /\ recs'[r].st = IF r \in R THEN s ELSE recs[r].st
                             /\ recs'[r].src = recs[r].src
      BY <2>1 DEF SetStatus, Typed, RecordRow
    <2>3. \A r \in Records : Item(r)' = IF r \in R THEN "closed" ELSE Item(r)
      BY <2>2 DEF Item, ItemOf, Closed
    <2>4. \A r \in R : Item(r) # "none"
      BY <1>2 DEF Item, ItemOf
    <2>5. Ledger!Close(R)
      BY <1>1, <1>2, <2>2, <2>3, <2>4, DecideStep
    <2>. QED
      BY <1>2, <2>5 DEF Ledger!Next
  <1>. QED
    BY <1>3, <1>4

(***************************************************************************)
(* The refinement.                                                         *)
(***************************************************************************)
LEMMA RefineNext == IInv /\ IInv' /\ [Next]_vars => [Ledger!Next]_(Ledger!vars)
  <1>. SUFFICES ASSUME IInv, IInv', [Next]_vars
                PROVE  [Ledger!Next]_(Ledger!vars)
    OBVIOUS
  <1>t. Typed
    BY DEF IInv, TypeOK, Typed
  <1>1. CASE Produce
    BY <1>t, <1>1, RefineProduce
  <1>2. ASSUME NEW w \in Workers, IngestStep(w) \/ ReviewStep(w)
        PROVE  [Ledger!Next]_(Ledger!vars)
    <2>1. CASE DropOverDepth(w) \/ ClaimJobs(w)
      BY <1>t, <2>1, RefineQueue
    <2>2. CASE Extract(w)
      BY <1>t, <2>2, RefineExtract
    <2>3. CASE SetGroupStatus(w)
      BY <1>t, <2>3, RefineGroup
    <2>4. CASE SettleJob(w)
      BY <1>t, <2>4, RefineSettle
    <2>5. CASE ClaimReviews(w)
      BY <1>t, <2>5, RefineClaim
    <2>6. CASE UpdateReviewed(w) \/ RetryOrFail(w)
      BY <1>t, <2>6, RefineUpdate
    <2>7. CASE jobs' = jobs /\ recs' = recs
      BY <2>7, RefineLocal
    <2>. QED
      BY <1>2, <2>1, <2>2, <2>3, <2>4, <2>5, <2>6, <2>7
      DEF IngestStep, ReviewStep, ExtractRaises, SetGroupStatusRaises, Review,
          ReviewRaises, Writeback, WritebackUnreadable, ReviewFault
  <1>3. ASSUME NEW t \in Tools, ToolStep(t)
        PROVE  [Ledger!Next]_(Ledger!vars)
    <2>1. CASE MarkSelected(t) \/ ResolveSelected(t)
      BY <1>t, <2>1, RefineMark
    <2>2. CASE jobs' = jobs /\ recs' = recs
      BY <2>2, RefineLocal
    <2>. QED
      BY <1>3, <2>1, <2>2 DEF ToolStep, SelectToCommit, SelectToResolve, Select,
                              ValidateApproves, ValidateBlocks
  <1>4. CASE \E a \in Actors : WriteStep(a) \/ Crash(a)
    BY <1>4, RefineLocal DEF WriteStep, Dedupe, CheckContradictions,
                             AssertRelations, Crash
  <1>5. CASE UNCHANGED vars
    BY <1>5, RefineLocal DEF vars
  <1>. QED
    BY <1>1, <1>2, <1>3, <1>4, <1>5 DEF Next

\* The two queues keep the promise of the ledger for any number of turns,
\* candidates, workers and tools, with crashes and store errors anywhere: a
\* turn is taken up once, its candidates are published together and once, a
\* closed candidate stays closed, and a turn ends once, and well only when all
\* its candidates are closed.
THEOREM Refinement == Spec => ImplementsLedger
  <1>1. Init => Ledger!Init
    BY RefineInit
  <1>2. IInv /\ IInv' /\ [Next]_vars => [Ledger!Next]_(Ledger!vars)
    BY RefineNext
  <1>. QED
    BY <1>1, <1>2, Invariance, PTL DEF Spec, ImplementsLedger, Ledger!Spec

=============================================================================
