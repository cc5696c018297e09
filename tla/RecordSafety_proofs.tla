------------------------ MODULE RecordSafety_proofs ------------------------
(***************************************************************************)
(* Proofs about the review records: their attempts, their rows, who holds  *)
(* them, what the stored graph says of them and, at the end, which turns   *)
(* they merge.  They rest on the types and on the inductive invariant of   *)
(* IngestPipeline_proofs.                                                  *)
(***************************************************************************)
EXTENDS IngestPipeline_proofs, ListFacts

(***************************************************************************)
(* What one step may do to one row of the review queue.                    *)
(***************************************************************************)
Queued(r) ==
    /\ recs[r].st = "absent" /\ recs'[r].st = "pending"
    /\ recs'[r].tries = 0 /\ recs'[r].gate = "queue"
    /\ \/ recs'[r].src = {}
       \/ \E w \in Workers : Extract(w) /\ IsHeadGroup(recs'[r].src, proc[w].held)

FallsDue(r) ==
    /\ recs[r].st = "pending" /\ recs[r].retry = "waiting"
    /\ recs'[r].st = "pending" /\ recs'[r].retry = "due"
    /\ recs'[r].key = recs[r].key /\ recs'[r].gate = recs[r].gate
    /\ recs'[r].src = recs[r].src

Claimed(r) ==
    /\ recs[r].st = "pending" /\ recs'[r].st = "reviewing"
    /\ recs'[r].key = recs[r].key /\ recs'[r].gate = recs[r].gate
    /\ recs'[r].src = recs[r].src

WorkerWrote(w, r) ==
    /\ recs[r].st = "reviewing" /\ r \in proc[w].batch
    /\ \/ UpdateReviewed(w) /\ recs'[r] = Reviewed(w, r)
       \/ RetryOrFail(w) /\ recs'[r] = FailureRow(w, r)

ToolWrote(t, r) ==
    /\ r \in proc[t].batch
    /\ recs'[r].key = recs[r].key /\ recs'[r].src = recs[r].src
    /\ \/ proc[t].pc = "mark" /\ recs'[r].st = "committed"
       \/ proc[t].pc = "resolve" /\ recs'[r].st = "resolved"

RowStep(r) ==
    \/ recs'[r] = recs[r]
    \/ Queued(r) \/ FallsDue(r) \/ Claimed(r)
    \/ \E w \in Workers : WorkerWrote(w, r)
    \/ \E t \in Tools : ToolWrote(t, r)

LEMMA RowSteps ==
  ASSUME TypeOK, [Next]_vars, NEW r \in Records
  PROVE  RowStep(r)
  <1>t. recs[r] \in RecordRow /\ DOMAIN recs = Records
    BY DEF TypeOK
  <1>1. ASSUME NEW B \in SUBSET FreshRecords(recs), NEW S, NEW key, NEW v,
               recs' = EnqueueRecords(recs, B, S, key, v),
               S = {} \/ \E w \in Workers : Extract(w) /\ IsHeadGroup(S, proc[w].held)
        PROVE  RowStep(r)
    <2>1. r \in B => recs[r].st = "absent"
      BY DEF FreshRecords, InStatus
    <2>2. /\ r \in B => /\ recs'[r].st = "pending" /\ recs'[r].tries = 0
                        /\ recs'[r].gate = "queue" /\ recs'[r].src = S
          /\ r \notin B => recs'[r] = recs[r]
      BY <1>1 DEF EnqueueRecords
    <2>. QED
      BY <1>1, <2>1, <2>2 DEF RowStep, Queued
  <1>2. ASSUME NEW s \in Records, Elapse(s) PROVE RowStep(r)
    BY <1>2, <1>t DEF Elapse, RowStep, FallsDue, RecordRow, TypeOK
  <1>3. ASSUME NEW w \in Workers, ClaimReviews(w) PROVE RowStep(r)
    <2>1. PICK C \in SUBSET Records :
             IsClaim(recs, C, RecordLimit) /\ recs' = ClaimRecords(recs, C)
      BY <1>3 DEF ClaimReviews
    <2>2. r \in C => recs[r].st = "pending"
      BY <2>1 DEF IsClaim, FirstAttempt, RetryDue, InStatus
    <2>. DEFINE n == IF recs[r].tries > MaxRetries THEN recs[r].tries
                     ELSE recs[r].tries + 1
    <2>3. recs'[r] = IF r \in C THEN [recs[r] EXCEPT !.st = "reviewing", !.tries = n]
                     ELSE recs[r]
      BY <2>1 DEF ClaimRecords
    <2>. HIDE DEF n
    <2>. QED
      BY <1>t, <2>2, <2>3 DEF RowStep, Claimed, RecordRow
  <1>4. ASSUME NEW w \in Workers, UpdateReviewed(w) \/ RetryOrFail(w) PROVE RowStep(r)
    BY <1>4 DEF UpdateReviewed, RetryOrFail, UpdateRecords, RowStep, WorkerWrote
  <1>5. ASSUME NEW t \in Tools, MarkSelected(t) \/ ResolveSelected(t) PROVE RowStep(r)
    <2>1. ASSUME NEW S, NEW s, recs' = SetStatus(recs, S, s)
          PROVE  IF r \in S
                 THEN /\ recs'[r].st = s /\ recs'[r].key = recs[r].key
                      /\ recs'[r].src = recs[r].src
                 ELSE recs'[r] = recs[r]
      BY <1>t, <2>1 DEF SetStatus, RecordRow
    <2>2. CASE MarkSelected(t)
      BY <2>1, <2>2 DEF MarkSelected, Marked, MarkCommitted, RowStep, ToolWrote
    <2>3. CASE ResolveSelected(t)
      BY <2>1, <2>3 DEF ResolveSelected, Marked, ResolveRecords, RowStep, ToolWrote
    <2>. QED
      BY <1>5, <2>2, <2>3
  <1>6. CASE \E B \in SUBSET Records : \E key \in [B -> Keys] : QueueRun(B, key)
    BY <1>1, <1>6 DEF QueueRun
  <1>7. CASE \E w \in Workers : Extract(w)
    <2>1. PICK w \in Workers : Extract(w)
      BY <1>7
    <2>2. PICK G \in SUBSET proc[w].held, B \in SUBSET FreshRecords(recs) :
             /\ IsHeadGroup(G, proc[w].held)
             /\ \E key \in [B -> Keys] : recs' = EnqueueRecords(recs, B, G, key, FALSE)
      BY <2>1 DEF Extract, TakeGroup
    <2>. QED
      BY <1>1, <2>1, <2>2
  <1>8. CASE recs' = recs
    BY <1>8 DEF RowStep
  <1>. QED
    BY <1>2, <1>3, <1>4, <1>5, <1>6, <1>7, <1>8
    DEF Next, vars, Produce, Enqueue, IngestStep, DropOverDepth, ClaimJobs,
        ExtractRaises, SetGroupStatus, SetGroupStatusRaises, WriteStep, Dedupe,
        CheckContradictions, AssertRelations, ReviewStep, Review, ReviewRaises,
        Writeback, WritebackUnreadable, SettleJob, ReviewFault, ToolStep,
        SelectToCommit, SelectToResolve, Select, ValidateApproves,
        ValidateBlocks, Crash

\* What a worker writes over a row: the row as claimed, a status the gate or
\* the attempts justify, and the decision that status may carry.
LEMMA WrittenFields ==
  ASSUME TypeOK, NEW w \in Workers, NEW r \in Records, WorkerWrote(w, r)
  PROVE  /\ recs'[r].key = proc[w].seen[r].key
         /\ recs'[r].src = proc[w].seen[r].src
         /\ GateMatchesStatus(recs'[r])
         /\ recs'[r].st \in {"pending", "committed", "resolved", "failed"}
         /\ recs'[r].st = "pending" => recs'[r].retry = "waiting"
         /\ recs'[r].st = "committed" =>
               proc[w].pc = "update" /\ r \in proc[w].approved
         /\ recs'[r].st = "failed" =>
               recs'[r].tries > MaxRetries /\ proc[w].pc = "retry"
         /\ proc[w].pc = "retry" /\ r \in Exhausted(w) => recs'[r].st = "failed"
  <1>1. proc[w].seen[r] \in RecordRow
    BY DEF TypeOK, LocalState, Actors
  <1>2. ASSUME NEW st, NEW g, NEW t
        PROVE  LET row == Rewritten(w, r, st, g, t)
                   voted == [row EXCEPT !.reviewed = TRUE]
               IN  /\ row.st = st /\ row.gate = g /\ row.retry = t
                   /\ row.key = proc[w].seen[r].key /\ row.tries = proc[w].seen[r].tries
                   /\ row.src = proc[w].seen[r].src /\ voted.src = proc[w].seen[r].src
                   /\ voted.st = st /\ voted.gate = g /\ voted.retry = t
                   /\ voted.key = proc[w].seen[r].key
    BY <1>1 DEF Rewritten, RecordRow
  <1>3. CASE proc[w].pc = "update" /\ recs'[r] = Reviewed(w, r)
    BY <1>2, <1>3 DEF Reviewed, GateMatchesStatus
  <1>4. CASE proc[w].pc = "retry" /\ recs'[r] = FailureRow(w, r)
    BY <1>2, <1>4 DEF FailureRow, Exhausted, GateMatchesStatus
  <1>. QED
    BY <1>3, <1>4 DEF WorkerWrote, UpdateReviewed, RetryOrFail

(***************************************************************************)
(* Attempts                                                                *)
(***************************************************************************)
\* A record is given up only after more than MaxRetries claims, those that
\* ended undecided included: the worker looks at the count in the row it
\* claimed, and no other step leads to "failed".
THEOREM GivenUpLast == Spec => []GivenUpExhausted
  <1>1. Init => GivenUpExhausted
    BY DEF Init, NoRecord, GivenUpExhausted, InStatus
  <1>2. TypeOK /\ GivenUpExhausted /\ [Next]_vars => GivenUpExhausted'
    <2>. SUFFICES ASSUME TypeOK, GivenUpExhausted, [Next]_vars, NEW r \in Records,
                         recs'[r].st = "failed"
                  PROVE  recs'[r].tries > MaxRetries
      BY NextType DEF TypeOK, GivenUpExhausted, InStatus
    <2>1. CASE recs'[r] = recs[r]
      BY <2>1 DEF GivenUpExhausted, InStatus, TypeOK
    <2>2. ASSUME NEW w \in Workers, WorkerWrote(w, r) PROVE recs'[r].tries > MaxRetries
      BY <2>2, WrittenFields
    <2>. QED
      BY <2>1, <2>2, RowSteps DEF RowStep, Queued, FallsDue, Claimed, ToolWrote
  <1>. QED
    BY <1>1, <1>2, TypeCorrect, PTL DEF Spec

\* A record that goes back to the queue is claimed again when its time comes:
\* whatever sends it back also sets a time to retry it.
THEOREM ReturnsClaimable == Spec => []PendingIsClaimable
  <1>1. Init => PendingIsClaimable
    BY DEF Init, NoRecord, PendingIsClaimable, InStatus
  <1>2. TypeOK /\ PendingIsClaimable /\ [Next]_vars => PendingIsClaimable'
    <2>. SUFFICES ASSUME TypeOK, PendingIsClaimable, [Next]_vars, NEW r \in Records,
                         recs'[r].st = "pending", recs'[r].tries > 0
                  PROVE  recs'[r].retry # "none"
      BY NextType DEF TypeOK, PendingIsClaimable, InStatus
    <2>1. CASE recs'[r] = recs[r]
      BY <2>1 DEF PendingIsClaimable, InStatus, TypeOK
    <2>2. ASSUME NEW w \in Workers, WorkerWrote(w, r) PROVE recs'[r].retry # "none"
      BY <2>2, WrittenFields
    <2>3. CASE FallsDue(r)
      BY <2>3 DEF FallsDue
    <2>. QED
      BY <2>1, <2>2, <2>3, RowSteps DEF RowStep, Queued, Claimed, ToolWrote
  <1>. QED
    BY <1>1, <1>2, TypeCorrect, PTL DEF Spec

LEMMA ReadableInit == Init => EveryRecordReadable
  BY DEF Init, NoRecord, EveryRecordReadable, Readable, GateMatchesStatus

LEMMA ReadableNext ==
  ASSUME Tools = {}, TypeOK, EveryRecordReadable, [Next]_vars
  PROVE  EveryRecordReadable'
  <1>. SUFFICES ASSUME NEW r \in Records PROVE GateMatchesStatus(recs'[r])
    BY DEF EveryRecordReadable, Readable, GateMatchesStatus
  <1>1. GateMatchesStatus(recs[r])
    BY DEF EveryRecordReadable, Readable
  <1>2. ASSUME NEW w \in Workers, WorkerWrote(w, r) PROVE GateMatchesStatus(recs'[r])
    BY <1>2, WrittenFields
  <1>. QED
    BY <1>1, <1>2, RowSteps DEF RowStep, Queued, FallsDue, Claimed, GateMatchesStatus

\* Without commits and resolutions by hand, every stored record can be read
\* back: a worker's update replaces the status and the gate decision together.
\* (With them it does not hold: see the run commit_race.)
THEOREM WorkersLeaveReadable ==
  ASSUME Tools = {}
  PROVE  Spec => []EveryRecordReadable
  <1>1. TypeOK /\ EveryRecordReadable /\ [Next]_vars => EveryRecordReadable'
    BY ReadableNext
  <1>. QED
    BY <1>1, ReadableInit, TypeCorrect, PTL DEF Spec

(***************************************************************************)
(* One process moves at a time.                                            *)
(***************************************************************************)
StepOf(a) ==
    \/ a \in Workers /\ (IngestStep(a) \/ ReviewStep(a))
    \/ a \in Tools /\ ToolStep(a)
    \/ WriteStep(a) \/ Crash(a)

LEMMA OneMoves ==
  ASSUME TypeOK, [Next]_vars, NEW a \in Actors
  PROVE  proc'[a] = proc[a] \/ StepOf(a)
  <1>. DEFINE Others(b) == \A c \in Actors : c # b => proc'[c] = proc[c]
  <1>t. DOMAIN proc = Actors
    BY DEF TypeOK
  <1>1. ASSUME NEW b \in Workers, IngestStep(b) PROVE Others(b)
    BY <1>t, <1>1 DEF IngestStep, DropOverDepth, ClaimJobs, Extract, ExtractRaises,
        TakeGroup, SetGroupStatus, SetGroupStatusRaises, Goto, Become
  <1>2. ASSUME NEW b \in Workers, ReviewStep(b) PROVE Others(b)
    BY <1>t, <1>2 DEF ReviewStep, ClaimReviews, Review, ReviewRaises, UpdateReviewed,
        Writeback, WritebackUnreadable, RetryOrFail, SettleJob, ReviewFault, Goto, Become
  <1>3. ASSUME NEW b \in Tools, ToolStep(b) PROVE Others(b)
    BY <1>t, <1>3 DEF ToolStep, SelectToCommit, SelectToResolve, Select,
        ValidateApproves, ValidateBlocks, MarkSelected, ResolveSelected, Become
  <1>4. ASSUME NEW b \in Actors, WriteStep(b) \/ Crash(b) PROVE Others(b)
    BY <1>t, <1>4 DEF WriteStep, Dedupe, CheckContradictions, AssertRelations,
        Crash, Become
  <1>5. CASE proc' = proc
    BY <1>5
  <1>. QED
    BY <1>1, <1>2, <1>3, <1>4, <1>5
    DEF Next, vars, Produce, Enqueue, QueueRun, Elapse, StepOf, Actors

(***************************************************************************)
(* What is committed is in the graph.  CommittedIsWritten is not           *)
(* inductive: between the write and the update the worker must still be    *)
(* right about what it wrote, and about whose keys it wrote.               *)
(***************************************************************************)
\* Between the two reads and the write, what is not in the graph is in news.
Backed(a) ==
    /\ \A r \in proc[a].approved : recs[r].st # "absent"
    /\ proc[a].pc \in {"check", "write"} =>
          KeysOf(proc[a].approved) \subseteq StoredKeys \cup proc[a].news
    /\ proc[a].pc \in {"update", "mark"} =>
          KeysOf(proc[a].approved) \subseteq StoredKeys

\* A worker knows the keys of the records it holds; a tool commits all it chose.
Loyal(a) ==
    /\ a \in Workers =>
          \A r \in proc[a].claimed \cup proc[a].batch : proc[a].seen[r].key = recs[r].key
    /\ a \in Tools /\ proc[a].pc \in {"dedupe", "check", "write", "mark"} =>
          proc[a].approved = proc[a].batch

WritingInv ==
    /\ IInv /\ CommittedIsWritten
    /\ \A a \in Actors : Backed(a) /\ Loyal(a)

KeysKept ==
    \A r \in Records : recs[r].st # "absent" =>
        recs'[r].st # "absent" /\ recs'[r].key = recs[r].key

LEMMA KeysAreKept ==
  ASSUME WritingInv, [Next]_vars
  PROVE  KeysKept
  <1>. SUFFICES ASSUME NEW r \in Records, recs[r].st # "absent"
                PROVE  recs'[r].st # "absent" /\ recs'[r].key = recs[r].key
    BY DEF KeysKept
  <1>t. TypeOK
    BY DEF WritingInv, IInv
  <1>1. ASSUME NEW w \in Workers, WorkerWrote(w, r)
        PROVE  recs'[r].st # "absent" /\ recs'[r].key = recs[r].key
    <2>1. proc[w].seen[r].key = recs[r].key
      BY <1>1 DEF WritingInv, Loyal, Actors, WorkerWrote
    <2>. QED
      BY <1>t, <1>1, <2>1, WrittenFields
  <1>. QED
    BY <1>t, <1>1, RowSteps DEF RowStep, Queued, FallsDue, Claimed, ToolWrote

LEMMA GraphGrows ==
  ASSUME TypeOK, [Next]_vars
  PROVE  StoredKeys \subseteq StoredKeys'
  <1>1. ASSUME NEW a \in Actors, AssertRelations(a) PROVE StoredKeys \subseteq StoredKeys'
    BY <1>1 DEF AssertRelations, StoredKeys, TypeOK
  <1>2. CASE graph' = graph
    BY <1>2 DEF StoredKeys
  <1>. QED
    BY <1>1, <1>2
    DEF Next, vars, Produce, Enqueue, QueueRun, Elapse, IngestStep, DropOverDepth,
        ClaimJobs, Extract, ExtractRaises, SetGroupStatus, SetGroupStatusRaises,
        WriteStep, Dedupe, CheckContradictions, ReviewStep, ClaimReviews, Review,
        ReviewRaises, UpdateReviewed, Writeback, WritebackUnreadable, RetryOrFail,
        SettleJob, ReviewFault, ToolStep, SelectToCommit, SelectToResolve, Select,
        ValidateApproves, ValidateBlocks, MarkSelected, ResolveSelected, Crash

LEMMA CommittedKept ==
  ASSUME WritingInv, [Next]_vars
  PROVE  CommittedIsWritten'
  <1>t. TypeOK /\ TypeOK' /\ StoredKeys \subseteq StoredKeys'
    BY NextType, GraphGrows DEF WritingInv, IInv
  <1>. SUFFICES ASSUME NEW r \in Records, recs'[r].st = "committed"
                PROVE  recs'[r].key \in StoredKeys
    BY <1>t DEF CommittedIsWritten, InStatus, TypeOK
  <1>1. CASE recs'[r] = recs[r]
    BY <1>1, <1>t DEF WritingInv, CommittedIsWritten, InStatus, TypeOK
  <1>2. ASSUME NEW w \in Workers, WorkerWrote(w, r) PROVE recs'[r].key \in StoredKeys
    <2>1. w \in Actors /\ r \in proc[w].batch
      BY <1>2 DEF Actors, WorkerWrote
    <2>2. /\ recs'[r].key = recs[r].key /\ r \in proc[w].approved
          /\ proc[w].pc = "update"
      BY <1>2, <1>t, <2>1, WrittenFields DEF WritingInv, Loyal
    <2>. QED
      BY <2>1, <2>2 DEF WritingInv, Backed, KeysOf
  <1>3. ASSUME NEW t \in Tools, ToolWrote(t, r) PROVE recs'[r].key \in StoredKeys
    <2>1. /\ t \in Actors /\ proc[t].pc = "mark" /\ r \in proc[t].batch
          /\ recs'[r].key = recs[r].key
      BY <1>3 DEF Actors, ToolWrote
    <2>2. r \in proc[t].approved
      BY <1>3, <2>1 DEF WritingInv, Loyal
    <2>. QED
      BY <2>1, <2>2 DEF WritingInv, Backed, KeysOf
  <1>. QED
    BY <1>1, <1>2, <1>3, <1>t, RowSteps DEF RowStep, Queued, FallsDue, Claimed

\* p holds no more than process a, and is nowhere near a write.
Lesser(a, p) ==
    /\ p.pc \notin {"dedupe", "check", "write", "update", "mark"}
    /\ p.approved \subseteq proc[a].approved
    /\ a \in Workers =>
          \A r \in p.claimed \cup p.batch :
              r \in proc[a].claimed \cup proc[a].batch /\ p.seen[r] = proc[a].seen[r]

LEMMA LesserKept ==
  ASSUME WritingInv, TypeOK', KeysKept, StoredKeys \subseteq StoredKeys',
         NEW a \in Actors, proc'[a] = proc[a] \/ Lesser(a, proc'[a])
  PROVE  Backed(a)' /\ Loyal(a)'
  <1>t. proc[a] \in LocalState /\ proc'[a] \in LocalState
    BY DEF WritingInv, IInv, TypeOK
  <1>1. Backed(a) /\ Loyal(a)
    BY DEF WritingInv
  <1>2. proc'[a].approved \subseteq proc[a].approved
    BY DEF Lesser
  <1>3. \A r \in proc[a].approved : /\ r \in Records /\ recs'[r].st # "absent"
                                   /\ recs'[r].key = recs[r].key
    BY <1>t, <1>1 DEF Backed, LocalState, KeysKept
  <1>4. Backed(a)'
    <2>1. \A r \in proc'[a].approved : recs'[r].st # "absent"
      BY <1>2, <1>3
    <2>2. CASE proc'[a] = proc[a]
      <3>1. KeysOf(proc[a].approved)' = KeysOf(proc[a].approved)
        BY <1>3, <2>2 DEF KeysOf
      <3>. QED
        BY <1>1, <2>1, <2>2, <3>1 DEF Backed
    <2>3. CASE Lesser(a, proc'[a])
      BY <2>1, <2>3 DEF Backed, Lesser
    <2>. QED
      BY <2>2, <2>3
  <1>5. Loyal(a)'
    <2>1. ASSUME a \in Workers, NEW r \in proc[a].claimed \cup proc[a].batch
          PROVE  recs'[r].key = recs[r].key
      <3>1. r \in Records /\ recs[r].st # "absent"
        BY <1>t, <2>1 DEF WritingInv, IInv, Knows, Remembers, LocalState
      <3>. QED
        BY <3>1 DEF KeysKept
    <2>. QED
      BY <1>1, <2>1 DEF Loyal, Lesser
  <1>. QED
    BY <1>4, <1>5

\* Ends of a group, and of a failed write, hold no more than before.
LEMMA AfterLesser ==
  ASSUME WritingInv, NEW a \in Actors
  PROVE  /\ \A l : l \notin {"dedupe", "check", "write", "update", "mark"} =>
               Lesser(a, At(l)) /\ Lesser(a, [proc[a] EXCEPT !.pc = l, !.news = {}])
         /\ Lesser(a, AfterGroup(a)) /\ Lesser(a, AfterBatch(a))
         /\ Lesser(a, AfterRefusal(a))
  <1>t. proc[a] \in LocalState
    BY DEF WritingInv, IInv, TypeOK
  <1>1. ASSUME NEW l, l \notin {"dedupe", "check", "write", "update", "mark"}
        PROVE  Lesser(a, At(l)) /\ Lesser(a, [proc[a] EXCEPT !.pc = l, !.news = {}])
    BY <1>t, <1>1 DEF Lesser, At, LocalState
  <1>2. Lesser(a, AfterGroup(a))
    BY <1>t DEF AfterGroup, AfterIngest, Lesser, At, LocalState
  <1>3. Lesser(a, AfterBatch(a))
    BY <1>t, <1>1 DEF AfterBatch, Start, Lesser, At, LocalState
  <1>4. Lesser(a, AfterRefusal(a))
    BY <1>1 DEF AfterRefusal
  <1>. QED
    BY <1>1, <1>2, <1>3, <1>4

LEMMA IngestLesser ==
  ASSUME WritingInv, NEW w \in Workers, IngestStep(w)
  PROVE  Lesser(w, proc'[w])
  <1>t. w \in Actors /\ proc[w] \in LocalState /\ proc \in [Actors -> LocalState]
    BY DEF WritingInv, IInv, TypeOK, Actors
  <1>a. \A p : Become(w, p) => proc'[w] = p
    BY <1>t DEF Become
  <1>1. CASE DropOverDepth(w)
    BY <1>t, <1>a, <1>1 DEF DropOverDepth, Goto, Lesser, LocalState
  <1>2. CASE ClaimJobs(w)
    <2>. DEFINE C == JobsToClaim(jobs, JobLimit)
    <2>1. proc'[w] = IF C = {} THEN At(AfterIngest(w)) ELSE [At("group") EXCEPT !.held = C]
      BY <1>a, <1>2 DEF ClaimJobs
    <2>. QED
      BY <1>t, <2>1 DEF Lesser, At, AfterIngest
  <1>3. CASE Extract(w) \/ ExtractRaises(w)
    <2>1. PICK G : \/ TakeGroup(w, G, "to_done") \/ TakeGroup(w, G, "to_reviewing")
                   \/ TakeGroup(w, G, "to_failed")
      BY <1>3, Zenon DEF Extract, ExtractRaises
    <2>2. ASSUME NEW l \in {"to_done", "to_reviewing", "to_failed"}, TakeGroup(w, G, l)
          PROVE  Lesser(w, proc'[w])
      BY <1>a, <1>t, <2>2 DEF TakeGroup, Lesser, LocalState
    <2>. QED
      BY <2>1, <2>2
  <1>4. CASE SetGroupStatus(w)
    <2>1. PICK j \in proc[w].left :
             proc'[w] = IF proc[w].left = {j} THEN AfterGroup(w)
                        ELSE [proc[w] EXCEPT !.left = @ \ {j}]
      BY <1>a, <1>4 DEF SetGroupStatus
    <2>2. Lesser(w, [proc[w] EXCEPT !.left = @ \ {j}])
      BY <1>t, <1>4 DEF SetGroupStatus, Lesser, LocalState
    <2>. QED
      BY <1>t, <2>1, <2>2, AfterLesser
  <1>5. CASE SetGroupStatusRaises(w)
    BY <1>t, <1>a, <1>5 DEF SetGroupStatusRaises, Lesser, LocalState
  <1>. QED
    BY <1>1, <1>2, <1>3, <1>4, <1>5 DEF IngestStep

LEMMA ToolWriting ==
  ASSUME WritingInv, TypeOK', KeysKept, StoredKeys \subseteq StoredKeys',
         NEW t \in Tools, ToolStep(t)
  PROVE  Backed(t)' /\ Loyal(t)'
  <1>t. /\ t \in Actors /\ t \notin Workers
        /\ proc[t] \in LocalState /\ proc \in [Actors -> LocalState]
    BY ActorsAssumption DEF WritingInv, IInv, TypeOK, Actors
  <1>a. \A p : Become(t, p) => proc'[t] = p
    BY <1>t DEF Become
  <1>1. ASSUME NEW S, NEW l \in {"validate", "resolve"}, Select(t, S, l)
        PROVE  Lesser(t, proc'[t])
    BY <1>a, <1>t, <1>1 DEF Select, Lesser, At
  <1>2. CASE ValidateApproves(t)
    <2>1. proc'[t] = [proc[t] EXCEPT !.pc = "dedupe", !.approved = proc[t].batch]
      BY <1>a, <1>2 DEF ValidateApproves
    <2>2. /\ proc'[t].pc = "dedupe" /\ proc'[t].approved = proc[t].batch
          /\ proc'[t].batch = proc[t].batch
      BY <1>t, <2>1 DEF LocalState
    <2>3. \A r \in proc[t].batch : recs[r].st # "absent" /\ r \in Records
      BY <1>t DEF WritingInv, IInv, Selected, LocalState
    <2>. QED
      BY <1>t, <2>2, <2>3 DEF Backed, Loyal, KeysKept
  <1>3. CASE ValidateBlocks(t) \/ MarkSelected(t) \/ ResolveSelected(t)
    <2>1. proc'[t] = At("idle")
      BY <1>a, <1>3 DEF ValidateBlocks, MarkSelected, ResolveSelected
    <2>. QED
      BY <1>t, <2>1, AfterLesser, LesserKept
  <1>. QED
    BY <1>t, <1>1, <1>2, <1>3, LesserKept DEF ToolStep, SelectToCommit, SelectToResolve

LEMMA WriteWriting ==
  ASSUME WritingInv, TypeOK', KeysKept, StoredKeys \subseteq StoredKeys',
         NEW a \in Actors, WriteStep(a)
  PROVE  Backed(a)' /\ Loyal(a)'
  <1>t. proc[a] \in LocalState /\ proc \in [Actors -> LocalState]
    BY DEF WritingInv, IInv, TypeOK
  <1>a. \A p : Become(a, p) => proc'[a] = p
    BY <1>t DEF Become
  <1>b. Backed(a) /\ Loyal(a)
    BY DEF WritingInv
  <1>r. recs' = recs
    BY DEF WriteStep, Dedupe, CheckContradictions, AssertRelations
  <1>k. KeysOf(proc[a].approved) \subseteq Keys
    BY <1>t DEF WritingInv, IInv, TypeOK, KeysOf, LocalState, RecordRow
  \* A process that keeps its records and its decisions.
  <1>1. ASSUME NEW l \in {"check", "write", "update", "mark"}, NEW K,
               proc'[a] = [proc[a] EXCEPT !.pc = l, !.news = K],
               l = "mark" => a \in Tools,
               proc[a].pc \in {"dedupe", "check", "write"},
               IF l \in {"check", "write"}
               THEN KeysOf(proc[a].approved) \subseteq StoredKeys' \cup K
               ELSE KeysOf(proc[a].approved) \subseteq StoredKeys'
        PROVE  Backed(a)' /\ Loyal(a)'
    <2>1. /\ proc'[a].pc = l /\ proc'[a].news = K
          /\ proc'[a].approved = proc[a].approved /\ proc'[a].batch = proc[a].batch
          /\ proc'[a].claimed = proc[a].claimed /\ proc'[a].seen = proc[a].seen
      BY <1>t, <1>1 DEF LocalState
    <2>2. KeysOf(proc[a].approved)' = KeysOf(proc[a].approved)
      BY <1>r, <2>1 DEF KeysOf
    <2>. QED
      BY <1>1, <1>b, <1>r, <2>1, <2>2 DEF Backed, Loyal
  <1>2. \/ a \in Tools /\ AfterWrite(a) = [proc[a] EXCEPT !.pc = "mark", !.news = {}]
        \/ AfterWrite(a) = [proc[a] EXCEPT !.pc = "update", !.news = {}]
    BY DEF AfterWrite
  <1>3. CASE Dedupe(a)
    <2>. DEFINE K == KeysOf(proc[a].approved) \ StoredKeys
    <2>1. /\ proc[a].pc = "dedupe"
          /\ proc'[a] = IF K = {} THEN AfterWrite(a)
                        ELSE [proc[a] EXCEPT !.pc = "check", !.news = K]
      BY <1>a, <1>3 DEF Dedupe
    <2>2. CASE K = {}
      <3>1. KeysOf(proc[a].approved) \subseteq StoredKeys'
        BY <2>2
      <3>. QED
        BY <1>1, <1>2, <2>1, <2>2, <3>1
    <2>3. CASE K # {}
      <3>1. KeysOf(proc[a].approved) \subseteq StoredKeys' \cup K
        OBVIOUS
      <3>. QED
        BY <1>1, <2>1, <2>3, <3>1
    <2>. QED
      BY <2>2, <2>3
  <1>4. CASE CheckContradictions(a)
    <2>1. /\ proc[a].pc = "check"
          /\ proc'[a] = AfterRefusal(a) \/ proc'[a] = [proc[a] EXCEPT !.pc = "write"]
      BY <1>a, <1>4 DEF CheckContradictions
    <2>2. CASE proc'[a] = [proc[a] EXCEPT !.pc = "write"]
      <3>1. proc'[a] = [proc[a] EXCEPT !.pc = "write", !.news = proc[a].news]
        BY <1>t, <2>2 DEF LocalState
      <3>2. KeysOf(proc[a].approved) \subseteq StoredKeys' \cup proc[a].news
        BY <1>b, <2>1 DEF Backed
      <3>. QED
        BY <1>1, <2>1, <3>1, <3>2
    <2>3. CASE proc'[a] = AfterRefusal(a)
      BY <2>3, AfterLesser, LesserKept
    <2>. QED
      BY <2>1, <2>2, <2>3
  <1>5. CASE AssertRelations(a)
    <2>1. proc[a].pc = "write" /\ proc'[a] = AfterWrite(a)
      BY <1>a, <1>5 DEF AssertRelations
    <2>2. \A k \in Keys : k \in proc[a].news => k \in StoredKeys'
      BY <1>5 DEF AssertRelations, StoredKeys, WritingInv, IInv, TypeOK
    <2>3. KeysOf(proc[a].approved) \subseteq StoredKeys'
      BY <1>b, <1>k, <2>1, <2>2 DEF Backed
    <2>. QED
      BY <1>1, <1>2, <2>1, <2>3
  <1>. QED
    BY <1>3, <1>4, <1>5 DEF WriteStep

LEMMA ReviewWriting ==
  ASSUME WritingInv, TypeOK', KeysKept, StoredKeys \subseteq StoredKeys',
         NEW w \in Workers, ReviewStep(w)
  PROVE  Backed(w)' /\ Loyal(w)'
  <1>t. /\ w \in Actors /\ w \notin Tools
        /\ proc[w] \in LocalState /\ proc \in [Actors -> LocalState]
    BY ActorsAssumption DEF WritingInv, IInv, TypeOK, Actors
  <1>a. \A p : Become(w, p) => proc'[w] = p
    BY <1>t DEF Become
  <1>k. \A r \in proc[w].claimed : r \in Records /\ recs[r].st # "absent"
    BY <1>t DEF WritingInv, IInv, Knows, Remembers, LocalState
  <1>1. CASE ClaimReviews(w)
    <2>1. PICK C \in SUBSET Records :
             proc'[w] = IF C = {} THEN At(Start(w))
                        ELSE [At("pick") EXCEPT
                                !.claimed = C,
                                !.seen = [r \in Records |-> IF r \in C
                                            THEN recs'[r] ELSE NoRecord]]
      BY <1>a, <1>1 DEF ClaimReviews
    <2>2. CASE C = {}
      BY <1>t, <2>1, <2>2, AfterLesser, LesserKept DEF Start
    <2>3. CASE C # {}
      <3>1. /\ proc'[w].pc = "pick" /\ proc'[w].approved = {}
            /\ proc'[w].claimed = C /\ proc'[w].batch = {}
            /\ \A r \in C : proc'[w].seen[r] = recs'[r]
        BY <2>1, <2>3 DEF At
      <3>. QED
        BY <1>t, <3>1 DEF Backed, Loyal
    <2>. QED
      BY <2>2, <2>3
  <1>2. CASE Review(w)
    <2>. DEFINE p(R, P, Q) ==
           [proc[w] EXCEPT !.pc = IF P = {} THEN "update"
                                  ELSE IF AutoWrite THEN "dedupe" ELSE "retry",
                           !.claimed = @ \ R, !.batch = R,
                           !.approved = P, !.rejected = Q]
    <2>1. PICK R \in ClaimedBatches(w) :
             \E P \in SUBSET R : \E Q \in SUBSET (R \ P) : Become(w, p(R, P, Q))
      BY <1>2 DEF Review
    <2>2. PICK P \in SUBSET R : \E Q \in SUBSET (R \ P) : proc'[w] = p(R, P, Q)
      BY <1>a, <2>1
    <2>0. PICK Q : proc'[w] = p(R, P, Q)
      BY <2>2
    <2>3. R \subseteq proc[w].claimed
      BY DEF ClaimedBatches
    <2>4. /\ proc'[w].pc = IF P = {} THEN "update"
                          ELSE IF AutoWrite THEN "dedupe" ELSE "retry"
          /\ proc'[w].claimed = proc[w].claimed \ R /\ proc'[w].batch = R
          /\ proc'[w].approved = P /\ proc'[w].seen = proc[w].seen
      BY <1>t, <2>0 DEF LocalState
    <2>5. Backed(w)'
      BY <1>k, <2>3, <2>4 DEF Backed, KeysKept, KeysOf
    <2>6. Loyal(w)'
      BY <1>k, <1>t, <2>3, <2>4 DEF Loyal, KeysKept, WritingInv
    <2>. QED
      BY <2>5, <2>6
  <1>3. CASE ReviewRaises(w)
    <2>1. PICK R \in ClaimedBatches(w) :
             proc'[w] = [proc[w] EXCEPT !.pc = "retry", !.claimed = @ \ R, !.batch = R]
      BY <1>a, <1>3 DEF ReviewRaises
    <2>2. R \subseteq proc[w].claimed
      BY DEF ClaimedBatches
    <2>3. Lesser(w, proc'[w])
      BY <1>t, <2>1, <2>2 DEF Lesser, LocalState
    <2>. QED
      BY <1>t, <2>3, LesserKept
  <1>4. ASSUME NEW l \in {"writeback", "retry", "settle_done", "settle_failed"}, NEW D
        PROVE  /\ Lesser(w, [proc[w] EXCEPT !.pc = l])
               /\ Lesser(w, [proc[w] EXCEPT !.pc = l, !.left = D])
    BY <1>t DEF Lesser, LocalState
  <1>5. CASE UpdateReviewed(w) \/ WritebackUnreadable(w)
    BY <1>a, <1>t, <1>4, <1>5, LesserKept DEF UpdateReviewed, WritebackUnreadable, Goto
  <1>6. CASE Writeback(w)
    BY <1>a, <1>t, <1>4, <1>6, AfterLesser, LesserKept DEF Writeback
  <1>7. CASE RetryOrFail(w)
    BY <1>a, <1>t, <1>4, <1>7, AfterLesser, LesserKept DEF RetryOrFail
  <1>8. CASE SettleJob(w)
    <2>1. PICK j : proc'[w] = IF proc[w].left = {j} THEN AfterBatch(w)
                              ELSE [proc[w] EXCEPT !.left = @ \ {j}]
      BY <1>a, <1>8 DEF SettleJob
    <2>2. Lesser(w, [proc[w] EXCEPT !.left = @ \ {j}])
      BY <1>t, <1>8 DEF SettleJob, Lesser, LocalState
    <2>. QED
      BY <1>t, <2>1, <2>2, AfterLesser, LesserKept
  <1>9. CASE ReviewFault(w)
    <2>1. proc'[w] = [proc[w] EXCEPT !.pc = "retry", !.left = {}, !.news = {}]
      BY <1>a, <1>9 DEF ReviewFault
    <2>2. Lesser(w, proc'[w])
      BY <1>t, <2>1 DEF Lesser, LocalState
    <2>. QED
      BY <1>t, <2>2, LesserKept
  <1>. QED
    BY <1>1, <1>2, <1>3, <1>5, <1>6, <1>7, <1>8, <1>9 DEF ReviewStep

LEMMA WritingInit == Init => WritingInv
  <1>. SUFFICES ASSUME Init PROVE WritingInv
    OBVIOUS
  <1>1. CommittedIsWritten
    BY DEF Init, CommittedIsWritten, InStatus, NoRecord
  <1>2. ASSUME NEW a \in Actors PROVE Backed(a) /\ Loyal(a)
    <2>1. proc[a] = At(Start(a))
      BY DEF Init
    <2>. QED
      BY <2>1 DEF At, Start, Backed, Loyal, KeysOf
  <1>. QED
    BY <1>1, <1>2, InitInd DEF WritingInv

LEMMA WritingNext == WritingInv /\ [Next]_vars => WritingInv'
  <1>. SUFFICES ASSUME WritingInv, [Next]_vars PROVE WritingInv'
    OBVIOUS
  <1>1. /\ IInv' /\ TypeOK' /\ CommittedIsWritten' /\ KeysKept
        /\ StoredKeys \subseteq StoredKeys'
    BY NextInd, CommittedKept, KeysAreKept, GraphGrows DEF WritingInv, IInv
  <1>2. ASSUME NEW a \in Actors PROVE Backed(a)' /\ Loyal(a)'
    <2>t. proc \in [Actors -> LocalState]
      BY DEF WritingInv, IInv, TypeOK
    <2>1. CASE proc'[a] = proc[a]
      BY <1>1, <2>1, LesserKept
    <2>2. CASE a \in Workers /\ (IngestStep(a) \/ ReviewStep(a))
      BY <1>1, <2>2, IngestLesser, LesserKept, ReviewWriting
    <2>3. CASE a \in Tools /\ ToolStep(a)
      BY <1>1, <2>3, ToolWriting
    <2>4. CASE WriteStep(a)
      BY <1>1, <2>4, WriteWriting
    <2>5. CASE Crash(a)
      <3>1. proc'[a] = At(Start(a))
        BY <2>t, <2>5 DEF Crash, Become
      <3>. QED
        BY <1>1, <3>1, AfterLesser, LesserKept DEF Start
    <2>. QED
      BY <2>1, <2>2, <2>3, <2>4, <2>5, OneMoves DEF StepOf, WritingInv, IInv
  <1>. QED
    BY <1>1, <1>2 DEF WritingInv

\* What a committed record says is in the graph, whoever committed it, and
\* whatever crashed or failed between the write and the update.
THEOREM CommittedIsStored == Spec => []CommittedIsWritten
  <1>1. WritingInv => CommittedIsWritten
    BY DEF WritingInv
  <1>. QED
    BY <1>1, WritingInit, WritingNext, PTL DEF Spec

(***************************************************************************)
(* One writer.  De-duplication, the contradiction check and the append are *)
(* three store calls; what the first two saw is still true at the third    *)
(* when only one process ever writes.                                      *)
(***************************************************************************)
IngestPc == {"drop", "claim", "group", "to_reviewing", "to_done", "to_failed"}
OneWriter == \A a, b \in ReviewWorkers \cup Tools : a = b

SingleWriteInv ==
    /\ TypeOK /\ WrittenOnce /\ GraphConsistent
    /\ \A w \in Workers \ ReviewWorkers : proc[w].pc \in IngestPc
    /\ \A a \in Actors :
          /\ proc[a].pc \in {"check", "write"} => proc[a].news \cap StoredKeys = {}
          /\ proc[a].pc = "write" => ~Contradictory(StoredKeys \cup proc[a].news)

\* A process comes to the check and the write only through the two reads.
LEMMA WriteIsChecked ==
  ASSUME TypeOK, NEW a \in Actors, StepOf(a), ~Dedupe(a), ~CheckContradictions(a)
  PROVE  proc'[a].pc \notin {"check", "write"}
  <1>t. proc[a] \in LocalState /\ proc \in [Actors -> LocalState]
    BY DEF TypeOK
  <1>a. \A p : Become(a, p) => proc'[a] = p
    BY <1>t DEF Become
  <1>b. /\ AfterGroup(a).pc \notin {"check", "write"}
        /\ AfterBatch(a).pc \notin {"check", "write"}
        /\ AfterWrite(a).pc \notin {"check", "write"}
        /\ \A l : At(l).pc = l
    BY <1>t DEF AfterGroup, AfterBatch, AfterWrite, AfterIngest, Start, At, LocalState
  <1>1. CASE IngestStep(a)
    <2>1. CASE DropOverDepth(a)
      BY <1>a, <1>t, <2>1 DEF DropOverDepth, Goto, LocalState
    <2>2. CASE ClaimJobs(a)
      BY <1>a, <1>t, <2>2 DEF ClaimJobs, At, AfterIngest
    <2>3. CASE Extract(a) \/ ExtractRaises(a)
      <3>1. PICK G : \/ TakeGroup(a, G, "to_done") \/ TakeGroup(a, G, "to_reviewing")
                     \/ TakeGroup(a, G, "to_failed")
        BY <2>3, Zenon DEF Extract, ExtractRaises
      <3>. QED
        BY <1>a, <1>t, <3>1 DEF TakeGroup, LocalState
    <2>4. CASE SetGroupStatus(a)
      BY <1>a, <1>b, <1>t, <2>4 DEF SetGroupStatus, LocalState
    <2>5. CASE SetGroupStatusRaises(a)
      BY <1>a, <1>t, <2>5 DEF SetGroupStatusRaises, LocalState
    <2>. QED
      BY <1>1, <2>1, <2>2, <2>3, <2>4, <2>5 DEF IngestStep
  <1>2. CASE ReviewStep(a)
    <2>1. CASE ClaimReviews(a)
      <3>1. PICK C : proc'[a] = IF C = {} THEN At(Start(a))
                                ELSE [At("pick") EXCEPT
                                        !.claimed = C,
                                        !.seen = [r \in Records |-> IF r \in C
                                                    THEN recs'[r] ELSE NoRecord]]
        BY <1>a, <2>1 DEF ClaimReviews
      <3>. QED
        BY <3>1 DEF At, Start
    <2>2. CASE Review(a)
      <3>1. \E R, P, Q :
               proc'[a] = [proc[a] EXCEPT !.pc = IF P = {} THEN "update"
                                                 ELSE IF AutoWrite THEN "dedupe"
                                                 ELSE "retry",
                                          !.claimed = @ \ R, !.batch = R,
                                          !.approved = P, !.rejected = Q]
        BY <1>a, <2>2, Zenon DEF Review
      <3>. QED
        BY <1>t, <3>1 DEF LocalState
    <2>6. CASE ReviewRaises(a)
      <3>1. \E R : proc'[a] = [proc[a] EXCEPT !.pc = "retry", !.claimed = @ \ R,
                                             !.batch = R]
        BY <1>a, <2>6, Zenon DEF ReviewRaises
      <3>. QED
        BY <1>t, <3>1 DEF LocalState
    <2>3. CASE UpdateReviewed(a) \/ WritebackUnreadable(a) \/ ReviewFault(a)
      BY <1>a, <1>t, <2>3 DEF UpdateReviewed, WritebackUnreadable, ReviewFault, Goto,
                              LocalState
    <2>4. CASE Writeback(a) \/ RetryOrFail(a)
      BY <1>a, <1>b, <1>t, <2>4 DEF Writeback, RetryOrFail, LocalState
    <2>5. CASE SettleJob(a)
      BY <1>a, <1>b, <1>t, <2>5 DEF SettleJob, LocalState
    <2>. QED
      BY <1>2, <2>1, <2>2, <2>3, <2>4, <2>5, <2>6 DEF ReviewStep
  <1>3. CASE ToolStep(a)
    <2>1. ASSUME NEW S, NEW l \in {"validate", "resolve"}, Select(a, S, l)
          PROVE  proc'[a].pc = l
      BY <1>a, <2>1 DEF Select, At
    <2>2. CASE ValidateApproves(a)
      BY <1>a, <1>t, <2>2 DEF ValidateApproves, LocalState
    <2>3. CASE ValidateBlocks(a) \/ MarkSelected(a) \/ ResolveSelected(a)
      BY <1>a, <1>b, <2>3 DEF ValidateBlocks, MarkSelected, ResolveSelected
    <2>. QED
      BY <1>3, <2>1, <2>2, <2>3 DEF ToolStep, SelectToCommit, SelectToResolve
  <1>4. CASE AssertRelations(a)
    BY <1>a, <1>b, <1>4 DEF AssertRelations
  <1>5. CASE Crash(a)
    BY <1>a, <1>b, <1>5 DEF Crash, Start
  <1>. QED
    BY <1>1, <1>2, <1>3, <1>4, <1>5 DEF StepOf, WriteStep

\* A worker that only ingests never leaves its own phase.
LEMMA IngestersOnlyIngest ==
  ASSUME TypeOK, NEW w \in Workers \ ReviewWorkers, proc[w].pc \in IngestPc, StepOf(w)
  PROVE  proc'[w].pc \in IngestPc
  <1>t. /\ w \in Actors /\ w \notin Tools /\ w \in IngestWorkers
        /\ proc[w] \in LocalState /\ proc \in [Actors -> LocalState]
    BY ActorsAssumption DEF TypeOK, Actors, Workers
  <1>a. \A p : Become(w, p) => proc'[w] = p
    BY <1>t DEF Become
  <1>b. Start(w) = "drop" /\ AfterIngest(w) = "drop"
    BY <1>t DEF Start, AfterIngest
  <1>1. IngestStep(w) \/ Crash(w)
    BY <1>t DEF StepOf, IngestPc, ReviewStep, ClaimReviews, Review, ReviewRaises,
        UpdateReviewed, Writeback, WritebackUnreadable, RetryOrFail, SettleJob,
        ReviewFault, WriteStep, Dedupe, CheckContradictions, AssertRelations
  <1>2. CASE DropOverDepth(w)
    BY <1>a, <1>t, <1>2 DEF DropOverDepth, Goto, LocalState, IngestPc
  <1>3. CASE ClaimJobs(w)
    BY <1>a, <1>b, <1>t, <1>3 DEF ClaimJobs, At, IngestPc
  <1>4. CASE Extract(w) \/ ExtractRaises(w)
    <2>1. PICK G : \/ TakeGroup(w, G, "to_done") \/ TakeGroup(w, G, "to_reviewing")
                   \/ TakeGroup(w, G, "to_failed")
      BY <1>4, Zenon DEF Extract, ExtractRaises
    <2>. QED
      BY <1>a, <1>t, <2>1 DEF TakeGroup, LocalState, IngestPc
  <1>5. CASE SetGroupStatus(w)
    <2>1. AfterGroup(w).pc \in IngestPc
      BY <1>b DEF AfterGroup, At, IngestPc
    <2>. QED
      BY <1>a, <1>t, <1>5, <2>1 DEF SetGroupStatus, LocalState, IngestPc
  <1>6. CASE SetGroupStatusRaises(w)
    BY <1>a, <1>t, <1>6 DEF SetGroupStatusRaises, LocalState, IngestPc
  <1>7. CASE Crash(w)
    BY <1>a, <1>b, <1>7 DEF Crash, At, IngestPc
  <1>. QED
    BY <1>1, <1>2, <1>3, <1>4, <1>5, <1>6, <1>7 DEF IngestStep

LEMMA SingleInit == Init => SingleWriteInv
  <1>. SUFFICES ASSUME Init PROVE SingleWriteInv
    OBVIOUS
  <1>1. StoredKeys = {} /\ WrittenOnce
    BY DEF Init, StoredKeys, WrittenOnce
  <1>2. GraphConsistent
    BY <1>1, ConflictsAssumption DEF GraphConsistent, Contradictory
  <1>3. ASSUME NEW a \in Actors
        PROVE  /\ proc[a].pc \notin {"check", "write"}
               /\ a \in Workers \ ReviewWorkers => proc[a].pc \in IngestPc
    <2>1. proc[a].pc = Start(a)
      BY DEF Init, At
    <2>. QED
      BY <2>1, ActorsAssumption DEF Start, Workers, IngestPc
  <1>. QED
    BY <1>1, <1>2, <1>3, InitType DEF SingleWriteInv, Actors

LEMMA SingleNext ==
  ASSUME OneWriter, SingleWriteInv, [Next]_vars
  PROVE  SingleWriteInv'
  <1>t. /\ TypeOK /\ TypeOK' /\ graph \in [Keys -> 0..2]
        /\ proc \in [Actors -> LocalState]
    BY NextType DEF SingleWriteInv, TypeOK
  <1>1. \A w \in Workers \ ReviewWorkers : proc'[w].pc \in IngestPc
    BY <1>t, OneMoves, IngestersOnlyIngest DEF SingleWriteInv, Actors
  \* The only process that may stand at a write is the writer.
  <1>2. ASSUME NEW a \in Actors, NEW b \in Actors,
               proc[a].pc \notin IngestPc, proc[b].pc \notin IngestPc
        PROVE  a = b
    BY <1>2 DEF SingleWriteInv, OneWriter, Actors, Workers
  <1>3. CASE graph' = graph
    <2>1. StoredKeys' = StoredKeys
      BY <1>3 DEF StoredKeys
    <2>2. WrittenOnce' /\ GraphConsistent'
      BY <1>3, <2>1 DEF SingleWriteInv, WrittenOnce, GraphConsistent, Contradictory
    <2>3. ASSUME NEW a \in Actors
          PROVE  /\ proc'[a].pc \in {"check", "write"} => proc'[a].news \cap StoredKeys = {}
                 /\ proc'[a].pc = "write" => ~Contradictory(StoredKeys \cup proc'[a].news)
      <3>a. \A p : Become(a, p) => proc'[a] = p
        BY <1>t DEF Become
      <3>b. AfterWrite(a).pc \in {"mark", "update"}
            /\ AfterRefusal(a).pc \in {"idle", "retry"}
        BY <1>t DEF AfterWrite, AfterRefusal, At, LocalState
      <3>1. CASE proc'[a] = proc[a]
        BY <3>1 DEF SingleWriteInv
      <3>2. CASE Dedupe(a)
        <4>. DEFINE K == KeysOf(proc[a].approved) \ StoredKeys
        <4>1. \/ proc'[a] = AfterWrite(a)
              \/ proc'[a] = [proc[a] EXCEPT !.pc = "check", !.news = K]
          BY <3>a, <3>2 DEF Dedupe
        <4>2. proc'[a].pc = "check" => proc'[a].news = K
          BY <1>t, <3>b, <4>1 DEF LocalState
        <4>3. proc'[a].pc # "write"
          BY <1>t, <3>b, <4>1 DEF LocalState
        <4>. QED
          BY <4>2, <4>3
      <3>3. CASE CheckContradictions(a)
        <4>1. /\ proc[a].pc = "check"
              /\ \/ proc'[a] = AfterRefusal(a)
                 \/ /\ ~Contradictory(StoredKeys \cup proc[a].news)
                    /\ proc'[a] = [proc[a] EXCEPT !.pc = "write"]
          BY <3>a, <3>3 DEF CheckContradictions
        <4>2. CASE proc'[a] = AfterRefusal(a)
          BY <3>b, <4>2
        <4>3. CASE /\ ~Contradictory(StoredKeys \cup proc[a].news)
                   /\ proc'[a] = [proc[a] EXCEPT !.pc = "write"]
          <5>1. proc'[a].news = proc[a].news
            BY <1>t, <4>3 DEF LocalState
          <5>. QED
            BY <4>1, <4>3, <5>1 DEF SingleWriteInv
        <4>. QED
          BY <4>1, <4>2, <4>3
      <3>. QED
        BY <1>t, <3>1, <3>2, <3>3, OneMoves, WriteIsChecked
    <2>. QED
      BY <1>1, <1>t, <2>1, <2>2, <2>3 DEF SingleWriteInv, Contradictory
  <1>4. ASSUME NEW a \in Actors, AssertRelations(a) PROVE SingleWriteInv'
    <2>1. /\ proc[a].pc = "write" /\ proc[a].news \cap StoredKeys = {}
          /\ ~Contradictory(StoredKeys \cup proc[a].news)
      BY <1>4 DEF AssertRelations, SingleWriteInv
    <2>2. \A k \in Keys : graph'[k] = IF k \in proc[a].news THEN 1 ELSE graph[k]
      BY <1>4, <1>t, <2>1 DEF AssertRelations, StoredKeys
    <2>3. WrittenOnce'
      BY <2>2 DEF WrittenOnce, SingleWriteInv
    <2>4. proc[a].news \subseteq Keys
      BY <1>t DEF LocalState
    <2>5. StoredKeys' = StoredKeys \cup proc[a].news
      BY <1>t, <2>2, <2>4 DEF StoredKeys
    <2>6. GraphConsistent'
      BY <2>1, <2>5 DEF GraphConsistent, Contradictory
    <2>7. ASSUME NEW b \in Actors PROVE proc'[b].pc \notin {"check", "write"}
      <3>1. CASE b = a
        BY <1>4, <1>t, <3>1 DEF AssertRelations, Become, AfterWrite, LocalState
      <3>2. CASE b # a
        <4>1. proc'[b] = proc[b]
          BY <1>4, <1>t, <3>2 DEF AssertRelations, Become
        <4>. QED
          BY <1>2, <2>1, <3>2, <4>1 DEF IngestPc
      <3>. QED
        BY <3>1, <3>2
    <2>. QED
      BY <1>1, <1>t, <2>3, <2>6, <2>7 DEF SingleWriteInv
  <1>5. graph' = graph \/ \E a \in Actors : AssertRelations(a)
    BY DEF Next, vars, Produce, Enqueue, QueueRun, Elapse, IngestStep, DropOverDepth,
        ClaimJobs, Extract, ExtractRaises, SetGroupStatus, SetGroupStatusRaises,
        WriteStep, Dedupe, CheckContradictions, ReviewStep, ClaimReviews, Review,
        ReviewRaises, UpdateReviewed, Writeback, WritebackUnreadable, RetryOrFail,
        SettleJob, ReviewFault, ToolStep, SelectToCommit, SelectToResolve, Select,
        ValidateApproves, ValidateBlocks, MarkSelected, ResolveSelected, Crash
  <1>. QED
    BY <1>3, <1>4, <1>5

\* With one process that writes, a review worker or a tool beside any number
\* of ingestion workers, no relation is stored twice, even when the writer
\* dies after the write and its records are written again later.
THEOREM OneWriterWritesOnce ==
  ASSUME OneWriter
  PROVE  Spec => []WrittenOnce
  <1>1. SingleWriteInv => WrittenOnce
    BY DEF SingleWriteInv
  <1>2. SingleWriteInv /\ [Next]_vars => SingleWriteInv'
    BY SingleNext
  <1>. QED
    BY <1>1, <1>2, SingleInit, PTL DEF Spec

\* And the graph never holds a contradiction.  (With a second writer it can:
\* see the run two_writers.)
THEOREM OneWriterConsistent ==
  ASSUME OneWriter
  PROVE  Spec => []GraphConsistent
  <1>1. SingleWriteInv => GraphConsistent
    BY DEF SingleWriteInv
  <1>2. SingleWriteInv /\ [Next]_vars => SingleWriteInv'
    BY SingleNext
  <1>. QED
    BY <1>1, <1>2, SingleInit, PTL DEF Spec

(***************************************************************************)
(* One reviewer for a record.  A record in a worker's hands is "reviewing" *)
(* in the store until its owner writes it back, so no claim takes it; the  *)
(* owner must then never come back to it, which it does when a store call  *)
(* after the write-back fails, or when a row cannot be read.               *)
(***************************************************************************)
WorkersOnly == Tools = {} /\ FaultAt \cap {"writeback", "settle_done"} = {}

HeldInv ==
    /\ IInv /\ EveryRecordReadable /\ RecordHeldByOne
    /\ \A w \in Workers :
          /\ \A r \in ClaimedRecords(w) : recs[r].st = "reviewing"
          /\ proc[w].pc \in ReviewPc => proc[w].claimed \cap proc[w].batch = {}

\* Only a claim takes records in hand; a write-back lets go of its batch.
LEMMA HoldsLess ==
  ASSUME WorkersOnly, TypeOK, EveryRecordReadable, NEW w \in Workers,
         proc[w].pc \in ReviewPc => proc[w].claimed \cap proc[w].batch = {},
         StepOf(w), ~ClaimReviews(w)
  PROVE  /\ ClaimedRecords(w)' \subseteq ClaimedRecords(w)
         /\ proc'[w].pc \in ReviewPc => proc'[w].claimed \cap proc'[w].batch = {}
         /\ UpdateReviewed(w) \/ RetryOrFail(w) =>
               ClaimedRecords(w)' \cap proc[w].batch = {}
  <1>t. /\ w \in Actors /\ w \notin Tools
        /\ proc[w] \in LocalState /\ proc \in [Actors -> LocalState]
    BY ActorsAssumption DEF TypeOK, Actors
  <1>a. \A p : Become(w, p) => proc'[w] = p
    BY <1>t DEF Become
  <1>. DEFINE Hand(p) == IF p.pc \in ReviewPc THEN p.claimed \cup p.batch ELSE p.claimed
              Apart(p) == p.pc \in ReviewPc => p.claimed \cap p.batch = {}
              Less(p) == Hand(p) \subseteq Hand(proc[w]) /\ Apart(p)
  <1>h. ClaimedRecords(w) = Hand(proc[w]) /\ ClaimedRecords(w)' = Hand(proc'[w])
    BY DEF ClaimedRecords
  <1>b. \A l : Less(At(l))
    BY DEF At
  <1>c. Less(AfterBatch(w)) /\ Hand(AfterBatch(w)) \subseteq proc[w].claimed
    BY DEF AfterBatch, At, ReviewPc
  <1>d. Less(AfterGroup(w))
    BY DEF AfterGroup, AfterIngest, At, ReviewPc
  \* The batch is in hand only where it was.
  <1>e. ASSUME NEW p, p.claimed = proc[w].claimed, p.batch = proc[w].batch,
               p.pc \in ReviewPc => proc[w].pc \in ReviewPc
        PROVE  Less(p)
    BY <1>e
  <1>1. CASE IngestStep(w)
    <2>1. CASE DropOverDepth(w)
      BY <1>a, <1>h, <1>t, <2>1 DEF DropOverDepth, Goto, LocalState, ReviewPc, UpdateReviewed,
                              RetryOrFail
    <2>2. CASE ClaimJobs(w)
      <3>1. PICK C : proc'[w] = IF C = {} THEN At(AfterIngest(w))
                                ELSE [At("group") EXCEPT !.held = C]
        BY <1>a, <2>2 DEF ClaimJobs
      <3>. QED
        BY <1>h, <2>2, <3>1 DEF At, AfterIngest, ReviewPc, ClaimJobs, UpdateReviewed, RetryOrFail
    <2>3. CASE Extract(w) \/ ExtractRaises(w)
      <3>1. PICK G : \/ TakeGroup(w, G, "to_done") \/ TakeGroup(w, G, "to_reviewing")
                     \/ TakeGroup(w, G, "to_failed")
        BY <2>3, Zenon DEF Extract, ExtractRaises
      <3>2. /\ proc'[w].claimed = proc[w].claimed /\ proc'[w].batch = proc[w].batch
            /\ proc'[w].pc \notin ReviewPc /\ proc[w].pc = "group"
        <4>1. ASSUME NEW l \in {"to_done", "to_reviewing", "to_failed"}, TakeGroup(w, G, l)
              PROVE  /\ proc'[w].claimed = proc[w].claimed /\ proc'[w].batch = proc[w].batch
                     /\ proc'[w].pc = l /\ proc[w].pc = "group"
          BY <1>a, <1>t, <4>1 DEF TakeGroup, LocalState
        <4>. QED
          BY <3>1, <4>1 DEF ReviewPc
      <3>. QED
        BY <1>h, <1>e, <3>2 DEF UpdateReviewed, RetryOrFail
    <2>4. CASE SetGroupStatus(w)
      <3>1. PICK j : proc'[w] = IF proc[w].left = {j} THEN AfterGroup(w)
                                ELSE [proc[w] EXCEPT !.left = @ \ {j}]
        BY <1>a, <2>4 DEF SetGroupStatus
      <3>2. Less([proc[w] EXCEPT !.left = @ \ {j}])
        BY <1>t, <2>4 DEF SetGroupStatus, LocalState, ReviewPc
      <3>. QED
        BY <1>d, <1>h, <2>4, <3>1, <3>2 DEF SetGroupStatus, UpdateReviewed, RetryOrFail
    <2>5. CASE SetGroupStatusRaises(w)
      BY <1>a, <1>h, <1>t, <2>5
      DEF SetGroupStatusRaises, LocalState, ReviewPc, UpdateReviewed, RetryOrFail
    <2>. QED
      BY <1>1, <2>1, <2>2, <2>3, <2>4, <2>5 DEF IngestStep
  <1>2. CASE WriteStep(w)
    <2>1. /\ proc[w].pc \in {"dedupe", "check", "write"}
          /\ proc'[w].claimed = proc[w].claimed /\ proc'[w].batch = proc[w].batch
      <3>1. CASE Dedupe(w)
        BY <1>a, <1>t, <3>1 DEF Dedupe, AfterWrite, LocalState
      <3>2. CASE CheckContradictions(w)
        BY <1>a, <1>t, <3>2 DEF CheckContradictions, AfterRefusal, LocalState
      <3>3. CASE AssertRelations(w)
        BY <1>a, <1>t, <3>3 DEF AssertRelations, AfterWrite, LocalState
      <3>. QED
        BY <1>2, <3>1, <3>2, <3>3 DEF WriteStep
    <2>. QED
      BY <1>h, <1>e, <2>1 DEF ReviewPc, UpdateReviewed, RetryOrFail
  <1>3. CASE Crash(w)
    <2>1. proc'[w] = At(Start(w))
      BY <1>a, <1>3 DEF Crash
    <2>. QED
      BY <1>h, <2>1 DEF At
  <1>4. CASE ReviewStep(w)
    <2>1. CASE Review(w)
      <3>1. PICK R \in ClaimedBatches(w) : \E P, Q :
               proc'[w] = [proc[w] EXCEPT !.pc = IF P = {} THEN "update"
                                                 ELSE IF AutoWrite THEN "dedupe"
                                                 ELSE "retry",
                                          !.claimed = @ \ R, !.batch = R,
                                          !.approved = P, !.rejected = Q]
        BY <1>a, <2>1, Zenon DEF Review
      <3>2. R \subseteq proc[w].claimed /\ proc[w].pc = "pick"
        BY <2>1 DEF ClaimedBatches, Review
      <3>3. proc'[w].claimed = proc[w].claimed \ R /\ proc'[w].batch = R
        BY <1>t, <3>1 DEF LocalState
      <3>. QED
        BY <1>h, <3>2, <3>3 DEF ReviewPc, UpdateReviewed, RetryOrFail
    <2>2. CASE ReviewRaises(w)
      <3>1. PICK R \in ClaimedBatches(w) :
               proc'[w] = [proc[w] EXCEPT !.pc = "retry", !.claimed = @ \ R, !.batch = R]
        BY <1>a, <2>2 DEF ReviewRaises
      <3>2. R \subseteq proc[w].claimed /\ proc[w].pc = "pick"
        BY <2>2 DEF ClaimedBatches, ReviewRaises
      <3>3. proc'[w].claimed = proc[w].claimed \ R /\ proc'[w].batch = R
        BY <1>t, <3>1 DEF LocalState
      <3>. QED
        BY <1>h, <3>2, <3>3 DEF ReviewPc, UpdateReviewed, RetryOrFail
    <2>3. CASE UpdateReviewed(w)
      <3>1. proc'[w].claimed = proc[w].claimed /\ proc'[w].pc = "writeback"
        BY <1>a, <1>t, <2>3 DEF UpdateReviewed, Goto, LocalState
      <3>. QED
        BY <1>h, <2>3, <3>1 DEF ReviewPc, UpdateReviewed
    <2>4. CASE Writeback(w)
      <3>1. \/ proc'[w] = AfterBatch(w)
            \/ /\ proc'[w].claimed = proc[w].claimed /\ proc'[w].batch = proc[w].batch
               /\ proc'[w].pc = "settle_done"
        BY <1>a, <1>t, <2>4 DEF Writeback, LocalState
      <3>. QED
        BY <1>c, <1>e, <1>h, <2>4, <3>1 DEF ReviewPc, Writeback, UpdateReviewed, RetryOrFail
    <2>5. ~WritebackUnreadable(w)
      BY DEF WritebackUnreadable, EveryRecordReadable
    <2>6. CASE RetryOrFail(w)
      <3>1. \/ proc'[w] = AfterBatch(w)
            \/ proc'[w].claimed = proc[w].claimed /\ proc'[w].pc = "settle_failed"
        BY <1>a, <1>t, <2>6 DEF RetryOrFail, LocalState
      <3>2. proc[w].claimed \cap proc[w].batch = {}
        BY <2>6 DEF RetryOrFail, ReviewPc
      <3>. QED
        BY <1>c, <1>h, <3>1, <3>2 DEF ReviewPc
    <2>7. CASE SettleJob(w)
      <3>1. PICK j : proc'[w] = IF proc[w].left = {j} THEN AfterBatch(w)
                                ELSE [proc[w] EXCEPT !.left = @ \ {j}]
        BY <1>a, <2>7 DEF SettleJob
      <3>2. Less([proc[w] EXCEPT !.left = @ \ {j}])
        BY <1>t, <2>7 DEF SettleJob, LocalState, ReviewPc
      <3>. QED
        BY SMTT(30), <1>c, <1>h, <2>7, <3>1, <3>2 DEF SettleJob, UpdateReviewed, RetryOrFail
    <2>8. CASE ReviewFault(w)
      <3>1. /\ proc'[w].claimed = proc[w].claimed /\ proc'[w].batch = proc[w].batch
            /\ proc[w].pc \in {"dedupe", "check", "write", "update"}
            /\ proc'[w].pc = "retry"
        BY ZenonT(60), <1>a, <1>t, <2>8 DEF ReviewFault, LocalState, WorkersOnly
      <3>2. UpdateReviewed(w) => proc'[w].pc = "writeback"
        BY <1>a, <1>t DEF UpdateReviewed, Goto, LocalState
      <3>3. Less(proc'[w])
        BY <1>e, <3>1 DEF ReviewPc
      <3>. QED
        BY <1>h, <3>1, <3>2, <3>3 DEF RetryOrFail
    <2>. QED
      BY <1>4, <2>1, <2>2, <2>3, <2>4, <2>5, <2>6, <2>7, <2>8 DEF ReviewStep
  <1>. QED
    BY <1>1, <1>2, <1>3, <1>4, <1>t DEF StepOf

LEMMA HeldInit == Init => HeldInv
  <1>. SUFFICES ASSUME Init PROVE HeldInv
    OBVIOUS
  <1>1. ASSUME NEW w \in Workers
        PROVE  ClaimedRecords(w) = {} /\ proc[w].claimed = {}
    BY DEF Init, Actors, At, ClaimedRecords
  <1>. QED
    BY <1>1, InitInd, ReadableInit DEF HeldInv, RecordHeldByOne

LEMMA HeldNext ==
  ASSUME WorkersOnly, HeldInv, [Next]_vars
  PROVE  HeldInv'
  <1>t. TypeOK /\ \A w \in Workers : w \in Actors /\ w \notin Tools
    BY ActorsAssumption DEF HeldInv, IInv, Actors
  <1>u. \A w \in Workers : ClaimedRecords(w) \subseteq Records
    BY <1>t DEF TypeOK, ClaimedRecords, LocalState
  <1>1. IInv' /\ EveryRecordReadable'
    BY <1>t, NextInd, ReadableNext DEF HeldInv, WorkersOnly
  \* A claim takes pending records, so nobody else's.
  <1>2. ASSUME NEW w \in Workers, ClaimReviews(w)
        PROVE  \E C \in SUBSET Records :
                  /\ \A r \in C : recs[r].st = "pending" /\ recs'[r].st = "reviewing"
                  /\ ClaimedRecords(w)' = C
                  /\ proc'[w].pc \in ReviewPc => proc'[w].batch = {}
    <2>1. PICK C \in SUBSET Records :
             /\ IsClaim(recs, C, RecordLimit)
             /\ recs' = ClaimRecords(recs, C)
             /\ proc'[w] = IF C = {} THEN At(Start(w))
                           ELSE [At("pick") EXCEPT
                                   !.claimed = C,
                                   !.seen = [r \in Records |-> IF r \in C
                                               THEN recs'[r] ELSE NoRecord]]
      BY <1>2, <1>t DEF ClaimReviews, Become, TypeOK
    <2>2. \A r \in C : recs[r].st = "pending"
      BY <2>1 DEF IsClaim, FirstAttempt, RetryDue, InStatus
    <2>3. \A r \in C : recs'[r].st = "reviewing"
      BY <2>1, <1>t, ClaimedRows DEF TypeOK
    <2>4. ClaimedRecords(w)' = C /\ proc'[w].batch = {}
      BY <2>1 DEF ClaimedRecords, At, ReviewPc
    <2>. QED
      BY <2>2, <2>3, <2>4
  <1>3. ASSUME NEW w \in Workers
        PROVE  /\ \/ ClaimedRecords(w)' \subseteq ClaimedRecords(w)
                  \/ ClaimReviews(w)
               /\ proc'[w].pc \in ReviewPc => proc'[w].claimed \cap proc'[w].batch = {}
    <2>1. CASE proc'[w] = proc[w]
      BY <2>1 DEF HeldInv, ClaimedRecords
    <2>2. CASE ClaimReviews(w)
      BY <1>2, <2>2
    <2>3. CASE StepOf(w) /\ ~ClaimReviews(w)
      BY <1>t, <2>3, HoldsLess DEF HeldInv
    <2>. QED
      BY <1>t, <2>1, <2>2, <2>3, OneMoves
  \* What a worker still holds, no step has written back.
  <1>4. ASSUME NEW w \in Workers, NEW r \in ClaimedRecords(w)'
        PROVE  recs'[r].st = "reviewing"
    <2>1. CASE ClaimReviews(w)
      BY <1>2, <2>1
    <2>2. CASE ~ClaimReviews(w)
      <3>1. r \in ClaimedRecords(w) /\ recs[r].st = "reviewing" /\ r \in Records
        BY <1>3, <1>u, <2>2 DEF HeldInv
      <3>2. ASSUME NEW v \in Workers, WorkerWrote(v, r) PROVE FALSE
        <4>1. r \in proc[v].batch /\ (UpdateReviewed(v) \/ RetryOrFail(v))
          BY <3>2 DEF WorkerWrote
        <4>2. r \in ClaimedRecords(v)
          BY <4>1 DEF ClaimedRecords, ReviewPc, UpdateReviewed, RetryOrFail
        <4>3. v = w
          BY <3>1, <4>2 DEF HeldInv, RecordHeldByOne
        <4>4. StepOf(w)
          BY <4>1, <4>3 DEF StepOf, ReviewStep
        <4>. QED
          BY <1>t, <2>2, <4>1, <4>3, <4>4, HoldsLess DEF HeldInv
      <3>. QED
        BY <1>t, <3>1, <3>2, RowSteps
        DEF RowStep, Queued, FallsDue, Claimed, WorkersOnly
    <2>. QED
      BY <2>1, <2>2
  <1>5. ASSUME NEW w \in Workers, NEW v \in Workers, w # v
        PROVE  ClaimedRecords(w)' \cap ClaimedRecords(v)' = {}
    <2>1. CASE ClaimReviews(w)
      <3>1. ~ClaimReviews(v) \/ ClaimedRecords(v)' \subseteq ClaimedRecords(v)
        <4>1. proc'[v] = proc[v]
          BY <1>5, <1>t, <2>1 DEF ClaimReviews, Become, TypeOK
        <4>. QED
          BY <4>1 DEF ClaimedRecords
      <3>. QED
        BY <1>2, <1>3, <2>1, <3>1 DEF HeldInv
    <2>2. CASE ClaimReviews(v)
      <3>1. ClaimedRecords(w)' \subseteq ClaimedRecords(w)
        <4>1. proc'[w] = proc[w]
          BY <1>5, <1>t, <2>2 DEF ClaimReviews, Become, TypeOK
        <4>. QED
          BY <4>1 DEF ClaimedRecords
      <3>. QED
        BY <1>2, <2>2, <3>1 DEF HeldInv
    <2>3. CASE ~ClaimReviews(w) /\ ~ClaimReviews(v)
      BY <1>3, <1>5, <2>3 DEF HeldInv, RecordHeldByOne
    <2>. QED
      BY <2>1, <2>2, <2>3
  <1>. QED
    BY <1>1, <1>3, <1>4, <1>5 DEF HeldInv, RecordHeldByOne

\* No two workers review one record at a time, for any number of them, with
\* crashes and with faults up to the write-back, as long as nobody commits or
\* resolves by hand.
THEOREM ReviewedByOne ==
  ASSUME WorkersOnly
  PROVE  Spec => []RecordHeldByOne
  <1>1. HeldInv => RecordHeldByOne
    BY DEF HeldInv
  <1>2. HeldInv /\ [Next]_vars => HeldInv'
    BY HeldNext
  <1>. QED
    BY <1>1, <1>2, HeldInit, PTL DEF Spec

(***************************************************************************)
(* Why a job fails.  A worker fails a job whose extraction raised, which   *)
(* has no records yet, or one of whose records it has just given up.       *)
(***************************************************************************)
Barren(j) == RecordsOf(j) = {}
GivenUp(j) == \E r \in RecordsOf(j) : recs[r].st = "failed"

CauseInv ==
    /\ HeldInv /\ FailedHasCause
    /\ \A w \in Workers :
          /\ proc[w].pc = "to_failed" => \A j \in proc[w].left : Barren(j)
          /\ proc[w].pc = "settle_failed" => \A j \in proc[w].left : GivenUp(j)

\* A record keeps its origin, and a new one names only jobs being extracted.
LEMMA OriginKept ==
  ASSUME WorkersOnly, HeldInv, [Next]_vars, NEW r \in Records
  PROVE  /\ recs[r].st = "failed" => recs'[r] = recs[r]
         /\ \/ recs'[r].src = recs[r].src
            \/ \E v \in Workers : recs'[r].src \subseteq proc[v].held
  <1>t. TypeOK
    BY DEF HeldInv, IInv
  <1>1. ASSUME NEW w \in Workers, WorkerWrote(w, r)
        PROVE  recs'[r].src = recs[r].src /\ recs[r].st # "failed"
    <2>1. proc[w].seen[r].src = recs[r].src
      BY <1>1 DEF HeldInv, IInv, Knows, Remembers, WorkerWrote
    <2>. QED
      BY <1>t, <1>1, <2>1, WrittenFields DEF WorkerWrote
  <1>2. CASE Queued(r)
    <2>1. recs[r].src = {}
      BY <1>2 DEF Queued, HeldInv, IInv, Sources
    <2>. QED
      BY <1>2, <2>1 DEF Queued, IsHeadGroup
  <1>. QED
    BY <1>t, <1>1, <1>2, RowSteps DEF RowStep, FallsDue, Claimed, WorkersOnly

\* A job leaves for "failed" from the left of a worker that fails its jobs.
LEMMA FailingJob ==
  ASSUME TypeOK, [Next]_vars, NEW j \in Jobs, jobs'[j].st = "failed", jobs[j].st # "failed"
  PROVE  \E w \in Workers :
            /\ \/ SetGroupStatus(w) /\ proc[w].pc = "to_failed"
               \/ SettleJob(w) /\ proc[w].pc = "settle_failed"
            /\ j \in proc[w].left /\ recs' = recs
  <1>t. jobs \in [Jobs -> JobRow] /\ \A w \in Workers : proc[w].left \subseteq Jobs
    BY DEF TypeOK, LocalState, Actors
  <1>1. CASE \E i \in Jobs : Enqueue(i)
    BY <1>t, <1>1 DEF Enqueue, EnqueueJob
  <1>2. ASSUME NEW w \in Workers, DropOverDepth(w) \/ ClaimJobs(w) PROVE FALSE
    <2>1. PICK S : \/ jobs' = SetStatus(jobs, S, "dropped")
                   \/ jobs' = SetStatus(jobs, S, "extracting")
      BY <1>2 DEF DropOverDepth, ClaimJobs
    <2>. QED
      BY <1>t, <2>1, StatusAfter
  <1>3. ASSUME NEW w \in Workers, SetGroupStatus(w)
        PROVE  proc[w].pc = "to_failed" /\ j \in proc[w].left /\ recs' = recs
    <2>1. PICK i \in proc[w].left :
             jobs' = UpdateJobStatus(jobs, i, GroupStatus(proc[w].pc), "extracting")
      BY <1>3 DEF SetGroupStatus
    <2>2. i \in Jobs
      BY <1>t
    <2>3. jobs'[j].st = IF j = i /\ jobs[j].st = "extracting"
                        THEN GroupStatus(proc[w].pc) ELSE jobs[j].st
      BY <1>t, <2>1, <2>2, StatusUpdated
    <2>4. j = i /\ GroupStatus(proc[w].pc) = "failed"
      BY <2>3
    <2>. QED
      BY <1>3, <2>4 DEF SetGroupStatus, GroupStatus
  <1>4. ASSUME NEW w \in Workers, SettleJob(w)
        PROVE  proc[w].pc = "settle_failed" /\ j \in proc[w].left /\ recs' = recs
    <2>. DEFINE to == IF proc[w].pc = "settle_done" THEN "done" ELSE "failed"
    <2>1. PICK i \in proc[w].left : jobs' = UpdateJobStatus(jobs, i, to, "reviewing")
      BY <1>4 DEF SettleJob
    <2>2. i \in Jobs
      BY <1>t
    <2>3. jobs'[j].st = IF j = i /\ jobs[j].st = "reviewing" THEN to ELSE jobs[j].st
      BY <1>t, <2>1, <2>2, StatusUpdated
    <2>4. j = i /\ to = "failed"
      BY <2>3
    <2>. QED
      BY <1>4, <2>4 DEF SettleJob
  <1>5. jobs' # jobs
    OBVIOUS
  <1>. QED
    BY <1>1, <1>2, <1>3, <1>4, <1>5
    DEF Next, vars, Produce, QueueRun, Elapse, IngestStep, Extract, ExtractRaises,
        SetGroupStatusRaises, WriteStep, Dedupe, CheckContradictions,
        AssertRelations, ReviewStep, ClaimReviews, Review, ReviewRaises,
        UpdateReviewed, Writeback, WritebackUnreadable, RetryOrFail, ReviewFault,
        ToolStep, SelectToCommit, SelectToResolve, Select, ValidateApproves,
        ValidateBlocks, MarkSelected, ResolveSelected, Crash

\* How a worker comes to fail jobs, and to go on failing them.
LEMMA ToFailing ==
  ASSUME TypeOK, NEW w \in Workers, StepOf(w),
         proc'[w].pc \in {"to_failed", "settle_failed"}
  PROVE  \/ /\ proc'[w].pc = proc[w].pc /\ proc'[w].left \subseteq proc[w].left
            /\ recs' = recs
         \/ /\ ExtractRaises(w) /\ proc'[w].pc = "to_failed"
            /\ proc'[w].left \subseteq proc[w].held
         \/ /\ SetGroupStatusRaises(w) /\ proc'[w].pc = "to_failed"
            /\ proc'[w].left = proc[w].group
         \/ /\ RetryOrFail(w) /\ proc'[w].pc = "settle_failed"
            /\ proc'[w].left = SourceJobs(Exhausted(w))
  <1>t. /\ w \in Actors /\ w \notin Tools
        /\ proc[w] \in LocalState /\ proc \in [Actors -> LocalState]
    BY ActorsAssumption DEF TypeOK, Actors
  <1>a. \A p : Become(w, p) => proc'[w] = p
    BY <1>t DEF Become
  <1>. DEFINE Ends(p) == p.pc \notin {"to_failed", "settle_failed"}
  <1>b. /\ \A l : l \notin {"to_failed", "settle_failed"} => Ends(At(l))
        /\ Ends(AfterGroup(w)) /\ Ends(AfterBatch(w))
        /\ Ends(AfterWrite(w)) /\ Ends(AfterRefusal(w))
    BY <1>t DEF AfterGroup, AfterBatch, AfterWrite, AfterRefusal, AfterIngest, Start,
                At, LocalState
  <1>1. CASE IngestStep(w)
    <2>1. CASE DropOverDepth(w)
      BY <1>a, <1>t, <2>1 DEF DropOverDepth, Goto, LocalState
    <2>2. CASE ClaimJobs(w)
      <3>1. PICK C : proc'[w] = IF C = {} THEN At(AfterIngest(w))
                                ELSE [At("group") EXCEPT !.held = C]
        BY <1>a, <2>2 DEF ClaimJobs
      <3>. QED
        BY <3>1 DEF At, AfterIngest
    <2>3. ASSUME NEW G, NEW l \in {"to_done", "to_reviewing", "to_failed"},
                 TakeGroup(w, G, l)
          PROVE  /\ proc'[w].pc = l /\ proc'[w].left \subseteq proc[w].held
      BY <1>a, <1>t, <2>3 DEF TakeGroup, IsHeadGroup, LocalState
    <2>4. CASE Extract(w)
      <3>1. \E G : TakeGroup(w, G, "to_done") \/ TakeGroup(w, G, "to_reviewing")
        BY <2>4, Zenon DEF Extract
      <3>. QED
        BY <2>3, <3>1
    <2>5. CASE ExtractRaises(w)
      BY <2>3, <2>5 DEF ExtractRaises
    <2>6. CASE SetGroupStatus(w)
      BY <1>a, <1>b, <1>t, <2>6 DEF SetGroupStatus, LocalState
    <2>7. CASE SetGroupStatusRaises(w)
      BY <1>a, <1>t, <2>7 DEF SetGroupStatusRaises, LocalState
    <2>. QED
      BY <1>1, <2>1, <2>2, <2>4, <2>5, <2>6, <2>7 DEF IngestStep
  <1>2. CASE WriteStep(w)
    <2>1. CASE Dedupe(w)
      BY <1>a, <1>b, <1>t, <2>1 DEF Dedupe, LocalState
    <2>2. CASE CheckContradictions(w)
      BY <1>a, <1>b, <1>t, <2>2 DEF CheckContradictions, LocalState
    <2>3. CASE AssertRelations(w)
      BY <1>a, <1>b, <1>t, <2>3 DEF AssertRelations, LocalState
    <2>. QED
      BY <1>2, <2>1, <2>2, <2>3 DEF WriteStep
  <1>3. CASE Crash(w)
    BY <1>a, <1>b, <1>3 DEF Crash, Start
  <1>4. CASE ReviewStep(w)
    <2>1. CASE ClaimReviews(w)
      <3>1. PICK C : proc'[w] = IF C = {} THEN At(Start(w))
                                ELSE [At("pick") EXCEPT
                                        !.claimed = C,
                                        !.seen = [r \in Records |-> IF r \in C
                                                    THEN recs'[r] ELSE NoRecord]]
        BY <1>a, <2>1 DEF ClaimReviews
      <3>. QED
        BY <3>1 DEF At, Start
    <2>2. CASE Review(w)
      <3>1. \E R, P, Q :
               proc'[w] = [proc[w] EXCEPT !.pc = IF P = {} THEN "update"
                                                 ELSE IF AutoWrite THEN "dedupe"
                                                 ELSE "retry",
                                          !.claimed = @ \ R, !.batch = R,
                                          !.approved = P, !.rejected = Q]
        BY <1>a, <2>2, Zenon DEF Review
      <3>. QED
        BY <1>t, <3>1 DEF LocalState
    <2>3. CASE ReviewRaises(w)
      <3>1. \E R : proc'[w] = [proc[w] EXCEPT !.pc = "retry", !.claimed = @ \ R,
                                             !.batch = R]
        BY <1>a, <2>3, Zenon DEF ReviewRaises
      <3>. QED
        BY <1>t, <3>1 DEF LocalState
    <2>4. CASE UpdateReviewed(w) \/ WritebackUnreadable(w) \/ ReviewFault(w)
      BY <1>a, <1>t, <2>4 DEF UpdateReviewed, WritebackUnreadable, ReviewFault, Goto,
                              LocalState
    <2>5. CASE Writeback(w)
      BY <1>a, <1>b, <1>t, <2>5 DEF Writeback, LocalState
    <2>6. CASE RetryOrFail(w)
      BY <1>a, <1>b, <1>t, <2>6 DEF RetryOrFail, LocalState
    <2>7. CASE SettleJob(w)
      BY <1>a, <1>b, <1>t, <2>7 DEF SettleJob, LocalState
    <2>. QED
      BY <1>4, <2>1, <2>2, <2>3, <2>4, <2>5, <2>6, <2>7 DEF ReviewStep
  <1>. QED
    BY <1>1, <1>2, <1>3, <1>4, <1>t DEF StepOf

LEMMA CauseInit == Init => CauseInv
  <1>. SUFFICES ASSUME Init PROVE CauseInv
    OBVIOUS
  <1>1. FailedHasCause
    BY DEF Init, FailedHasCause, InStatus
  <1>2. \A w \in Workers : proc[w].left = {}
    BY DEF Init, Actors, At
  <1>. QED
    BY <1>1, <1>2, HeldInit DEF CauseInv

LEMMA CauseNext ==
  ASSUME WorkersOnly, "to_reviewing" \notin FaultAt, CauseInv, [Next]_vars
  PROVE  CauseInv'
  <1>t. /\ TypeOK /\ TypeOK' /\ IInv /\ HeldInv /\ HeldInv'
        /\ \A w \in Workers : w \in Actors /\ w \notin Tools
    BY HeldNext, ActorsAssumption DEF CauseInv, HeldInv, IInv, Actors
  <1>1. ASSUME NEW j \in Jobs, GivenUp(j) PROVE GivenUp(j)'
    <2>1. PICK r \in Records : j \in recs[r].src /\ recs[r].st = "failed"
      BY <1>1 DEF GivenUp, RecordsOf
    <2>2. recs'[r] = recs[r]
      BY <1>t, <2>1, OriginKept
    <2>. QED
      BY <2>1, <2>2 DEF GivenUp, RecordsOf
  <1>2. ASSUME NEW j \in Jobs, Barren(j), \A v \in Workers : j \notin proc[v].held
        PROVE  Barren(j)'
    BY <1>t, <1>2, OriginKept DEF Barren, RecordsOf
  <1>3. \A j \in Jobs : recs' = recs => (Barren(j) => Barren(j)') /\ (GivenUp(j) => GivenUp(j)')
    BY DEF Barren, GivenUp, RecordsOf
  <1>4. FailedHasCause'
    <2>. SUFFICES ASSUME NEW j \in Jobs, jobs'[j].st = "failed"
                  PROVE  Barren(j)' \/ GivenUp(j)'
      BY <1>t DEF FailedHasCause, InStatus, Barren, GivenUp, TypeOK
    <2>1. CASE jobs[j].st = "failed"
      <3>1. Barren(j) \/ GivenUp(j)
        BY <1>t, <2>1 DEF CauseInv, FailedHasCause, InStatus, Barren, GivenUp, TypeOK
      <3>2. \A v \in Workers : j \notin proc[v].held
        BY <1>t, <2>1 DEF IInv, InHand
      <3>. QED
        BY <1>1, <1>2, <3>1, <3>2
    <2>2. CASE jobs[j].st # "failed"
      BY <1>3, <1>t, <2>2, FailingJob DEF CauseInv
    <2>. QED
      BY <2>1, <2>2
  <1>5. ASSUME NEW w \in Workers
        PROVE  /\ proc'[w].pc = "to_failed" => \A j \in proc'[w].left : Barren(j)'
               /\ proc'[w].pc = "settle_failed" => \A j \in proc'[w].left : GivenUp(j)'
    <2>l. /\ proc[w].left \subseteq Jobs /\ proc'[w].left \subseteq Jobs
          /\ proc[w].held \subseteq Jobs /\ proc[w].group \subseteq Jobs
      BY <1>t DEF TypeOK, LocalState
    <2>1. CASE proc'[w] = proc[w]
      <3>1. CASE proc[w].pc = "to_failed"
        <4>1. \A j \in proc[w].left : \A v \in Workers : j \notin proc[v].held
          BY <1>t, <3>1 DEF IInv, InHand, GroupPc
        <4>. QED
          BY <1>2, <2>1, <2>l, <3>1, <4>1 DEF CauseInv
      <3>2. CASE proc[w].pc = "settle_failed"
        BY <1>1, <2>1, <2>l, <3>2 DEF CauseInv
      <3>. QED
        BY <2>1, <3>1, <3>2
    <2>2. CASE /\ proc'[w].pc = proc[w].pc /\ proc'[w].left \subseteq proc[w].left
               /\ recs' = recs
      BY <1>3, <2>2, <2>l DEF CauseInv
    <2>3. CASE /\ ExtractRaises(w) /\ proc'[w].pc = "to_failed"
               /\ proc'[w].left \subseteq proc[w].held
      <3>1. \A j \in proc[w].held : Barren(j)
        BY <1>t DEF IInv, Sources, Barren, RecordsOf
      <3>2. recs' = recs
        BY <2>3 DEF ExtractRaises
      <3>. QED
        BY <1>3, <2>3, <2>l, <3>1, <3>2
    <2>4. CASE /\ SetGroupStatusRaises(w) /\ proc'[w].pc = "to_failed"
               /\ proc'[w].left = proc[w].group
      <3>1. proc[w].pc = "to_done" /\ recs' = recs
        BY <2>4 DEF SetGroupStatusRaises
      <3>2. \A j \in proc[w].group : Barren(j)
        BY <1>t, <3>1 DEF IInv, Knows, Barren
      <3>. QED
        BY <1>3, <2>4, <2>l, <3>1, <3>2
    <2>5. CASE /\ RetryOrFail(w) /\ proc'[w].pc = "settle_failed"
               /\ proc'[w].left = SourceJobs(Exhausted(w))
      <3>. SUFFICES ASSUME NEW j \in proc'[w].left PROVE GivenUp(j)'
        BY <2>5
      <3>1. PICK r \in Exhausted(w) : j \in recs[r].src
        BY <2>5 DEF SourceJobs
      <3>2. r \in proc[w].batch /\ r \in Records
        BY <1>t DEF Exhausted, TypeOK, LocalState
      <3>3. recs[r].st = "reviewing"
        BY <1>t, <2>5, <3>2 DEF HeldInv, ClaimedRecords, ReviewPc, RetryOrFail
      <3>4. recs'[r] = FailureRow(w, r)
        BY <2>5, <3>2, <3>3 DEF RetryOrFail, UpdateRecords
      <3>5. WorkerWrote(w, r)
        BY <2>5, <3>2, <3>3, <3>4 DEF WorkerWrote
      <3>6. recs'[r].st = "failed"
        BY <1>t, <2>5, <3>2, <3>5, WrittenFields DEF RetryOrFail
      <3>7. recs'[r].src = recs[r].src
        BY <1>t, <3>2, <3>5, WrittenFields DEF IInv, Knows, Remembers
      <3>. QED
        BY <3>1, <3>2, <3>6, <3>7 DEF GivenUp, RecordsOf
    <2>. QED
      BY <1>t, <2>1, <2>2, <2>3, <2>4, <2>5, OneMoves, ToFailing
  <1>. QED
    BY <1>4, <1>5, <1>t DEF CauseInv

\* A job fails only because its extraction failed and left nothing, or because
\* one of its records was given up.  A fault between queueing the records and
\* saying so, or after a write-back, is the exception: hence the hypotheses.
THEOREM FailuresHaveCause ==
  ASSUME WorkersOnly, "to_reviewing" \notin FaultAt
  PROVE  Spec => []FailedHasCause
  <1>1. CauseInv => FailedHasCause
    BY DEF CauseInv
  <1>2. CauseInv /\ [Next]_vars => CauseInv'
    BY CauseNext
  <1>. QED
    BY <1>1, <1>2, CauseInit, PTL DEF Spec

(***************************************************************************)
(* Merged turns                                                            *)
(*                                                                         *)
(* Turns are extracted together only when they are consecutive turns of    *)
(* one conversation.  The code compares neighbours in claim order only;    *)
(* that the whole group fits together is an induction along that order,    *)
(* done here by the first job that does not fit.                           *)
(***************************************************************************)
\* The order in which jobs are claimed.
Before(a, b) == ClaimedBefore(jobs, a, b)

LEMMA ClaimOrder ==
  ASSUME jobs \in [Jobs -> JobRow], NEW a \in Jobs, NEW b \in Jobs
  PROVE  /\ ~Before(a, a)
         /\ ~(Before(a, b) /\ Before(b, a))
         /\ jobs[a].at # jobs[b].at => Before(a, b) \/ Before(b, a)
         /\ \A c \in Jobs : Before(a, b) /\ Before(b, c) => Before(a, c)
  <1>1. \A j \in Jobs : jobs[j].at \in Nat /\ Priority(j) \in {0, 1}
    BY DEF JobRow, Priority
  <1>. QED
    BY <1>1 DEF Before, ClaimedBefore

\* Every set of jobs has a first one in claim order.
LEMMA FirstInOrder ==
  ASSUME jobs \in [Jobs -> JobRow], NEW T \in SUBSET Jobs, T # {}
  PROVE  \E x \in T : \A y \in T : ~Before(y, x)
  <1>1. \A j \in Jobs : jobs[j].at \in Nat /\ Priority(j) \in {0, 1}
    BY DEF JobRow, Priority
  <1>2. ASSUME NEW U \in SUBSET T, U # {},
               \A u \in U, t \in T : Priority(u) >= Priority(t),
               \A t \in T : (\E u \in U : Priority(u) = Priority(t)) => t \in U
        PROVE  \E x \in T : \A y \in T : ~Before(y, x)
    <2>. DEFINE A == {jobs[u].at : u \in U}
    <2>1. A \in SUBSET Nat /\ A # {}
      BY <1>1, <1>2
    <2>2. PICK n \in A : \A m \in A : n <= m
      BY <2>1, LeastNat
    <2>3. PICK x \in U : jobs[x].at = n
      OBVIOUS
    <2>4. ASSUME NEW y \in T PROVE ~Before(y, x)
      <3>1. y \in U => jobs[x].at <= jobs[y].at
        BY <2>2, <2>3
      <3>2. Priority(x) >= Priority(y) /\ (Priority(x) = Priority(y) => y \in U)
        BY <1>2, <2>3
      <3>. QED
        BY <1>1, <3>1, <3>2 DEF Before, ClaimedBefore
    <2>. QED
      BY <2>4
  <1>. DEFINE High == {t \in T : Priority(t) = 1}
  <1>3. CASE High = {}
    BY <1>1, <1>2, <1>3
  <1>4. CASE High # {}
    <2>1. /\ High \in SUBSET T
          /\ \A u \in High, t \in T : Priority(u) >= Priority(t)
          /\ \A t \in T : (\E u \in High : Priority(u) = Priority(t)) => t \in High
      BY <1>1
    <2>. HIDE DEF High
    <2>. QED
      BY <1>2, <1>4, <2>1
  <1>. QED
    BY <1>3, <1>4

\* And a last one, when the queueing times are bounded.
LEMMA LastInOrder ==
  ASSUME jobs \in [Jobs -> JobRow], NEW M \in Nat, \A j \in Jobs : jobs[j].at <= M,
         NEW T \in SUBSET Jobs, T # {}
  PROVE  \E x \in T : \A y \in T : ~Before(x, y)
  <1>1. \A j \in Jobs : jobs[j].at \in Nat /\ Priority(j) \in {0, 1}
    BY DEF JobRow, Priority
  <1>2. ASSUME NEW U \in SUBSET T, U # {},
               \A u \in U, t \in T : Priority(u) <= Priority(t),
               \A t \in T : (\E u \in U : Priority(u) = Priority(t)) => t \in U
        PROVE  \E x \in T : \A y \in T : ~Before(x, y)
    <2>. DEFINE A == {M - jobs[u].at : u \in U}
    <2>1. A \in SUBSET Nat /\ A # {}
      BY <1>1, <1>2
    <2>2. PICK n \in A : \A m \in A : n <= m
      BY <2>1, LeastNat
    <2>3. PICK x \in U : M - jobs[x].at = n
      OBVIOUS
    <2>4. ASSUME NEW y \in T PROVE ~Before(x, y)
      <3>1. y \in U => M - jobs[x].at <= M - jobs[y].at
        BY <2>2, <2>3
      <3>2. Priority(x) <= Priority(y) /\ (Priority(x) = Priority(y) => y \in U)
        BY <1>2, <2>3
      <3>. QED
        BY <1>1, <3>1, <3>2 DEF Before, ClaimedBefore
    <2>. QED
      BY <2>4
  <1>. DEFINE Low == {t \in T : Priority(t) = 0}
  <1>3. CASE Low = {}
    BY <1>1, <1>2, <1>3
  <1>4. CASE Low # {}
    <2>1. /\ Low \in SUBSET T
          /\ \A u \in Low, t \in T : Priority(u) <= Priority(t)
          /\ \A t \in T : (\E u \in Low : Priority(u) = Priority(t)) => t \in Low
      BY <1>1
    <2>. HIDE DEF Low
    <2>. QED
      BY <1>2, <1>4, <2>1
  <1>. QED
    BY <1>3, <1>4

(***************************************************************************)
(* What _merge_claimed_jobs puts together                                  *)
(***************************************************************************)
\* The turns of G are consecutive turns of one conversation, queued in order.
OneTalk(tab, G) ==
    \A i, j \in G :
        LET a == Payload[i]
            b == Payload[j]
        IN  /\ a.conv = b.conv /\ a.skip = b.skip
            /\ \A n \in a.turn..b.turn : \E k \in G : Payload[k].turn = n
            /\ a.turn < b.turn => tab[i].at < tab[j].at

LEMMA HeadGroupIsOneTalk ==
  ASSUME jobs \in [Jobs -> JobRow], NEW M \in Nat, \A j \in Jobs : jobs[j].at <= M,
         NEW S \in SUBSET Jobs, \A a, b \in S : a # b => jobs[a].at # jobs[b].at,
         NEW G, IsHeadGroup(G, S)
  PROVE  OneTalk(jobs, G)
  <1>p. \A j \in Jobs : /\ Payload[j].turn \in Int /\ Payload[j].turn >= NoTurn
                        /\ jobs[j].at \in Nat
    BY PayloadAssumption DEF JobPayload, NoTurn, JobRow
  <1>g. /\ G \subseteq S
        /\ \A a \in G, b \in S \ G : Before(a, b)
        /\ \A a, b \in G : Follows(S, a, b) => CanMerge(a, b)
    BY DEF IsHeadGroup, Before
  <1>. DEFINE Fits(i, k) ==
         /\ Payload[i].conv = Payload[k].conv /\ Payload[i].skip = Payload[k].skip
         /\ Payload[i].turn <= Payload[k].turn
         /\ \A n \in Payload[i].turn..Payload[k].turn : \E g \in G : Payload[g].turn = n
  <1>1. ASSUME NEW i \in G, NEW p \in G, NEW k \in G, Fits(i, p), CanMerge(p, k)
        PROVE  Fits(i, k)
    <2>1. /\ i \in Jobs /\ p \in Jobs /\ k \in Jobs
      BY <1>g
    <2>2. /\ Payload[p].conv = Payload[k].conv /\ Payload[p].skip = Payload[k].skip
          /\ \/ Payload[k].turn = Payload[p].turn
             \/ Payload[k].turn = Payload[p].turn + 1
      BY <1>1 DEF CanMerge
    <2>3. \A n \in Payload[i].turn..Payload[k].turn :
             n \in Payload[i].turn..Payload[p].turn \/ n = Payload[k].turn
      BY <1>p, <2>1, <2>2
    <2>. QED
      BY <1>1, <1>p, <2>1, <2>2, <2>3
  <1>2. ASSUME NEW i \in G, NEW j \in G, Before(i, j)
        PROVE  Fits(i, j)
    <2>. DEFINE Bad == {k \in G : Before(i, k) /\ ~Fits(i, k)}
    <2>. SUFFICES ASSUME Bad # {} PROVE FALSE
      BY <1>2
    <2>1. PICK k \in Bad : \A y \in Bad : ~Before(y, k)
      BY <1>g, FirstInOrder
    <2>. DEFINE Earlier == {g \in G : Before(g, k)}
    <2>2. PICK p \in Earlier : \A y \in Earlier : ~Before(p, y)
      <3>1. Earlier \in SUBSET Jobs /\ Earlier # {}
        BY <1>g
      <3>. HIDE DEF Earlier
      <3>. QED
        BY <3>1, LastInOrder
    <2>j. i \in Jobs /\ k \in Jobs /\ p \in Jobs /\ i \in S /\ k \in S /\ p \in S
      BY <1>g
    <2>3. p = i \/ Before(i, p)
      BY <2>2, <2>j, ClaimOrder
    <2>4. Fits(i, p)
      <3>1. CASE p = i
        BY <1>p, <2>j, <3>1
      <3>2. CASE Before(i, p)
        BY <2>1, <2>2, <3>2
      <3>. QED
        BY <2>3, <3>1, <3>2
    <2>5. Follows(S, p, k)
      <3>1. ASSUME NEW c \in S, Before(p, c), Before(c, k) PROVE FALSE
        <4>1. CASE c \in G
          BY <2>2, <3>1, <4>1
        <4>2. CASE c \notin G
          BY <1>g, <2>j, <3>1, <4>2, ClaimOrder
        <4>. QED
          BY <4>1, <4>2
      <3>. QED
        BY <2>2, <3>1 DEF Follows, Before
    <2>6. CanMerge(p, k)
      BY <1>g, <2>5
    <2>. QED
      BY <1>1, <2>4, <2>6
  <1>3. ASSUME NEW i \in G, NEW j \in G
        PROVE  /\ Payload[i].conv = Payload[j].conv /\ Payload[i].skip = Payload[j].skip
               /\ \A n \in Payload[i].turn..Payload[j].turn : \E k \in G : Payload[k].turn = n
               /\ Payload[i].turn < Payload[j].turn => jobs[i].at < jobs[j].at
    <2>j. i \in Jobs /\ j \in Jobs /\ i \in S /\ j \in S
      BY <1>g
    <2>1. CASE i = j
      BY <1>p, <2>1, <2>j
    <2>2. CASE Before(i, j)
      <3>1. Fits(i, j)
        BY <1>2, <2>2
      <3>2. Priority(i) = Priority(j)
        BY <3>1 DEF Priority
      <3>3. jobs[i].at < jobs[j].at
        BY <2>2, <3>2, <2>j, <1>p DEF Before, ClaimedBefore, Priority
      <3>. QED
        BY <3>1, <3>3
    <2>3. CASE Before(j, i)
      <3>1. Fits(j, i)
        BY <1>2, <2>3
      <3>2. \A n \in Payload[i].turn..Payload[j].turn : n = Payload[i].turn
        BY <3>1, <1>p, <2>j
      <3>. QED
        BY <3>1, <3>2, <1>p, <2>j
    <2>. QED
      BY <2>1, <2>2, <2>3, <2>j, ClaimOrder
  <1>. QED
    BY <1>3 DEF OneTalk

(***************************************************************************)
(* When jobs were queued: each at a time of its own, before the next.      *)
(***************************************************************************)
QueuedJobs == Jobs \ InStatus(jobs, "absent")

InQueueOrder ==
    /\ \A j \in Jobs : jobs[j].at <= Cardinality(Jobs)
    /\ \A j \in QueuedJobs : jobs[j].at < Cardinality(QueuedJobs)
    /\ \A i, j \in QueuedJobs : i # j => jobs[i].at # jobs[j].at

\* A job is queued, or every job keeps its time and stays queued or not.
TimesKept ==
    \A j \in Jobs : /\ jobs'[j].at = jobs[j].at
                    /\ jobs'[j].st = "absent" <=> jobs[j].st = "absent"

LEMMA TimesStay ==
  ASSUME TypeOK, [Next]_vars
  PROVE  TimesKept \/ \E j \in Jobs : Enqueue(j)
  <1>t. jobs \in [Jobs -> JobRow]
    BY DEF TypeOK
  <1>a. ASSUME NEW S, NEW s, s # "absent", \A j \in S : j \in Jobs => jobs[j].st # "absent",
               jobs' = SetStatus(jobs, S, s)
        PROVE  TimesKept
    BY <1>t, <1>a DEF SetStatus, JobRow, TimesKept
  <1>1. ASSUME NEW w \in Workers, DropOverDepth(w) \/ ClaimJobs(w) PROVE TimesKept
    <2>1. /\ \A j \in JobsOverDepth(jobs, QueueDepth) : jobs[j].st = "pending"
          /\ \A j \in JobsToClaim(jobs, JobLimit) : jobs[j].st = "pending"
      BY DEF JobsOverDepth, JobsToClaim, InStatus
    <2>2. CASE DropOverDepth(w)
      BY <1>a, <2>1, <2>2 DEF DropOverDepth
    <2>3. CASE ClaimJobs(w)
      BY <1>a, <2>1, <2>3 DEF ClaimJobs
    <2>. QED
      BY <1>1, <2>2, <2>3
  <1>2. ASSUME NEW w \in Workers, SetGroupStatus(w) \/ SettleJob(w) PROVE TimesKept
    <2>1. PICK i, to, from : /\ from \in {"extracting", "reviewing"} /\ to # "absent"
                             /\ jobs' = UpdateJobStatus(jobs, i, to, from)
      BY <1>2 DEF SetGroupStatus, SettleJob, GroupStatus
    <2>2. \A j \in {i} \cap InStatus(jobs, from) : jobs[j].st = from
      BY DEF InStatus
    <2>. QED
      BY <1>a, <2>1, <2>2 DEF UpdateJobStatus
  <1>3. CASE jobs' = jobs
    BY <1>3 DEF TimesKept
  <1>. QED
    BY <1>1, <1>2, <1>3
    DEF Next, vars, Produce, QueueRun, Elapse, IngestStep, Extract, ExtractRaises,
        SetGroupStatusRaises, WriteStep, Dedupe, CheckContradictions,
        AssertRelations, ReviewStep, ClaimReviews, Review, ReviewRaises,
        UpdateReviewed, Writeback, WritebackUnreadable, RetryOrFail, ReviewFault,
        ToolStep, SelectToCommit, SelectToResolve, Select, ValidateApproves,
        ValidateBlocks, MarkSelected, ResolveSelected, Crash

LEMMA QueueOrderNext ==
  ASSUME TypeOK, TypeOK', InQueueOrder, [Next]_vars
  PROVE  InQueueOrder'
  <1>t. jobs \in [Jobs -> JobRow] /\ DOMAIN jobs = Jobs /\ DOMAIN jobs' = Jobs
    BY DEF TypeOK
  <1>n. \A j \in Jobs : /\ j \in QueuedJobs <=> jobs[j].st # "absent"
                        /\ j \in QueuedJobs' <=> jobs'[j].st # "absent"
    BY <1>t DEF QueuedJobs, InStatus
  <1>1. CASE TimesKept
    <2>1. QueuedJobs' = QueuedJobs
      BY <1>n, <1>1 DEF TimesKept, QueuedJobs
    <2>2. QueuedJobs \subseteq Jobs
      BY DEF QueuedJobs
    <2>. QED
      BY <1>1, <2>1, <2>2 DEF TimesKept, InQueueOrder
  <1>2. ASSUME NEW i \in Jobs, Enqueue(i) PROVE InQueueOrder'
    <2>. DEFINE n == Cardinality(QueuedJobs)
    <2>1. /\ jobs'[i].at = n /\ jobs'[i].st = "pending" /\ jobs[i].st = "absent"
          /\ \A j \in Jobs : j # i => jobs'[j] = jobs[j]
      BY <1>t, <1>2 DEF Enqueue, EnqueueJob, QueuedJobs
    <2>2. QueuedJobs' = QueuedJobs \cup {i} /\ i \notin QueuedJobs
      <3>1. QueuedJobs \subseteq Jobs /\ QueuedJobs' \subseteq Jobs
        BY DEF QueuedJobs
      <3>. QED
        BY <1>n, <2>1, <3>1
    <2>3. /\ IsFiniteSet(QueuedJobs) /\ n \in Nat /\ n <= Cardinality(Jobs)
          /\ Cardinality(Jobs) \in Nat
      BY JobsAssumption, FS_Subset, FS_CardinalityType DEF QueuedJobs
    <2>4. Cardinality(QueuedJobs') = n + 1
      BY <2>2, <2>3, FS_AddElement
    <2>5. \A j \in Jobs : jobs[j].at \in Nat
      BY <1>t DEF JobRow
    <2>6. QueuedJobs \subseteq Jobs /\ \A j \in QueuedJobs : jobs[j].at < n
      BY DEF QueuedJobs, InQueueOrder
    <2>. HIDE DEF n
    <2>7. \A j \in Jobs : jobs'[j].at <= Cardinality(Jobs)
      BY <2>1, <2>3 DEF InQueueOrder
    <2>8. \A j \in QueuedJobs' : jobs'[j].at < n + 1
      BY <2>1, <2>2, <2>3, <2>5, <2>6
    <2>9. \A a, b \in QueuedJobs' : a # b => jobs'[a].at # jobs'[b].at
      <3>1. \A a, b \in QueuedJobs : a # b => jobs'[a].at # jobs'[b].at
        BY <2>1, <2>2, <2>6 DEF InQueueOrder
      <3>2. \A a \in QueuedJobs : jobs'[a].at # n
        BY <2>1, <2>2, <2>3, <2>5, <2>6
      <3>. QED
        BY <2>1, <2>2, <3>1, <3>2
    <2>. QED
      BY <2>4, <2>7, <2>8, <2>9 DEF InQueueOrder
  <1>. QED
    BY <1>1, <1>2, TimesStay

(***************************************************************************)
(* The theorem                                                             *)
(***************************************************************************)
MergedInv == IInv /\ InQueueOrder /\ MergedIsOneTalk

\* A row keeps its origin, or names a group that is being extracted.
LEMMA OriginsSet ==
  ASSUME IInv, [Next]_vars, NEW r \in Records
  PROVE  \/ recs'[r].src = recs[r].src
         \/ recs'[r].src = {}
         \/ \E w \in Workers : Extract(w) /\ IsHeadGroup(recs'[r].src, proc[w].held)
  <1>1. ASSUME NEW w \in Workers, WorkerWrote(w, r) PROVE recs'[r].src = recs[r].src
    <2>1. proc[w].seen[r].src = recs[r].src
      BY <1>1 DEF IInv, Knows, Remembers, WorkerWrote
    <2>. QED
      BY <1>1, <2>1, WrittenFields DEF IInv
  <1>. QED
    BY <1>1, RowSteps DEF IInv, RowStep, Queued, FallsDue, Claimed, ToolWrote

LEMMA MergedInit == Init => MergedInv
  <1>. SUFFICES ASSUME Init PROVE MergedInv
    OBVIOUS
  <1>1. QueuedJobs = {} /\ \A j \in Jobs : jobs[j].at = 0
    BY DEF Init, QueuedJobs, InStatus
  <1>2. Cardinality(Jobs) \in Nat
    BY JobsAssumption, FS_CardinalityType
  <1>3. InQueueOrder
    BY <1>1, <1>2 DEF InQueueOrder
  <1>4. MergedIsOneTalk
    BY DEF Init, NoRecord, MergedIsOneTalk
  <1>. QED
    BY <1>3, <1>4, InitInd DEF MergedInv

LEMMA MergedNext ==
  ASSUME MergedInv, [Next]_vars
  PROVE  MergedInv'
  <1>t. IInv /\ IInv' /\ TypeOK /\ TypeOK' /\ InQueueOrder'
    BY NextInd, QueueOrderNext DEF MergedInv, IInv
  <1>1. ASSUME NEW r \in Records PROVE OneTalk(jobs', recs'[r].src)
    <2>s. recs'[r].src \in SUBSET Jobs
      BY <1>t DEF TypeOK, RecordRow
    <2>1. CASE recs'[r].src = recs[r].src
      <3>1. OneTalk(jobs, recs[r].src)
        BY DEF MergedInv, MergedIsOneTalk, OneTalk
      <3>2. \A j \in recs[r].src : jobs'[j].at = jobs[j].at
        <4>1. \A j \in recs[r].src : j \in Jobs /\ jobs[j].st # "absent"
          BY <1>t, <2>s, <2>1 DEF IInv, Sources, Taken
        <4>2. CASE TimesKept
          BY <4>1, <4>2 DEF TimesKept
        <4>3. ASSUME NEW i \in Jobs, Enqueue(i)
              PROVE  \A j \in recs[r].src : jobs'[j].at = jobs[j].at
          BY <1>t, <4>1, <4>3 DEF Enqueue, EnqueueJob, TypeOK
        <4>. QED
          BY <1>t, <4>2, <4>3, TimesStay
      <3>. QED
        BY <2>1, <3>1, <3>2 DEF OneTalk
    <2>2. CASE recs'[r].src = {}
      BY <2>2 DEF OneTalk
    <2>3. ASSUME NEW w \in Workers, Extract(w), IsHeadGroup(recs'[r].src, proc[w].held)
          PROVE  OneTalk(jobs', recs'[r].src)
      <3>1. jobs' = jobs
        BY <2>3 DEF Extract
      <3>2. proc[w].held \in SUBSET Jobs /\ proc[w].held \subseteq QueuedJobs
        BY <1>t, Hands DEF QueuedJobs, InStatus
      <3>3. \A a, b \in proc[w].held : a # b => jobs[a].at # jobs[b].at
        BY <3>2 DEF MergedInv, InQueueOrder
      <3>4. Cardinality(Jobs) \in Nat /\ \A j \in Jobs : jobs[j].at <= Cardinality(Jobs)
        BY JobsAssumption, FS_CardinalityType DEF MergedInv, InQueueOrder
      <3>5. OneTalk(jobs, recs'[r].src)
        BY <1>t, <2>3, <3>2, <3>3, <3>4, HeadGroupIsOneTalk DEF TypeOK
      <3>. QED
        BY <3>1, <3>5 DEF OneTalk
    <2>. QED
      BY <1>t, <2>1, <2>2, <2>3, OriginsSet
  <1>2. MergedIsOneTalk'
    BY <1>1 DEF MergedIsOneTalk, OneTalk
  <1>. QED
    BY <1>t, <1>2 DEF MergedInv

\* Turns extracted together are consecutive turns of one conversation, in the
\* order they were queued, for any number of jobs and workers and any limits:
\* _merge_claimed_jobs compares neighbours only, and that is enough, because
\* a job is queued once, at a time of its own, and its row keeps that time.
THEOREM MergedTurnsFit == Spec => []MergedIsOneTalk
  <1>1. MergedInv => MergedIsOneTalk
    BY DEF MergedInv
  <1>2. MergedInv /\ [Next]_vars => MergedInv'
    BY MergedNext
  <1>. QED
    BY <1>1, <1>2, MergedInit, PTL DEF Spec
=============================================================================
