------------------------ MODULE IngestPipeline_proofs ------------------------
(***************************************************************************)
(* Proofs about IngestPipeline, for any number of jobs, records, workers   *)
(* and tools, any limits, and with crashes and faults anywhere.            *)
(***************************************************************************)
EXTENDS IngestPipeline, FiniteSetTheorems, TLAPS

Pc == WorkerPc \cup ToolPc

(***************************************************************************)
(* Types                                                                   *)
(***************************************************************************)
LEMMA NoRecordType == NoRecord \in RecordRow
  <1>1. (CHOOSE k \in Keys : TRUE) \in Keys
    BY KeysAssumption
  <1>2. 0 \in 0..(MaxRetries + 1)
    BY MaxRetriesAssumption
  <1>. QED
    BY <1>1, <1>2 DEF NoRecord, RecordRow, RecordStatus, GateAction

LEMMA AtType ==
  ASSUME NEW l \in Pc
  PROVE  At(l) \in LocalState
  BY NoRecordType DEF At, LocalState, Pc

LEMMA StartType ==
  ASSUME NEW a \in Actors
  PROVE  Start(a) \in Pc /\ AfterIngest(a) \in Pc
  BY DEF Start, AfterIngest, Pc, WorkerPc, ToolPc

\* The process variable keeps its type when one process moves to a typed state.
LEMMA BecomeType ==
  ASSUME proc \in [Actors -> LocalState],
         NEW a \in Actors, NEW p \in LocalState, Become(a, p)
  PROVE  proc' \in [Actors -> LocalState]
  BY DEF Become

LEMMA GotoType ==
  ASSUME proc \in [Actors -> LocalState],
         NEW a \in Actors, NEW l \in Pc, Goto(a, l)
  PROVE  proc' \in [Actors -> LocalState]
  <1>1. [proc[a] EXCEPT !.pc = l] \in LocalState
    BY DEF LocalState, Pc
  <1>. QED
    BY <1>1, BecomeType DEF Goto

LEMMA SetJobStatusType ==
  ASSUME NEW tab \in [Jobs -> JobRow], NEW S, NEW s \in JobStatus
  PROVE  SetStatus(tab, S, s) \in [Jobs -> JobRow]
  BY DEF SetStatus, JobRow

LEMMA SetRecordStatusType ==
  ASSUME NEW tab \in [Records -> RecordRow], NEW S, NEW s \in RecordStatus
  PROVE  SetStatus(tab, S, s) \in [Records -> RecordRow]
  BY DEF SetStatus, RecordRow

LEMMA EnqueueRecordsType ==
  ASSUME NEW tab \in [Records -> RecordRow], NEW B \in SUBSET Records,
         NEW S \in SUBSET Jobs, NEW key \in [B -> Keys], NEW v \in BOOLEAN
  PROVE  EnqueueRecords(tab, B, S, key, v) \in [Records -> RecordRow]
  <1>1. 0 \in 0..(MaxRetries + 1)
    BY MaxRetriesAssumption
  <1>. QED
    BY <1>1 DEF EnqueueRecords, RecordRow, RecordStatus, GateAction

LEMMA ClaimRecordsType ==
  ASSUME NEW tab \in [Records -> RecordRow], NEW C \in SUBSET Records
  PROVE  ClaimRecords(tab, C) \in [Records -> RecordRow]
  <1>. DEFINE row(r) == [tab[r] EXCEPT !.st = "reviewing",
                                       !.tries = IF @ > MaxRetries THEN @ ELSE @ + 1]
  <1>1. ASSUME NEW r \in Records PROVE row(r) \in RecordRow
    <2>1. tab[r] \in RecordRow
      OBVIOUS
    <2>2. (IF tab[r].tries > MaxRetries THEN tab[r].tries ELSE tab[r].tries + 1)
             \in 0..(MaxRetries + 1)
      BY <2>1, MaxRetriesAssumption DEF RecordRow
    <2>. QED
      BY <2>1, <2>2 DEF RecordRow, RecordStatus
  <1>. QED
    BY <1>1 DEF ClaimRecords

LEMMA UpdateRecordsType ==
  ASSUME NEW tab \in [Records -> RecordRow], NEW B \in SUBSET Records,
         NEW new \in [B -> RecordRow], NEW s
  PROVE  UpdateRecords(tab, new, s) \in [Records -> RecordRow]
  BY DEF UpdateRecords

LEMMA RewrittenType ==
  ASSUME TypeOK, NEW w \in Workers, NEW r \in Records
  PROVE  Reviewed(w, r) \in RecordRow /\ FailureRow(w, r) \in RecordRow
  <1>1. proc[w].seen[r] \in RecordRow
    BY DEF TypeOK, Actors, LocalState
  <1>2. \A st \in RecordStatus, g \in GateAction, t \in {"none", "waiting", "due"} :
           Rewritten(w, r, st, g, t) \in RecordRow
    BY <1>1 DEF Rewritten, RecordRow
  <1>3. \A row \in RecordRow : [row EXCEPT !.reviewed = TRUE] \in RecordRow
    BY DEF RecordRow
  <1>4. /\ Rewritten(w, r, "committed", "auto_write", "none") \in RecordRow
        /\ Rewritten(w, r, "resolved", "reject", "none") \in RecordRow
        /\ Rewritten(w, r, "pending", "queue", "waiting") \in RecordRow
        /\ Rewritten(w, r, "failed", "queue", "none") \in RecordRow
    BY <1>2 DEF RecordStatus, GateAction
  <1>. QED
    BY <1>3, <1>4 DEF Reviewed, FailureRow

\* Ends of a group leave the process at a typed state.
LEMMA AfterType ==
  ASSUME TypeOK, NEW a \in Actors
  PROVE  AfterGroup(a) \in LocalState /\ AfterBatch(a) \in LocalState
         /\ AfterWrite(a) \in LocalState /\ AfterRefusal(a) \in LocalState
  <1>. USE DEF TypeOK
  <1>0. proc[a] \in LocalState
    OBVIOUS
  <1>1. AfterGroup(a) \in LocalState
    <2>1. \A l \in Pc : [At(l) EXCEPT !.held = proc[a].held] \in LocalState
      BY <1>0, AtType DEF LocalState
    <2>2. "group" \in Pc /\ AfterIngest(a) \in Pc
      BY StartType DEF Pc, WorkerPc
    <2>. QED
      BY <2>1, <2>2 DEF AfterGroup
  <1>2. AfterBatch(a) \in LocalState
    <2>1. "pick" \in Pc /\ Start(a) \in Pc
      BY StartType DEF Pc, WorkerPc
    <2>2. At("pick") \in LocalState /\ At(Start(a)) \in LocalState
      BY <2>1, AtType
    <2>3. [At("pick") EXCEPT !.claimed = proc[a].claimed, !.seen = proc[a].seen]
             \in LocalState
      BY <1>0, <2>2 DEF LocalState
    <2>. QED
      BY <2>2, <2>3 DEF AfterBatch
  <1>3. \A l \in Pc : [proc[a] EXCEPT !.pc = l, !.news = {}] \in LocalState
    BY <1>0 DEF LocalState, Pc
  <1>4. AfterWrite(a) \in LocalState
    BY <1>3 DEF AfterWrite, Pc, WorkerPc, ToolPc
  <1>5. AfterRefusal(a) \in LocalState
    BY <1>3, AtType DEF AfterRefusal, Pc, WorkerPc, ToolPc
  <1>. QED
    BY <1>1, <1>2, <1>4, <1>5

LEMMA InitType == Init => TypeOK
  <1>. SUFFICES ASSUME Init PROVE TypeOK
    OBVIOUS
  <1>1. jobs \in [Jobs -> JobRow]
    BY DEF Init, JobRow, JobStatus
  <1>2. recs \in [Records -> RecordRow]
    BY NoRecordType DEF Init
  <1>3. graph \in [Keys -> 0..2]
    BY DEF Init
  <1>4. proc \in [Actors -> LocalState]
    BY StartType, AtType DEF Init
  <1>. QED
    BY <1>1, <1>2, <1>3, <1>4 DEF TypeOK

(***************************************************************************)
(* Every action keeps the types, one lemma for each group of actions.      *)
(***************************************************************************)
LEMMA ProduceType ==
  ASSUME TypeOK, Produce
  PROVE  TypeOK'
  <1>. USE DEF TypeOK
  <1>1. ASSUME NEW j \in Jobs, Enqueue(j) PROVE TypeOK'
    <2>1. Jobs \ InStatus(jobs, "absent") \in SUBSET Jobs
      OBVIOUS
    <2>2. Cardinality(Jobs \ InStatus(jobs, "absent")) \in Nat
      BY <2>1, JobsAssumption, FS_Subset, FS_CardinalityType
    <2>. QED
      BY <1>1, <2>2 DEF Enqueue, EnqueueJob, JobRow, JobStatus
  <1>2. ASSUME NEW B \in SUBSET Records, NEW key \in [B -> Keys], QueueRun(B, key)
        PROVE  TypeOK'
    BY <1>2, EnqueueRecordsType DEF QueueRun
  <1>3. ASSUME NEW r \in Records, Elapse(r) PROVE TypeOK'
    <2>1. [recs[r] EXCEPT !.retry = "due"] \in RecordRow
      BY DEF RecordRow
    <2>. QED
      BY <1>3, <2>1 DEF Elapse
  <1>. QED
    BY <1>1, <1>2, <1>3 DEF Produce

LEMMA IngestType ==
  ASSUME TypeOK, NEW w \in Workers, IngestStep(w)
  PROVE  TypeOK'
  <1>. USE DEF TypeOK
  <1>0. w \in Actors /\ proc[w] \in LocalState
    BY DEF Actors
  <1>1. CASE DropOverDepth(w)
    <2>1. "claim" \in Pc /\ "dropped" \in JobStatus
      BY DEF Pc, WorkerPc, JobStatus
    <2>. QED
      BY <1>0, <1>1, <2>1, GotoType, SetJobStatusType DEF DropOverDepth
  <1>2. CASE ClaimJobs(w)
    <2>. DEFINE C == JobsToClaim(jobs, JobLimit)
    <2>1. C \subseteq Jobs
      BY DEF JobsToClaim, InStatus
    <2>2. At("group") \in LocalState /\ At(AfterIngest(w)) \in LocalState
      BY <1>0, AtType, StartType DEF Pc, WorkerPc
    <2>3. [At("group") EXCEPT !.held = C] \in LocalState
      BY <2>1, <2>2 DEF LocalState
    <2>4. proc' \in [Actors -> LocalState]
      BY <1>0, <1>2, <2>2, <2>3, BecomeType DEF ClaimJobs
    <2>5. jobs' \in [Jobs -> JobRow]
      BY <1>2, SetJobStatusType DEF ClaimJobs, JobStatus
    <2>. QED
      BY <1>2, <2>4, <2>5 DEF ClaimJobs
  <1>3. ASSUME NEW G, NEW l \in Pc, TakeGroup(w, G, l)
        PROVE  proc' \in [Actors -> LocalState] /\ G \in SUBSET Jobs
    <2>1. G \in SUBSET Jobs
      BY <1>0, <1>3 DEF TakeGroup, IsHeadGroup, LocalState
    <2>2. [proc[w] EXCEPT !.pc = l, !.held = @ \ G, !.group = G, !.left = G]
             \in LocalState
      BY <1>0, <2>1 DEF LocalState, Pc
    <2>. QED
      BY <1>0, <1>3, <2>1, <2>2, BecomeType DEF TakeGroup
  <1>4. CASE Extract(w)
    <2>1. PICK G \in SUBSET proc[w].held, B \in SUBSET FreshRecords(recs) :
             /\ TakeGroup(w, G, IF B = {} THEN "to_done" ELSE "to_reviewing")
             /\ \E key \in [B -> Keys] :
                   recs' = EnqueueRecords(recs, B, G, key, FALSE)
      BY <1>4 DEF Extract
    <2>2. proc' \in [Actors -> LocalState] /\ G \in SUBSET Jobs
      BY <1>3, <2>1 DEF Pc, WorkerPc
    <2>3. B \in SUBSET Records
      BY DEF FreshRecords, InStatus
    <2>4. recs' \in [Records -> RecordRow]
      <3>1. PICK key \in [B -> Keys] : recs' = EnqueueRecords(recs, B, G, key, FALSE)
        BY <2>1
      <3>. QED
        BY <2>2, <2>3, <3>1, EnqueueRecordsType
    <2>. QED
      BY <1>4, <2>2, <2>4 DEF Extract
  <1>5. CASE ExtractRaises(w)
    BY <1>3, <1>5 DEF ExtractRaises, Pc, WorkerPc
  <1>6. CASE SetGroupStatus(w)
    <2>1. GroupStatus(proc[w].pc) \in JobStatus
      BY <1>6 DEF SetGroupStatus, GroupStatus, JobStatus
    <2>2. jobs' \in [Jobs -> JobRow]
      BY <1>6, <2>1, SetJobStatusType DEF SetGroupStatus, UpdateJobStatus
    <2>3. \A j : [proc[w] EXCEPT !.left = @ \ {j}] \in LocalState
      BY <1>0 DEF LocalState
    <2>4. proc' \in [Actors -> LocalState]
      BY <1>0, <1>6, <2>3, AfterType, BecomeType DEF SetGroupStatus
    <2>. QED
      BY <1>6, <2>2, <2>4 DEF SetGroupStatus
  <1>7. CASE SetGroupStatusRaises(w)
    <2>1. [proc[w] EXCEPT !.pc = "to_failed", !.left = proc[w].group] \in LocalState
      BY <1>0 DEF LocalState, WorkerPc
    <2>. QED
      BY <1>0, <1>7, <2>1, BecomeType DEF SetGroupStatusRaises
  <1>. QED
    BY <1>1, <1>2, <1>4, <1>5, <1>6, <1>7 DEF IngestStep

LEMMA WriteType ==
  ASSUME TypeOK, NEW a \in Actors, WriteStep(a)
  PROVE  TypeOK'
  <1>. USE DEF TypeOK
  <1>0. proc[a] \in LocalState
    OBVIOUS
  <1>1. CASE Dedupe(a)
    <2>1. KeysOf(proc[a].approved) \ StoredKeys \in SUBSET Keys
      BY <1>0 DEF KeysOf, LocalState, RecordRow
    <2>2. [proc[a] EXCEPT !.pc = "check",
                          !.news = KeysOf(proc[a].approved) \ StoredKeys] \in LocalState
      BY <1>0, <2>1 DEF LocalState, WorkerPc
    <2>. QED
      BY <1>1, <2>2, AfterType, BecomeType DEF Dedupe
  <1>2. CASE CheckContradictions(a)
    <2>1. [proc[a] EXCEPT !.pc = "write"] \in LocalState
      BY <1>0 DEF LocalState, WorkerPc
    <2>. QED
      BY <1>2, <2>1, AfterType, BecomeType DEF CheckContradictions
  <1>3. CASE AssertRelations(a)
    <2>1. graph' \in [Keys -> 0..2]
      BY <1>3 DEF AssertRelations
    <2>. QED
      BY <1>3, <2>1, AfterType, BecomeType DEF AssertRelations
  <1>. QED
    BY <1>1, <1>2, <1>3 DEF WriteStep

LEMMA ReviewType ==
  ASSUME TypeOK, NEW w \in Workers, ReviewStep(w)
  PROVE  TypeOK'
  <1>. USE DEF TypeOK
  <1>0. w \in Actors /\ proc[w] \in LocalState
    BY DEF Actors
  <1>1. CASE ClaimReviews(w)
    <2>1. PICK C \in SUBSET Records :
             /\ recs' = ClaimRecords(recs, C)
             /\ Become(w, IF C = {} THEN At(Start(w))
                          ELSE [At("pick") EXCEPT
                                  !.claimed = C,
                                  !.seen = [r \in Records |-> IF r \in C
                                              THEN recs'[r] ELSE NoRecord]])
      BY <1>1 DEF ClaimReviews
    <2>2. recs' \in [Records -> RecordRow]
      BY <2>1, ClaimRecordsType
    <2>3. At("pick") \in LocalState /\ At(Start(w)) \in LocalState
      BY <1>0, AtType, StartType DEF Pc, WorkerPc
    <2>4. [r \in Records |-> IF r \in C THEN recs'[r] ELSE NoRecord]
             \in [Records -> RecordRow]
      BY <2>2, NoRecordType
    <2>5. [At("pick") EXCEPT
              !.claimed = C,
              !.seen = [r \in Records |-> IF r \in C THEN recs'[r] ELSE NoRecord]]
             \in LocalState
      BY <2>3, <2>4 DEF LocalState
    <2>6. proc' \in [Actors -> LocalState]
      BY <1>0, <2>1, <2>3, <2>5, BecomeType
    <2>. QED
      BY <1>1, <2>2, <2>6 DEF ClaimReviews
  <1>2. ASSUME NEW R \in ClaimedBatches(w) PROVE R \in SUBSET Records
    BY <1>0, <1>2 DEF ClaimedBatches, LocalState
  <1>3. CASE Review(w)
    <2>. DEFINE next(R, P, Q) ==
           [proc[w] EXCEPT !.pc = IF P = {} THEN "update"
                                  ELSE IF AutoWrite THEN "dedupe" ELSE "retry",
                           !.claimed = @ \ R, !.batch = R,
                           !.approved = P, !.rejected = Q]
    <2>1. PICK R \in ClaimedBatches(w) :
             \E P \in SUBSET R : \E Q \in SUBSET (R \ P) : Become(w, next(R, P, Q))
      BY <1>3 DEF Review
    <2>2. PICK P \in SUBSET R : \E Q \in SUBSET (R \ P) : Become(w, next(R, P, Q))
      BY <2>1
    <2>3. PICK Q \in SUBSET (R \ P) : Become(w, next(R, P, Q))
      BY <2>2
    <2>4. R \in SUBSET Records
      BY <1>2
    <2>5. P \in SUBSET Records /\ Q \in SUBSET Records
      BY <2>4
    <2>6. next(R, P, Q) \in LocalState
      BY <1>0, <2>4, <2>5 DEF LocalState, WorkerPc
    <2>7. proc' \in [Actors -> LocalState]
      BY <1>0, <2>3, <2>6, BecomeType
    <2>. QED
      BY <1>3, <2>7 DEF Review
  <1>4. CASE ReviewRaises(w)
    <2>1. PICK R \in ClaimedBatches(w) :
             Become(w, [proc[w] EXCEPT !.pc = "retry", !.claimed = @ \ R, !.batch = R])
      BY <1>4 DEF ReviewRaises
    <2>2. [proc[w] EXCEPT !.pc = "retry", !.claimed = @ \ R, !.batch = R] \in LocalState
      BY <1>0, <1>2 DEF LocalState, WorkerPc
    <2>. QED
      BY <1>0, <1>4, <2>1, <2>2, BecomeType DEF ReviewRaises
  <1>5. proc[w].batch \in SUBSET Records
    BY <1>0 DEF LocalState
  <1>6. CASE UpdateReviewed(w)
    <2>1. [r \in proc[w].batch |-> Reviewed(w, r)] \in [proc[w].batch -> RecordRow]
      BY <1>5, RewrittenType
    <2>2. recs' \in [Records -> RecordRow]
      BY <1>5, <1>6, <2>1, UpdateRecordsType DEF UpdateReviewed
    <2>. QED
      BY <1>0, <1>6, <2>2, GotoType DEF UpdateReviewed, Pc, WorkerPc
  <1>7. CASE Writeback(w)
    <2>. DEFINE D == JobsToSettle(proc[w].batch)
    <2>1. D \in SUBSET Jobs
      BY <1>5 DEF JobsToSettle, SourceJobs, RecordRow
    <2>2. [proc[w] EXCEPT !.pc = "settle_done", !.left = D] \in LocalState
      BY <1>0, <2>1 DEF LocalState, WorkerPc
    <2>3. proc' \in [Actors -> LocalState]
      BY <1>0, <1>7, <2>2, AfterType, BecomeType DEF Writeback
    <2>. QED
      BY <1>7, <2>3 DEF Writeback
  <1>8. CASE WritebackUnreadable(w)
    BY <1>0, <1>8, GotoType DEF WritebackUnreadable, Pc, WorkerPc
  <1>9. CASE RetryOrFail(w)
    <2>. DEFINE F == SourceJobs(Exhausted(w))
    <2>1. F \in SUBSET Jobs
      BY <1>5 DEF SourceJobs, Exhausted, RecordRow
    <2>2. [proc[w] EXCEPT !.pc = "settle_failed", !.left = F] \in LocalState
      BY <1>0, <2>1 DEF LocalState, WorkerPc
    <2>3. [r \in proc[w].batch |-> FailureRow(w, r)] \in [proc[w].batch -> RecordRow]
      BY <1>5, RewrittenType
    <2>4. recs' \in [Records -> RecordRow]
      BY <1>5, <1>9, <2>3, UpdateRecordsType DEF RetryOrFail
    <2>5. proc' \in [Actors -> LocalState]
      BY <1>0, <1>9, <2>2, AfterType, BecomeType DEF RetryOrFail
    <2>. QED
      BY <1>9, <2>4, <2>5 DEF RetryOrFail
  <1>10. CASE SettleJob(w)
    <2>1. \A j : [proc[w] EXCEPT !.left = @ \ {j}] \in LocalState
      BY <1>0 DEF LocalState
    <2>2. proc' \in [Actors -> LocalState]
      BY <1>0, <1>10, <2>1, AfterType, BecomeType DEF SettleJob
    <2>3. jobs' \in [Jobs -> JobRow]
      BY <1>10, SetJobStatusType DEF SettleJob, UpdateJobStatus, JobStatus
    <2>. QED
      BY <1>10, <2>2, <2>3 DEF SettleJob
  <1>11. CASE ReviewFault(w)
    <2>1. [proc[w] EXCEPT !.pc = "retry", !.left = {}, !.news = {}] \in LocalState
      BY <1>0 DEF LocalState, WorkerPc
    <2>. QED
      BY <1>0, <1>11, <2>1, BecomeType DEF ReviewFault
  <1>. QED
    BY <1>1, <1>3, <1>4, <1>6, <1>7, <1>8, <1>9, <1>10, <1>11 DEF ReviewStep

LEMMA ToolType ==
  ASSUME TypeOK, NEW t \in Tools, ToolStep(t)
  PROVE  TypeOK'
  <1>. USE DEF TypeOK
  <1>0. t \in Actors /\ proc[t] \in LocalState
    BY DEF Actors
  <1>1. \A l \in Pc : At(l) \in LocalState
    BY AtType
  <1>2. At("idle") \in LocalState
    BY <1>1 DEF Pc, ToolPc
  <1>3. ASSUME NEW S \in SUBSET Records, NEW l \in Pc, Select(t, S, l) PROVE TypeOK'
    <2>1. [At(l) EXCEPT !.batch = S] \in LocalState
      BY <1>1 DEF LocalState
    <2>. QED
      BY <1>0, <1>3, <2>1, BecomeType DEF Select
  <1>4. CASE SelectToCommit(t)
    BY <1>3, <1>4 DEF SelectToCommit, Pc, ToolPc
  <1>5. CASE SelectToResolve(t)
    BY <1>3, <1>5 DEF SelectToResolve, Pc, ToolPc
  <1>6. CASE ValidateApproves(t)
    <2>1. [proc[t] EXCEPT !.pc = "dedupe", !.approved = proc[t].batch] \in LocalState
      BY <1>0 DEF LocalState, ToolPc
    <2>. QED
      BY <1>0, <1>6, <2>1, BecomeType DEF ValidateApproves
  <1>7. CASE ValidateBlocks(t)
    BY <1>0, <1>2, <1>7, BecomeType DEF ValidateBlocks
  <1>8. CASE MarkSelected(t)
    <2>1. recs' \in [Records -> RecordRow]
      BY <1>8, SetRecordStatusType DEF MarkSelected, Marked, MarkCommitted, RecordStatus
    <2>. QED
      BY <1>0, <1>2, <1>8, <2>1, BecomeType DEF MarkSelected
  <1>9. CASE ResolveSelected(t)
    <2>1. recs' \in [Records -> RecordRow]
      BY <1>9, SetRecordStatusType DEF ResolveSelected, Marked, ResolveRecords, RecordStatus
    <2>. QED
      BY <1>0, <1>2, <1>9, <2>1, BecomeType DEF ResolveSelected
  <1>. QED
    BY <1>4, <1>5, <1>6, <1>7, <1>8, <1>9 DEF ToolStep

LEMMA NextType == TypeOK /\ [Next]_vars => TypeOK'
  <1>. SUFFICES ASSUME TypeOK, [Next]_vars PROVE TypeOK'
    OBVIOUS
  <1>1. CASE Produce
    BY <1>1, ProduceType
  <1>2. ASSUME NEW w \in Workers, IngestStep(w) \/ ReviewStep(w) PROVE TypeOK'
    BY <1>2, IngestType, ReviewType
  <1>3. ASSUME NEW t \in Tools, ToolStep(t) PROVE TypeOK'
    BY <1>3, ToolType
  <1>4. ASSUME NEW a \in Actors, WriteStep(a) PROVE TypeOK'
    BY <1>4, WriteType
  <1>5. ASSUME NEW a \in Actors, Crash(a) PROVE TypeOK'
    <2>1. At(Start(a)) \in LocalState
      BY AtType, StartType
    <2>. QED
      BY <1>5, <2>1, BecomeType DEF Crash, TypeOK
  <1>6. CASE UNCHANGED vars
    BY <1>6 DEF TypeOK, vars
  <1>. QED
    BY <1>1, <1>2, <1>3, <1>4, <1>5, <1>6 DEF Next

\* Every reachable state is well typed: no handler stores a row, or leaves a
\* process holding something, that the data model does not allow.
THEOREM TypeCorrect == Spec => []TypeOK
  BY InitType, NextType, PTL DEF Spec

(***************************************************************************)
(* The inductive invariant.  JobHeldByOne is not inductive: it must say    *)
(* where a job and its records can be while its owner still works on it.   *)
(***************************************************************************)
GroupPc == {"to_reviewing", "to_done", "to_failed"}
Taken(j) == jobs[j].st \in {"extracting", "reviewing", "done", "failed"}

\* The jobs in a worker's hands: owned, and by nobody else.
InHand ==
    /\ \A w \in Workers :
          /\ proc[w].pc \in GroupPc => proc[w].left \subseteq proc[w].group
          /\ proc[w].held \cap proc[w].group = {}
          /\ \A j \in proc[w].held : jobs[j].st = "extracting"
          /\ \A j \in proc[w].group : Taken(j)
          /\ proc[w].pc \in {"to_reviewing", "to_done"} =>
                \A j \in proc[w].left : jobs[j].st = "extracting"
    /\ \A w, v \in Workers : w # v =>
          (proc[w].held \cup proc[w].group) \cap (proc[v].held \cup proc[v].group) = {}

\* The records: where they come from, and that a job still to be extracted
\* has none.
Sources ==
    /\ \A r \in Records : recs[r].st = "absent" => recs[r].src = {}
    /\ \A r \in Records : \A j \in recs[r].src :
          Taken(j) /\ \A w \in Workers : j \notin proc[w].held
    /\ OneBatchPerJob

\* Something was extracted from j, and all of it is closed.
Settleable(j) == RecordsOf(j) # {} /\ \A r \in RecordsOf(j) : Closed(recs[r])

\* Worker w remembers the row of r as far as it never changes.
Remembers(p, r) ==
    /\ recs[r].st # "absent"
    /\ p.seen[r].src = recs[r].src
    /\ p.seen[r].batch = recs[r].batch

\* What a worker about to write a job's status knows of its records.
Knows ==
    \A w \in Workers :
        /\ proc[w].pc = "to_reviewing" => \A j \in proc[w].group : RecordsOf(j) # {}
        /\ proc[w].pc = "to_done" => \A j \in proc[w].group : RecordsOf(j) = {}
        /\ proc[w].pc = "settle_done" => \A j \in proc[w].left : Settleable(j)
        /\ \A r \in proc[w].claimed \cup proc[w].batch : Remembers(proc[w], r)

\* What a tool has selected has been queued.
Selected == \A t \in Tools : \A r \in proc[t].batch : recs[r].st # "absent"

IInv ==
    /\ TypeOK /\ InHand /\ Sources /\ Knows /\ Selected
    /\ DoneMeansSettled /\ ReviewingHasRecords


(***************************************************************************)
(* Steps that move no job, but for queueing one.                           *)
(***************************************************************************)
\* No record changes its origin, disappears, or opens again.
RecordsKept ==
    \A r \in Records :
        /\ recs'[r].src = recs[r].src
        /\ recs[r].st # "absent" =>
              recs'[r].st # "absent" /\ recs'[r].batch = recs[r].batch
        /\ Closed(recs[r]) => Closed(recs'[r])

JobsStay ==
    \A j \in Jobs : \/ jobs'[j].st = jobs[j].st
                    \/ jobs[j].st = "absent" /\ jobs'[j].st = "pending"

\* Worker w may become p without taking anything in hand.
Tame(w, p) ==
    /\ p.held \subseteq proc[w].held /\ p.group \subseteq proc[w].group
    /\ p.pc \in GroupPc =>
          p.pc = proc[w].pc /\ p.left = proc[w].left /\ p.group = proc[w].group
    /\ p.pc = "settle_done" => \A j \in p.left : Settleable(j)
    /\ \A r \in p.claimed \cup p.batch : Remembers(p, r)

LEMMA KeptFrame ==
  ASSUME IInv, TypeOK', JobsStay, RecordsKept,
         \A w \in Workers : Tame(w, proc'[w]),
         \A t \in Tools : \A r \in proc'[t].batch : recs[r].st # "absent"
  PROVE  IInv'
  <1>1. \A j \in Jobs : RecordsOf(j)' = RecordsOf(j)
    BY DEF RecordsOf, RecordsKept
  <1>2. \A j \in Jobs : /\ Taken(j)' <=> Taken(j)
                        /\ jobs'[j].st = "extracting" <=> jobs[j].st = "extracting"
    BY DEF Taken, JobsStay
  <1>3. \A j \in Jobs : Settleable(j) => Settleable(j)'
    BY <1>1 DEF Settleable, RecordsKept, RecordsOf
  <1>t. \A w \in Workers : /\ proc'[w] \in LocalState /\ proc[w] \in LocalState
    BY DEF IInv, TypeOK, Actors
  <1>4. InHand'
    <2>1. ASSUME NEW w \in Workers
          PROVE  /\ proc'[w].held \subseteq proc[w].held
                 /\ proc'[w].group \subseteq proc[w].group
                 /\ proc'[w].pc \in GroupPc =>
                       /\ proc'[w].pc = proc[w].pc /\ proc'[w].left = proc[w].left
                       /\ proc'[w].group = proc[w].group
      BY DEF Tame
    <2>2. ASSUME NEW w \in Workers
          PROVE  /\ proc'[w].pc \in GroupPc => proc'[w].left \subseteq proc'[w].group
                 /\ proc'[w].held \cap proc'[w].group = {}
                 /\ \A j \in proc'[w].held : jobs'[j].st = "extracting"
                 /\ \A j \in proc'[w].group : Taken(j)'
      BY <1>t, <1>2, <2>1 DEF IInv, InHand, LocalState
    <2>3. ASSUME NEW w \in Workers, proc'[w].pc \in {"to_reviewing", "to_done"}
          PROVE  \A j \in proc'[w].left : jobs'[j].st = "extracting"
      BY <1>t, <1>2, <2>1, <2>3 DEF IInv, InHand, GroupPc, LocalState
    <2>4. ASSUME NEW w \in Workers, NEW v \in Workers, w # v
          PROVE  (proc'[w].held \cup proc'[w].group)
                     \cap (proc'[v].held \cup proc'[v].group) = {}
      BY <2>1, <2>4 DEF IInv, InHand
    <2>. QED
      BY <2>2, <2>3, <2>4 DEF InHand
  <1>5. Sources'
    <2>1. \A r \in Records : recs'[r].st = "absent" => recs'[r].src = {}
      BY DEF IInv, Sources, RecordsKept
    <2>2. \A r \in Records : \A j \in recs'[r].src :
             Taken(j)' /\ \A w \in Workers : j \notin proc'[w].held
      <3>1. \A r \in Records : recs[r].src \subseteq Jobs
        BY DEF IInv, TypeOK, RecordRow
      <3>. QED
        BY <1>2, <3>1 DEF IInv, Sources, RecordsKept, Tame
    <2>3. OneBatchPerJob'
      BY DEF IInv, Sources, RecordsKept, OneBatchPerJob
    <2>. QED
      BY <2>1, <2>2, <2>3 DEF Sources
  <1>6. Knows'
    <2>1. ASSUME NEW w \in Workers
          PROVE  /\ proc'[w].pc = "to_reviewing" =>
                       \A j \in proc'[w].group : RecordsOf(j)' # {}
                 /\ proc'[w].pc = "to_done" =>
                       \A j \in proc'[w].group : RecordsOf(j)' = {}
      BY <1>1, <1>t DEF IInv, Knows, Tame, GroupPc, LocalState
    <2>2. ASSUME NEW w \in Workers, proc'[w].pc = "settle_done"
          PROVE  \A j \in proc'[w].left : Settleable(j)'
      BY <1>3, <1>t, <2>2 DEF Tame, LocalState
    <2>3. ASSUME NEW w \in Workers, NEW r \in proc'[w].claimed \cup proc'[w].batch
          PROVE  Remembers(proc[w], r)'
      <3>1. r \in Records /\ Remembers(proc'[w], r)
        BY <1>t DEF Tame, LocalState
      <3>. QED
        BY <3>1 DEF Remembers, RecordsKept
    <2>. QED
      BY <2>1, <2>2, <2>3 DEF Knows
  <1>7. DoneMeansSettled' /\ ReviewingHasRecords'
    <2>1. \A j \in Jobs : /\ jobs'[j].st = "done" => jobs[j].st = "done"
                          /\ jobs'[j].st = "reviewing" => jobs[j].st = "reviewing"
      BY DEF JobsStay
    <2>. QED
      BY <1>1, <2>1 DEF IInv, DoneMeansSettled, ReviewingHasRecords, InStatus,
                        RecordsKept, RecordsOf, TypeOK
  <1>8. Selected'
    <2>1. \A t \in Tools : proc'[t].batch \in SUBSET Records
      BY DEF TypeOK, Actors, LocalState
    <2>. QED
      BY <2>1 DEF Selected, RecordsKept
  <1>. QED
    BY <1>4, <1>5, <1>6, <1>7, <1>8 DEF IInv

\* A process that did not move is tame, and so is one that holds nothing.
LEMMA TameSame == IInv => \A w \in Workers : Tame(w, proc[w])
  BY DEF IInv, Knows, Tame

LEMMA TameAt == ASSUME NEW w \in Workers, NEW l, l \notin GroupPc, l # "settle_done"
                PROVE  Tame(w, At(l))
  BY DEF Tame, At

LEMMA TameStep ==
  ASSUME IInv, TypeOK', jobs' = jobs, RecordsKept,
         NEW a \in Actors, NEW p, Become(a, p), a \in Workers => Tame(a, p),
         a \in Tools => \A r \in p.batch : recs[r].st # "absent"
  PROVE  IInv'
  <1>1. /\ \A w \in Workers : w \in Actors
        /\ \A t \in Tools : t \in Actors
    BY DEF Actors
  <1>2. \A w \in Workers : proc'[w] = IF w = a THEN p ELSE proc[w]
    BY <1>1 DEF Become, IInv, TypeOK
  <1>3. \A w \in Workers : Tame(w, proc'[w])
    BY <1>2, TameSame
  <1>4. \A t \in Tools : proc'[t] = IF t = a THEN p ELSE proc[t]
    BY <1>1 DEF Become, IInv, TypeOK
  <1>5. \A t \in Tools : \A r \in proc'[t].batch : recs[r].st # "absent"
    BY <1>4 DEF IInv, Selected
  <1>6. JobsStay
    BY DEF JobsStay
  <1>. QED
    BY <1>3, <1>5, <1>6, KeptFrame

LEMMA SameRecordsKept == recs' = recs => RecordsKept
  BY DEF RecordsKept


\* What a worker writes over a record it claimed keeps the record's origin.
LEMMA UpdateKept ==
  ASSUME IInv, NEW w \in Workers,
         NEW new \in [proc[w].batch -> RecordRow],
         \A r \in proc[w].batch : /\ new[r].st # "absent"
                                  /\ new[r].src = proc[w].seen[r].src
                                  /\ new[r].batch = proc[w].seen[r].batch,
         recs' = UpdateRecords(recs, new, "reviewing")
  PROVE  RecordsKept
  <1>1. \A r \in proc[w].batch : Remembers(proc[w], r)
    BY DEF IInv, Knows
  <1>2. ASSUME NEW r \in Records
        PROVE  recs'[r] = IF r \in proc[w].batch /\ recs[r].st = "reviewing"
                          THEN new[r] ELSE recs[r]
    BY DEF UpdateRecords
  <1>. QED
    BY <1>1, <1>2 DEF RecordsKept, Remembers, Closed

LEMMA WrittenRows ==
  ASSUME IInv, NEW w \in Workers, NEW r \in proc[w].batch
  PROVE  /\ Reviewed(w, r).st # "absent" /\ FailureRow(w, r).st # "absent"
         /\ Reviewed(w, r).src = proc[w].seen[r].src
         /\ Reviewed(w, r).batch = proc[w].seen[r].batch
         /\ FailureRow(w, r).src = proc[w].seen[r].src
         /\ FailureRow(w, r).batch = proc[w].seen[r].batch
  <1>1. proc[w] \in LocalState
    BY DEF IInv, TypeOK, Actors
  <1>2. proc[w].seen[r] \in RecordRow
    BY <1>1 DEF LocalState
  <1>3. ASSUME NEW st, NEW g, NEW t
        PROVE  /\ Rewritten(w, r, st, g, t).st = st
               /\ Rewritten(w, r, st, g, t).src = proc[w].seen[r].src
               /\ Rewritten(w, r, st, g, t).batch = proc[w].seen[r].batch
               /\ [Rewritten(w, r, st, g, t) EXCEPT !.reviewed = TRUE].st = st
               /\ [Rewritten(w, r, st, g, t) EXCEPT !.reviewed = TRUE].src
                     = proc[w].seen[r].src
               /\ [Rewritten(w, r, st, g, t) EXCEPT !.reviewed = TRUE].batch
                     = proc[w].seen[r].batch
    BY <1>2 DEF Rewritten, RecordRow
  <1>. QED
    BY <1>3 DEF Reviewed, FailureRow

LEMMA AfterTame ==
  ASSUME IInv, NEW w \in Workers
  PROVE  /\ Tame(w, AfterBatch(w))
         /\ proc[w].pc \notin GroupPc \cup {"settle_done"} =>
               Tame(w, AfterWrite(w)) /\ Tame(w, AfterRefusal(w))
  <1>1. proc[w] \in LocalState
    BY DEF IInv, TypeOK, Actors
  <1>2. \A r \in proc[w].claimed \cup proc[w].batch : Remembers(proc[w], r)
    BY DEF IInv, Knows
  <1>3. Start(w) \notin GroupPc \cup {"settle_done"}
    BY DEF Start, GroupPc
  <1>4. Tame(w, AfterBatch(w))
    BY <1>2, <1>3 DEF AfterBatch, Tame, At, GroupPc, Remembers
  <1>5. ASSUME NEW l, l \notin GroupPc \cup {"settle_done"}
        PROVE  Tame(w, [proc[w] EXCEPT !.pc = l, !.news = {}]) /\ Tame(w, At(l))
    BY <1>1, <1>2, <1>5 DEF Tame, At, LocalState, Remembers
  <1>6. Tame(w, AfterWrite(w)) /\ Tame(w, AfterRefusal(w))
    BY <1>5 DEF AfterWrite, AfterRefusal, GroupPc
  <1>. QED
    BY <1>4, <1>6

LEMMA WriteInd ==
  ASSUME IInv, TypeOK', NEW a \in Actors, WriteStep(a)
  PROVE  IInv'
  <1>0. recs' = recs /\ jobs' = jobs /\ RecordsKept
    BY SameRecordsKept DEF WriteStep, Dedupe, CheckContradictions, AssertRelations
  <1>t. proc[a] \in LocalState
    BY DEF IInv, TypeOK
  <1>1. ASSUME a \in Workers
        PROVE  \A l \in {"check", "write"}, K \in SUBSET Keys :
                  /\ Tame(a, [proc[a] EXCEPT !.pc = l])
                  /\ Tame(a, [proc[a] EXCEPT !.pc = l, !.news = K])
    BY <1>1, <1>t DEF Tame, IInv, Knows, LocalState, GroupPc, Remembers
  <1>2. ASSUME a \in Workers PROVE Tame(a, AfterWrite(a)) /\ Tame(a, AfterRefusal(a))
    <2>1. proc[a].pc \notin GroupPc \cup {"settle_done"}
      BY DEF WriteStep, Dedupe, CheckContradictions, AssertRelations, GroupPc
    <2>. QED
      BY <1>2, <2>1, AfterTame
  <1>b. \A l, K : /\ [proc[a] EXCEPT !.pc = l].batch = proc[a].batch
                  /\ [proc[a] EXCEPT !.pc = l, !.news = K].batch = proc[a].batch
                  /\ At(l).batch = {}
    BY <1>t DEF LocalState, At
  <1>c. a \in Tools => \A r \in proc[a].batch : recs[r].st # "absent"
    BY DEF IInv, Selected
  <1>d. AfterWrite(a).batch = proc[a].batch /\ AfterRefusal(a).batch \subseteq proc[a].batch
    BY <1>b DEF AfterWrite, AfterRefusal
  <1>3. CASE Dedupe(a)
    <2>1. KeysOf(proc[a].approved) \ StoredKeys \in SUBSET Keys
      BY <1>t DEF KeysOf, LocalState, RecordRow, IInv, TypeOK
    <2>. DEFINE p == IF KeysOf(proc[a].approved) \ StoredKeys = {} THEN AfterWrite(a)
                     ELSE [proc[a] EXCEPT !.pc = "check",
                             !.news = KeysOf(proc[a].approved) \ StoredKeys]
    <2>2. Become(a, p)
      BY <1>3 DEF Dedupe
    <2>3. a \in Workers => Tame(a, p)
      BY <1>1, <1>2, <2>1
    <2>4. p.batch = proc[a].batch
      BY <1>b, <1>d
    <2>. QED
      BY <1>0, <1>c, <2>2, <2>3, <2>4, TameStep
  <1>4. CASE CheckContradictions(a)
    <2>. DEFINE p == IF Contradictory(StoredKeys \cup proc[a].news)
                     THEN AfterRefusal(a) ELSE [proc[a] EXCEPT !.pc = "write"]
    <2>1. Become(a, p)
      BY <1>4 DEF CheckContradictions
    <2>2. a \in Workers => Tame(a, p)
      BY <1>1, <1>2
    <2>3. p.batch \subseteq proc[a].batch
      BY <1>b, <1>d
    <2>. QED
      BY <1>0, <1>c, <2>1, <2>2, <2>3, TameStep
  <1>5. CASE AssertRelations(a)
    BY <1>0, <1>2, <1>5, <1>c, <1>d, TameStep DEF AssertRelations
  <1>. QED
    BY <1>3, <1>4, <1>5 DEF WriteStep


LEMMA ClaimedRows ==
  ASSUME NEW r \in Records, recs[r] \in RecordRow, NEW C,
         recs' = ClaimRecords(recs, C)
  PROVE  /\ recs'[r].src = recs[r].src /\ recs'[r].batch = recs[r].batch
         /\ recs'[r].st = IF r \in C THEN "reviewing" ELSE recs[r].st
  <1>. DEFINE n == IF recs[r].tries > MaxRetries THEN recs[r].tries
                   ELSE recs[r].tries + 1
  <1>1. recs'[r] = IF r \in C
                   THEN [recs[r] EXCEPT !.st = "reviewing", !.tries = n]
                   ELSE recs[r]
    BY DEF ClaimRecords
  <1>. HIDE DEF n
  <1>. QED
    BY <1>1 DEF RecordRow

LEMMA ClaimKept ==
  ASSUME \A r \in Records : recs[r] \in RecordRow,
         NEW C \in SUBSET Records, \A r \in C : recs[r].st = "pending",
         recs' = ClaimRecords(recs, C)
  PROVE  RecordsKept
  BY ClaimedRows DEF RecordsKept, Closed

LEMMA ReviewInd ==
  ASSUME IInv, TypeOK', NEW w \in Workers, ReviewStep(w), ~SettleJob(w)
  PROVE  IInv'
  <1>w. w \in Actors /\ w \notin Tools
    BY ActorsAssumption DEF Actors
  <1>t. proc[w] \in LocalState
    BY <1>w DEF IInv, TypeOK
  <1>k. \A r \in proc[w].claimed \cup proc[w].batch : Remembers(proc[w], r)
    BY DEF IInv, Knows
  <1>u. proc[w].batch \in SUBSET Records
    BY <1>t DEF LocalState
  <1>1. CASE ClaimReviews(w)
    <2>. DEFINE p(C) == [At("pick") EXCEPT
                           !.claimed = C,
                           !.seen = [r \in Records |-> IF r \in C
                                       THEN recs'[r] ELSE NoRecord]]
    <2>1. PICK C \in SUBSET Records :
             /\ IsClaim(recs, C, RecordLimit)
             /\ recs' = ClaimRecords(recs, C)
             /\ Become(w, IF C = {} THEN At(Start(w)) ELSE p(C))
      BY <1>1 DEF ClaimReviews
    <2>2. \A r \in C : recs[r].st = "pending"
      BY <2>1 DEF IsClaim, FirstAttempt, RetryDue, InStatus
    <2>3. \A r \in Records : recs[r] \in RecordRow
      BY DEF IInv, TypeOK
    <2>4. RecordsKept
      BY <2>1, <2>2, <2>3, ClaimKept
    <2>5. \A r \in C : Remembers(p(C), r)
      BY <2>2, <2>4 DEF Remembers, RecordsKept, At
    <2>6. Tame(w, p(C))
      BY <2>5 DEF Tame, At, GroupPc
    <2>7. Tame(w, At(Start(w)))
      BY TameAt DEF Start, GroupPc
    <2>8. jobs' = jobs
      BY <1>1 DEF ClaimReviews
    <2>. QED
      BY <1>w, <2>1, <2>4, <2>6, <2>7, <2>8, TameStep
  <1>2. CASE Review(w)
    <2>. DEFINE p(R, P, Q) ==
           [proc[w] EXCEPT !.pc = IF P = {} THEN "update"
                                  ELSE IF AutoWrite THEN "dedupe" ELSE "retry",
                           !.claimed = @ \ R, !.batch = R,
                           !.approved = P, !.rejected = Q]
    <2>1. PICK R \in ClaimedBatches(w) :
             \E P \in SUBSET R : \E Q \in SUBSET (R \ P) : Become(w, p(R, P, Q))
      BY <1>2 DEF Review
    <2>2. PICK P \in SUBSET R : \E Q \in SUBSET (R \ P) : Become(w, p(R, P, Q))
      BY <2>1
    <2>3. PICK Q \in SUBSET (R \ P) : Become(w, p(R, P, Q))
      BY <2>2
    <2>4. R \subseteq proc[w].claimed
      BY DEF ClaimedBatches
    <2>5. Tame(w, p(R, P, Q))
      BY <1>k, <1>t, <2>4 DEF Tame, LocalState, GroupPc, Remembers
    <2>. QED
      BY <1>w, <1>2, <2>3, <2>5, TameStep, SameRecordsKept DEF Review
  <1>3. CASE ReviewRaises(w)
    <2>. DEFINE p(R) == [proc[w] EXCEPT !.pc = "retry", !.claimed = @ \ R, !.batch = R]
    <2>1. PICK R \in ClaimedBatches(w) : Become(w, p(R))
      BY <1>3 DEF ReviewRaises
    <2>2. R \subseteq proc[w].claimed
      BY DEF ClaimedBatches
    <2>3. Tame(w, p(R))
      BY <1>k, <1>t, <2>2 DEF Tame, LocalState, GroupPc, Remembers
    <2>. QED
      BY <1>w, <1>3, <2>1, <2>3, TameStep, SameRecordsKept DEF ReviewRaises
  <1>4. ASSUME NEW l \in {"writeback", "retry"}
        PROVE  /\ Tame(w, [proc[w] EXCEPT !.pc = l])
               /\ Tame(w, [proc[w] EXCEPT !.pc = l, !.left = {}, !.news = {}])
    BY <1>k, <1>t DEF Tame, LocalState, GroupPc, Remembers
  <1>5. CASE UpdateReviewed(w)
    <2>. DEFINE new == [r \in proc[w].batch |-> Reviewed(w, r)]
    <2>1. new \in [proc[w].batch -> RecordRow]
      BY <1>u, RewrittenType DEF IInv
    <2>2. recs' = UpdateRecords(recs, new, "reviewing")
      BY <1>5 DEF UpdateReviewed
    <2>3. RecordsKept
      <3>1. \A r \in proc[w].batch : /\ new[r].st # "absent"
                                     /\ new[r].src = proc[w].seen[r].src
                                     /\ new[r].batch = proc[w].seen[r].batch
        BY WrittenRows
      <3>. QED
        BY <2>1, <2>2, <3>1, UpdateKept
    <2>. QED
      BY <1>w, <1>4, <1>5, <2>3, TameStep DEF UpdateReviewed, Goto
  <1>6. CASE Writeback(w)
    <2>. DEFINE D == JobsToSettle(proc[w].batch)
                p == [proc[w] EXCEPT !.pc = "settle_done", !.left = D]
    <2>1. \A j \in D : Settleable(j)
      BY <1>u DEF JobsToSettle, SourceJobs, Settleable, RecordsOf
    <2>2. Tame(w, p)
      BY <1>k, <1>t, <2>1 DEF Tame, LocalState, GroupPc, Remembers
    <2>. QED
      BY <1>w, <1>6, <2>2, AfterTame, TameStep, SameRecordsKept DEF Writeback
  <1>7. CASE WritebackUnreadable(w)
    BY <1>w, <1>4, <1>7, TameStep, SameRecordsKept DEF WritebackUnreadable, Goto
  <1>8. CASE RetryOrFail(w)
    <2>. DEFINE F == SourceJobs(Exhausted(w))
                p == [proc[w] EXCEPT !.pc = "settle_failed", !.left = F]
                new == [r \in proc[w].batch |-> FailureRow(w, r)]
    <2>1. new \in [proc[w].batch -> RecordRow]
      BY <1>u, RewrittenType DEF IInv
    <2>2. recs' = UpdateRecords(recs, new, "reviewing")
      BY <1>8 DEF RetryOrFail
    <2>3. RecordsKept
      <3>1. \A r \in proc[w].batch : /\ new[r].st # "absent"
                                     /\ new[r].src = proc[w].seen[r].src
                                     /\ new[r].batch = proc[w].seen[r].batch
        BY WrittenRows
      <3>. QED
        BY <2>1, <2>2, <3>1, UpdateKept
    <2>4. Tame(w, p)
      BY <1>k, <1>t DEF Tame, LocalState, GroupPc, Remembers
    <2>. QED
      BY <1>w, <1>8, <2>3, <2>4, AfterTame, TameStep DEF RetryOrFail
  <1>9. CASE ReviewFault(w)
    BY <1>w, <1>4, <1>9, TameStep, SameRecordsKept DEF ReviewFault
  <1>. QED
    BY <1>1, <1>2, <1>3, <1>5, <1>6, <1>7, <1>8, <1>9 DEF ReviewStep

LEMMA MarkKept ==
  ASSUME IInv, NEW R \in SUBSET Records, \A r \in R : recs[r].st # "absent",
         NEW s \in {"committed", "resolved"}, recs' = SetStatus(recs, R, s)
  PROVE  RecordsKept
  <1>1. \A r \in Records : recs[r] \in RecordRow
    BY DEF IInv, TypeOK
  <1>. QED
    BY <1>1 DEF RecordsKept, SetStatus, Closed, RecordRow, IInv, TypeOK


LEMMA ToolInd ==
  ASSUME IInv, TypeOK', NEW t \in Tools, ToolStep(t)
  PROVE  IInv'
  <1>t. t \in Actors /\ t \notin Workers /\ proc[t] \in LocalState
    BY ActorsAssumption DEF Actors, IInv, TypeOK
  <1>b. proc[t].batch \in SUBSET Records /\ \A r \in proc[t].batch : recs[r].st # "absent"
    BY <1>t DEF IInv, Selected, LocalState
  <1>1. ASSUME NEW S \in SUBSET Records, NEW l, Select(t, S, l) PROVE IInv'
    <2>1. \A r \in S : recs[r].st # "absent"
      BY <1>1 DEF Select, InStatus
    <2>2. [At(l) EXCEPT !.batch = S].batch = S
      BY DEF At
    <2>. QED
      BY <1>1, <1>t, <2>1, <2>2, TameStep, SameRecordsKept DEF Select
  <1>2. ASSUME RecordsKept, jobs' = jobs, Become(t, At("idle")) PROVE IInv'
    BY <1>2, <1>t, TameStep DEF At
  <1>3. CASE ValidateApproves(t)
    <2>. DEFINE p == [proc[t] EXCEPT !.pc = "dedupe", !.approved = proc[t].batch]
    <2>1. p.batch = proc[t].batch
      BY <1>t DEF LocalState
    <2>. QED
      BY <1>3, <1>b, <1>t, <2>1, TameStep, SameRecordsKept DEF ValidateApproves
  <1>4. CASE ValidateBlocks(t)
    BY <1>2, <1>4, SameRecordsKept DEF ValidateBlocks
  <1>5. CASE MarkSelected(t)
    <2>1. RecordsKept
      BY <1>5, <1>b, MarkKept, SameRecordsKept DEF MarkSelected, Marked, MarkCommitted
    <2>. QED
      BY <1>2, <1>5, <2>1 DEF MarkSelected
  <1>6. CASE ResolveSelected(t)
    <2>1. RecordsKept
      BY <1>6, <1>b, MarkKept, SameRecordsKept DEF ResolveSelected, Marked, ResolveRecords
    <2>. QED
      BY <1>2, <1>6, <2>1 DEF ResolveSelected
  <1>. QED
    BY <1>1, <1>3, <1>4, <1>5, <1>6 DEF ToolStep, SelectToCommit, SelectToResolve

LEMMA CrashInd ==
  ASSUME IInv, TypeOK', NEW a \in Actors, Crash(a)
  PROVE  IInv'
  <1>1. Start(a) \notin GroupPc \cup {"settle_done"} /\ At(Start(a)).batch = {}
    BY DEF Start, GroupPc, At
  <1>. QED
    BY <1>1, TameAt, TameStep, SameRecordsKept DEF Crash


(***************************************************************************)
(* Steps that move jobs.                                                   *)
(***************************************************************************)
\* The jobs go forward: what was taken up stays so, and what a worker other
\* than w is extracting stays with it.
JobsKept(w) ==
    /\ \A j \in Jobs : Taken(j) => Taken(j)'
    /\ \A v \in Workers \ {w} : \A j \in proc[v].held \cup proc[v].group :
          jobs[j].st = "extracting" => jobs'[j].st = "extracting"

\* Worker w may become p when the jobs become jobs'.
Owns(w, p) ==
    /\ p.pc \in GroupPc => p.left \subseteq p.group
    /\ p.held \cap p.group = {}
    /\ \A j \in p.held : jobs'[j].st = "extracting"
    /\ \A j \in p.group : Taken(j)'
    /\ p.pc \in {"to_reviewing", "to_done"} =>
          \A j \in p.left : jobs'[j].st = "extracting"
    /\ \A v \in Workers \ {w} :
          (p.held \cup p.group) \cap (proc[v].held \cup proc[v].group) = {}

LEMMA OwnsStep ==
  ASSUME IInv, TypeOK', NEW w \in Workers, NEW p \in LocalState,
         Become(w, p), JobsKept(w), Owns(w, p)
  PROVE  InHand'
  <1>1. \A v \in Workers : proc'[v] = IF v = w THEN p ELSE proc[v]
    BY DEF Become, IInv, TypeOK, Actors
  <1>t. \A v \in Workers : proc[v] \in LocalState
    BY DEF IInv, TypeOK, Actors
  <1>2. ASSUME NEW v \in Workers, v # w
        PROVE  /\ proc[v].pc \in GroupPc => proc[v].left \subseteq proc[v].group
               /\ proc[v].held \cap proc[v].group = {}
               /\ \A j \in proc[v].held : jobs'[j].st = "extracting"
               /\ \A j \in proc[v].group : Taken(j)'
               /\ proc[v].pc \in {"to_reviewing", "to_done"} =>
                     \A j \in proc[v].left : jobs'[j].st = "extracting"
    <2>1. /\ proc[v].pc \in GroupPc => proc[v].left \subseteq proc[v].group
          /\ proc[v].held \cap proc[v].group = {}
          /\ \A j \in proc[v].held : jobs[j].st = "extracting"
          /\ \A j \in proc[v].group : Taken(j)
          /\ proc[v].pc \in {"to_reviewing", "to_done"} =>
                \A j \in proc[v].left : jobs[j].st = "extracting"
      BY DEF IInv, InHand
    <2>2. \A j \in proc[v].held \cup proc[v].group : j \in Jobs
      BY <1>t DEF LocalState
    <2>. QED
      BY <1>2, <2>1, <2>2 DEF JobsKept, GroupPc
  <1>3. ASSUME NEW v \in Workers
        PROVE  /\ proc'[v].pc \in GroupPc => proc'[v].left \subseteq proc'[v].group
               /\ proc'[v].held \cap proc'[v].group = {}
               /\ \A j \in proc'[v].held : jobs'[j].st = "extracting"
               /\ \A j \in proc'[v].group : Taken(j)'
               /\ proc'[v].pc \in {"to_reviewing", "to_done"} =>
                     \A j \in proc'[v].left : jobs'[j].st = "extracting"
    <2>1. CASE v = w
      <3>1. proc'[v] = p
        BY <1>1, <2>1
      <3>. QED
        BY <3>1 DEF Owns
    <2>2. CASE v # w
      <3>1. proc'[v] = proc[v]
        BY <1>1, <2>2
      <3>. QED
        BY <1>2, <2>2, <3>1
    <2>. QED
      BY <2>1, <2>2
  <1>4. ASSUME NEW u \in Workers, NEW v \in Workers, u # v
        PROVE  (proc'[u].held \cup proc'[u].group)
                   \cap (proc'[v].held \cup proc'[v].group) = {}
    <2>1. CASE u = w
      <3>1. proc'[u] = p /\ proc'[v] = proc[v] /\ v \in Workers \ {w}
        BY <1>1, <1>4, <2>1
      <3>. QED
        BY <3>1 DEF Owns
    <2>2. CASE v = w
      <3>1. proc'[v] = p /\ proc'[u] = proc[u] /\ u \in Workers \ {w}
        BY <1>1, <1>4, <2>2
      <3>. QED
        BY <3>1 DEF Owns
    <2>3. CASE u # w /\ v # w
      BY <1>1, <1>4, <2>3 DEF IInv, InHand
    <2>. QED
      BY <2>1, <2>2, <2>3
  <1>. QED
    BY <1>3, <1>4 DEF InHand

\* The invariant, when jobs move, no record does, and the moves are justified
\* by the records.
LEMMA JobsFrame ==
  ASSUME IInv, TypeOK', NEW w \in Workers, NEW p \in LocalState,
         Become(w, p), JobsKept(w), Owns(w, p), recs' = recs,
         p.held \subseteq {j \in Jobs : j \in proc[w].held \/ ~Taken(j)},
         p.pc = "to_reviewing" => \A j \in p.group : RecordsOf(j) # {},
         p.pc = "to_done" => \A j \in p.group : RecordsOf(j) = {},
         p.pc = "settle_done" => \A j \in p.left : Settleable(j),
         \A r \in p.claimed \cup p.batch : Remembers(p, r),
         \A j \in Jobs : jobs'[j].st = "done" =>
            jobs[j].st = "done" \/ \A r \in RecordsOf(j) : Closed(recs[r]),
         \A j \in Jobs : jobs'[j].st = "reviewing" =>
            jobs[j].st = "reviewing" \/ RecordsOf(j) # {}
  PROVE  IInv'
  <1>1. \A v \in Workers : proc'[v] = IF v = w THEN p ELSE proc[v]
    BY DEF Become, IInv, TypeOK, Actors
  <1>2. /\ \A j : RecordsOf(j)' = RecordsOf(j)
        /\ \A j : Settleable(j)' <=> Settleable(j)
    BY DEF RecordsOf, Settleable
  <1>3. InHand'
    BY OwnsStep
  <1>4. Sources'
    <2>1. \A r \in Records : recs[r].src \subseteq Jobs
      BY DEF IInv, TypeOK, RecordRow
    <2>2. ASSUME NEW r \in Records, NEW j \in recs[r].src
          PROVE  Taken(j)' /\ \A v \in Workers : j \notin proc'[v].held
      <3>1. j \in Jobs /\ Taken(j) /\ \A v \in Workers : j \notin proc[v].held
        BY <2>1, <2>2 DEF IInv, Sources
      <3>2. Taken(j)'
        BY <3>1 DEF JobsKept
      <3>3. j \notin p.held
        BY <3>1
      <3>. QED
        BY <1>1, <3>1, <3>2, <3>3
    <2>3. /\ \A r \in Records : recs'[r].st = "absent" => recs'[r].src = {}
          /\ OneBatchPerJob'
      BY DEF IInv, Sources, OneBatchPerJob
    <2>. QED
      BY <2>2, <2>3 DEF Sources
  <1>5. Knows'
    <2>1. ASSUME NEW v \in Workers, NEW q, q = proc'[v]
          PROVE  /\ q.pc = "to_reviewing" => \A j \in q.group : RecordsOf(j) # {}
                 /\ q.pc = "to_done" => \A j \in q.group : RecordsOf(j) = {}
                 /\ q.pc = "settle_done" => \A j \in q.left : Settleable(j)
                 /\ \A r \in q.claimed \cup q.batch : Remembers(q, r)
      BY <1>1, <2>1 DEF IInv, Knows
    <2>2. \A v \in Workers : \A r : Remembers(proc[v], r)' <=> Remembers(proc'[v], r)
      BY DEF Remembers
    <2>. QED
      BY <1>2, <2>1, <2>2 DEF Knows
  <1>6. Selected'
    <2>1. \A t \in Tools : proc'[t] = proc[t]
      BY ActorsAssumption DEF Become, IInv, TypeOK, Actors
    <2>. QED
      BY <2>1 DEF IInv, Selected
  <1>7. DoneMeansSettled'
    <2>1. DoneMeansSettled
      BY DEF IInv
    <2>2. \A j \in Jobs : jobs'[j].st = "done" => \A r \in RecordsOf(j) : Closed(recs[r])
      BY <2>1 DEF DoneMeansSettled, InStatus, IInv, TypeOK
    <2>. QED
      BY <1>2, <2>2 DEF DoneMeansSettled, InStatus, TypeOK
  <1>8. ReviewingHasRecords'
    <2>1. \A j \in Jobs : jobs'[j].st = "reviewing" => RecordsOf(j) # {}
      BY DEF IInv, TypeOK, ReviewingHasRecords, InStatus
    <2>. QED
      BY <1>2, <2>1 DEF ReviewingHasRecords, InStatus, TypeOK
  <1>. QED
    BY <1>3, <1>4, <1>5, <1>6, <1>7, <1>8 DEF IInv


LEMMA ProduceInd ==
  ASSUME IInv, TypeOK', Produce
  PROVE  IInv'
  <1>1. proc' = proc
    BY DEF Produce, Enqueue, QueueRun, Elapse
  <1>2. \A w \in Workers : Tame(w, proc'[w])
    BY <1>1, TameSame
  <1>3. \A t \in Tools : \A r \in proc'[t].batch : recs[r].st # "absent"
    BY <1>1 DEF IInv, Selected
  <1>t. jobs \in [Jobs -> JobRow] /\ recs \in [Records -> RecordRow]
    BY DEF IInv, TypeOK
  <1>4. CASE \E j \in Jobs : Enqueue(j)
    <2>1. JobsStay /\ recs' = recs
      BY <1>4, <1>t DEF Enqueue, EnqueueJob, JobsStay
    <2>. QED
      BY <1>2, <1>3, <2>1, KeptFrame, SameRecordsKept
  <1>5. ASSUME NEW B \in SUBSET Records, NEW key \in [B -> Keys], QueueRun(B, key)
        PROVE  IInv'
    <2>1. \A r \in B : recs[r].st = "absent" /\ recs[r].src = {}
      BY <1>5 DEF QueueRun, FreshRecords, InStatus, IInv, Sources
    <2>2. RecordsKept /\ JobsStay
      BY <1>5, <1>t, <2>1 DEF QueueRun, EnqueueRecords, RecordsKept, JobsStay, Closed
    <2>. QED
      BY <1>2, <1>3, <2>2, KeptFrame
  <1>6. CASE \E r \in Records : Elapse(r)
    <2>1. PICK r \in Records : Elapse(r)
      BY <1>6
    <2>2. [recs[r] EXCEPT !.retry = "due"].st = recs[r].st
          /\ [recs[r] EXCEPT !.retry = "due"].src = recs[r].src
          /\ [recs[r] EXCEPT !.retry = "due"].batch = recs[r].batch
      BY <1>t DEF RecordRow
    <2>3. RecordsKept /\ JobsStay
      BY <1>t, <2>1, <2>2 DEF Elapse, RecordsKept, JobsStay, Closed
    <2>. QED
      BY <1>2, <1>3, <2>3, KeptFrame
  <1>. QED
    BY <1>4, <1>5, <1>6 DEF Produce

\* What a status update does to every job's status.
LEMMA StatusAfter ==
  ASSUME jobs \in [Jobs -> JobRow], NEW S, NEW s
  PROVE  \A j \in Jobs :
            SetStatus(jobs, S, s)[j].st = IF j \in S THEN s ELSE jobs[j].st
  BY DEF SetStatus, JobRow

LEMMA StatusUpdated ==
  ASSUME jobs \in [Jobs -> JobRow], NEW i \in Jobs, NEW to, NEW from
  PROVE  \A j \in Jobs :
            UpdateJobStatus(jobs, i, to, from)[j].st =
               IF j = i /\ jobs[i].st = from THEN to ELSE jobs[j].st
  BY StatusAfter DEF UpdateJobStatus, InStatus

\* What every job-moving step of w may assume of w and of the others.
LEMMA Hands ==
  ASSUME IInv, NEW w \in Workers
  PROVE  /\ w \in Actors /\ proc[w] \in LocalState
         /\ jobs \in [Jobs -> JobRow] /\ recs \in [Records -> RecordRow]
         /\ \A v \in Workers : /\ proc[v].held \subseteq Jobs /\ proc[v].group \subseteq Jobs
                               /\ \A j \in proc[v].held : jobs[j].st = "extracting"
                               /\ \A j \in proc[v].group : Taken(j)
         /\ \A v \in Workers \ {w} :
               (proc[w].held \cup proc[w].group)
                  \cap (proc[v].held \cup proc[v].group) = {}
         /\ proc[w].held \cap proc[w].group = {}
         /\ \A r \in proc[w].claimed \cup proc[w].batch : Remembers(proc[w], r)
  BY DEF IInv, TypeOK, InHand, Knows, Actors, LocalState

LEMMA DropInd ==
  ASSUME IInv, TypeOK', NEW w \in Workers, DropOverDepth(w)
  PROVE  IInv'
  <1>. DEFINE p == [proc[w] EXCEPT !.pc = "claim"]
              S == JobsOverDepth(jobs, QueueDepth)
  <1>1. proc[w].pc = "drop" /\ jobs' = SetStatus(jobs, S, "dropped")
        /\ Become(w, p) /\ recs' = recs
    BY DEF DropOverDepth, Goto
  <1>2. \A j \in S : jobs[j].st = "pending"
    BY DEF JobsOverDepth, InStatus
  <1>3. \A j \in Jobs : jobs'[j].st = IF j \in S THEN "dropped" ELSE jobs[j].st
    BY <1>1, StatusAfter, Hands
  <1>. HIDE DEF S
  <1>4. p \in LocalState /\ p.held = proc[w].held /\ p.group = proc[w].group
        /\ p.pc = "claim" /\ p.claimed = proc[w].claimed /\ p.batch = proc[w].batch
        /\ p.seen = proc[w].seen
    BY Hands DEF LocalState, WorkerPc
  <1>. HIDE DEF p
  <1>5. JobsKept(w)
    BY <1>2, <1>3 DEF JobsKept, Taken, IInv, TypeOK, LocalState, Actors
  <1>6. Owns(w, p)
    <2>1. \A j \in Jobs : /\ jobs[j].st = "extracting" => jobs'[j].st = "extracting"
                          /\ Taken(j) => Taken(j)'
      BY <1>2, <1>3 DEF Taken
    <2>. QED
      BY <1>4, <2>1, Hands DEF Owns, GroupPc
  <1>7. \A r \in p.claimed \cup p.batch : Remembers(p, r)
    BY <1>4, Hands DEF Remembers
  <1>. QED
    BY <1>1, <1>2, <1>3, <1>4, <1>5, <1>6, <1>7, JobsFrame, Hands

LEMMA ClaimInd ==
  ASSUME IInv, TypeOK', NEW w \in Workers, ClaimJobs(w)
  PROVE  IInv'
  <1>. DEFINE C == JobsToClaim(jobs, JobLimit)
              p == IF C = {} THEN At(AfterIngest(w)) ELSE [At("group") EXCEPT !.held = C]
  <1>1. jobs' = SetStatus(jobs, C, "extracting") /\ Become(w, p) /\ recs' = recs
    BY DEF ClaimJobs
  <1>2. C \subseteq Jobs /\ \A j \in C : jobs[j].st = "pending"
    BY Hands DEF JobsToClaim, InStatus
  <1>3. \A j \in Jobs : jobs'[j].st = IF j \in C THEN "extracting" ELSE jobs[j].st
    BY <1>1, StatusAfter, Hands
  <1>4. p.held = C /\ p.group = {} /\ p.pc \notin GroupPc \cup {"settle_done"}
        /\ p.claimed = {} /\ p.batch = {}
    BY DEF At, AfterIngest, GroupPc
  <1>5. p \in LocalState
    <2>1. At("group") \in LocalState /\ At(AfterIngest(w)) \in LocalState
      BY AtType, StartType, Hands DEF Pc, WorkerPc
    <2>. QED
      BY <1>2, <2>1 DEF LocalState
  <1>. HIDE DEF p, C
  <1>6. \A j \in Jobs : /\ jobs[j].st = "extracting" => jobs'[j].st = "extracting"
                        /\ Taken(j) => Taken(j)'
    BY <1>2, <1>3 DEF Taken
  <1>7. JobsKept(w)
    BY <1>6, Hands DEF JobsKept
  <1>8. \A v \in Workers \ {w} : C \cap (proc[v].held \cup proc[v].group) = {}
    BY <1>2, Hands DEF Taken
  <1>9. Owns(w, p)
    BY <1>2, <1>3, <1>4, <1>8 DEF Owns, GroupPc
  <1>10. p.held \subseteq {j \in Jobs : j \in proc[w].held \/ ~Taken(j)}
    BY <1>2, <1>4 DEF Taken
  <1>. QED
    BY <1>1, <1>2, <1>3, <1>4, <1>5, <1>7, <1>9, <1>10, JobsFrame DEF GroupPc


\* A worker writes the status of one job of its group.
LEMMA GroupInd ==
  ASSUME IInv, TypeOK', NEW w \in Workers, SetGroupStatus(w)
  PROVE  IInv'
  <1>. DEFINE to == GroupStatus(proc[w].pc)
              p(j) == IF proc[w].left = {j} THEN AfterGroup(w)
                      ELSE [proc[w] EXCEPT !.left = @ \ {j}]
  <1>1. PICK i \in proc[w].left :
           jobs' = UpdateJobStatus(jobs, i, to, "extracting") /\ Become(w, p(i))
    BY DEF SetGroupStatus
  <1>2. recs' = recs /\ proc[w].pc \in GroupPc /\ to \in {"reviewing", "done", "failed"}
    BY DEF SetGroupStatus, GroupPc, GroupStatus
  <1>t. proc[w] \in LocalState /\ i \in Jobs /\ i \in proc[w].group
    BY <1>2, Hands DEF LocalState, IInv, InHand
  <1>3. \A j \in Jobs : jobs'[j].st = IF j = i /\ jobs[i].st = "extracting"
                                      THEN to ELSE jobs[j].st
    BY <1>1, <1>t, StatusUpdated, Hands
  <1>4. p(i) \in LocalState
    <2>1. [proc[w] EXCEPT !.left = @ \ {i}] \in LocalState
      BY <1>t DEF LocalState
    <2>. QED
      BY <2>1, AfterType, Hands DEF IInv
  <1>5. /\ p(i).held = proc[w].held
        /\ \/ p(i).group = {} /\ p(i).pc \notin GroupPc \cup {"settle_done"}
              /\ p(i).claimed = {} /\ p(i).batch = {}
           \/ /\ p(i).group = proc[w].group /\ p(i).pc = proc[w].pc
              /\ p(i).left = proc[w].left \ {i}
              /\ p(i).claimed = proc[w].claimed /\ p(i).batch = proc[w].batch
              /\ p(i).seen = proc[w].seen
    <2>1. CASE proc[w].left = {i}
      <3>1. /\ p(i).held = proc[w].held /\ p(i).group = {}
            /\ p(i).claimed = {} /\ p(i).batch = {}
            /\ p(i).pc \notin GroupPc \cup {"settle_done"}
        BY <2>1 DEF AfterGroup, At, AfterIngest, GroupPc
      <3>. QED
        BY <3>1
    <2>2. CASE proc[w].left # {i}
      BY <1>t, <2>2 DEF LocalState
    <2>. QED
      BY <2>1, <2>2
  <1>6. \A j \in Jobs : Taken(j) => Taken(j)'
    BY <1>2, <1>3 DEF Taken
  <1>7. JobsKept(w)
    <2>1. \A v \in Workers \ {w} : i \notin proc[v].held \cup proc[v].group
      BY <1>t, Hands
    <2>. QED
      BY <1>3, <1>6, <2>1, Hands DEF JobsKept
  <1>8. Owns(w, p(i))
    <2>1. i \notin proc[w].held
      BY <1>t, Hands
    <2>2. \A j \in proc[w].held : jobs'[j].st = "extracting"
      BY <1>3, <2>1, Hands
    <2>3. p(i).pc \in GroupPc => p(i).left \subseteq p(i).group
      BY <1>2, <1>5 DEF IInv, InHand
    <2>4. p(i).pc \in {"to_reviewing", "to_done"} =>
             \A j \in p(i).left : jobs'[j].st = "extracting"
      BY <1>2, <1>3, <1>5, <1>t, Hands DEF IInv, InHand, GroupPc, LocalState
    <2>5. \A j \in p(i).group : Taken(j)'
      BY <1>5, <1>6, Hands
    <2>. QED
      BY <1>5, <2>2, <2>3, <2>4, <2>5, Hands DEF Owns
  <1>9. /\ p(i).pc = "to_reviewing" => \A j \in p(i).group : RecordsOf(j) # {}
        /\ p(i).pc = "to_done" => \A j \in p(i).group : RecordsOf(j) = {}
        /\ p(i).pc # "settle_done"
        /\ \A r \in p(i).claimed \cup p(i).batch : Remembers(p(i), r)
    BY <1>2, <1>5, Hands DEF IInv, Knows, GroupPc, Remembers
  <1>10. /\ to = "done" => RecordsOf(i) = {}
         /\ to = "reviewing" => RecordsOf(i) # {}
    BY <1>2, <1>t DEF GroupPc, GroupStatus, IInv, Knows
  <1>11. /\ \A j \in Jobs : jobs'[j].st = "done" =>
               jobs[j].st = "done" \/ \A r \in RecordsOf(j) : Closed(recs[r])
         /\ \A j \in Jobs : jobs'[j].st = "reviewing" =>
               jobs[j].st = "reviewing" \/ RecordsOf(j) # {}
    BY <1>3, <1>10
  <1>12. p(i).held \subseteq {j \in Jobs : j \in proc[w].held \/ ~Taken(j)}
    BY <1>5, Hands
  <1>. HIDE DEF p, to
  <1>. QED
    BY <1>1, <1>2, <1>4, <1>7, <1>8, <1>9, <1>11, <1>12, JobsFrame

\* A reviewer writes the status of a source job.
LEMMA SettleInd ==
  ASSUME IInv, TypeOK', NEW w \in Workers, SettleJob(w)
  PROVE  IInv'
  <1>. DEFINE to == IF proc[w].pc = "settle_done" THEN "done" ELSE "failed"
              p(j) == IF proc[w].left = {j} THEN AfterBatch(w)
                      ELSE [proc[w] EXCEPT !.left = @ \ {j}]
  <1>1. PICK i \in proc[w].left :
           jobs' = UpdateJobStatus(jobs, i, to, "reviewing") /\ Become(w, p(i))
    BY DEF SettleJob
  <1>2. recs' = recs /\ proc[w].pc \in {"settle_done", "settle_failed"}
    BY DEF SettleJob
  <1>t. proc[w] \in LocalState /\ i \in Jobs
    BY Hands DEF LocalState
  <1>3. \A j \in Jobs : jobs'[j].st = IF j = i /\ jobs[i].st = "reviewing"
                                      THEN to ELSE jobs[j].st
    BY <1>1, <1>t, StatusUpdated, Hands
  <1>4. p(i) \in LocalState
    <2>1. [proc[w] EXCEPT !.left = @ \ {i}] \in LocalState
      BY <1>t DEF LocalState
    <2>. QED
      BY <2>1, AfterType, Hands DEF IInv
  <1>5. \/ /\ p(i).held = {} /\ p(i).group = {}
           /\ p(i).pc \notin GroupPc \cup {"settle_done"}
           /\ \A r \in p(i).claimed \cup p(i).batch : Remembers(p(i), r)
        \/ /\ p(i).held = proc[w].held /\ p(i).group = proc[w].group
           /\ p(i).pc = proc[w].pc /\ p(i).left = proc[w].left \ {i}
           /\ p(i).claimed = proc[w].claimed /\ p(i).batch = proc[w].batch
           /\ p(i).seen = proc[w].seen
    <2>1. CASE proc[w].left = {i}
      BY <2>1, Hands DEF AfterBatch, At, Start, GroupPc, Remembers
    <2>2. CASE proc[w].left # {i}
      BY <1>t, <2>2 DEF LocalState
    <2>. QED
      BY <2>1, <2>2
  <1>6. \A j \in Jobs : /\ Taken(j) => Taken(j)'
                        /\ jobs[j].st = "extracting" => jobs'[j].st = "extracting"
    BY <1>3 DEF Taken
  <1>7. JobsKept(w)
    BY <1>6, Hands DEF JobsKept
  <1>8. p(i).pc \notin GroupPc
    BY <1>2, <1>5 DEF GroupPc
  <1>9. Owns(w, p(i))
    BY <1>5, <1>6, <1>8, Hands DEF Owns, GroupPc
  <1>10. /\ p(i).pc = "settle_done" => \A j \in p(i).left : Settleable(j)
         /\ \A r \in p(i).claimed \cup p(i).batch : Remembers(p(i), r)
    BY <1>5, Hands DEF IInv, Knows, Remembers
  <1>11. \A j \in Jobs : jobs'[j].st = "done" =>
            jobs[j].st = "done" \/ \A r \in RecordsOf(j) : Closed(recs[r])
    BY <1>2, <1>3 DEF IInv, Knows, Settleable
  <1>12. \A j \in Jobs : jobs'[j].st = "reviewing" => jobs[j].st = "reviewing"
    BY <1>3
  <1>13. p(i).held \subseteq {j \in Jobs : j \in proc[w].held \/ ~Taken(j)}
    BY <1>5, Hands
  <1>. HIDE DEF p, to
  <1>. QED
    BY <1>1, <1>2, <1>4, <1>7, <1>8, <1>9, <1>10, <1>11, <1>12, <1>13, JobsFrame DEF GroupPc

LEMMA RaisesInd ==
  ASSUME IInv, TypeOK', NEW w \in Workers, SetGroupStatusRaises(w)
  PROVE  IInv'
  <1>. DEFINE p == [proc[w] EXCEPT !.pc = "to_failed", !.left = proc[w].group]
  <1>1. Become(w, p) /\ recs' = recs /\ jobs' = jobs
    BY DEF SetGroupStatusRaises
  <1>2. p \in LocalState /\ p.held = proc[w].held /\ p.group = proc[w].group
        /\ p.pc = "to_failed" /\ p.left = proc[w].group
        /\ p.claimed = proc[w].claimed /\ p.batch = proc[w].batch /\ p.seen = proc[w].seen
    BY Hands DEF LocalState, WorkerPc
  <1>. HIDE DEF p
  <1>3. JobsKept(w)
    BY <1>1 DEF JobsKept, Taken
  <1>4. Owns(w, p)
    BY <1>1, <1>2, Hands DEF Owns, Taken
  <1>5. \A r \in p.claimed \cup p.batch : Remembers(p, r)
    BY <1>2, Hands DEF Remembers
  <1>. QED
    BY <1>1, <1>2, <1>3, <1>4, <1>5, JobsFrame, Hands

\* A worker takes the next group out of the jobs it holds.
Took(w, G, l) == [proc[w] EXCEPT !.pc = l, !.held = @ \ G, !.group = G, !.left = G]

LEMMA TakeInd ==
  ASSUME IInv, NEW w \in Workers, NEW G \in SUBSET proc[w].held, NEW l \in GroupPc,
         jobs' = jobs
  PROVE  /\ Took(w, G, l) \in LocalState /\ Took(w, G, l).pc = l
         /\ Took(w, G, l).held = proc[w].held \ G
         /\ Took(w, G, l).group = G /\ Took(w, G, l).left = G
         /\ Took(w, G, l).claimed = proc[w].claimed
         /\ Took(w, G, l).batch = proc[w].batch /\ Took(w, G, l).seen = proc[w].seen
         /\ JobsKept(w) /\ Owns(w, Took(w, G, l))
  <1>. DEFINE p == Took(w, G, l)
  <1>1. /\ p \in LocalState /\ p.pc = l
        /\ p.held = proc[w].held \ G /\ p.group = G /\ p.left = G
        /\ p.claimed = proc[w].claimed /\ p.batch = proc[w].batch
        /\ p.seen = proc[w].seen
    BY ZenonT(60), Hands DEF LocalState, WorkerPc, GroupPc, Took
  <1>2. JobsKept(w)
    BY DEF JobsKept, Taken
  <1>3. Owns(w, p)
    BY <1>1, Hands DEF Owns, Taken
  <1>. QED
    BY <1>1, <1>2, <1>3

LEMMA ExtractRaisesInd ==
  ASSUME IInv, TypeOK', NEW w \in Workers, ExtractRaises(w)
  PROVE  IInv'
  <1>1. PICK G \in SUBSET proc[w].held : TakeGroup(w, G, "to_failed")
    BY DEF ExtractRaises
  <1>. DEFINE p == Took(w, G, "to_failed")
  <1>2. Become(w, p) /\ jobs' = jobs /\ recs' = recs
    BY <1>1 DEF TakeGroup, ExtractRaises, Took
  <1>3. /\ p \in LocalState /\ p.pc = "to_failed" /\ p.held = proc[w].held \ G
        /\ p.claimed = proc[w].claimed /\ p.batch = proc[w].batch
        /\ p.seen = proc[w].seen /\ JobsKept(w) /\ Owns(w, p)
    BY <1>2, TakeInd DEF GroupPc
  <1>. HIDE DEF p
  <1>4. /\ p.held \subseteq {j \in Jobs : j \in proc[w].held \/ ~Taken(j)}
        /\ \A r \in p.claimed \cup p.batch : Remembers(p, r)
    BY <1>3, Hands DEF Remembers
  <1>. QED
    BY <1>2, <1>3, <1>4, JobsFrame

\* A worker queues the candidates of its group.  No record named its jobs
\* before, and all of B does now.
LEMMA ExtractInd ==
  ASSUME IInv, TypeOK', NEW w \in Workers, Extract(w)
  PROVE  IInv'
  <1>1. PICK G \in SUBSET proc[w].held, B \in SUBSET FreshRecords(recs) :
           /\ TakeGroup(w, G, IF B = {} THEN "to_done" ELSE "to_reviewing")
           /\ \E key \in [B -> Keys] : recs' = EnqueueRecords(recs, B, G, key, FALSE)
    BY DEF Extract
  <1>. DEFINE l == IF B = {} THEN "to_done" ELSE "to_reviewing"
              p == Took(w, G, l)
  <1>2. Become(w, p) /\ jobs' = jobs
    BY <1>1 DEF TakeGroup, Extract, Took
  <1>3. /\ p \in LocalState /\ p.pc = l
        /\ p.held = proc[w].held \ G /\ p.group = G /\ p.left = G
        /\ p.claimed = proc[w].claimed /\ p.batch = proc[w].batch
        /\ p.seen = proc[w].seen /\ JobsKept(w) /\ Owns(w, p)
    <2>1. l \in GroupPc
      BY DEF GroupPc
    <2>. HIDE DEF l
    <2>. QED
      BY <1>2, <2>1, TakeInd
  <1>. HIDE DEF p
  <1>4. B \subseteq Records /\ \A r \in B : recs[r].st = "absent" /\ recs[r].src = {}
    BY <1>1, Hands DEF FreshRecords, InStatus, IInv, Sources
  <1>5. \A r \in Records :
           /\ r \in B => /\ recs'[r].st = "pending" /\ recs'[r].src = G
                         /\ recs'[r].batch = B
           /\ r \notin B => recs'[r] = recs[r]
    BY <1>1 DEF EnqueueRecords
  <1>6. \A v \in Workers : proc'[v] = IF v = w THEN p ELSE proc[v]
    BY <1>2 DEF Become, IInv, TypeOK, Actors
  <1>7. /\ G \subseteq Jobs
        /\ \A j \in G : /\ jobs[j].st = "extracting"
                         /\ \A r \in Records : j \notin recs[r].src
                         /\ \A v \in Workers \ {w} :
                               j \notin proc[v].held \cup proc[v].group
    <2>1. \A r \in Records : \A j \in recs[r].src : j \notin proc[w].held
      BY DEF IInv, Sources
    <2>. QED
      BY <2>1, Hands
  <1>8. \A j \in Jobs : /\ j \in G => RecordsOf(j) = {} /\ RecordsOf(j)' = B
                        /\ j \notin G => RecordsOf(j)' = RecordsOf(j)
    BY <1>4, <1>5, <1>7 DEF RecordsOf
  <1>9. \A r \in Records : recs[r].st # "absent" => recs'[r] = recs[r]
    BY <1>4, <1>5
  <1>10. InHand'
    BY <1>2, <1>3, OwnsStep
  <1>11. Sources'
    <2>1. \A r \in Records : recs'[r].st = "absent" => recs'[r].src = {}
      BY <1>5 DEF IInv, Sources
    <2>2. ASSUME NEW r \in Records, NEW j \in recs'[r].src
          PROVE  Taken(j)' /\ \A v \in Workers : j \notin proc'[v].held
      <3>1. CASE r \in B
        BY <1>2, <1>3, <1>5, <1>6, <1>7, <2>2, <3>1 DEF Taken
      <3>2. CASE r \notin B
        <4>1. Taken(j) /\ \A v \in Workers : j \notin proc[v].held
          BY <1>5, <2>2, <3>2 DEF IInv, Sources
        <4>. QED
          BY <1>2, <1>3, <1>6, <4>1 DEF Taken
      <3>. QED
        BY <3>1, <3>2
    <2>3. OneBatchPerJob'
      <3>1. \A r, s \in Records : recs[r].src \cap recs[s].src # {} =>
                                     recs[r].batch = recs[s].batch
        BY DEF IInv, Sources, OneBatchPerJob
      <3>2. \A r \in Records \ B : recs'[r].src \cap G = {}
        BY <1>5, <1>7
      <3>3. ASSUME NEW r \in Records, NEW s \in Records, recs'[r].src \cap recs'[s].src # {}
            PROVE  recs'[r].batch = recs'[s].batch
        <4>1. r \in B <=> s \in B
          BY <1>5, <3>2, <3>3
        <4>. QED
          BY <1>5, <3>1, <3>3, <4>1
      <3>. QED
        BY <3>3 DEF OneBatchPerJob
    <2>. QED
      BY <2>1, <2>2, <2>3 DEF Sources
  <1>12. Knows'
    <2>1. ASSUME NEW v \in Workers
          PROVE  /\ proc'[v].pc = "to_reviewing" =>
                       \A j \in proc'[v].group : RecordsOf(j)' # {}
                 /\ proc'[v].pc = "to_done" =>
                       \A j \in proc'[v].group : RecordsOf(j)' = {}
      <3>1. CASE v = w
        BY <1>3, <1>6, <1>7, <1>8, <3>1
      <3>2. CASE v # w
        <4>1. proc[v].group \subseteq Jobs \ G
          BY <1>7, <3>2, Hands
        <4>. QED
          BY <1>6, <1>8, <3>2, <4>1 DEF IInv, Knows
      <3>. QED
        BY <3>1, <3>2
    <2>2. ASSUME NEW v \in Workers, proc'[v].pc = "settle_done", NEW j \in proc'[v].left
          PROVE  Settleable(j)'
      <3>1. v # w
        BY <1>3, <1>6, <2>2
      <3>2. Settleable(j) /\ j \in Jobs
        BY <1>6, <2>2, <3>1 DEF IInv, Knows, TypeOK, Actors, LocalState
      <3>3. RecordsOf(j)' = RecordsOf(j)
        BY <1>8, <3>2 DEF Settleable
      <3>4. \A r \in RecordsOf(j) : recs'[r] = recs[r]
        BY <1>9, <3>2 DEF Settleable, RecordsOf, Closed
      <3>. QED
        BY <3>2, <3>3, <3>4 DEF Settleable, Closed
    <2>3. ASSUME NEW v \in Workers, NEW r \in proc'[v].claimed \cup proc'[v].batch
          PROVE  Remembers(proc[v], r)'
      <3>1. proc'[v].seen = proc[v].seen /\ r \in proc[v].claimed \cup proc[v].batch
        BY <1>3, <1>6, <2>3
      <3>2. Remembers(proc[v], r) /\ r \in Records
        BY <3>1 DEF IInv, Knows, TypeOK, Actors, LocalState
      <3>. QED
        BY <1>9, <3>1, <3>2 DEF Remembers
    <2>. QED
      BY <2>1, <2>2, <2>3 DEF Knows
  <1>13. Selected'
    <2>1. \A t \in Tools : proc'[t] = proc[t]
      BY <1>2, ActorsAssumption DEF Become, IInv, TypeOK, Actors
    <2>2. \A t \in Tools : proc[t].batch \in SUBSET Records
      BY DEF IInv, TypeOK, Actors, LocalState
    <2>. QED
      BY <1>9, <2>1, <2>2 DEF IInv, Selected
  <1>14. DoneMeansSettled'
    <2>1. ASSUME NEW j \in Jobs, jobs[j].st = "done", NEW r \in RecordsOf(j)'
          PROVE  Closed(recs'[r])
      <3>1. r \in RecordsOf(j)
        BY <1>7, <1>8, <2>1
      <3>2. Closed(recs[r]) /\ r \in Records
        BY <2>1, <3>1, Hands DEF IInv, DoneMeansSettled, InStatus, RecordsOf
      <3>. QED
        BY <1>9, <3>2 DEF Closed
    <2>. QED
      BY <1>2, <2>1, Hands DEF DoneMeansSettled, InStatus
  <1>15. ReviewingHasRecords'
    <2>1. \A j \in Jobs : jobs[j].st = "reviewing" => j \notin G
      BY <1>7
    <2>. QED
      BY <1>2, <1>8, <2>1, Hands DEF IInv, ReviewingHasRecords, InStatus
  <1>. QED
    BY <1>10, <1>11, <1>12, <1>13, <1>14, <1>15 DEF IInv

(***************************************************************************)
(* The invariant holds.                                                    *)
(***************************************************************************)
LEMMA InitInd == Init => IInv
  <1>. SUFFICES ASSUME Init PROVE IInv
    OBVIOUS
  <1>1. TypeOK
    BY InitType
  <1>2. \A a \in Actors : /\ proc[a] = At(Start(a))
                          /\ Start(a) \notin GroupPc \cup {"settle_done"}
    BY DEF Init, Start, GroupPc
  <1>3. /\ \A j \in Jobs : jobs[j].st = "absent"
        /\ \A r \in Records : recs[r].st = "absent" /\ recs[r].src = {}
    BY DEF Init, NoRecord
  <1>4. InHand /\ Knows /\ Selected
    <2>1. \A a \in Actors :
             /\ proc[a].pc \notin GroupPc \cup {"settle_done"}
             /\ proc[a].held = {} /\ proc[a].group = {} /\ proc[a].left = {}
             /\ proc[a].claimed = {} /\ proc[a].batch = {}
      <3>1. \A l : /\ At(l).pc = l /\ At(l).held = {} /\ At(l).group = {}
                   /\ At(l).left = {} /\ At(l).claimed = {} /\ At(l).batch = {}
        BY DEF At
      <3>. QED
        BY <1>2, <3>1
    <2>. QED
      BY <2>1 DEF InHand, Knows, Selected, Actors, GroupPc
  <1>5. Sources /\ DoneMeansSettled /\ ReviewingHasRecords
    BY <1>1, <1>3 DEF Sources, OneBatchPerJob, DoneMeansSettled,
                      ReviewingHasRecords, InStatus, TypeOK
  <1>. QED
    BY <1>1, <1>4, <1>5 DEF IInv

LEMMA NextInd == IInv /\ [Next]_vars => IInv'
  <1>. SUFFICES ASSUME IInv, [Next]_vars PROVE IInv'
    OBVIOUS
  <1>1. TypeOK'
    BY NextType DEF IInv
  <1>2. CASE Produce
    BY <1>1, <1>2, ProduceInd
  <1>3. CASE \E w \in Workers : IngestStep(w)
    BY <1>1, <1>3, DropInd, ClaimInd, ExtractInd, ExtractRaisesInd, GroupInd,
       RaisesInd DEF IngestStep
  <1>4. CASE \E w \in Workers : ReviewStep(w)
    <2>1. PICK w \in Workers : ReviewStep(w)
      BY <1>4
    <2>2. CASE SettleJob(w)
      BY <1>1, <2>2, SettleInd
    <2>3. CASE ~SettleJob(w)
      BY <1>1, <2>1, <2>3, ReviewInd
    <2>. QED
      BY <2>2, <2>3
  <1>5. CASE \E t \in Tools : ToolStep(t)
    BY <1>1, <1>5, ToolInd
  <1>6. CASE \E a \in Actors : WriteStep(a) \/ Crash(a)
    BY <1>1, <1>6, WriteInd, CrashInd
  <1>7. CASE UNCHANGED vars
    <2>1. JobsStay /\ RecordsKept
      BY <1>7 DEF vars, JobsStay, RecordsKept
    <2>2. /\ \A w \in Workers : Tame(w, proc'[w])
          /\ \A t \in Tools : \A r \in proc'[t].batch : recs[r].st # "absent"
      BY <1>7, TameSame DEF vars, IInv, Selected
    <2>. QED
      BY <1>1, <2>1, <2>2, KeptFrame
  <1>. QED
    BY <1>2, <1>3, <1>4, <1>5, <1>6, <1>7 DEF Next

\* The inductive invariant, for every instance of the pipeline.
THEOREM Invariance == Spec => []IInv
  BY InitInd, NextInd, PTL DEF Spec

\* No job is ever extracted by two workers, whatever the limits, the number
\* of workers, the crashes and the faults: claim_ingestion_jobs takes what
\* nobody holds, and only the holder writes a job's next status.
THEOREM ExclusiveClaims == Spec => []JobHeldByOne
  <1>1. IInv => JobHeldByOne
    <2>. SUFFICES ASSUME IInv PROVE JobHeldByOne
      OBVIOUS
    <2>1. \A w \in Workers : ClaimedJobs(w) \subseteq proc[w].held \cup proc[w].group
      BY DEF ClaimedJobs, IInv, InHand, GroupPc
    <2>2. ASSUME NEW w \in Workers, NEW j \in ClaimedJobs(w)
          PROVE  jobs[j].st = "extracting" \/ proc[w].pc = "to_failed"
      BY <2>2 DEF ClaimedJobs, IInv, InHand
    <2>3. ASSUME NEW w \in Workers, NEW v \in Workers, w # v
          PROVE  ClaimedJobs(w) \cap ClaimedJobs(v) = {}
      BY <2>1, <2>3 DEF IInv, InHand
    <2>. QED
      BY <2>2, <2>3 DEF JobHeldByOne
  <1>. QED
    BY <1>1, Invariance, PTL

\* A turn is extracted once: the records that name it form one batch.
THEOREM ExtractedOnce == Spec => []OneBatchPerJob
  <1>1. IInv => OneBatchPerJob
    BY DEF IInv, Sources
  <1>. QED
    BY <1>1, Invariance, PTL

\* A turn marked done has nothing left to decide, now or later: whatever the
\* workers saw before they wrote the status is still true when they do.
THEOREM DoneIsSettled == Spec => []DoneMeansSettled
  <1>1. IInv => DoneMeansSettled
    BY DEF IInv
  <1>. QED
    BY <1>1, Invariance, PTL

\* A turn marked reviewing has records in the review queue.
THEOREM ReviewingIsBacked == Spec => []ReviewingHasRecords
  <1>1. IInv => ReviewingHasRecords
    BY DEF IInv
  <1>. QED
    BY <1>1, Invariance, PTL

(***************************************************************************)
(* What no step does.                                                      *)
(***************************************************************************)
\* A job's last status is final.  Every store method that writes a status
\* compares it with the one the caller expects, and none expects these.
THEOREM FinalStatus == Spec => JobEndsOnce
  <1>. DEFINE Ended(j) == jobs[j].st \in {"done", "failed", "dropped"}
              Kept == \A j \in Jobs : Ended(j) => jobs'[j].st = jobs[j].st
  <1>1. ASSUME TypeOK, [Next]_vars PROVE Kept
    <2>t. jobs \in [Jobs -> JobRow]
      BY <1>1 DEF TypeOK
    <2>1. CASE \E j \in Jobs : Enqueue(j)
      BY <2>t, <2>1 DEF Enqueue, EnqueueJob
    <2>2. ASSUME NEW w \in Workers, DropOverDepth(w) \/ ClaimJobs(w) PROVE Kept
      <3>1. /\ \A j \in JobsOverDepth(jobs, QueueDepth) : jobs[j].st = "pending"
            /\ \A j \in JobsToClaim(jobs, JobLimit) : jobs[j].st = "pending"
        BY DEF JobsOverDepth, JobsToClaim, InStatus
      <3>2. PICK S, s : jobs' = SetStatus(jobs, S, s) /\ \A j \in S : jobs[j].st = "pending"
        BY <2>2, <3>1 DEF DropOverDepth, ClaimJobs
      <3>. QED
        BY <2>t, <3>2, StatusAfter
    <2>3. ASSUME NEW w \in Workers, SetGroupStatus(w) \/ SettleJob(w) PROVE Kept
      <3>1. proc[w].left \subseteq Jobs
        BY <1>1 DEF TypeOK, LocalState, Actors
      <3>2. PICK i \in Jobs, to \in JobStatus, from \in {"extracting", "reviewing"} :
               jobs' = UpdateJobStatus(jobs, i, to, from)
        BY <2>3, <3>1 DEF SetGroupStatus, SettleJob, GroupStatus, JobStatus
      <3>. QED
        BY <2>t, <3>2, StatusUpdated
    <2>4. CASE jobs' = jobs
      BY <2>4
    <2>. QED
      BY <1>1, <2>1, <2>2, <2>3, <2>4
      DEF Next, vars, Produce, QueueRun, Elapse, IngestStep, Extract, ExtractRaises,
          SetGroupStatusRaises, WriteStep, Dedupe, CheckContradictions,
          AssertRelations, ReviewStep, ClaimReviews, Review, ReviewRaises,
          UpdateReviewed, Writeback, WritebackUnreadable, RetryOrFail, ReviewFault,
          ToolStep, SelectToCommit, SelectToResolve, Select, ValidateApproves,
          ValidateBlocks, MarkSelected, ResolveSelected, Crash
  <1>. QED
    BY <1>1, TypeCorrect, PTL DEF Spec, JobEndsOnce

\* A record that a worker or a tool has closed never returns to the queue: a
\* worker's late update is refused, and the tools only close.
THEOREM ClosedIsFinal == Spec => ClosedStaysClosed
  <1>. DEFINE Kept == \A r \in Records : Closed(recs[r]) => Closed(recs'[r])
  <1>1. ASSUME TypeOK, [Next]_vars PROVE Kept
    <2>t. recs \in [Records -> RecordRow]
      BY <1>1 DEF TypeOK
    <2>1. CASE \E B \in SUBSET Records : \E key \in [B -> Keys] : QueueRun(B, key)
      BY <2>1 DEF QueueRun, EnqueueRecords, FreshRecords, InStatus, Closed
    <2>2. CASE \E w \in Workers : Extract(w)
      BY <2>2 DEF Extract, EnqueueRecords, FreshRecords, InStatus, Closed
    <2>3. CASE \E r \in Records : Elapse(r)
      BY <2>t, <2>3 DEF Elapse, Closed
    <2>4. ASSUME NEW w \in Workers, ClaimReviews(w) PROVE Kept
      <3>1. PICK C \in SUBSET Records :
               IsClaim(recs, C, RecordLimit) /\ recs' = ClaimRecords(recs, C)
        BY <2>4 DEF ClaimReviews
      <3>2. \A r \in C : recs[r].st = "pending"
        BY <3>1 DEF IsClaim, FirstAttempt, RetryDue, InStatus
      <3>3. \A r \in Records \ C : recs'[r] = recs[r]
        BY <3>1 DEF ClaimRecords
      <3>. QED
        BY <3>2, <3>3 DEF Closed
    <2>5. ASSUME NEW w \in Workers, UpdateReviewed(w) \/ RetryOrFail(w) PROVE Kept
      <3>1. PICK new : recs' = UpdateRecords(recs, new, "reviewing")
        BY <2>5 DEF UpdateReviewed, RetryOrFail
      <3>2. \A r \in Records : recs[r].st # "reviewing" => recs'[r] = recs[r]
        BY <3>1 DEF UpdateRecords
      <3>. QED
        BY <3>2 DEF Closed
    <2>6. ASSUME NEW t \in Tools, MarkSelected(t) \/ ResolveSelected(t) PROVE Kept
      <3>1. \A S, s : \A r \in Records :
               SetStatus(recs, S, s)[r].st = IF r \in S THEN s ELSE recs[r].st
        BY <2>t DEF SetStatus, RecordRow
      <3>. QED
        BY <2>6, <3>1 DEF MarkSelected, ResolveSelected, Marked, MarkCommitted,
                          ResolveRecords, Closed
    <2>7. CASE recs' = recs
      BY <2>7
    <2>. QED
      BY <1>1, <2>1, <2>2, <2>3, <2>4, <2>5, <2>6, <2>7
      DEF Next, vars, Produce, Enqueue, IngestStep, DropOverDepth, ClaimJobs,
          ExtractRaises, SetGroupStatus, SetGroupStatusRaises, WriteStep, Dedupe,
          CheckContradictions, AssertRelations, ReviewStep, Review, ReviewRaises,
          Writeback, WritebackUnreadable, SettleJob, ReviewFault, ToolStep,
          SelectToCommit, SelectToResolve, Select, ValidateApproves,
          ValidateBlocks, Crash
  <1>. QED
    BY <1>1, TypeCorrect, PTL DEF Spec, ClosedStaysClosed

=============================================================================
