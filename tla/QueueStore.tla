----------------------------- MODULE QueueStore -----------------------------
(***************************************************************************)
(* The two durable work tables of the relation store, as values and the    *)
(* operations on them: the conversation-turn ingestion queue and the       *)
(* review queue.  Each operator is one store method; in SQLite a method    *)
(* runs in one transaction under the connection lock, and in the memory    *)
(* store it runs without yielding, so a caller applies it in one step.     *)
(*                                                                         *)
(* A row that has not been inserted has status "absent".  Identifiers are  *)
(* fresh UUIDs in the code: a row is inserted once and never reused.       *)
(***************************************************************************)
EXTENDS Integers, FiniteSets

CONSTANTS
    Jobs,       \* identifiers of conversation turn jobs
    Records,    \* identifiers of review queue records
    Keys,       \* relation identities: source, target, type, context, store
    Payload,    \* what the Stop hook captured for each job, see JobPayload
    MaxRetries  \* extra review attempts after the first failed one

NoTurn == -1

\* What a job carries besides its status: the conversation it belongs to
\* (session and transcript), its turn index, and whether the message held
\* NESY_FACTS, which gives it priority and skips extraction.
JobPayload == [conv : Nat, turn : Nat \cup {NoTurn}, skip : BOOLEAN]

ASSUME PayloadAssumption == Payload \in [Jobs -> JobPayload]
ASSUME KeysAssumption == Keys # {}
ASSUME MaxRetriesAssumption == MaxRetries \in Nat
ASSUME JobsAssumption == IsFiniteSet(Jobs)
ASSUME RecordsAssumption == IsFiniteSet(Records)

(***************************************************************************)
(* Rows                                                                    *)
(***************************************************************************)
\* "dropped" is a row deleted by back-pressure.
JobStatus == {"absent", "pending", "extracting", "reviewing", "done",
              "failed", "dropped"}
JobRow == [st : JobStatus, at : Nat]

RecordStatus == {"absent", "pending", "reviewing", "committed", "resolved",
                 "failed"}
GateAction == {"auto_write", "queue", "reject"}

\* batch: the records enqueued together (one run_id).  src: source_job_ids.
\* tries: attempt_count, counted up to MaxRetries + 1; the code only asks
\* whether it is 0 and whether it exceeds MaxRetries.
\* retry: next_retry_at is null, in the future, or in the past.
\* reviewed: a reviewer's decision is stored in the record.
RecordRow == [st : RecordStatus, batch : SUBSET Records, src : SUBSET Jobs,
              key : Keys, tries : 0..(MaxRetries + 1),
              retry : {"none", "waiting", "due"}, gate : GateAction,
              reviewed : BOOLEAN]

Priority(j) == IF Payload[j].skip THEN 1 ELSE 0

(***************************************************************************)
(* The ingestion queue                                                     *)
(***************************************************************************)
InStatus(tab, s) == {x \in DOMAIN tab : tab[x].st = s}

EnqueueJob(jobs, j) ==
    [jobs EXCEPT ![j] = [st |-> "pending",
                         at |-> Cardinality(Jobs \ InStatus(jobs, "absent"))]]

\* ORDER BY priority DESC, enqueued_at
ClaimedBefore(jobs, a, b) ==
    \/ Priority(a) > Priority(b)
    \/ Priority(a) = Priority(b) /\ jobs[a].at < jobs[b].at

\* ORDER BY priority DESC, enqueued_at DESC
KeptBefore(jobs, a, b) ==
    \/ Priority(a) > Priority(b)
    \/ Priority(a) = Priority(b) /\ jobs[a].at > jobs[b].at

\* Seeded fault: the claim also takes jobs another worker is extracting.
JobsToClaimAgain(jobs, limit) ==
    LET open == InStatus(jobs, "pending") \cup InStatus(jobs, "extracting")
    IN  {j \in open : Cardinality({i \in open : ClaimedBefore(jobs, i, j)}) < limit}

\* The first `limit` pending jobs in claim order.
JobsToClaim(jobs, limit) ==
    LET pending == InStatus(jobs, "pending")
    IN  {j \in pending :
            Cardinality({i \in pending : ClaimedBefore(jobs, i, j)}) < limit}

\* Seeded fault: back-pressure also drops jobs under extraction.
JobsOverDepthAnyStatus(jobs, depth) ==
    LET open == InStatus(jobs, "pending") \cup InStatus(jobs, "extracting")
    IN  {j \in open : Cardinality({i \in open : KeptBefore(jobs, i, j)}) >= depth}

\* The pending jobs beyond the first `depth` in keeping order.
JobsOverDepth(jobs, depth) ==
    LET pending == InStatus(jobs, "pending")
    IN  {j \in pending :
            Cardinality({i \in pending : KeptBefore(jobs, i, j)}) >= depth}

SetStatus(tab, S, s) ==
    [x \in DOMAIN tab |-> IF x \in S THEN [tab[x] EXCEPT !.st = s] ELSE tab[x]]

\* Seeded fault: the update does not compare the status.
UpdateJobStatusBlindly(jobs, j, to, expected) == SetStatus(jobs, {j}, to)

\* Compare-and-swap of one job's status.
UpdateJobStatus(jobs, j, to, expected) ==
    SetStatus(jobs, {j} \cap InStatus(jobs, expected), to)

(***************************************************************************)
(* The review queue                                                        *)
(***************************************************************************)
FreshRecords(recs) == InStatus(recs, "absent")

\* Insert the records B of one run, with the relation key of each candidate.
EnqueueRecords(recs, B, src, key, reviewed) ==
    [r \in Records |->
        IF r \in B
        THEN [st |-> "pending", batch |-> B, src |-> src, key |-> key[r],
              tries |-> 0, retry |-> "none", gate |-> "queue",
              reviewed |-> reviewed]
        ELSE recs[r]]

FirstAttempt(recs) ==
    {r \in InStatus(recs, "pending") : recs[r].tries = 0 /\ recs[r].retry = "none"}

\* Seeded fault: the retry query forgets the status, so that a record that is
\* being reviewed again is due again.
RetryDueAnyStatus(recs) ==
    {r \in Records : recs[r].st \in {"pending", "reviewing"} /\ recs[r].retry = "due"}

RetryDue(recs) == {r \in InStatus(recs, "pending") : recs[r].retry = "due"}

\* C may be what one claim returns: as many due records as the limit allows,
\* and a null next_retry_at sorts before every retry.
IsClaim(recs, C, limit) ==
    LET due == FirstAttempt(recs) \cup RetryDue(recs)
    IN  /\ C \subseteq due
        /\ \/ C = due /\ Cardinality(due) <= limit
           \/ Cardinality(C) = limit /\ Cardinality(due) > limit
        /\ C \cap RetryDue(recs) # {} => FirstAttempt(recs) \subseteq C

ClaimRecords(recs, C) ==
    [r \in Records |->
        IF r \in C
        THEN [recs[r] EXCEPT !.st = "reviewing",
                             !.tries = IF @ > MaxRetries THEN @ ELSE @ + 1]
        ELSE recs[r]]

\* Seeded fault: the update does not compare the status.
UpdateRecordsBlindly(recs, new, expected) ==
    [r \in Records |-> IF r \in DOMAIN new THEN new[r] ELSE recs[r]]

\* Replace the rows of DOMAIN new whose stored status is still `expected`.
UpdateRecords(recs, new, expected) ==
    [r \in Records |->
        IF r \in DOMAIN new /\ recs[r].st = expected THEN new[r] ELSE recs[r]]

\* Neither of these two looks at the stored status.  SQLite reads the rows and
\* upserts them in two statements; an update that falls between is overwritten
\* whole, which leaves the status this step leaves.
MarkCommitted(recs, R) == SetStatus(recs, R, "committed")
ResolveRecords(recs, R) == SetStatus(recs, R, "resolved")

Closed(row) == row.st \in {"committed", "resolved"}

\* The validator a stored record is parsed with, which raises when a status
\* carries a gate decision it may not have.
GateMatchesStatus(row) ==
    /\ row.st \in {"pending", "reviewing", "failed"} => row.gate = "queue"
    /\ row.st = "committed" => row.gate \in {"queue", "auto_write"}
    /\ row.st = "resolved" => row.gate \in {"queue", "reject"}
=============================================================================
