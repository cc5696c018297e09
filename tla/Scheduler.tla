----------------------------- MODULE Scheduler -----------------------------
(***************************************************************************)
(* Scheduled ingestion.  `schedule worker` and `schedule run-due` list the *)
(* due jobs and run them one after the other, `schedule run` runs one job  *)
(* at once, `schedule enable` and `disable` switch a job.  They are        *)
(* processes that share the stored job rows and nothing else.              *)
(*                                                                         *)
(* A runner works on the copy of the row it listed: the claim compares the *)
(* status alone, and the write that ends a run replaces the whole state    *)
(* with one computed from that copy.                                       *)
(***************************************************************************)
EXTENDS Integers

CONSTANTS
    Jobs,           \* scheduled ingestion jobs
    Workers,        \* `schedule worker` processes: they poll for ever
    Commands,       \* callers of `schedule run` and `schedule run-due`
    Operators,      \* callers of `schedule enable` and `disable`
    NextCron(_, _), \* the first tick of a job after a time, or NoTick
    NoTick,         \* there is none within the year next_cron_run searches
    NoRun,          \* the current_run_id of a job that is not running
    MaxRetries,     \* retry_policy.max_retries
    Backoff,        \* retry_policy.retry_backoff_seconds
    Horizon,        \* bound: the last instant of the clock
    RetryCap,       \* bound: no manual run of a job that failed so often
    MaxDeaths,      \* bound: how many processes are killed
    MaxSwitches     \* bound: how often a job is enabled or disabled

Runners == Workers \cup Commands

ASSUME ProcessAssumption == Runners \cap Operators = {} /\ NoRun \notin Runners
ASSUME CronAssumption ==
    \A j \in Jobs, t \in 0..Horizon :
        \/ NextCron(j, t) = NoTick
        \/ NextCron(j, t) \in Nat /\ NextCron(j, t) > t
ASSUME FirstTickAssumption == \A j \in Jobs : NextCron(j, 0) # NoTick
ASSUME NoTickAssumption == NoTick \notin Nat
ASSUME PolicyAssumption == MaxRetries \in Nat /\ Backoff \in Nat \ {0}
ASSUME HorizonAssumption == Horizon \in Nat

VARIABLES
    jobs,     \* durable: the stored rows
    setup,    \* what no step changes about a job: see Setup
    proc,     \* what each process holds in memory, and where it is
    now,      \* the wall clock
    deaths,   \* how many processes were killed so far
    orphaned, \* jobs of which a process died between the claim and the end
    switches  \* how often each job was enabled or disabled so far

vars == <<jobs, setup, proc, now, deaths, orphaned, switches>>

\* next: next_run_at.  current: current_run_id; a run is named by its runner.
Row == [st : {"absent", "active", "disabled", "running", "failed"},
        next : Nat, retries : Nat, current : Runners \cup {NoRun}]

\* blocked: the write configuration has an error, so the job is never run.
\* off: the job was disabled before any of these processes started.
Setup == [blocked : BOOLEAN, off : BOOLEAN]

\* todo: the jobs listed and not yet dealt with.  seen: their rows, as
\* listed.  busy: the job being run or switched.  result, at: how and when
\* the run ended.
LocalState == [pc : {"idle", "next", "run", "finish", "switch"},
               todo : SUBSET Jobs, seen : [Jobs -> Row], busy : SUBSET Jobs,
               result : {"none", "succeeded", "failed", "cancelled"},
               at : 0..Horizon]

NewRow(st, next) ==
    [st |-> st, next |-> next, retries |-> 0, current |-> NoRun]
NoRow == NewRow("absent", 0)
Idle == [pc |-> "idle", todo |-> {}, seen |-> [j \in Jobs |-> NoRow],
         busy |-> {}, result |-> "none", at |-> 0]

\* A job that `schedule add` would reject today may have been stored before.
Init ==
    /\ setup \in [Jobs -> Setup]
    /\ jobs = [j \in Jobs |->
                 CASE setup[j].off     -> NewRow("disabled", NextCron(j, 0))
                   [] ~setup[j].off /\ setup[j].blocked
                                       -> NewRow("active", NextCron(j, 0))
                   [] OTHER            -> NoRow]
    /\ proc = [p \in Runners \cup Operators |-> Idle]
    /\ now = 0 /\ deaths = 0 /\ orphaned = {} /\ switches = [j \in Jobs |-> 0]

---------------------------------------------------------------------------
(* The clock, and `schedule add`. *)

Tick ==
    /\ now < Horizon
    /\ now' = now + 1
    /\ UNCHANGED <<jobs, setup, proc, deaths, orphaned, switches>>

Add(j) ==
    /\ jobs[j].st = "absent" /\ NextCron(j, now) # NoTick
    /\ jobs' = [jobs EXCEPT ![j] = NewRow("active", NextCron(j, now))]
    /\ UNCHANGED <<setup, proc, now, deaths, orphaned, switches>>

---------------------------------------------------------------------------
(* What a runner is about to do. *)

\* Seeded fault: a tick is due at its own instant only.
DueAtOnce(row) == row.st = "active" /\ row.next = now
Due(row) == row.st = "active" /\ row.next <= now

\* The runner's state after it has dealt with job j.
Done(p, j) ==
    LET rest == proc[p].todo \ {j} IN
    IF rest = {} THEN Idle
    ELSE [proc[p] EXCEPT !.pc = "next", !.todo = rest, !.seen[j] = NoRow,
                         !.busy = {}, !.result = "none", !.at = 0]

ListDue(p) ==
    LET due == {j \in Jobs : Due(jobs[j])} IN
    /\ proc[p].pc = "idle" /\ due # {}
    /\ proc' = [proc EXCEPT ![p] =
                  [Idle EXCEPT !.pc = "next", !.todo = due,
                     !.seen = [j \in Jobs |-> IF j \in due THEN jobs[j]
                                              ELSE NoRow]]]
    /\ UNCHANGED <<jobs, setup, now, deaths, orphaned, switches>>

\* `schedule run`: any job that exists, due or not, whatever its status.
RunNow(c, j) ==
    /\ proc[c].pc = "idle"
    /\ jobs[j].st # "absent" /\ jobs[j].retries < RetryCap
    /\ proc' = [proc EXCEPT ![c] = [Idle EXCEPT !.pc = "next", !.todo = {j},
                                                !.seen[j] = jobs[j]]]
    /\ UNCHANGED <<jobs, setup, now, deaths, orphaned, switches>>

---------------------------------------------------------------------------
(* One run: the claim, the run itself, and the write that ends it. *)

\* The copy says running: a skipped run is logged and the row is left alone.
SkipRunning(p, j) ==
    /\ proc[p].pc = "next" /\ j \in proc[p].todo
    /\ proc[p].seen[j].st = "running"
    /\ proc' = [proc EXCEPT ![p] = Done(p, j)]
    /\ UNCHANGED <<jobs, setup, now, deaths, orphaned, switches>>

\* An unsafe write configuration fails the job without looking at its row.
SkipBlocked(p, j) ==
    LET row == proc[p].seen[j] IN
    /\ proc[p].pc = "next" /\ j \in proc[p].todo
    /\ row.st # "running" /\ setup[j].blocked
    /\ NextCron(j, now) # NoTick
    /\ jobs' = [jobs EXCEPT ![j] = [row EXCEPT !.st = "failed", !.current = NoRun,
                                               !.next = NextCron(j, now)]]
    /\ proc' = [proc EXCEPT ![p] = Done(p, j)]
    /\ UNCHANGED <<setup, now, deaths, orphaned, switches>>

\* Seeded fault: the claim is an unconditional update.
CanClaimAnyway(p, j) == TRUE

\* The compare-and-swap of the claim looks at the status only.
CanClaim(p, j) == jobs[j].st = proc[p].seen[j].st

Claim(p, j) ==
    /\ proc[p].pc = "next" /\ j \in proc[p].todo
    /\ proc[p].seen[j].st # "running" /\ ~setup[j].blocked
    /\ IF CanClaim(p, j)
       THEN /\ jobs' = [jobs EXCEPT ![j] = [proc[p].seen[j] EXCEPT
                                              !.st = "running", !.current = p]]
            /\ proc' = [proc EXCEPT ![p].pc = "run", ![p].busy = {j}]
       ELSE /\ proc' = [proc EXCEPT ![p] = Done(p, j)]
            /\ UNCHANGED jobs
    /\ UNCHANGED <<setup, now, deaths, orphaned, switches>>

\* The agent run returns a report, raises, or is cancelled by a signal.
EndRun(p) ==
    /\ proc[p].pc = "run"
    /\ \E result \in {"succeeded", "failed", "cancelled"} :
         proc' = [proc EXCEPT ![p] = [@ EXCEPT !.pc = "finish",
                                               !.result = result, !.at = now]]
    /\ UNCHANGED <<jobs, setup, now, deaths, orphaned, switches>>

\* Seeded fault: a job that was disabled goes back on the schedule.
AfterSuccessActive(j, row, t) ==
    [st |-> "active", next |-> NextCron(j, t), retries |-> 0, current |-> NoRun]

\* Status and state after a run, from the row as it was listed.
AfterSuccess(j, row, t) ==
    [st |-> IF row.st = "disabled" THEN "disabled" ELSE "active",
     next |-> NextCron(j, t), retries |-> 0, current |-> NoRun]

\* Seeded fault: one retry too many.
MayRetryOnceMore(row) == row.retries <= MaxRetries
MayRetry(row) == row.retries < MaxRetries

\* Seeded fault: the retries left are counted down from the copy.
AfterFailureDown(j, row, t) ==
    [st |-> "active", next |-> t + Backoff,
     retries |-> row.retries - 1, current |-> NoRun]

AfterFailure(j, row, t) ==
    [st |-> CASE row.st = "disabled" -> "disabled"
              [] row.st # "disabled" /\ MayRetry(row) -> "active"
              [] OTHER -> "failed",
     next |-> IF MayRetry(row) THEN t + Backoff ELSE NextCron(j, t),
     retries |-> row.retries + 1, current |-> NoRun]

\* Seeded fault: a cancelled run is not written back.
EndOfRunUnlessCancelled(p, j) ==
    CASE proc[p].result = "succeeded" ->
             AfterSuccess(j, proc[p].seen[j], proc[p].at)
      [] proc[p].result = "failed" ->
             AfterFailure(j, proc[p].seen[j], proc[p].at)
      [] OTHER -> jobs[j]

EndOfRun(p, j) ==
    IF proc[p].result = "succeeded"
    THEN AfterSuccess(j, proc[p].seen[j], proc[p].at)
    ELSE AfterFailure(j, proc[p].seen[j], proc[p].at)

\* A cancelled runner writes the row like a failed one and then exits.
Finish(p, j) ==
    /\ proc[p].pc = "finish" /\ j \in proc[p].busy
    /\ EndOfRun(p, j).next # NoTick
    /\ jobs' = [jobs EXCEPT ![j] = EndOfRun(p, j)]
    /\ proc' = [proc EXCEPT ![p] = IF @.result = "cancelled" THEN Idle
                                   ELSE Done(p, j)]
    /\ UNCHANGED <<setup, now, deaths, orphaned, switches>>

\* next_cron_run raises when the year ahead has no tick; nothing catches it.
RaisesNoTick(p, j) ==
    \/ /\ proc[p].pc = "finish" /\ j \in proc[p].busy
       /\ EndOfRun(p, j).next = NoTick
    \/ /\ proc[p].pc = "next" /\ j \in proc[p].todo
       /\ proc[p].seen[j].st # "running" /\ setup[j].blocked
       /\ NextCron(j, now) = NoTick

Raise(p, j) ==
    /\ RaisesNoTick(p, j)
    /\ proc' = [proc EXCEPT ![p] = Idle]
    /\ orphaned' = orphaned \cup proc[p].busy
    /\ UNCHANGED <<jobs, setup, now, deaths, switches>>

\* A kill at any point; a store call that raises has the same effect.  The
\* process that is started next begins afresh.
Die(p) ==
    /\ proc[p].pc # "idle" /\ deaths < MaxDeaths
    /\ proc' = [proc EXCEPT ![p] = Idle]
    /\ orphaned' = orphaned \cup proc[p].busy
    /\ deaths' = deaths + 1
    /\ UNCHANGED <<jobs, setup, now, switches>>

---------------------------------------------------------------------------
(* `schedule enable` and `disable`: a read, then an unconditional write. *)

Switched(row, j, enabled) ==
    IF enabled THEN [row EXCEPT !.st = "active", !.next = NextCron(j, now)]
    ELSE [row EXCEPT !.st = "disabled"]

ReadToSwitch(o, j, enabled) ==
    /\ proc[o].pc = "idle" /\ switches[j] < MaxSwitches /\ jobs[j].st # "absent"
    /\ enabled => NextCron(j, now) # NoTick
    /\ proc' = [proc EXCEPT ![o] =
                  [Idle EXCEPT !.pc = "switch", !.busy = {j},
                               !.seen[j] = Switched(jobs[j], j, enabled)]]
    /\ UNCHANGED <<jobs, setup, now, deaths, orphaned, switches>>

Switch(o, j) ==
    /\ proc[o].pc = "switch" /\ j \in proc[o].busy
    /\ jobs' = [jobs EXCEPT ![j] = proc[o].seen[j]]
    /\ proc' = [proc EXCEPT ![o] = Idle]
    /\ switches' = [switches EXCEPT ![j] = @ + 1]
    /\ UNCHANGED <<setup, now, deaths, orphaned>>

---------------------------------------------------------------------------

RunStep(p) ==
    \/ \E j \in Jobs : \/ SkipRunning(p, j) \/ SkipBlocked(p, j) \/ Claim(p, j)
                       \/ Finish(p, j) \/ Raise(p, j)
    \/ EndRun(p)

Next ==
    \/ Tick
    \/ \E j \in Jobs : Add(j)
    \/ \E p \in Runners : ListDue(p) \/ RunStep(p) \/ Die(p)
    \/ \E c \in Commands, j \in Jobs : RunNow(c, j)
    \/ \E o \in Operators, j \in Jobs :
          Switch(o, j) \/ \E enabled \in BOOLEAN : ReadToSwitch(o, j, enabled)

Spec == Init /\ [][Next]_vars

\* A worker polls for ever and its runs end: every model call has a timeout.
LiveSpec == Spec /\ \A w \in Workers : WF_vars(ListDue(w)) /\ WF_vars(RunStep(w))

---------------------------------------------------------------------------
(* Properties *)

Overdue(j) == jobs[j].st = "active" /\ jobs[j].next <= now
Running(p, j) == proc[p].pc \in {"run", "finish"} /\ j \in proc[p].busy

\* Every row and every process is well formed; a stored job has a next tick.
TypeOK ==
    /\ jobs \in [Jobs -> Row] /\ setup \in [Jobs -> Setup]
    /\ proc \in [Runners \cup Operators -> LocalState]
    /\ now \in 0..Horizon /\ deaths \in Nat /\ orphaned \subseteq Jobs
    /\ switches \in [Jobs -> Nat]

\* Two runs of one job never overlap, whatever was listed when, as long as
\* nobody has switched the job (the claim of _run_scheduled_ingestion_job).
JobRunByOne ==
    \A j \in Jobs, p, q \in Runners :
        switches[j] = 0 /\ Running(p, j) /\ Running(q, j) => p = q

\* A row says running only while some process is at the run; the exception is
\* a job whose runner died, and nothing ever repairs that one.
RunningIsRun ==
    \A j \in Jobs : jobs[j].st = "running" =>
        j \in orphaned \/ \E p \in Runners : Running(p, j)

\* A manual run, even one of many at once or one that is cancelled, does not
\* put a disabled job back on the schedule.
OffStaysOff ==
    \A j \in Jobs : setup[j].off /\ switches[j] = 0 => jobs[j].st # "active"

\* A job is on the schedule only while it has retries left, and is given up
\* only when they are used up, although every count is written from a copy.
RetriesMatchStatus ==
    \A j \in Jobs : switches[j] = 0 /\ ~setup[j].blocked =>
        /\ jobs[j].st = "active" => jobs[j].retries <= MaxRetries
        /\ jobs[j].st = "failed" => jobs[j].retries > MaxRetries

\* A due job does not stay due for ever, whoever else runs or switches it:
\* _run_due_scheduled_jobs takes up ticks that were missed, too.  (A blocked
\* job without a next tick ends every worker that lists it, so it is excluded.)
DueJobRuns ==
    \A j \in Jobs :
        (\A i \in Jobs : ~setup[i].blocked) /\ Overdue(j) ~> ~Overdue(j)

\* A run starts from the row as it is, never from an older copy of it.
ClaimsWhatItSaw ==
    [][\A p \in Runners, j \in Jobs :
          Running(p, j)' /\ ~Running(p, j) => jobs[j] = proc[p].seen[j]]_vars

=============================================================================
