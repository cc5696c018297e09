-------------------------- MODULE Scheduler_proofs --------------------------
(***************************************************************************)
(* Proofs about Scheduler, for any number of jobs, workers, commands and   *)
(* operators, any cron expression, any retry policy, and kills anywhere.   *)
(***************************************************************************)
EXTENDS Scheduler, TLAPS

(***************************************************************************)
(* Types                                                                   *)
(***************************************************************************)
\* A tick that is found is a later instant.
LEMMA CronType ==
  ASSUME NEW j \in Jobs, NEW t \in 0..Horizon, NextCron(j, t) # NoTick
  PROVE  NextCron(j, t) \in Nat
  BY CronAssumption

LEMMA NewRowType ==
  ASSUME NEW st \in {"absent", "active", "disabled", "running", "failed"},
         NEW n \in Nat
  PROVE  NewRow(st, n) \in Row
  BY DEF NewRow, Row

LEMMA IdleType == Idle \in LocalState
  <1>1. NoRow \in Row
    BY NewRowType DEF NoRow
  <1>. QED
    BY <1>1, HorizonAssumption DEF Idle, LocalState

LEMMA DoneType ==
  ASSUME TypeOK, NEW p \in Runners, NEW j \in Jobs
  PROVE  Done(p, j) \in LocalState
  <1>1. NoRow \in Row /\ 0 \in 0..Horizon
    BY NewRowType, HorizonAssumption DEF NoRow
  <1>2. proc[p] \in LocalState
    BY DEF TypeOK
  <1>. QED
    BY <1>1, <1>2, IdleType DEF Done, LocalState

\* What the end of a run writes is a row, unless the ticks have run out.
LEMMA EndOfRunType ==
  ASSUME TypeOK, NEW p \in Runners, NEW j \in Jobs,
         EndOfRun(p, j).next # NoTick
  PROVE  EndOfRun(p, j) \in Row
  <1>. DEFINE row == proc[p].seen[j]
              t == proc[p].at
  <1>1. row \in Row /\ t \in 0..Horizon
    BY DEF TypeOK, LocalState
  <1>2. row.retries \in Nat
    BY <1>1 DEF Row
  <1>3. CASE proc[p].result = "succeeded"
    <2>1. EndOfRun(p, j) = AfterSuccess(j, row, t)
      BY <1>3 DEF EndOfRun
    <2>2. NextCron(j, t) \in Nat
      BY <2>1, <1>1, CronType DEF AfterSuccess
    <2>. QED
      BY <2>1, <2>2 DEF AfterSuccess, Row
  <1>4. CASE proc[p].result # "succeeded"
    <2>1. EndOfRun(p, j) = AfterFailure(j, row, t)
      BY <1>4 DEF EndOfRun
    <2>2. AfterFailure(j, row, t).next \in Nat
      <3>1. CASE MayRetry(row)
        BY <3>1, <1>1, PolicyAssumption, HorizonAssumption DEF AfterFailure
      <3>2. CASE ~MayRetry(row)
        BY <3>2, <2>1, <1>1, CronType DEF AfterFailure
      <3>. QED
        BY <3>1, <3>2
    <2>3. AfterFailure(j, row, t).st \in {"active", "disabled", "failed"}
      BY DEF AfterFailure
    <2>4. row.retries + 1 \in Nat
      BY <1>2
    <2>5. AfterFailure(j, row, t) =
            [st |-> AfterFailure(j, row, t).st,
             next |-> AfterFailure(j, row, t).next,
             retries |-> row.retries + 1, current |-> NoRun]
      BY DEF AfterFailure
    <2>. QED
      BY <2>1, <2>2, <2>3, <2>4, <2>5 DEF Row
  <1>. QED
    BY <1>3, <1>4

LEMMA SwitchedType ==
  ASSUME TypeOK, NEW j \in Jobs, NEW enabled \in BOOLEAN,
         enabled => NextCron(j, now) # NoTick
  PROVE  Switched(jobs[j], j, enabled) \in Row
  <1>1. jobs[j] \in Row /\ now \in 0..Horizon
    BY DEF TypeOK
  <1>2. enabled => NextCron(j, now) \in Nat
    BY <1>1, CronType
  <1>. QED
    BY <1>1, <1>2 DEF Switched, Row

LEMMA InitTyped == Init => TypeOK
  <1>. SUFFICES ASSUME Init PROVE TypeOK
    OBVIOUS
  <1>1. 0 \in 0..Horizon
    BY HorizonAssumption
  <1>2. \A j \in Jobs : jobs[j] \in Row
    <2>. TAKE j \in Jobs
    <2>1. NextCron(j, 0) \in Nat
      BY <1>1, FirstTickAssumption, CronType
    <2>2. jobs[j] \in {NewRow("disabled", NextCron(j, 0)),
                       NewRow("active", NextCron(j, 0)), NoRow}
      BY DEF Init
    <2>. QED
      BY <2>1, <2>2, NewRowType DEF NoRow
  <1>3. jobs \in [Jobs -> Row]
    BY <1>2 DEF Init
  <1>. QED
    BY <1>1, <1>3, IdleType DEF Init, TypeOK

\* A process that takes on a typed state leaves the processes typed.
LEMMA ProcType ==
  ASSUME TypeOK, NEW p \in Runners \cup Operators, NEW s \in LocalState,
         proc' = [proc EXCEPT ![p] = s]
  PROVE  proc' \in [Runners \cup Operators -> LocalState]
  BY DEF TypeOK

LEMMA NextTyped == TypeOK /\ [Next]_vars => TypeOK'
  <1>. SUFFICES ASSUME TypeOK, [Next]_vars PROVE TypeOK'
    OBVIOUS
  <1>. USE DEF TypeOK
  <1>1. CASE UNCHANGED vars
    BY <1>1 DEF vars
  <1>2. CASE Tick
    BY <1>2, HorizonAssumption DEF Tick
  <1>3. ASSUME NEW j \in Jobs, Add(j) PROVE TypeOK'
    <2>1. NewRow("active", NextCron(j, now)) \in Row
      BY <1>3, CronType, NewRowType DEF Add
    <2>. QED
      BY <1>3, <2>1 DEF Add
  <1>4. ASSUME NEW p \in Runners, ListDue(p) PROVE TypeOK'
    <2>. DEFINE due == {j \in Jobs : Due(jobs[j])}
                s == [Idle EXCEPT !.pc = "next", !.todo = due,
                        !.seen = [j \in Jobs |-> IF j \in due THEN jobs[j]
                                                 ELSE NoRow]]
    <2>1. NoRow \in Row
      BY NewRowType DEF NoRow
    <2>2. s \in LocalState
      BY <2>1, IdleType DEF LocalState
    <2>3. proc' = [proc EXCEPT ![p] = s]
      BY <1>4 DEF ListDue
    <2>. HIDE DEF s
    <2>4. proc' \in [Runners \cup Operators -> LocalState]
      BY <2>2, <2>3, ProcType
    <2>. QED
      BY <1>4, <2>4 DEF ListDue
  <1>5. ASSUME NEW c \in Commands, NEW j \in Jobs, RunNow(c, j) PROVE TypeOK'
    <2>. DEFINE s == [Idle EXCEPT !.pc = "next", !.todo = {j},
                                  !.seen[j] = jobs[j]]
    <2>1. s \in LocalState
      BY IdleType DEF LocalState
    <2>2. proc' = [proc EXCEPT ![c] = s] /\ c \in Runners
      BY <1>5 DEF RunNow, Runners
    <2>. HIDE DEF s
    <2>3. proc' \in [Runners \cup Operators -> LocalState]
      BY <2>1, <2>2, ProcType
    <2>. QED
      BY <1>5, <2>3 DEF RunNow
  <1>6. ASSUME NEW p \in Runners, NEW j \in Jobs, SkipRunning(p, j)
        PROVE  TypeOK'
    BY <1>6, DoneType, ProcType DEF SkipRunning
  <1>7. ASSUME NEW p \in Runners, NEW j \in Jobs, SkipBlocked(p, j)
        PROVE  TypeOK'
    <2>1. NextCron(j, now) \in Nat
      BY <1>7, CronType DEF SkipBlocked
    <2>2. proc[p].seen[j] \in Row
      BY DEF LocalState
    <2>3. [proc[p].seen[j] EXCEPT !.st = "failed", !.current = NoRun,
                                  !.next = NextCron(j, now)] \in Row
      BY <2>1, <2>2 DEF Row
    <2>4. proc' \in [Runners \cup Operators -> LocalState]
      BY <1>7, DoneType, ProcType DEF SkipBlocked
    <2>. QED
      BY <1>7, <2>3, <2>4 DEF SkipBlocked
  <1>8. ASSUME NEW p \in Runners, NEW j \in Jobs, Claim(p, j) PROVE TypeOK'
    <2>1. CASE CanClaim(p, j)
      <3>1. proc[p] \in LocalState /\ proc[p].seen[j] \in Row
        BY DEF LocalState
      <3>2. [proc[p].seen[j] EXCEPT !.st = "running", !.current = p] \in Row
        BY <3>1 DEF Row
      <3>3. [proc[p] EXCEPT !.pc = "run", !.busy = {j}] \in LocalState
        BY <3>1 DEF LocalState
      <3>. QED
        BY <1>8, <2>1, <3>2, <3>3 DEF Claim
    <2>2. CASE ~CanClaim(p, j)
      BY <1>8, <2>2, DoneType, ProcType DEF Claim
    <2>. QED
      BY <2>1, <2>2
  <1>9. ASSUME NEW p \in Runners, EndRun(p) PROVE TypeOK'
    <2>1. PICK result \in {"succeeded", "failed", "cancelled"} :
            proc' = [proc EXCEPT ![p] = [proc[p] EXCEPT !.pc = "finish",
                                            !.result = result, !.at = now]]
      BY <1>9 DEF EndRun
    <2>2. [proc[p] EXCEPT !.pc = "finish", !.result = result, !.at = now]
            \in LocalState
      BY DEF LocalState
    <2>. QED
      BY <1>9, <2>1, <2>2 DEF EndRun
  <1>10. ASSUME NEW p \in Runners, NEW j \in Jobs, Finish(p, j) PROVE TypeOK'
    <2>1. EndOfRun(p, j) \in Row
      BY <1>10, EndOfRunType DEF Finish
    <2>2. (IF proc[p].result = "cancelled" THEN Idle ELSE Done(p, j))
             \in LocalState
      BY DoneType, IdleType
    <2>. QED
      BY <1>10, <2>1, <2>2 DEF Finish
  <1>11. ASSUME NEW p \in Runners, NEW j \in Jobs, Raise(p, j) PROVE TypeOK'
    BY <1>11, IdleType DEF Raise, LocalState
  <1>12. ASSUME NEW p \in Runners, Die(p) PROVE TypeOK'
    BY <1>12, IdleType DEF Die, LocalState
  <1>13. ASSUME NEW o \in Operators, NEW j \in Jobs, NEW enabled \in BOOLEAN,
                ReadToSwitch(o, j, enabled)
         PROVE  TypeOK'
    <2>. DEFINE row == Switched(jobs[j], j, enabled)
                s == [Idle EXCEPT !.pc = "switch", !.busy = {j},
                                  !.seen[j] = row]
    <2>1. row \in Row
      BY <1>13, SwitchedType DEF ReadToSwitch
    <2>2. proc' = [proc EXCEPT ![o] = s]
      BY <1>13 DEF ReadToSwitch
    <2>. HIDE DEF row
    <2>3. s \in LocalState
      BY <2>1, IdleType DEF LocalState
    <2>. HIDE DEF s
    <2>4. proc' \in [Runners \cup Operators -> LocalState]
      BY <2>2, <2>3, ProcType
    <2>. QED
      BY <1>13, <2>4 DEF ReadToSwitch
  <1>14. ASSUME NEW o \in Operators, NEW j \in Jobs, Switch(o, j) PROVE TypeOK'
    BY <1>14, IdleType DEF Switch, LocalState
  <1>. QED
    BY <1>1, <1>2, <1>3, <1>4, <1>5, <1>6, <1>7, <1>8, <1>9, <1>10, <1>11,
       <1>12, <1>13, <1>14 DEF Next, RunStep

\* Every reachable row and process is well formed; no row is ever stored
\* without a next tick, although next_cron_run may fail to find one.
THEOREM TypeCorrect == Spec => []TypeOK
  <1>. QED
    BY InitTyped, NextTyped, PTL DEF Spec

(***************************************************************************)
(* The inductive invariant.  A runner is at one job, which it listed, and  *)
(* the row of a job nobody has switched says whose run it is; this is what *)
(* the status-only claim gives, and it needs no freshness of the copy.     *)
(***************************************************************************)
OneAtATime ==
    \A p \in Runners, j \in Jobs : Running(p, j) =>
        /\ proc[p].busy = {j} /\ j \in proc[p].todo
        /\ proc[p].seen[j].st # "running" /\ ~setup[j].blocked

RowNamesRunner ==
    \A p \in Runners, j \in Jobs : switches[j] = 0 /\ Running(p, j) =>
        jobs[j].st = "running" /\ jobs[j].current = p

\* A job that is off stays so in its row and in every copy of it.
OffStatus(j) == IF setup[j].blocked THEN {"disabled", "failed"}
                ELSE {"disabled", "running"}
OffEverywhere ==
    \A j \in Jobs : setup[j].off /\ switches[j] = 0 =>
        /\ jobs[j].st \in OffStatus(j)
        /\ \A p \in Runners : j \in proc[p].todo =>
              proc[p].seen[j].st \in OffStatus(j)

\* What an operator is about to write.
WritesActiveOrDisabled ==
    \A o \in Operators, j \in Jobs :
        proc[o].pc = "switch" /\ j \in proc[o].busy =>
            proc[o].seen[j].st \in {"active", "disabled"}

IInv == /\ OneAtATime /\ RowNamesRunner /\ RunningIsRun
        /\ OffEverywhere /\ RetriesMatchStatus /\ WritesActiveOrDisabled

\* What a runner may keep when it is no longer at a run.
Resting(s, old) ==
    /\ s.pc \notin {"run", "finish"} /\ s.todo \subseteq old.todo
    /\ \A i \in s.todo : s.seen[i] = old.seen[i]

LEMMA IdleRests ==
  ASSUME NEW old
  PROVE  Resting(Idle, old)
  BY DEF Resting, Idle

LEMMA DoneRests ==
  ASSUME TypeOK, NEW p \in Runners, NEW j \in Jobs
  PROVE  Resting(Done(p, j), proc[p])
  <1>1. proc[p] \in LocalState
    BY DEF TypeOK
  <1>2. CASE proc[p].todo \ {j} = {}
    BY <1>2, IdleRests DEF Done
  <1>3. CASE proc[p].todo \ {j} # {}
    <2>. DEFINE s == [proc[p] EXCEPT !.pc = "next",
                        !.todo = proc[p].todo \ {j}, !.seen[j] = NoRow,
                        !.busy = {}, !.result = "none", !.at = 0]
    <2>1. Done(p, j) = s
      BY <1>3 DEF Done
    <2>2. s.pc = "next" /\ s.todo = proc[p].todo \ {j}
      BY <1>1 DEF LocalState
    <2>3. \A i \in proc[p].todo \ {j} : s.seen[i] = proc[p].seen[i]
      BY <1>1 DEF LocalState
    <2>. QED
      BY <2>1, <2>2, <2>3 DEF Resting
  <1>. QED
    BY <1>2, <1>3

\* A runner's step does not touch what an operator holds.
LEMMA RunnerApart ==
  ASSUME TypeOK, WritesActiveOrDisabled, NEW p \in Runners, NEW s,
         proc' = [proc EXCEPT ![p] = s]
  PROVE  WritesActiveOrDisabled'
  <1>1. \A o \in Operators : proc'[o] = proc[o]
    BY ProcessAssumption DEF TypeOK
  <1>. QED
    BY <1>1 DEF WritesActiveOrDisabled

LEMMA InitInv == Init => IInv
  <1>. SUFFICES ASSUME Init PROVE IInv
    OBVIOUS
  <1>1. \A p \in Runners : proc[p] = Idle
    BY DEF Init
  <1>2. \A p \in Runners, j \in Jobs : ~Running(p, j) /\ j \notin proc[p].todo
    <2>1. Idle.pc = "idle" /\ Idle.todo = {}
      BY DEF Idle
    <2>. QED
      BY <1>1, <2>1 DEF Running
  <1>3. \A j \in Jobs :
           /\ jobs[j].st \in {"absent", "active", "disabled"}
           /\ jobs[j].retries = 0
           /\ setup[j].off => jobs[j].st = "disabled"
    BY DEF Init, NewRow, NoRow
  <1>4. OneAtATime /\ RowNamesRunner
    BY <1>2 DEF OneAtATime, RowNamesRunner
  <1>5. RunningIsRun
    BY <1>3 DEF RunningIsRun
  <1>6. OffEverywhere
    BY <1>2, <1>3 DEF OffEverywhere, OffStatus
  <1>7. RetriesMatchStatus
    BY <1>3, PolicyAssumption DEF RetriesMatchStatus
  <1>8. WritesActiveOrDisabled
    <2>1. Idle.pc = "idle"
      BY DEF Idle
    <2>. QED
      BY <2>1 DEF Init, WritesActiveOrDisabled
  <1>. QED
    BY <1>4, <1>5, <1>6, <1>7, <1>8 DEF IInv

\* A runner that leaves the rows alone and lets go of its run, if it has one,
\* by dying keeps the invariant.
LEMMA LetGo ==
  ASSUME TypeOK, IInv, NEW p \in Runners, NEW s, Resting(s, proc[p]),
         proc' = [proc EXCEPT ![p] = s],
         UNCHANGED <<jobs, setup, switches>>,
         orphaned \subseteq orphaned',
         \A j \in Jobs : Running(p, j) => j \in orphaned'
  PROVE  IInv'
  <1>1. proc'[p] = s /\ \A q \in Runners : q # p => proc'[q] = proc[q]
    BY DEF TypeOK
  <1>2. \A j \in Jobs : ~Running(p, j)'
    BY <1>1 DEF Running, Resting
  <1>3. \A q \in Runners, j \in Jobs : q # p => (Running(q, j)' <=> Running(q, j))
    BY <1>1 DEF Running
  <1>4. OneAtATime' /\ RowNamesRunner'
    BY <1>1, <1>2, <1>3 DEF IInv, OneAtATime, RowNamesRunner
  <1>5. RunningIsRun'
    BY <1>2, <1>3 DEF IInv, RunningIsRun
  <1>6. OffEverywhere'
    BY <1>1 DEF IInv, OffEverywhere, OffStatus, Resting
  <1>7. RetriesMatchStatus'
    BY DEF IInv, RetriesMatchStatus
  <1>8. WritesActiveOrDisabled'
    BY RunnerApart DEF IInv
  <1>. QED
    BY <1>4, <1>5, <1>6, <1>7, <1>8 DEF IInv

\* A runner that lists rows as they are keeps the invariant.
LEMMA TakeUp ==
  ASSUME TypeOK, IInv, NEW p \in Runners, NEW s,
         proc[p].pc = "idle", s.pc = "next",
         \A i \in s.todo : i \in Jobs /\ s.seen[i] = jobs[i],
         proc' = [proc EXCEPT ![p] = s],
         UNCHANGED <<jobs, setup, switches, orphaned>>
  PROVE  IInv'
  <1>1. proc'[p] = s /\ \A q \in Runners : q # p => proc'[q] = proc[q]
    BY DEF TypeOK
  <1>2. \A q \in Runners, j \in Jobs : Running(q, j)' <=> Running(q, j)
    BY <1>1 DEF Running
  <1>3. OneAtATime' /\ RowNamesRunner'
    BY <1>1, <1>2 DEF IInv, OneAtATime, RowNamesRunner, Running
  <1>4. RunningIsRun'
    BY <1>2 DEF IInv, RunningIsRun
  <1>5. OffEverywhere'
    BY <1>1 DEF IInv, OffEverywhere, OffStatus
  <1>6. RetriesMatchStatus'
    BY DEF IInv, RetriesMatchStatus
  <1>7. WritesActiveOrDisabled'
    BY RunnerApart DEF IInv
  <1>. QED
    BY <1>3, <1>4, <1>5, <1>6, <1>7 DEF IInv

\* A runner that writes its own or a blocked job's row and then rests.
LEMMA WriteAndRest ==
  ASSUME TypeOK, IInv, NEW p \in Runners, NEW j \in Jobs, NEW s, NEW row \in Row,
         Resting(s, proc[p]),
         proc' = [proc EXCEPT ![p] = s],
         jobs' = [jobs EXCEPT ![j] = row],
         UNCHANGED <<setup, switches, orphaned>>,
         row.st # "running",
         \A i \in Jobs : Running(p, i) => i = j,
         switches[j] = 0 => \A q \in Runners : Running(q, j) => q = p,
         setup[j].off /\ switches[j] = 0 => row.st \in OffStatus(j),
         ~setup[j].blocked =>
             /\ row.st = "active" => row.retries <= MaxRetries
             /\ row.st = "failed" => row.retries > MaxRetries
  PROVE  IInv'
  <1>1. proc'[p] = s /\ \A q \in Runners : q # p => proc'[q] = proc[q]
    BY DEF TypeOK
  <1>2. jobs'[j] = row /\ \A i \in Jobs : i # j => jobs'[i] = jobs[i]
    BY DEF TypeOK
  <1>3. \A i \in Jobs : ~Running(p, i)'
    BY <1>1 DEF Running, Resting
  <1>4. \A q \in Runners, i \in Jobs : q # p => (Running(q, i)' <=> Running(q, i))
    BY <1>1 DEF Running
  <1>5. OneAtATime'
    BY <1>1, <1>3, <1>4 DEF IInv, OneAtATime
  <1>6. RowNamesRunner'
    BY <1>2, <1>3, <1>4 DEF IInv, RowNamesRunner
  <1>7. RunningIsRun'
    BY <1>2, <1>4 DEF IInv, RunningIsRun
  <1>8. OffEverywhere'
    BY <1>1, <1>2 DEF IInv, OffEverywhere, OffStatus, Resting
  <1>9. RetriesMatchStatus'
    BY <1>2 DEF IInv, RetriesMatchStatus
  <1>10. WritesActiveOrDisabled'
    BY RunnerApart DEF IInv
  <1>. QED
    BY <1>5, <1>6, <1>7, <1>8, <1>9, <1>10 DEF IInv

\* A claim that succeeds.  That the status is not running is all it knows of
\* the row, and all it needs: the row would name another runner as running.
LEMMA ClaimKeeps ==
  ASSUME TypeOK, IInv, NEW p \in Runners, NEW j \in Jobs,
         Claim(p, j), CanClaim(p, j)
  PROVE  IInv'
  <1>. DEFINE row == [proc[p].seen[j] EXCEPT !.st = "running", !.current = p]
              s == [proc[p] EXCEPT !.pc = "run", !.busy = {j}]
  <1>1. proc[p] \in LocalState /\ proc[p].seen[j] \in Row
    BY DEF TypeOK, LocalState
  <1>2. row.st = "running" /\ row.current = p
    BY <1>1 DEF Row
  <1>3. /\ s.pc = "run" /\ s.busy = {j}
        /\ s.todo = proc[p].todo /\ s.seen = proc[p].seen
    BY <1>1 DEF LocalState
  <1>4. proc' = [proc EXCEPT ![p] = s] /\ jobs' = [jobs EXCEPT ![j] = row]
    BY DEF Claim
  <1>5. /\ proc[p].pc = "next" /\ j \in proc[p].todo
        /\ jobs[j].st = proc[p].seen[j].st /\ proc[p].seen[j].st # "running"
        /\ ~setup[j].blocked
        /\ UNCHANGED <<setup, switches, orphaned>>
    BY DEF Claim, CanClaim
  <1>. HIDE DEF row, s
  <1>6. proc'[p] = s /\ \A q \in Runners : q # p => proc'[q] = proc[q]
    BY <1>4 DEF TypeOK
  <1>7. jobs'[j] = row /\ \A i \in Jobs : i # j => jobs'[i] = jobs[i]
    BY <1>4 DEF TypeOK
  <1>8. \A q \in Runners, i \in Jobs : q # p => (Running(q, i)' <=> Running(q, i))
    BY <1>6 DEF Running
  <1>9. \A i \in Jobs : ~Running(p, i) /\ (Running(p, i)' <=> i = j)
    BY <1>3, <1>5, <1>6 DEF Running
  <1>10. OneAtATime'
    BY <1>3, <1>5, <1>6, <1>8, <1>9 DEF IInv, OneAtATime
  <1>11. RowNamesRunner'
    BY <1>2, <1>5, <1>7, <1>8, <1>9 DEF IInv, RowNamesRunner
  <1>12. RunningIsRun'
    BY <1>5, <1>7, <1>8, <1>9 DEF IInv, RunningIsRun
  <1>13. OffEverywhere'
    BY <1>2, <1>3, <1>5, <1>6, <1>7 DEF IInv, OffEverywhere, OffStatus
  <1>14. RetriesMatchStatus'
    BY <1>2, <1>5, <1>7 DEF IInv, RetriesMatchStatus
  <1>15. WritesActiveOrDisabled'
    BY <1>4, RunnerApart DEF IInv
  <1>. QED
    BY <1>10, <1>11, <1>12, <1>13, <1>14, <1>15 DEF IInv

\* Status and count at the end of a run agree, whatever copy they come from.
LEMMA EndOfRunSound ==
  ASSUME TypeOK, NEW p \in Runners, NEW j \in Jobs
  PROVE  /\ EndOfRun(p, j).st \in {"active", "disabled", "failed"}
         /\ proc[p].seen[j].st = "disabled" => EndOfRun(p, j).st = "disabled"
         /\ EndOfRun(p, j).st = "active" => EndOfRun(p, j).retries <= MaxRetries
         /\ EndOfRun(p, j).st = "failed" => EndOfRun(p, j).retries > MaxRetries
  <1>. DEFINE row == proc[p].seen[j]
              t == proc[p].at
  <1>1. row.retries \in Nat
    BY DEF TypeOK, LocalState, Row
  <1>2. CASE proc[p].result = "succeeded"
    <2>1. EndOfRun(p, j) = AfterSuccess(j, row, t)
      BY <1>2 DEF EndOfRun
    <2>. QED
      BY <2>1, PolicyAssumption DEF AfterSuccess
  <1>3. CASE proc[p].result # "succeeded"
    <2>1. EndOfRun(p, j) = AfterFailure(j, row, t)
      BY <1>3 DEF EndOfRun
    <2>2. AfterFailure(j, row, t).retries = row.retries + 1
      BY DEF AfterFailure
    <2>3. AfterFailure(j, row, t).st =
             CASE row.st = "disabled" -> "disabled"
               [] row.st # "disabled" /\ MayRetry(row) -> "active"
               [] OTHER -> "failed"
      BY DEF AfterFailure
    <2>. QED
      BY <1>1, <2>1, <2>2, <2>3, PolicyAssumption DEF MayRetry
  <1>. QED
    BY <1>2, <1>3

\* The step of an operator leaves the runners alone; a job it writes is one
\* that has been switched.
LEMMA OperatorKeeps ==
  ASSUME TypeOK, IInv, NEW o \in Operators, NEW j \in Jobs,
         \/ Switch(o, j)
         \/ \E enabled \in BOOLEAN : ReadToSwitch(o, j, enabled)
  PROVE  IInv'
  <1>1. \A q \in Runners : proc'[q] = proc[q]
    BY ProcessAssumption DEF TypeOK, Switch, ReadToSwitch
  <1>2. \A q \in Runners, i \in Jobs : Running(q, i)' <=> Running(q, i)
    BY <1>1 DEF Running
  <1>3. UNCHANGED <<setup, orphaned>>
    BY DEF Switch, ReadToSwitch
  <1>4. ASSUME NEW enabled \in BOOLEAN, ReadToSwitch(o, j, enabled)
        PROVE  IInv'
    <2>. DEFINE row == Switched(jobs[j], j, enabled)
                s == [Idle EXCEPT !.pc = "switch", !.busy = {j},
                                  !.seen[j] = row]
    <2>1. row.st \in {"active", "disabled"}
      BY DEF Switched, TypeOK, Row
    <2>2. UNCHANGED <<jobs, switches>> /\ proc' = [proc EXCEPT ![o] = s]
      BY <1>4 DEF ReadToSwitch
    <2>. HIDE DEF row
    <2>3. s.busy = {j} /\ s.seen[j] = row
      BY DEF Idle
    <2>. HIDE DEF s
    <2>4. proc'[o] = s /\ \A q \in Operators : q # o => proc'[q] = proc[q]
      BY <2>2 DEF TypeOK
    <2>5. WritesActiveOrDisabled'
      BY <2>1, <2>3, <2>4 DEF IInv, WritesActiveOrDisabled
    <2>6. OneAtATime' /\ RowNamesRunner' /\ RunningIsRun'
      BY <1>1, <1>2, <1>3, <2>2
      DEF IInv, OneAtATime, RowNamesRunner, RunningIsRun
    <2>7. OffEverywhere' /\ RetriesMatchStatus'
      BY <1>1, <1>3, <2>2
      DEF IInv, OffEverywhere, OffStatus, RetriesMatchStatus
    <2>. QED
      BY <2>5, <2>6, <2>7 DEF IInv
  <1>5. CASE Switch(o, j)
    <2>1. /\ switches'[j] # 0
          /\ \A i \in Jobs : i # j => /\ jobs'[i] = jobs[i]
                                      /\ switches'[i] = switches[i]
      BY <1>5 DEF Switch, TypeOK
    <2>2. OneAtATime' /\ RowNamesRunner'
      BY <1>1, <1>2, <1>3, <2>1 DEF IInv, OneAtATime, RowNamesRunner
    <2>3. proc[o].seen[j].st # "running"
      BY <1>5 DEF IInv, WritesActiveOrDisabled, Switch
    <2>4. jobs'[j].st # "running"
      BY <1>5, <2>3 DEF Switch, TypeOK
    <2>5. RunningIsRun'
      BY <1>2, <1>3, <2>1, <2>4 DEF IInv, RunningIsRun
    <2>6. OffEverywhere' /\ RetriesMatchStatus'
      BY <1>1, <1>3, <2>1 DEF IInv, OffEverywhere, OffStatus, RetriesMatchStatus
    <2>7. WritesActiveOrDisabled'
      <3>1. /\ proc'[o] = Idle
            /\ \A q \in Operators : q # o => proc'[q] = proc[q]
        BY <1>5 DEF Switch, TypeOK
      <3>2. Idle.pc = "idle"
        BY DEF Idle
      <3>. QED
        BY <3>1, <3>2 DEF IInv, WritesActiveOrDisabled
    <2>. QED
      BY <2>2, <2>5, <2>6, <2>7 DEF IInv
  <1>. QED
    BY <1>4, <1>5

LEMMA NextInv == TypeOK /\ IInv /\ [Next]_vars => IInv'
  <1>. SUFFICES ASSUME TypeOK, IInv, [Next]_vars PROVE IInv'
    OBVIOUS
  <1>1. ASSUME UNCHANGED <<jobs, setup, proc, orphaned, switches>>
        PROVE  IInv'
    <2>1. \A q \in Runners, i \in Jobs : Running(q, i)' <=> Running(q, i)
      BY <1>1 DEF Running
    <2>2. OneAtATime' /\ RowNamesRunner' /\ RunningIsRun'
      BY <1>1, <2>1 DEF IInv, OneAtATime, RowNamesRunner, RunningIsRun
    <2>3. OffEverywhere' /\ RetriesMatchStatus' /\ WritesActiveOrDisabled'
      BY <1>1 DEF IInv, OffEverywhere, OffStatus, RetriesMatchStatus,
                  WritesActiveOrDisabled
    <2>. QED
      BY <2>2, <2>3 DEF IInv
  <1>2. CASE UNCHANGED vars \/ Tick
    BY <1>1, <1>2 DEF vars, Tick
  <1>3. ASSUME NEW j \in Jobs, Add(j) PROVE IInv'
    <2>1. /\ jobs'[j].st = "active" /\ jobs'[j].retries = 0
          /\ jobs[j].st = "absent"
          /\ \A i \in Jobs : i # j => jobs'[i] = jobs[i]
          /\ UNCHANGED <<proc, setup, orphaned, switches>>
      BY <1>3 DEF Add, NewRow, TypeOK
    <2>2. \A q \in Runners, i \in Jobs : Running(q, i)' <=> Running(q, i)
      BY <2>1 DEF Running
    <2>3. OneAtATime' /\ RowNamesRunner' /\ RunningIsRun'
      BY <2>1, <2>2 DEF IInv, OneAtATime, RowNamesRunner, RunningIsRun
    <2>4. OffEverywhere' /\ RetriesMatchStatus' /\ WritesActiveOrDisabled'
      BY <2>1, PolicyAssumption DEF IInv, OffEverywhere, OffStatus,
         RetriesMatchStatus, WritesActiveOrDisabled
    <2>. QED
      BY <2>3, <2>4 DEF IInv
  <1>4. ASSUME NEW p \in Runners, ListDue(p) PROVE IInv'
    <2>. DEFINE due == {j \in Jobs : Due(jobs[j])}
                s == [Idle EXCEPT !.pc = "next", !.todo = due,
                        !.seen = [j \in Jobs |-> IF j \in due THEN jobs[j]
                                                 ELSE NoRow]]
    <2>1. /\ s.pc = "next" /\ s.todo = due
          /\ \A i \in due : i \in Jobs /\ s.seen[i] = jobs[i]
      BY DEF Idle
    <2>2. proc' = [proc EXCEPT ![p] = s] /\ proc[p].pc = "idle"
          /\ UNCHANGED <<jobs, setup, switches, orphaned>>
      BY <1>4 DEF ListDue
    <2>. HIDE DEF s, due
    <2>. QED
      BY <2>1, <2>2, TakeUp
  <1>5. ASSUME NEW c \in Commands, NEW j \in Jobs, RunNow(c, j) PROVE IInv'
    <2>. DEFINE s == [Idle EXCEPT !.pc = "next", !.todo = {j},
                                  !.seen[j] = jobs[j]]
    <2>1. s.pc = "next" /\ s.todo = {j} /\ s.seen[j] = jobs[j]
      BY DEF Idle
    <2>2. proc' = [proc EXCEPT ![c] = s] /\ proc[c].pc = "idle"
          /\ UNCHANGED <<jobs, setup, switches, orphaned>> /\ c \in Runners
      BY <1>5 DEF RunNow, Runners
    <2>. HIDE DEF s
    <2>. QED
      BY <2>1, <2>2, TakeUp
  <1>6. ASSUME NEW p \in Runners, NEW j \in Jobs, SkipRunning(p, j)
        PROVE  IInv'
    <2>1. \A i \in Jobs : ~Running(p, i)
      BY <1>6 DEF SkipRunning, Running
    <2>. QED
      BY <1>6, <2>1, DoneRests, LetGo DEF SkipRunning
  <1>7. ASSUME NEW p \in Runners, NEW j \in Jobs, SkipBlocked(p, j)
        PROVE  IInv'
    <2>. DEFINE row == [proc[p].seen[j] EXCEPT !.st = "failed", !.current = NoRun,
                                               !.next = NextCron(j, now)]
    <2>1. NextCron(j, now) \in Nat /\ proc[p].seen[j] \in Row
      BY <1>7, CronType DEF SkipBlocked, TypeOK, LocalState
    <2>2. row \in Row /\ row.st = "failed"
      BY <2>1 DEF Row
    <2>3. jobs' = [jobs EXCEPT ![j] = row]
      BY <1>7 DEF SkipBlocked
    <2>. HIDE DEF row
    <2>4. /\ setup[j].blocked /\ proc[p].pc = "next"
          /\ proc' = [proc EXCEPT ![p] = Done(p, j)]
          /\ UNCHANGED <<setup, switches, orphaned>>
      BY <1>7 DEF SkipBlocked
    <2>5. \A q \in Runners : ~Running(q, j)
      BY <2>4 DEF IInv, OneAtATime
    <2>6. \A i \in Jobs : ~Running(p, i)
      BY <2>4 DEF Running
    <2>7. row.st \in OffStatus(j)
      BY <2>2, <2>4 DEF OffStatus
    <2>8. Resting(Done(p, j), proc[p])
      BY DoneRests
    <2>. QED
      BY <2>2, <2>3, <2>4, <2>5, <2>6, <2>7, <2>8, WriteAndRest
  <1>8. ASSUME NEW p \in Runners, NEW j \in Jobs, Claim(p, j) PROVE IInv'
    <2>1. CASE CanClaim(p, j)
      BY <1>8, <2>1, ClaimKeeps
    <2>2. CASE ~CanClaim(p, j)
      <3>1. \A i \in Jobs : ~Running(p, i)
        BY <1>8 DEF Claim, Running
      <3>2. /\ proc' = [proc EXCEPT ![p] = Done(p, j)]
            /\ UNCHANGED <<jobs, setup, switches, orphaned>>
        BY <1>8, <2>2 DEF Claim
      <3>. QED
        BY <3>1, <3>2, DoneRests, LetGo
    <2>. QED
      BY <2>1, <2>2
  <1>9. ASSUME NEW p \in Runners, EndRun(p) PROVE IInv'
    <2>1. PICK result \in {"succeeded", "failed", "cancelled"} :
            proc' = [proc EXCEPT ![p] = [proc[p] EXCEPT !.pc = "finish",
                                            !.result = result, !.at = now]]
      BY <1>9 DEF EndRun
    <2>2. /\ proc'[p].pc = "finish" /\ proc'[p].busy = proc[p].busy
          /\ proc'[p].todo = proc[p].todo /\ proc'[p].seen = proc[p].seen
          /\ \A q \in Runners : q # p => proc'[q] = proc[q]
      <3>. DEFINE s == [proc[p] EXCEPT !.pc = "finish", !.result = result,
                                       !.at = now]
      <3>1. s.pc = "finish" /\ s.busy = proc[p].busy
            /\ s.todo = proc[p].todo /\ s.seen = proc[p].seen
        BY DEF TypeOK, LocalState
      <3>2. proc'[p] = s
        BY <2>1 DEF TypeOK
      <3>3. \A q \in Runners : q # p => proc'[q] = proc[q]
        BY <2>1 DEF TypeOK
      <3>. HIDE DEF s
      <3>. QED
        BY <3>1, <3>2, <3>3
    <2>3. proc[p].pc = "run" /\ UNCHANGED <<jobs, setup, switches, orphaned>>
      BY <1>9 DEF EndRun
    <2>4. \A q \in Runners, i \in Jobs : Running(q, i)' <=> Running(q, i)
      BY <2>2, <2>3 DEF Running
    <2>5. \A q \in Runners : /\ proc'[q].busy = proc[q].busy
                             /\ proc'[q].todo = proc[q].todo
                             /\ proc'[q].seen = proc[q].seen
      BY <2>2
    <2>6. OneAtATime' /\ RowNamesRunner' /\ RunningIsRun'
      BY <2>3, <2>4, <2>5 DEF IInv, OneAtATime, RowNamesRunner, RunningIsRun
    <2>7. OffEverywhere' /\ RetriesMatchStatus'
      BY <2>3, <2>5 DEF IInv, OffEverywhere, OffStatus, RetriesMatchStatus
    <2>8. WritesActiveOrDisabled'
      BY <2>1, RunnerApart DEF IInv
    <2>. QED
      BY <2>6, <2>7, <2>8 DEF IInv
  <1>10. ASSUME NEW p \in Runners, NEW j \in Jobs, Finish(p, j) PROVE IInv'
    <2>. DEFINE s == IF proc[p].result = "cancelled" THEN Idle ELSE Done(p, j)
    <2>1. Resting(s, proc[p])
      BY IdleRests, DoneRests
    <2>2. /\ proc' = [proc EXCEPT ![p] = s]
          /\ jobs' = [jobs EXCEPT ![j] = EndOfRun(p, j)]
          /\ UNCHANGED <<setup, switches, orphaned>>
          /\ Running(p, j)
      BY <1>10 DEF Finish, Running
    <2>. HIDE DEF s
    <2>3. EndOfRun(p, j) \in Row
      BY <1>10, EndOfRunType DEF Finish
    <2>4. \A i \in Jobs : Running(p, i) => i = j
      BY <2>2 DEF IInv, OneAtATime
    <2>5. switches[j] = 0 => \A q \in Runners : Running(q, j) => q = p
      BY <2>2 DEF IInv, RowNamesRunner
    <2>6. setup[j].off /\ switches[j] = 0 => EndOfRun(p, j).st \in OffStatus(j)
      <3>1. /\ j \in proc[p].todo /\ proc[p].seen[j].st # "running"
            /\ ~setup[j].blocked
        BY <2>2 DEF IInv, OneAtATime
      <3>2. setup[j].off /\ switches[j] = 0 => proc[p].seen[j].st = "disabled"
        BY <3>1 DEF IInv, OffEverywhere, OffStatus
      <3>. QED
        BY <3>1, <3>2, EndOfRunSound DEF OffStatus
    <2>7. /\ EndOfRun(p, j).st # "running"
          /\ EndOfRun(p, j).st = "active" => EndOfRun(p, j).retries <= MaxRetries
          /\ EndOfRun(p, j).st = "failed" => EndOfRun(p, j).retries > MaxRetries
      BY EndOfRunSound
    <2>. QED
      BY <2>1, <2>2, <2>3, <2>4, <2>5, <2>6, <2>7, WriteAndRest
  <1>11. ASSUME NEW p \in Runners, NEW j \in Jobs, Raise(p, j) PROVE IInv'
    BY <1>11, IdleRests, LetGo DEF Raise, Running
  <1>12. ASSUME NEW p \in Runners, Die(p) PROVE IInv'
    BY <1>12, IdleRests, LetGo DEF Die, Running
  <1>13. ASSUME NEW o \in Operators, NEW j \in Jobs,
                \/ Switch(o, j)
                \/ \E enabled \in BOOLEAN : ReadToSwitch(o, j, enabled)
         PROVE  IInv'
    BY <1>13, OperatorKeeps
  <1>. QED
    BY <1>2, <1>3, <1>4, <1>5, <1>6, <1>7, <1>8, <1>9, <1>10, <1>11,
       <1>12, <1>13 DEF Next, RunStep

\* The inductive invariant holds in every reachable state.
THEOREM Invariance == Spec => []IInv
  <1>. QED
    BY InitInv, NextInv, TypeCorrect, PTL DEF Spec

\* Two runs of a job that nobody has switched never overlap: the compare-and-
\* swap of the claim is enough for that, although it compares the status only.
THEOREM ExclusiveRuns == Spec => []JobRunByOne
  <1>1. IInv => JobRunByOne
    BY DEF IInv, RowNamesRunner, JobRunByOne
  <1>. QED
    BY <1>1, Invariance, PTL

\* Only the death of a runner leaves a row saying running, even when operators
\* and manual runs make runs of the job overlap.
THEOREM RunningIsBacked == Spec => []RunningIsRun
  <1>1. IInv => RunningIsRun
    BY DEF IInv
  <1>. QED
    BY <1>1, Invariance, PTL

\* No number of manual runs puts a disabled job back on the schedule.
THEOREM OffIsStable == Spec => []OffStaysOff
  <1>1. IInv => OffStaysOff
    BY DEF IInv, OffEverywhere, OffStatus, OffStaysOff
  <1>. QED
    BY <1>1, Invariance, PTL

\* The retry count and the status agree, whatever copy they were computed from.
THEOREM RetriesAreCounted == Spec => []RetriesMatchStatus
  <1>1. IInv => RetriesMatchStatus
    BY DEF IInv
  <1>. QED
    BY <1>1, Invariance, PTL
=============================================================================
