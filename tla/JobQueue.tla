------------------------------ MODULE JobQueue ------------------------------
(***************************************************************************)
(* The jobs table, the worker pool that drains it and the reaper that      *)
(* returns abandoned jobs: internal/storage/postgres/job_queue.go,         *)
(* internal/pipeline/worker.go and Pipeline.Run of pipeline.go.            *)
(*                                                                         *)
(* One action is one statement or one commit that PostgreSQL executes      *)
(* atomically, so the worker's claim (an open transaction that holds a row *)
(* lock) and the reaper's pass (two statements) take several steps, and a  *)
(* crash, a shutdown or another worker may come between them.  What the    *)
(* pipeline does while a job runs is the module Pipeline's subject; here a *)
(* run ends in success, error or panic.                                    *)
(*                                                                         *)
(* Time is the flag stale[j]: started_at of j is further back than         *)
(* stale_threshold.  Nothing keeps a run from outliving that threshold (an *)
(* extraction is a sequence of AI calls, each with its own time limit and  *)
(* its own retries), and the code does not tell its worker.                *)
(***************************************************************************)
EXTENDS Integers, FiniteSets

CONSTANTS
  Jobs,              \* the rows of jobs this behaviour will see
  Workers,           \* config.WorkersConfig.Count goroutines
  NoJob,             \* what a worker without a job holds
  MaxQueueAttempts,  \* config.PipelineConfig.MaxQueueAttempts
  MaxRestarts,       \* bound: how often the process crashes or is stopped
  MaxFaults          \* bound: how many statements fail or lose their answer

ASSUME QueueAssumption ==
  /\ IsFiniteSet(Jobs) /\ NoJob \notin Jobs
  /\ MaxQueueAttempts \in Nat \ {0}   \* ReaperReclaim refuses less
  /\ MaxRestarts \in Nat
  /\ MaxFaults \in Nat

VARIABLES
  status,    \* [Jobs -> Statuses], the status column ("absent": no row yet)
  attempts,  \* [Jobs -> Nat], the attempts column
  queuedAt,  \* [Jobs -> Nat], the queued_at column, 0 before the row exists
  stale,     \* [Jobs -> BOOLEAN], started_at < now() - stale_threshold
  pc,        \* [Workers -> WorkerPcs], where each worker goroutine is
  held,      \* [Workers -> Jobs \cup {NoJob}], its local variable job
  att,       \* [Workers -> Nat], job.Attempts as the claim returned it
  late,      \* [Workers -> BOOLEAN], its run has outlived stale_threshold
  reaper,    \* [Reapers -> ReaperPcs], the statement each reaper is at
  server,    \* the state of the process
  restarts,  \* how often the process has gone down
  faults     \* how many statements have failed

tableVars  == <<status, attempts, queuedAt, stale>>
workerVars == <<pc, held, att, late>>
serverVars == <<server, restarts>>
vars == <<tableVars, workerVars, reaper, serverVars, faults>>

Settled  == {"done", "failed"}
Statuses == {"absent", "pending", "processing"} \cup Settled

\* claiming   the claim's UPDATE has run, its transaction is open
\* running    inside Pipeline.execute
\* completing execute returned nil, Complete is being called
\* failing    execute or Complete returned an error, Fail is being called
\* panicked   execute panicked, the deferred Fail is being called
Executing == {"running", "completing", "failing", "panicked"}
Holding   == {"claiming"} \cup Executing
WorkerPcs == {"off", "idle"} \cup Holding

\* The startup goroutine makes one pass, the ticker's goroutine one per tick.
Reapers   == {"startup", "ticker"}
ReaperPcs == {"off", "fail", "reclaim"}
Servers   == {"up", "stopping", "stopped", "crashed"}

Init ==
  /\ status = [j \in Jobs |-> "absent"]
  /\ attempts = [j \in Jobs |-> 0]
  /\ queuedAt = [j \in Jobs |-> 0]
  /\ stale = [j \in Jobs |-> FALSE]
  /\ pc = [w \in Workers |-> "idle"]
  /\ held = [w \in Workers |-> NoJob]
  /\ att = [w \in Workers |-> 0]
  /\ late = [w \in Workers |-> FALSE]
  /\ reaper = [r \in Reapers |-> "fail"]
  /\ server = "up"
  /\ restarts = 0
  /\ faults = 0

-----------------------------------------------------------------------------
(* The producer *)

\* Upload inserts the row; queued_at is the time of the insert.
Enqueue(j) ==
  /\ server = "up"
  /\ status[j] = "absent"
  /\ status' = [status EXCEPT ![j] = "pending"]
  /\ queuedAt' = [queuedAt EXCEPT
                    ![j] = 1 + Cardinality({k \in Jobs : queuedAt[k] # 0})]
  /\ UNCHANGED <<attempts, stale, workerVars, reaper, serverVars, faults>>

-----------------------------------------------------------------------------
(* Claim *)

\* Rows an open claim has updated and not yet committed.
Locked == {held[w] : w \in {v \in Workers : pc[v] = "claiming"}}

\* Mutant of Claimable: the claim does not skip locked rows.
ClaimableIgnoringLocks(j) == status[j] = "pending"

Claimable(j) == status[j] = "pending" /\ j \notin Locked

\* ORDER BY queued_at LIMIT 1 FOR UPDATE SKIP LOCKED
OldestClaimable(j) ==
  /\ Claimable(j)
  /\ \A k \in Jobs : Claimable(k) => queuedAt[j] <= queuedAt[k]

\* The UPDATE ... RETURNING of an open transaction: the row is locked and the
\* worker has read its attempts, the change is not visible to anyone else.
ClaimUpdate(w, j) ==
  /\ server = "up"
  /\ pc[w] = "idle"
  /\ OldestClaimable(j)
  /\ pc' = [pc EXCEPT ![w] = "claiming"]
  /\ held' = [held EXCEPT ![w] = j]
  /\ att' = [att EXCEPT ![w] = attempts[j] + 1]
  /\ late' = [late EXCEPT ![w] = FALSE]
  /\ UNCHANGED <<tableVars, reaper, serverVars, faults>>

\* The worker returns to its loop, or to nowhere, and drops its job.
Release(w, next) ==
  /\ pc' = [pc EXCEPT ![w] = next]
  /\ held' = [held EXCEPT ![w] = NoJob]
  /\ UNCHANGED <<att, late>>

\* The row as the committed transaction leaves it.
StoreClaim(w) ==
  /\ status' = [status EXCEPT ![held[w]] = "processing"]
  /\ attempts' = [attempts EXCEPT ![held[w]] = att[w]]
  /\ stale' = [stale EXCEPT ![held[w]] = FALSE]
  /\ UNCHANGED queuedAt

\* Mutant of ClaimCommit: the goroutine runs the job it was handed before.
ClaimCommitForgetsJob(w) ==
  /\ pc[w] = "claiming"
  /\ StoreClaim(w)
  /\ Release(w, "running")
  /\ UNCHANGED <<reaper, serverVars, faults>>

ClaimCommit(w) ==
  /\ pc[w] = "claiming"
  /\ StoreClaim(w)
  /\ pc' = [pc EXCEPT ![w] = "running"]
  /\ UNCHANGED <<held, att, late, reaper, serverVars, faults>>

\* The transaction fails, or the context is canceled before its commit.
ClaimRollback(w) ==
  /\ pc[w] = "claiming"
  /\ \/ server = "stopping" /\ UNCHANGED faults
     \/ server = "up" /\ faults < MaxFaults /\ faults' = faults + 1
  /\ Release(w, "idle")
  /\ UNCHANGED <<tableVars, reaper, serverVars>>

\* The commit succeeds and its answer is lost: the row is processing and the
\* attempt is counted, and no worker knows.
ClaimCommitLost(w) ==
  /\ pc[w] = "claiming"
  /\ faults < MaxFaults
  /\ StoreClaim(w)
  /\ Release(w, "idle")
  /\ faults' = faults + 1
  /\ UNCHANGED <<reaper, serverVars>>

-----------------------------------------------------------------------------
(* Pipeline.Run *)

ExecuteReturns(w) ==
  /\ server = "up"
  /\ pc[w] = "running"
  /\ \E next \in {"completing", "failing"} : pc' = [pc EXCEPT ![w] = next]
  /\ UNCHANGED <<tableVars, held, att, late, reaper, serverVars, faults>>

\* The deferred Fail uses context.Background(), so a shutdown does not stop it.
ExecutePanics(w) ==
  /\ pc[w] = "running"
  /\ faults < MaxFaults
  /\ pc' = [pc EXCEPT ![w] = "panicked"]
  /\ faults' = faults + 1
  /\ UNCHANGED <<tableVars, held, att, late, reaper, serverVars>>

\* Mutant of Settle: the WHERE clause names only the id.
SettleAnyStatus(j, outcome) ==
  /\ status' = [status EXCEPT ![j] = outcome]
  /\ UNCHANGED <<attempts, queuedAt, stale>>

\* WHERE id = $1 AND status = 'processing'
Settle(j, outcome) ==
  /\ status' = IF status[j] = "processing"
               THEN [status EXCEPT ![j] = outcome] ELSE status
  /\ UNCHANGED <<attempts, queuedAt, stale>>

Complete(w) ==
  /\ pc[w] = "completing"
  /\ Settle(held[w], "done")
  /\ Release(w, "idle")
  /\ UNCHANGED <<reaper, serverVars, faults>>

\* Complete returns an error, whether or not PostgreSQL executed it; Run then
\* calls Fail.
CompleteErrs(w) ==
  /\ server = "up"
  /\ pc[w] = "completing"
  /\ faults < MaxFaults
  /\ Settle(held[w], "done") \/ UNCHANGED tableVars
  /\ pc' = [pc EXCEPT ![w] = "failing"]
  /\ faults' = faults + 1
  /\ UNCHANGED <<held, att, late, reaper, serverVars>>

Fail(w) ==
  /\ pc[w] \in {"failing", "panicked"}
  /\ Settle(held[w], "failed")
  /\ Release(w, "idle")
  /\ UNCHANGED <<reaper, serverVars, faults>>

\* The error of Fail is discarded (_ = p.jobs.Fail): the row stays processing.
FailErrs(w) ==
  /\ pc[w] \in {"failing", "panicked"}
  /\ faults < MaxFaults
  /\ Release(w, "idle")
  /\ faults' = faults + 1
  /\ UNCHANGED <<tableVars, reaper, serverVars>>

\* ctx.Err() != nil: Run returns without Complete and without Fail.
Abandon(w) ==
  /\ server = "stopping"
  /\ pc[w] \in {"running", "completing", "failing"}
  /\ Release(w, "off")
  /\ UNCHANGED <<tableVars, reaper, serverVars, faults>>

-----------------------------------------------------------------------------
(* The reaper and the clock *)

\* started_at of j passes the threshold; if the attempt that set it is still
\* being run, that run is late from now on.
OutliveThreshold(j) ==
  /\ status[j] = "processing" /\ ~stale[j]
  /\ stale' = [stale EXCEPT ![j] = TRUE]
  /\ late' = [w \in Workers |->
       late[w] \/ (pc[w] \in Executing /\ held[w] = j /\ att[w] = attempts[j])]
  /\ UNCHANGED <<status, attempts, queuedAt, pc, held, att, reaper, serverVars,
                 faults>>

\* Mutant of Overdue: the reaper does not look at started_at.
OverdueAtOnce(j) == status[j] = "processing"

\* Mutant of HasAttemptsLeft: one attempt too few.
HasTwoAttemptsLeft(j) == attempts[j] + 1 < MaxQueueAttempts

Overdue(j)         == status[j] = "processing" /\ stale[j]
Exhausted(j)       == attempts[j] >= MaxQueueAttempts
HasAttemptsLeft(j) == attempts[j] < MaxQueueAttempts

AfterPass(r) == IF r = "startup" THEN "off" ELSE "fail"

\* First statement: fail what is overdue and exhausted.
ReaperFail(r) ==
  /\ server = "up"
  /\ reaper[r] = "fail"
  /\ status' = [j \in Jobs |->
       IF Overdue(j) /\ Exhausted(j) THEN "failed" ELSE status[j]]
  /\ reaper' = [reaper EXCEPT ![r] = "reclaim"]
  /\ UNCHANGED <<attempts, queuedAt, stale, workerVars, serverVars, faults>>

\* Second statement: return what is overdue by now and has attempts left.
ReaperReclaim(r) ==
  /\ server = "up"
  /\ reaper[r] = "reclaim"
  /\ LET reclaimed == {j \in Jobs : Overdue(j) /\ HasAttemptsLeft(j)} IN
       /\ status' = [j \in Jobs |->
            IF j \in reclaimed THEN "pending" ELSE status[j]]
       /\ stale' = [j \in Jobs |-> stale[j] /\ j \notin reclaimed]
  /\ reaper' = [reaper EXCEPT ![r] = AfterPass(r)]
  /\ UNCHANGED <<attempts, queuedAt, workerVars, serverVars, faults>>

\* Either statement fails: the pass ends, the ticker tries again at its tick.
ReaperErrs(r) ==
  /\ server = "up"
  /\ reaper[r] # "off"
  /\ faults < MaxFaults
  /\ faults' = faults + 1
  /\ reaper' = [reaper EXCEPT ![r] = AfterPass(r)]
  /\ UNCHANGED <<tableVars, workerVars, serverVars>>

-----------------------------------------------------------------------------
(* The process: main.go, WorkerPool.Start and WorkerPool.Stop *)

\* SIGTERM, or the HTTP listener failing: main cancels the context.
Shutdown ==
  /\ server = "up"
  /\ restarts < MaxRestarts
  /\ server' = "stopping"
  /\ restarts' = restarts + 1
  /\ UNCHANGED <<tableVars, workerVars, reaper, faults>>

WorkerExits(w) ==
  /\ server = "stopping"
  /\ pc[w] = "idle"
  /\ Release(w, "off")
  /\ UNCHANGED <<tableVars, reaper, serverVars, faults>>

\* Stop's wg.Wait returns: every worker is gone, and the reapers, whose only
\* step after the cancellation is to return, with them.
Stopped ==
  /\ server = "stopping"
  /\ \A w \in Workers : pc[w] = "off"
  /\ server' = "stopped"
  /\ reaper' = [r \in Reapers |-> "off"]
  /\ UNCHANGED <<tableVars, workerVars, restarts, faults>>

\* The process dies between any two statements; open claims are rolled back.
Crash ==
  /\ server \in {"up", "stopping"}
  /\ restarts < MaxRestarts
  /\ server' = "crashed"
  /\ restarts' = restarts + 1
  /\ pc' = [w \in Workers |-> "off"]
  /\ held' = [w \in Workers |-> NoJob]
  /\ reaper' = [r \in Reapers |-> "off"]
  /\ UNCHANGED <<tableVars, att, late, faults>>

\* A new process runs WorkerPool.Start on the table the old one left.
Restart ==
  /\ server \in {"stopped", "crashed"}
  /\ server' = "up"
  /\ pc' = [w \in Workers |-> "idle"]
  /\ held' = [w \in Workers |-> NoJob]
  /\ reaper' = [r \in Reapers |-> "fail"]
  /\ UNCHANGED <<tableVars, att, late, restarts, faults>>

-----------------------------------------------------------------------------
WorkerStep(w) ==
  \/ \E j \in Jobs : ClaimUpdate(w, j)
  \/ ClaimCommit(w)
  \/ ClaimRollback(w)
  \/ ClaimCommitLost(w)
  \/ ExecuteReturns(w)
  \/ ExecutePanics(w)
  \/ Complete(w)
  \/ CompleteErrs(w)
  \/ Fail(w)
  \/ FailErrs(w)
  \/ Abandon(w)
  \/ WorkerExits(w)

ReaperStep(r) == ReaperFail(r) \/ ReaperReclaim(r) \/ ReaperErrs(r)

Next ==
  \/ \E j \in Jobs : Enqueue(j) \/ OutliveThreshold(j)
  \/ \E w \in Workers : WorkerStep(w)
  \/ \E r \in Reapers : ReaperStep(r)
  \/ Shutdown \/ Stopped \/ Crash \/ Restart

Spec == Init /\ [][Next]_vars

\* A worker goroutine is never stuck: every statement answers and every AI
\* call has a time limit, so a run returns.  The ticker ticks, the clock moves
\* on, and the process is started again after it went down.  Enqueue, faults,
\* panics, crashes and shutdowns may happen and need not.
Fairness ==
  /\ \A w \in Workers : WF_vars(WorkerStep(w))
  /\ WF_vars(ReaperStep("ticker"))
  /\ \A j \in Jobs : WF_vars(OutliveThreshold(j))
  /\ WF_vars(Stopped) /\ WF_vars(Restart)

FairSpec == Spec /\ Fairness

-----------------------------------------------------------------------------
(* What the queue promises *)

\* The values the variables take; a worker holds a job exactly while it claims
\* or runs one.
TypeOK ==
  /\ status \in [Jobs -> Statuses]
  /\ attempts \in [Jobs -> Nat]
  /\ queuedAt \in [Jobs -> Nat]
  /\ stale \in [Jobs -> BOOLEAN]
  /\ pc \in [Workers -> WorkerPcs]
  /\ held \in [Workers -> Jobs \cup {NoJob}]
  /\ att \in [Workers -> Nat]
  /\ late \in [Workers -> BOOLEAN]
  /\ reaper \in [Reapers -> ReaperPcs]
  /\ server \in Servers
  /\ restarts \in 0..MaxRestarts
  /\ faults \in 0..MaxFaults
  /\ \A w \in Workers : held[w] # NoJob <=> pc[w] \in Holding

\* max_queue_attempts bounds the attempts of a job through every crash, lost
\* commit and reaper pass (a staleness that arises between the reaper's two
\* statements included), and a job in the queue always has one left.
AttemptsBounded ==
  \A j \in Jobs :
    /\ attempts[j] <= MaxQueueAttempts
    /\ status[j] = "pending" => attempts[j] < MaxQueueAttempts

\* Concurrent claims never hand the same attempt of a job to two workers.
OneRunPerAttempt ==
  \A v, w \in Workers :
    v # w /\ held[v] = held[w] /\ held[w] # NoJob => att[v] # att[w]

\* Complete and Fail do not say which attempt they decide.  While a run has not
\* outlived the threshold, its job is in the attempt it was claimed for: the
\* reaper has not put it back and no other run of it has started, so what the
\* run reports can only decide that attempt, and two runs of one job overlap
\* only if the older one is late.
PunctualRunOwnsJob ==
  \A w \in Workers :
    pc[w] \in Executing /\ ~late[w] =>
      /\ attempts[held[w]] = att[w]
      /\ status[held[w]] \in {"processing"} \cup Settled

\* An open claim has locked a row that is still pending, and read its attempts.
ClaimHoldsPendingRow ==
  \A w \in Workers :
    pc[w] = "claiming" =>
      status[held[w]] = "pending" /\ att[w] = attempts[held[w]] + 1

ClaimsAreExclusive ==
  \A v, w \in Workers :
    v # w /\ pc[v] = "claiming" /\ pc[w] = "claiming" => held[v] # held[w]

AttemptsLeftInQueue ==
  \A j \in Jobs :
    /\ attempts[j] <= MaxQueueAttempts
    /\ status[j] \in {"absent", "pending"} => attempts[j] < MaxQueueAttempts

RunsAreCounted ==
  \A w \in Workers : pc[w] \in Executing => att[w] <= attempts[held[w]]

\* What the reaper may take away from a run, it has marked late before.
OverdueRunIsLate ==
  \A w \in Workers :
    /\ pc[w] \in Executing
    /\ status[held[w]] = "processing" /\ stale[held[w]]
    /\ att[w] = attempts[held[w]]
    => late[w]

\* The inductive invariant: the three properties above, and how an open claim
\* and the threshold keep the table and the workers' copies of it together.
QueueInv ==
  /\ ClaimHoldsPendingRow
  /\ ClaimsAreExclusive
  /\ AttemptsLeftInQueue
  /\ RunsAreCounted
  /\ OneRunPerAttempt
  /\ OverdueRunIsLate
  /\ PunctualRunOwnsJob

\* The queue implements the life cycle JobLifecycle promises: the jobs table
\* never skips a state, never counts a try twice and never leaves done or
\* failed, however late a zombie run, a retried Fail or a reaper pass comes.
Lifecycle == INSTANCE JobLifecycle
  WITH phase <- status, tries <- attempts, MaxTries <- MaxQueueAttempts,
       Withdrawable <- {}

ImplementsLifecycle == Lifecycle!Spec

\* Every uploaded image's job is decided: no crash, shutdown, lost commit or
\* lost verdict leaves it pending or processing for good.
EveryJobSettles ==
  \A j \in Jobs : status[j] = "pending" ~> status[j] \in Settled
=============================================================================
