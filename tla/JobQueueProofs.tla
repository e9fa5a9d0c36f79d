--------------------------- MODULE JobQueueProofs ---------------------------
(***************************************************************************)
(* Proofs about JobQueue for every finite set of jobs, every set of        *)
(* workers and every value of the bounds.                                  *)
(***************************************************************************)
EXTENDS JobQueue, FiniteSetTheorems, TLAPS

\* A row's queued_at is a natural number.
LEMMA QueuedAtType ==
  ASSUME NEW S \in SUBSET Jobs
  PROVE  1 + Cardinality(S) \in Nat
<1>1. IsFiniteSet(S)  BY FS_Subset, QueueAssumption
<1>2. Cardinality(S) \in Nat  BY <1>1, FS_CardinalityType
<1> QED BY <1>2

-----------------------------------------------------------------------------
(* Type correctness *)

LEMMA TypeInit == Init => TypeOK
<1> SUFFICES ASSUME Init PROVE TypeOK  OBVIOUS
<1> QED
  BY QueueAssumption
  DEF Init, TypeOK, Statuses, WorkerPcs, Holding, Executing, Reapers,
      ReaperPcs, Servers

LEMMA TypeStep == TypeOK /\ [Next]_vars => TypeOK'
<1> SUFFICES ASSUME TypeOK, [Next]_vars PROVE TypeOK'  OBVIOUS
<1> USE QueueAssumption
    DEF TypeOK, Statuses, Settled, WorkerPcs, Holding, Executing, Reapers,
        ReaperPcs, Servers, tableVars, workerVars, serverVars
<1>1. ASSUME NEW j \in Jobs, Enqueue(j) PROVE TypeOK'
  <2>1. queuedAt' \in [Jobs -> Nat]
    BY <1>1, QueuedAtType, {k \in Jobs : queuedAt[k] # 0} \in SUBSET Jobs
    DEF Enqueue
  <2> QED BY <1>1, <2>1 DEF Enqueue
<1>2. ASSUME NEW j \in Jobs, OutliveThreshold(j) PROVE TypeOK'
  BY <1>2 DEF OutliveThreshold
<1>3. ASSUME NEW w \in Workers, WorkerStep(w) PROVE TypeOK'
  <2>1. ASSUME NEW j \in Jobs, ClaimUpdate(w, j) PROVE TypeOK'
    BY <2>1 DEF ClaimUpdate
  <2>2. CASE ClaimCommit(w)      BY <2>2 DEF ClaimCommit, StoreClaim
  <2>3. CASE ClaimRollback(w)    BY <2>3 DEF ClaimRollback, Release
  <2>4. CASE ClaimCommitLost(w)
    BY <2>4 DEF ClaimCommitLost, StoreClaim, Release
  <2>5. CASE ExecuteReturns(w)   BY <2>5 DEF ExecuteReturns
  <2>6. CASE ExecutePanics(w)    BY <2>6 DEF ExecutePanics
  <2>7. CASE Complete(w)         BY <2>7 DEF Complete, Settle, Release
  <2>8. CASE CompleteErrs(w)     BY <2>8 DEF CompleteErrs, Settle
  <2>9. CASE Fail(w)             BY <2>9 DEF Fail, Settle, Release
  <2>10. CASE FailErrs(w)        BY <2>10 DEF FailErrs, Release
  <2>11. CASE Abandon(w)         BY <2>11 DEF Abandon, Release
  <2>12. CASE WorkerExits(w)     BY <2>12 DEF WorkerExits, Release
  <2> QED
    BY <1>3, <2>1, <2>2, <2>3, <2>4, <2>5, <2>6, <2>7, <2>8, <2>9, <2>10,
       <2>11, <2>12 DEF WorkerStep
<1>4. ASSUME NEW r \in Reapers, ReaperStep(r) PROVE TypeOK'
  <2>1. CASE ReaperFail(r)       BY <2>1 DEF ReaperFail
  <2>2. CASE ReaperReclaim(r)    BY <2>2 DEF ReaperReclaim, AfterPass
  <2>3. CASE ReaperErrs(r)       BY <2>3 DEF ReaperErrs, AfterPass
  <2> QED BY <1>4, <2>1, <2>2, <2>3 DEF ReaperStep
<1>5. CASE Shutdown              BY <1>5 DEF Shutdown
<1>6. CASE Stopped               BY <1>6 DEF Stopped
<1>7. CASE Crash                 BY <1>7 DEF Crash
<1>8. CASE Restart               BY <1>8 DEF Restart
<1>9. CASE UNCHANGED vars        BY <1>9 DEF vars
<1> QED
  BY <1>1, <1>2, <1>3, <1>4, <1>5, <1>6, <1>7, <1>8, <1>9 DEF Next

\* Every variable keeps its type, and a worker holds a job exactly while it
\* claims or runs one (worker.go's local variable job).
THEOREM TypeCorrect == Spec => []TypeOK
<1> QED BY TypeInit, TypeStep, PTL DEF Spec

-----------------------------------------------------------------------------
(* The inductive invariant *)

LEMMA InvInit == Init => QueueInv
<1> QED
  BY QueueAssumption
  DEF Init, QueueInv, ClaimHoldsPendingRow, ClaimsAreExclusive,
      AttemptsLeftInQueue, RunsAreCounted, OneRunPerAttempt, OverdueRunIsLate,
      PunctualRunOwnsJob, Executing

LEMMA InvStep == TypeOK /\ QueueInv /\ [Next]_vars => QueueInv'
<1> SUFFICES ASSUME TypeOK, QueueInv, [Next]_vars PROVE QueueInv'  OBVIOUS
<1> USE QueueAssumption
    DEF TypeOK, Statuses, Settled, WorkerPcs, Holding, Executing,
        tableVars, workerVars, serverVars,
        QueueInv, ClaimHoldsPendingRow, ClaimsAreExclusive,
        AttemptsLeftInQueue, RunsAreCounted, OneRunPerAttempt,
        OverdueRunIsLate, PunctualRunOwnsJob
<1>1. ASSUME NEW j \in Jobs, Enqueue(j) PROVE QueueInv'
  BY <1>1 DEF Enqueue
<1>2. ASSUME NEW j \in Jobs, OutliveThreshold(j) PROVE QueueInv'
  <2>1. UNCHANGED <<status, attempts, pc, held, att>>
    BY <1>2 DEF OutliveThreshold
  <2>2. ASSUME NEW w \in Workers
        PROVE  late'[w] <=> \/ late[w]
                            \/ /\ pc[w] \in Executing /\ held[w] = j
                               /\ att[w] = attempts[j]
    BY <1>2 DEF OutliveThreshold
  <2>3. \A k \in Jobs : stale'[k] => stale[k] \/ k = j
    BY <1>2 DEF OutliveThreshold
  <2>4. OverdueRunIsLate'
    <3> SUFFICES ASSUME NEW w \in Workers, pc[w] \in Executing,
                        status[held[w]] = "processing", stale'[held[w]],
                        att[w] = attempts[held[w]]
                 PROVE  late'[w]
      BY <2>1
    <3>1. held[w] \in Jobs  OBVIOUS
    <3>2. CASE held[w] = j   BY <2>2, <3>2
    <3>3. CASE held[w] # j   BY <2>2, <2>3, <3>1, <3>3
    <3> QED BY <3>2, <3>3
  <2>5. PunctualRunOwnsJob'  BY <2>1, <2>2
  <2> QED BY <2>1, <2>4, <2>5
<1>3. ASSUME NEW w \in Workers, WorkerStep(w) PROVE QueueInv'
  <2>1. ASSUME NEW j \in Jobs, ClaimUpdate(w, j) PROVE QueueInv'
    BY <2>1 DEF ClaimUpdate, OldestClaimable, Claimable, Locked
  <2>2. CASE ClaimCommit(w)      BY <2>2 DEF ClaimCommit, StoreClaim
  <2>3. CASE ClaimRollback(w)    BY <2>3 DEF ClaimRollback, Release
  <2>4. CASE ClaimCommitLost(w)
    BY <2>4 DEF ClaimCommitLost, StoreClaim, Release
  <2>5. CASE ExecuteReturns(w)   BY <2>5 DEF ExecuteReturns
  <2>6. CASE ExecutePanics(w)    BY <2>6 DEF ExecutePanics
  <2>7. CASE Complete(w)         BY <2>7 DEF Complete, Settle, Release
  <2>8. CASE CompleteErrs(w)     BY <2>8 DEF CompleteErrs, Settle
  <2>9. CASE Fail(w)             BY <2>9 DEF Fail, Settle, Release
  <2>10. CASE FailErrs(w)        BY <2>10 DEF FailErrs, Release
  <2>11. CASE Abandon(w)         BY <2>11 DEF Abandon, Release
  <2>12. CASE WorkerExits(w)     BY <2>12 DEF WorkerExits, Release
  <2> QED
    BY <1>3, <2>1, <2>2, <2>3, <2>4, <2>5, <2>6, <2>7, <2>8, <2>9, <2>10,
       <2>11, <2>12 DEF WorkerStep
<1>4. ASSUME NEW r \in Reapers, ReaperStep(r) PROVE QueueInv'
  <2>1. CASE ReaperFail(r)       BY <2>1 DEF ReaperFail, Overdue, Exhausted
  <2>2. CASE ReaperReclaim(r)
    BY <2>2 DEF ReaperReclaim, Overdue, HasAttemptsLeft
  <2>3. CASE ReaperErrs(r)       BY <2>3 DEF ReaperErrs
  <2> QED BY <1>4, <2>1, <2>2, <2>3 DEF ReaperStep
<1>5. CASE Shutdown              BY <1>5 DEF Shutdown
<1>6. CASE Stopped               BY <1>6 DEF Stopped
<1>7. CASE Crash                 BY <1>7 DEF Crash
<1>8. CASE Restart               BY <1>8 DEF Restart
<1>9. CASE UNCHANGED vars        BY <1>9 DEF vars
<1> QED
  BY <1>1, <1>2, <1>3, <1>4, <1>5, <1>6, <1>7, <1>8, <1>9 DEF Next

\* The invariant of the table, the open claims and the runs (job_queue.go's
\* Claim, Complete, Fail and ReaperReclaim) holds in every behaviour.
THEOREM InvCorrect == Spec => [](TypeOK /\ QueueInv)
<1> QED BY TypeInit, TypeStep, InvInit, InvStep, PTL DEF Spec

\* max_queue_attempts bounds every job's attempts, for any number of workers,
\* crashes and lost statements.
THEOREM AttemptsAreBounded == Spec => []AttemptsBounded
<1>1. TypeOK /\ QueueInv => AttemptsBounded
  BY DEF QueueInv, AttemptsLeftInQueue, AttemptsBounded
<1> QED BY <1>1, InvCorrect, PTL

\* FOR UPDATE SKIP LOCKED and the attempts counter together: no attempt of a
\* job is ever given to two workers.
THEOREM AttemptsRunOnce == Spec => []OneRunPerAttempt
<1>1. QueueInv => OneRunPerAttempt  BY DEF QueueInv
<1> QED BY <1>1, InvCorrect, PTL

\* A run that has not outlived stale_threshold decides its own attempt or none.
THEOREM PunctualRunsOwnTheirJobs == Spec => []PunctualRunOwnsJob
<1>1. QueueInv => PunctualRunOwnsJob  BY DEF QueueInv
<1> QED BY <1>1, InvCorrect, PTL

-----------------------------------------------------------------------------
(* JobQueue implements JobLifecycle *)

LEMMA LifecycleType == TypeOK /\ QueueInv => Lifecycle!LifecycleTypeOK
<1> QED
  BY QueueAssumption
  DEF TypeOK, QueueInv, AttemptsLeftInQueue, Lifecycle!LifecycleTypeOK,
      Lifecycle!Phases, Lifecycle!Settled, Statuses, Settled

\* Every statement moves each row along the life cycle or leaves it alone.
LEMMA LifecycleStep ==
  ASSUME TypeOK, QueueInv, (TypeOK /\ QueueInv)', Next, NEW k \in Jobs
  PROVE  \/ Lifecycle!Stays(k)
         \/ Lifecycle!Submitted(k)
         \/ Lifecycle!Started(k)
         \/ Lifecycle!Returned(k)
         \/ Lifecycle!Ended(k)
<1> DEFINE Goal == \/ Lifecycle!Stays(k)
                   \/ Lifecycle!Submitted(k)
                   \/ Lifecycle!Started(k)
                   \/ Lifecycle!Returned(k)
                   \/ Lifecycle!Ended(k)
<1> USE DEF TypeOK, tableVars, Lifecycle!Stays, Lifecycle!Submitted,
        Lifecycle!Started, Lifecycle!Returned, Lifecycle!Ended,
        Lifecycle!Settled, Settled
<1>1. UNCHANGED <<status, attempts>> => Goal  OBVIOUS
<1>2. ASSUME NEW j \in Jobs, Enqueue(j) PROVE Goal
  BY <1>2 DEF Enqueue
<1>3. ASSUME NEW w \in Workers, pc[w] = "claiming", StoreClaim(w) PROVE Goal
  <2>1. /\ held[w] \in Jobs /\ status[held[w]] = "pending"
        /\ att[w] = attempts[held[w]] + 1
        /\ attempts[held[w]] < MaxQueueAttempts
    BY <1>3 DEF QueueInv, ClaimHoldsPendingRow, AttemptsLeftInQueue, Holding
  <2> QED BY <1>3, <2>1 DEF StoreClaim
<1>4. ASSUME NEW w \in Workers, pc[w] \in Executing,
             NEW outcome \in Settled, Settle(held[w], outcome)
      PROVE  Goal
  <2>1. held[w] \in Jobs  BY <1>4 DEF Holding
  <2> QED BY <1>4, <2>1 DEF Settle
<1>5. ASSUME NEW r \in Reapers, ReaperFail(r) PROVE Goal
  BY <1>5 DEF ReaperFail, Overdue
<1>6. ASSUME NEW r \in Reapers, ReaperReclaim(r) PROVE Goal
  BY <1>6 DEF ReaperReclaim, Overdue, HasAttemptsLeft
<1>7. ASSUME NEW w \in Workers, WorkerStep(w) PROVE Goal
  <2>1. CASE ClaimCommit(w) \/ ClaimCommitLost(w)
    BY <1>3, <2>1 DEF ClaimCommit, ClaimCommitLost
  <2>2. CASE Complete(w) \/ CompleteErrs(w)
    BY <1>1, <1>4, <2>2 DEF Complete, CompleteErrs, Executing
  <2>3. CASE Fail(w)
    BY <1>4, <2>3 DEF Fail, Executing
  <2>4. CASE \/ \E j \in Jobs : ClaimUpdate(w, j)
             \/ ClaimRollback(w) \/ ExecuteReturns(w) \/ ExecutePanics(w)
             \/ FailErrs(w) \/ Abandon(w) \/ WorkerExits(w)
    BY <1>1, <2>4
    DEF ClaimUpdate, ClaimRollback, ExecuteReturns, ExecutePanics, FailErrs,
        Abandon, WorkerExits
  <2> QED BY <1>7, <2>1, <2>2, <2>3, <2>4 DEF WorkerStep
<1>8. ASSUME NEW r \in Reapers, ReaperStep(r) PROVE Goal
  BY <1>1, <1>5, <1>6, <1>8 DEF ReaperStep, ReaperErrs
<1>9. ASSUME NEW j \in Jobs, OutliveThreshold(j) PROVE Goal
  BY <1>1, <1>9 DEF OutliveThreshold
<1>10. CASE Shutdown \/ Stopped \/ Crash \/ Restart
  BY <1>1, <1>10 DEF Shutdown, Stopped, Crash, Restart
<1> QED
  BY <1>2, <1>7, <1>8, <1>9, <1>10 DEF Next

\* The detailed queue, with its workers, reaper, faults and restarts, is an
\* implementation of the life cycle the uploader relies on: attempts are
\* counted once, a job goes back to the queue only with attempts left, and done
\* and failed are final.
THEOREM QueueImplementsLifecycle == Spec => ImplementsLifecycle
<1>1. Init => Lifecycle!Init
  BY DEF Init, Lifecycle!Init
<1>2. TypeOK /\ QueueInv /\ (TypeOK /\ QueueInv)' /\ [Next]_vars
      => [Lifecycle!Next]_(Lifecycle!vars)
  <2> SUFFICES ASSUME TypeOK, QueueInv, (TypeOK /\ QueueInv)', [Next]_vars
               PROVE  [Lifecycle!Next]_(Lifecycle!vars)
    OBVIOUS
  <2>1. CASE Next
    <3>1. Lifecycle!LifecycleTypeOK'
      BY LifecycleType, PTL
    <3> QED BY <2>1, <3>1, LifecycleStep DEF Lifecycle!Next
  <2>2. CASE UNCHANGED vars
    BY <2>2 DEF vars, tableVars, Lifecycle!vars
  <2> QED BY <2>1, <2>2
<1> QED
  BY <1>1, <1>2, InvCorrect, PTL DEF Spec, ImplementsLifecycle, Lifecycle!Spec
=============================================================================
