------------------------ MODULE CatalogDispatch_proofs ------------------------
(***************************************************************************)
(* Proofs about CatalogDispatch for any number of workers and runs and any *)
(* lengths of leases and cooldowns, whatever the operators do; and the     *)
(* refinement of DispatchContract, where they act between runs only.       *)
(***************************************************************************)
EXTENDS CatalogDispatch, FiniteSetTheorems, WellFoundedInduction, TLAPS

(* A workflow record that is well formed and whose flags are consistent.   *)
SyncOK(s) ==
  /\ s \in SyncRecord
  /\ s.continuous => s.cron /\ s.streak < Warnings
  /\ s.page => s.continuous

(* A run record: only a running run is claimed, and only a dispatched one. *)
RunOK(rec) ==
  /\ rec \in RunRecord
  /\ rec.state = "queued" => rec.job \in Jobs /\ rec.owner = NoWorker
  /\ rec.owner # NoWorker => rec.state = "running" /\ rec.job \in Jobs

RunsOK(R) == R \in [Runs -> RunRecord] /\ \A r \in Runs : RunOK(R[r])

(* What a worker in a phase holds: a run id, and until its first report    *)
(* the run itself, whose lease and elapsed time add up to the whole lease. *)
WorkerOK(w) ==
  /\ worker[w].phase # "idle" => worker[w].run \in Runs
  /\ worker[w].phase \in {"working", "reporting"} =>
       LET rec == run[worker[w].run]
       IN  /\ rec.state = "running" /\ rec.owner = w
           /\ rec.lease + worker[w].elapsed = Lease

(* The inductive invariant.                                                *)
IInv ==
  /\ SyncOK(sync)
  /\ RunsOK(run)
  /\ worker \in [Workers -> WorkerRecord]
  /\ \A w \in Workers : WorkerOK(w)
  /\ discovery \in {"none", "active", "completed", "stopped"}

-----------------------------------------------------------------------------
(* A nonempty set of unused run ids has a least element.                   *)
LEMMA LeastFreeId ==
  ASSUME NEW R, FreeIds(R) # {}
  PROVE  \E i \in FreeIds(R) : \A j \in FreeIds(R) : i <= j
<1>1. FreeIds(R) \subseteq Nat
  BY TimesAssumption DEF FreeIds, Runs
<1>2. PICK i \in FreeIds(R) : \A j \in FreeIds(R) : ~ (<<j, i>> \in OpToRel(<, Nat))
  BY <1>1, NatLessThanWellFounded, WFMin, Zenon
<1>3. \A j \in FreeIds(R) : ~ (j < i)
  BY <1>1, <1>2 DEF OpToRel
<1>4. QED
  BY <1>1, <1>3

(* The id that Create fills is an unused one.                              *)
LEMMA CreateFills ==
  ASSUME NEW R \in [Runs -> RunRecord], FreeIds(R) # {},
         NEW job, NEW mode, NEW state
  PROVE  \E r \in Runs :
           /\ R[r].state = "absent"
           /\ Create(R, job, mode, state) =
                [R EXCEPT ![r] = [state |-> state, job |-> job, mode |-> mode,
                                  owner |-> NoWorker, lease |-> 0]]
<1> DEFINE r == CHOOSE i \in FreeIds(R) : \A j \in FreeIds(R) : i <= j
<1>1. r \in FreeIds(R)
  BY LeastFreeId
<1>2. QED
  BY <1>1 DEF FreeIds, Create

(* Creating a queued or running record keeps the others.                   *)
LEMMA CreateOK ==
  ASSUME NEW R, RunsOK(R), FreeIds(R) # {},
         NEW job \in Jobs \cup {"none"}, NEW mode \in {"evidence_only", "apply"},
         NEW state \in {"queued", "running"}, state = "queued" => job \in Jobs
  PROVE  /\ RunsOK(Create(R, job, mode, state))
         /\ \A r \in Runs : R[r].state # "absent" => Create(R, job, mode, state)[r] = R[r]
<1>1. PICK r \in Runs :
        /\ R[r].state = "absent"
        /\ Create(R, job, mode, state) =
             [R EXCEPT ![r] = [state |-> state, job |-> job, mode |-> mode,
                               owner |-> NoWorker, lease |-> 0]]
  BY CreateFills DEF RunsOK
<1> DEFINE rec == [state |-> state, job |-> job, mode |-> mode,
                   owner |-> NoWorker, lease |-> 0]
<1>2. RunOK(rec)
  <2>1. rec \in RunRecord
    BY TimesAssumption DEF RunRecord
  <2>2. QED
    BY <2>1 DEF RunOK
<1>3. QED
  BY <1>1, <1>2 DEF RunsOK, RunOK

-----------------------------------------------------------------------------
(* The changes of the workflow record keep it consistent.                  *)

(* Switching off, pausing, withdrawing and cooling down.                   *)
LEMMA SyncSteps ==
  ASSUME NEW s, SyncOK(s)
  PROVE  /\ SyncOK(AllOff(s)) /\ ~AllOff(s).continuous
         /\ SyncOK(Paused(s)) /\ Paused(s).continuous = s.continuous
         /\ SyncOK(Withdrawn(s)) /\ Withdrawn(s).continuous = s.continuous
         /\ SyncOK(CoolingDown(s)) /\ CoolingDown(s).continuous = s.continuous
BY TimesAssumption
   DEF SyncOK, SyncRecord, AllOff, Paused, Withdrawn, CoolingDown

(* A streak that reaches the limit has ended the continuous release.       *)
LEMMA WarnedOK ==
  ASSUME NEW s, SyncOK(s), NEW n \in Nat
  PROVE  SyncOK(Warned(s, n))
<1>1. CASE ~s.continuous
  BY <1>1 DEF Warned
<1>2. CASE s.continuous /\ s.streak + n < Warnings
  BY <1>2, TimesAssumption DEF Warned, SyncOK, SyncRecord
<1>3. CASE s.continuous /\ ~(s.streak + n < Warnings)
  <2> DEFINE t == [AllOff(s) EXCEPT !.streak = Warnings]
  <2>1. SyncOK(t)
    BY TimesAssumption DEF AllOff, SyncOK, SyncRecord
  <2>2. SyncOK(Paused(t))
    BY <2>1, SyncSteps
  <2>3. QED
    BY <1>3, <2>1, <2>2 DEF Warned
<1>4. QED
  BY <1>1, <1>2, <1>3

(* finish_run changes neither the release nor its streak.                  *)
LEMMA FinishedRunOK ==
  ASSUME NEW s, SyncOK(s), NEW m, NEW o \in Terminal
  PROVE  /\ SyncOK(FinishedRun(s, m, o))
         /\ FinishedRun(s, m, o).continuous = s.continuous
         /\ FinishedRun(s, m, o).streak = s.streak
BY DEF SyncOK, SyncRecord, FinishedRun

(* finish_claimed_run, for each outcome that a worker reports.             *)
LEMMA FinishedClaimOK ==
  ASSUME NEW s, SyncOK(s), NEW rec, NEW o \in {"succeeded", "blocked", "failed"}
  PROVE  SyncOK(FinishedClaim(s, rec, o))
<1> DEFINE f == FinishedRun(s, rec.mode, o)
<1>1. SyncOK(f) /\ f.continuous = s.continuous /\ f.streak = s.streak
  BY FinishedRunOK DEF Terminal
<1> HIDE DEF f
<1>2. CASE o = "succeeded"
  <2> DEFINE g == [f EXCEPT !.next = NextWindow,
                            !.streak = IF s.continuous THEN 0 ELSE @]
  <2>1. SyncOK(g)
    <3>1. CASE s.continuous
      <4>1. g = [f EXCEPT !.next = NextWindow, !.streak = 0]
        BY <3>1
      <4>2. NextWindow \in Nat /\ 0 \in Nat /\ 0 < Warnings
        BY TimesAssumption
      <4>3. SyncOK([f EXCEPT !.next = NextWindow, !.streak = 0])
        BY <1>1, <4>2 DEF SyncOK, SyncRecord
      <4>4. QED
        BY <4>1, <4>3
    <3>2. CASE ~s.continuous
      <4>1. g = [f EXCEPT !.next = NextWindow]
        BY <1>1, <3>2 DEF SyncOK, SyncRecord
      <4>2. QED
        BY <1>1, <4>1, TimesAssumption DEF SyncOK, SyncRecord
    <3>3. QED
      BY <3>1, <3>2
  <2> HIDE DEF g
  <2>2. SyncOK(CountRelease(g, rec.job))
    BY <2>1, TimesAssumption DEF SyncOK, SyncRecord, CountRelease
  <2>3. QED
    BY <1>2, <2>2 DEF FinishedClaim, f, g
<1>3. CASE o = "blocked"
  <2>1. SyncOK(Warned(CoolingDown(f), 1))
    BY <1>1, SyncSteps, WarnedOK
  <2>2. QED
    BY <1>3, <2>1 DEF FinishedClaim, f
<1>4. CASE o = "failed"
  <2> DEFINE a == AllOff(f)
  <2>0. SyncOK(a) /\ ~a.continuous
    BY <1>1, SyncSteps
  <2> HIDE DEF a
  <2>1. SyncOK([a EXCEPT !.streak = @ + 1])
    BY <2>0 DEF SyncOK, SyncRecord
  <2>2. QED
    BY <1>1, <1>4, <2>1 DEF FinishedClaim, f, a
<1>5. QED
  BY <1>2, <1>3, <1>4

-----------------------------------------------------------------------------
(* What a batch can do: the workflow record stays consistent, the release  *)
(* is not switched on, and the runs that exist are left alone.             *)
BatchOK(s, R, out) ==
  /\ SyncOK(out[1]) /\ (out[1].continuous => s.continuous)
  /\ RunsOK(out[2])
  /\ \A r \in Runs : R[r].state # "absent" => out[2][r] = R[r]

(* Queueing fills an unused id.                                            *)
LEMMA QueueOK ==
  ASSUME NEW s, SyncOK(s), NEW R, RunsOK(R),
         NEW job \in Jobs, NEW mode \in {"evidence_only", "apply"},
         NEW out \in Queue(s, R, job, mode)
  PROVE  BatchOK(s, R, out)
<1>1. CASE FreeIds(R) = {}
  BY <1>1 DEF Queue, BatchOK
<1>2. CASE FreeIds(R) # {}
  <2> DEFINE R2 == Create(R, job, mode, "queued")
             s2 == [s EXCEPT !.state = "idle"]
  <2>1. out = <<s2, R2>>
    BY <1>2 DEF Queue
  <2>2. RunsOK(R2) /\ \A r \in Runs : R[r].state # "absent" => R2[r] = R[r]
    BY <1>2, CreateOK
  <2>3. SyncOK(s2) /\ s2.continuous = s.continuous
    BY DEF SyncOK, SyncRecord
  <2> HIDE DEF R2, s2
  <2>4. QED
    BY <2>1, <2>2, <2>3 DEF BatchOK
<1>3. QED
  BY <1>1, <1>2

(* A dispatch does nothing, waits, stops the release or queues.            *)
LEMMA DispatchOK ==
  ASSUME NEW s, SyncOK(s), NEW R, RunsOK(R),
         NEW mode \in {"evidence_only", "apply"}, NEW backlog,
         NEW out \in Dispatch(s, R, mode, backlog)
  PROVE  BatchOK(s, R, out)
<1> DEFINE job == IF mode = "apply" THEN "catalog_release" ELSE "sparex_discovery"
           m   == IF s.page THEN "apply" ELSE mode
<1>0. job \in Jobs /\ m \in {"evidence_only", "apply"}
  BY DEF Jobs
<1>1. CASE out = <<s, R>>
  BY <1>1 DEF BatchOK
<1>2. CASE \E t \in 0..RetryWait : out = <<[s EXCEPT !.next = t], R>>
  <2>1. PICK t \in 0..RetryWait : out = <<[s EXCEPT !.next = t], R>>
    BY <1>2
  <2>2. SyncOK([s EXCEPT !.next = t]) /\ [s EXCEPT !.next = t].continuous = s.continuous
    BY TimesAssumption DEF SyncOK, SyncRecord
  <2>3. QED
    BY <2>1, <2>2 DEF BatchOK
<1>3. CASE out = <<Paused(Withdrawn(AllOff(s))), R>>
  <2>1. SyncOK(Paused(Withdrawn(AllOff(s)))) /\ ~Paused(Withdrawn(AllOff(s))).continuous
    BY SyncSteps
  <2>2. QED
    BY <1>3, <2>1 DEF BatchOK
<1>4. CASE out \in Queue(s, R, job, m)
  BY <1>0, <1>4, QueueOK
<1>5. QED
  BY <1>1, <1>2, <1>3, <1>4 DEF Dispatch

(* A batch pauses the workflow or dispatches.                              *)
LEMMA OneBatchOK ==
  ASSUME NEW s, SyncOK(s), NEW R, RunsOK(R), NEW backlog,
         NEW out \in OneBatch(s, R, backlog)
  PROVE  BatchOK(s, R, out)
<1>1. CASE out = <<Paused(s), R>> \/ out = <<Paused(AllOff(s)), R>>
  <2>1. SyncOK(Paused(s)) /\ Paused(s).continuous = s.continuous
    BY SyncSteps
  <2>2. SyncOK(Paused(AllOff(s))) /\ ~Paused(AllOff(s)).continuous
    BY SyncSteps
  <2>3. QED
    BY <1>1, <2>1, <2>2 DEF BatchOK
<1>2. CASE out \in Dispatch(s, R, Selected(s, backlog), backlog)
  <2>1. Selected(s, backlog) \in {"evidence_only", "apply"}
    BY DEF Selected
  <2>2. QED
    BY <1>2, <2>1, DispatchOK
<1>3. QED
  BY <1>1, <1>2 DEF OneBatch

-----------------------------------------------------------------------------
(* A recovery leaves the workflow consistent and every run that is not     *)
(* expired as it was.                                                      *)
LEMMA RecoveredOK ==
  ASSUME SyncOK(sync), RunsOK(run)
  PROVE  /\ SyncOK(Recovered(sync, run))
         /\ RunsOK(RecoveredRuns(run))
         /\ \A r \in Runs : r \notin Expired(run) => RecoveredRuns(run)[r] = run[r]
         /\ \A r \in Runs : RecoveredRuns(run)[r].state = "absent" => run[r].state = "absent"
<1> DEFINE n == Cardinality(Expired(run))
           s == [sync EXCEPT !.state = "idle"]
<1>1. n \in Nat
  <2>1. IsFiniteSet(Runs)
    BY FS_Interval, TimesAssumption DEF Runs
  <2>2. Expired(run) \in SUBSET Runs
    BY DEF Expired, Running
  <2>3. QED
    BY <2>1, <2>2, FS_Subset, FS_CardinalityType
<1>2. SyncOK(Warned(CoolingDown(s), n))
  <2>1. SyncOK(s)
    BY DEF SyncOK, SyncRecord
  <2> HIDE DEF s, n
  <2>2. QED
    BY <1>1, <2>1, SyncSteps, WarnedOK
<1>3. SyncOK(Recovered(sync, run))
  BY <1>2 DEF Recovered
<1>4. RunOK(Closed("blocked"))
  BY TimesAssumption DEF Closed, Absent, RunOK, RunRecord, Terminal
<1>5. RunsOK(RecoveredRuns(run))
  BY <1>4 DEF RunsOK, RecoveredRuns, RunOK
<1>6. \A r \in Runs : r \notin Expired(run) => RecoveredRuns(run)[r] = run[r]
  BY DEF RecoveredRuns
<1>7. \A r \in Runs : RecoveredRuns(run)[r].state = "absent" => run[r].state = "absent"
  BY DEF RecoveredRuns, Closed, Absent
<1>8. QED
  BY <1>3, <1>5, <1>6, <1>7

-----------------------------------------------------------------------------
(* A worker that executes a run, or reports it for the first time.         *)
Holding(w) == worker[w].phase \in {"working", "reporting"}

(* A step that keeps the workflow and the runs consistent, and does not    *)
(* touch the workers or a run that one of them holds.                      *)
LEMMA HeldRunsKept ==
  ASSUME IInv, SyncOK(sync'), RunsOK(run'),
         \A w \in Workers : Holding(w) => run'[worker[w].run] = run[worker[w].run],
         UNCHANGED <<worker, discovery>>
  PROVE  IInv'
<1>1. \A w \in Workers : WorkerOK(w)'
  BY DEF IInv, WorkerOK, Holding
<1>2. QED
  BY <1>1 DEF IInv

(* A held run is running, claimed and within its lease.                    *)
LEMMA HeldRuns ==
  ASSUME IInv, NEW w \in Workers, Holding(w)
  PROVE  /\ worker[w].run \in Runs
         /\ run[worker[w].run].state = "running"
         /\ run[worker[w].run].owner = w /\ run[worker[w].run].job \in Jobs
         /\ run[worker[w].run].lease >= 0
<1> DEFINE r == worker[w].run
<1>1. worker[w] \in WorkerRecord /\ WorkerOK(w)
  BY DEF IInv
<1>2. r \in Runs /\ run[r].state = "running" /\ run[r].owner = w
        /\ run[r].lease + worker[w].elapsed = Lease
  BY <1>1 DEF WorkerOK, Holding
<1>3. worker[w].elapsed \in 0..JobTimeout
  BY <1>1 DEF WorkerRecord
<1>4. RunOK(run[r])
  BY <1>2 DEF IInv, RunsOK
<1>5. run[r].job \in Jobs
  BY <1>2, <1>4, WorkersAssumption DEF RunOK
<1>6. run[r].lease \in Int
  BY <1>4, TimesAssumption DEF RunOK, RunRecord
<1>7. QED
  BY <1>2, <1>3, <1>5, <1>6, TimesAssumption

(* A button writes the workflow record only.                               *)
LEMMA OperateOK ==
  ASSUME IInv, NEW s, SyncOK(s), Operate(s)
  PROVE  IInv'
BY HeldRunsKept DEF Operate, IInv

(* A batch of a consistent state, run now or by the cron.                  *)
LEMMA BatchStep ==
  ASSUME IInv, NEW s, NEW R, RunsOK(R),
         \A w \in Workers : Holding(w) => R[worker[w].run] = run[worker[w].run],
         NEW out, BatchOK(s, R, out), sync' = out[1], run' = out[2],
         UNCHANGED <<worker, discovery>>
  PROVE  IInv'
<1>1. SyncOK(sync') /\ RunsOK(run')
  BY DEF BatchOK
<1>2. \A w \in Workers : Holding(w) => run'[worker[w].run] = run[worker[w].run]
  <2>1. SUFFICES ASSUME NEW w \in Workers, Holding(w)
                 PROVE  run'[worker[w].run] = run[worker[w].run]
    OBVIOUS
  <2>2. worker[w].run \in Runs /\ run[worker[w].run].state = "running"
    BY <2>1, HeldRuns
  <2>3. QED
    BY <2>1, <2>2 DEF BatchOK
<1>3. QED
  BY <1>1, <1>2, HeldRunsKept

(* The cron takes only expired runs away, and a held run is not expired.   *)
LEMMA CronStep ==
  ASSUME IInv, Cron
  PROVE  IInv'
<1> DEFINE s == Recovered(sync, run)
           R == RecoveredRuns(run)
<1>1. SyncOK(s) /\ RunsOK(R)
        /\ \A r \in Runs : r \notin Expired(run) => R[r] = run[r]
  BY RecoveredOK DEF IInv
<1>2. \A w \in Workers : Holding(w) => R[worker[w].run] = run[worker[w].run]
  <2>1. SUFFICES ASSUME NEW w \in Workers, Holding(w)
                 PROVE  R[worker[w].run] = run[worker[w].run]
    OBVIOUS
  <2>2. worker[w].run \in Runs /\ run[worker[w].run].lease >= 0
    BY <2>1, HeldRuns
  <2>3. run[worker[w].run].lease \in Int
    BY <2>2, TimesAssumption DEF IInv, RunsOK, RunRecord
  <2>4. worker[w].run \notin Expired(run)
    BY <2>2, <2>3 DEF Expired
  <2>5. QED
    BY <1>1, <2>2, <2>4
<1>3. PICK backlog \in Backlog :
        EndsIn(IF s.state = "idle" /\ s.cron THEN OneBatch(s, R, backlog) ELSE {<<s, R>>})
  BY DEF Cron
<1>4. PICK out \in (IF s.state = "idle" /\ s.cron
                    THEN OneBatch(s, R, backlog) ELSE {<<s, R>>}) :
        sync' = out[1] /\ run' = out[2]
  BY <1>3 DEF EndsIn
<1> HIDE DEF s, R
<1>5. BatchOK(s, R, out)
  <2>1. CASE s.state = "idle" /\ s.cron
    BY <1>1, <1>4, <2>1, OneBatchOK
  <2>2. CASE ~(s.state = "idle" /\ s.cron)
    BY <1>1, <1>4, <2>2 DEF BatchOK
  <2>3. QED
    BY <2>1, <2>2
<1>6. UNCHANGED <<worker, discovery>>
  BY DEF Cron
<1>7. QED
  BY <1>1, <1>2, <1>4, <1>5, <1>6, BatchStep

-----------------------------------------------------------------------------
(* The steps of the operators and of the recording script.                 *)
LEMMA ButtonStep ==
  ASSUME IInv,
         \/ RequestApproval \/ Approve \/ Reject
         \/ EnableSchedule \/ DisableSchedule
         \/ EnableContinuous \/ DisableContinuous
         \/ EnablePageDriven \/ DisablePageDriven
         \/ Pause \/ Resume \/ ResetCursor
  PROVE  IInv'
<1>0. SyncOK(sync)
  BY DEF IInv
<1>1. CASE RequestApproval
  <2>1. SyncOK([sync EXCEPT !.approval = "requested"])
    BY <1>0 DEF SyncOK, SyncRecord
  <2>2. QED
    BY <1>1, <2>1, OperateOK DEF RequestApproval
<1>2. CASE Approve
  <2>1. SyncOK([sync EXCEPT !.approval = "approved"])
    BY <1>0 DEF SyncOK, SyncRecord
  <2>2. QED
    BY <1>2, <2>1, OperateOK DEF Approve
<1>3. CASE Reject
  <2>1. SyncOK([sync EXCEPT !.approval = "rejected"])
    BY <1>0 DEF SyncOK, SyncRecord
  <2>2. SyncOK(Paused(AllOff([sync EXCEPT !.approval = "rejected"])))
    BY <2>1, SyncSteps
  <2>3. QED
    BY <1>3, <2>2, OperateOK DEF Reject
<1>4. CASE EnableSchedule
  <2>1. SyncOK([sync EXCEPT !.cron = TRUE, !.state = "idle", !.timer = TRUE])
    BY <1>0 DEF SyncOK, SyncRecord
  <2>2. SyncOK(Withdrawn([sync EXCEPT !.cron = TRUE, !.state = "idle", !.timer = TRUE]))
    BY <2>1, SyncSteps
  <2>3. QED
    BY <1>4, <2>2, OperateOK DEF EnableSchedule
<1>5. CASE DisableSchedule
  <2>1. SyncOK(Paused(AllOff(sync)))
    BY <1>0, SyncSteps
  <2>2. QED
    BY <1>5, <2>1, OperateOK DEF DisableSchedule
<1>6. CASE EnableContinuous
  <2>1. 0 \in Nat /\ 0 < Warnings
    BY TimesAssumption
  <2>2. SyncOK([sync EXCEPT !.continuous = TRUE, !.cron = TRUE, !.timer = TRUE,
                            !.streak = 0, !.state = "idle"])
    BY <1>0, <2>1 DEF SyncOK, SyncRecord
  <2>3. QED
    BY <1>6, <2>2, OperateOK DEF EnableContinuous
<1>7. CASE DisableContinuous
  <2>1. SyncOK(Paused(Withdrawn(AllOff(sync))))
    BY <1>0, SyncSteps
  <2>2. QED
    BY <1>7, <2>1, OperateOK DEF DisableContinuous
<1>8. CASE EnablePageDriven
  <2>1. SyncOK([sync EXCEPT !.page = TRUE])
    BY <1>0, <1>8 DEF SyncOK, SyncRecord, EnablePageDriven
  <2>2. QED
    BY <1>8, <2>1, OperateOK DEF EnablePageDriven
<1>9. CASE DisablePageDriven
  <2>1. SyncOK([sync EXCEPT !.page = FALSE])
    BY <1>0 DEF SyncOK, SyncRecord
  <2>2. QED
    BY <1>9, <2>1, OperateOK DEF DisablePageDriven
<1>10. CASE Pause
  BY <1>0, <1>10, SyncSteps, OperateOK DEF Pause
<1>11. CASE Resume \/ ResetCursor
  <2>1. SyncOK([sync EXCEPT !.state = "idle"])
    BY <1>0 DEF SyncOK, SyncRecord
  <2>2. QED
    BY <1>11, <2>1, OperateOK DEF Resume, ResetCursor
<1>12. QED
  BY <1>1, <1>2, <1>3, <1>4, <1>5, <1>6, <1>7, <1>8, <1>9, <1>10, <1>11

(* A batch run by hand.                                                    *)
LEMMA RunNowStep ==
  ASSUME IInv, RunNow
  PROVE  IInv'
<1>1. \E backlog \in Backlog : \E out \in OneBatch(sync, run, backlog) :
        sync' = out[1] /\ run' = out[2]
  BY DEF RunNow, EndsIn
<1>2. \E out : BatchOK(sync, run, out) /\ sync' = out[1] /\ run' = out[2]
  BY <1>1, OneBatchOK DEF IInv
<1>3. RunsOK(run) /\ UNCHANGED <<worker, discovery>>
  BY DEF IInv, RunNow
<1>4. QED
  BY <1>2, <1>3, BatchStep

(* A release queued by hand, with the schedule on for the call.            *)
LEMMA QueueApprovedApplyStep ==
  ASSUME IInv, QueueApprovedApply
  PROVE  IInv'
<1>0. SyncOK(sync) /\ RunsOK(run) /\ UNCHANGED <<worker, discovery>>
  BY DEF IInv, QueueApprovedApply
<1>1. CASE sync.cron
  <2>1. \E backlog \in Backlog : \E out \in Dispatch(sync, run, "apply", backlog) :
          sync' = out[1] /\ run' = out[2]
    BY <1>1 DEF QueueApprovedApply, EndsIn
  <2>2. PICK out : BatchOK(sync, run, out) /\ sync' = out[1] /\ run' = out[2]
    BY <1>0, <2>1, DispatchOK
  <2>3. QED
    BY <1>0, <2>2, BatchStep
<1>2. CASE ~sync.cron
  <2> DEFINE s == [sync EXCEPT !.cron = TRUE, !.state = "idle"]
  <2>1. PICK backlog \in Backlog :
          \E out \in Dispatch(s, run, "apply", backlog) :
            sync' = Paused([out[1] EXCEPT !.cron = FALSE]) /\ run' = out[2]
    BY <1>2 DEF QueueApprovedApply
  <2>1a. PICK out \in Dispatch(s, run, "apply", backlog) :
          sync' = Paused([out[1] EXCEPT !.cron = FALSE]) /\ run' = out[2]
    BY <2>1
  <2>2. SyncOK(s) /\ ~s.continuous
    BY <1>0, <1>2 DEF SyncOK, SyncRecord
  <2> HIDE DEF s
  <2>3. BatchOK(s, run, out)
    BY <1>0, <2>1a, <2>2, DispatchOK
  <2>4. SyncOK([out[1] EXCEPT !.cron = FALSE])
    BY <2>2, <2>3 DEF BatchOK, SyncOK, SyncRecord
  <2> DEFINE fin == <<Paused([out[1] EXCEPT !.cron = FALSE]), out[2]>>
  <2>5. BatchOK(s, run, fin)
    <3>1. SyncOK(fin[1]) /\ fin[1].continuous = out[1].continuous
      BY <2>3, <2>4, SyncSteps DEF BatchOK, SyncOK, SyncRecord
    <3>2. QED
      BY <2>3, <3>1 DEF BatchOK
  <2>6. sync' = fin[1] /\ run' = fin[2]
    BY <2>1a
  <2> HIDE DEF fin
  <2>7. QED
    BY <1>0, <2>5, <2>6, BatchStep
<1>3. QED
  BY <1>1, <1>2

(* A run starts only in a workflow that stays consistent.                  *)
LEMMA RunningSyncOK ==
  ASSUME NEW s, SyncOK(s)
  PROVE  SyncOK([s EXCEPT !.state = "running"])
BY DEF SyncOK, SyncRecord

(* A finished run is a run, and nobody owns it.                            *)
LEMMA ClosedOK ==
  ASSUME NEW o \in Terminal
  PROVE  RunOK(Closed(o)) /\ Closed(o).state = o
BY TimesAssumption DEF Closed, Absent, RunOK, RunRecord, Terminal

(* The recording script begins and finishes runs that no worker holds.     *)
LEMMA ExternalRunStep ==
  ASSUME IInv,
         \/ \E m \in {"evidence_only", "apply"} : BeginExternalRun(m)
         \/ \E r \in Runs, o \in Terminal : FinishExternalRun(r, o)
  PROVE  IInv'
<1>0. SyncOK(sync) /\ RunsOK(run)
  BY DEF IInv
<1>1. ASSUME NEW m \in {"evidence_only", "apply"}, BeginExternalRun(m)
      PROVE  IInv'
  <2>1. RunsOK(run') /\ \A r \in Runs : run[r].state # "absent" => run'[r] = run[r]
    BY <1>0, <1>1, CreateOK DEF BeginExternalRun
  <2>2. SyncOK(sync')
    BY <1>0, <1>1, RunningSyncOK DEF BeginExternalRun
  <2>3. \A w \in Workers : Holding(w) => run'[worker[w].run] = run[worker[w].run]
    BY <2>1, HeldRuns
  <2>4. QED
    BY <1>1, <2>1, <2>2, <2>3, HeldRunsKept DEF BeginExternalRun
<1>2. ASSUME NEW r \in Runs, NEW o \in Terminal, FinishExternalRun(r, o)
      PROVE  IInv'
  <2>1. RunsOK(run')
    BY <1>0, <1>2, ClosedOK DEF FinishExternalRun, RunsOK, RunOK
  <2>2. SyncOK(sync')
    BY <1>0, <1>2, FinishedRunOK DEF FinishExternalRun
  <2>3. \A w \in Workers : Holding(w) => worker[w].run # r
    BY <1>2, HeldRuns DEF FinishExternalRun, Jobs
  <2>4. \A w \in Workers : Holding(w) => run'[worker[w].run] = run[worker[w].run]
    BY <1>0, <1>2, <2>3, HeldRuns DEF FinishExternalRun, RunsOK
  <2>5. QED
    BY <1>2, <2>1, <2>2, <2>4, HeldRunsKept DEF FinishExternalRun
<1>3. QED
  BY <1>1, <1>2

-----------------------------------------------------------------------------
(* The steps of a worker.                                                  *)

(* An idle worker is a worker.                                             *)
LEMMA IdleOK == Idle \in WorkerRecord /\ Idle.phase = "idle"
BY TimesAssumption DEF Idle, WorkerRecord, Outcomes

(* A claim starts with the whole lease and no time used.                   *)
LEMMA ClaimStep ==
  ASSUME IInv, NEW w \in Workers, NEW r \in Runs, Claim(w, r)
  PROVE  IInv'
<1>0. SyncOK(sync) /\ RunsOK(run) /\ run[r].state = "queued"
  BY DEF IInv, Claim
<1> DEFINE rec == [run[r] EXCEPT !.state = "running", !.owner = w, !.lease = Lease]
<1>1. run' = [run EXCEPT ![r] = rec] /\ SyncOK(sync')
  BY <1>0, RunningSyncOK DEF Claim
<1>2. RunOK(rec) /\ rec.state = "running" /\ rec.owner = w /\ rec.lease = Lease
  <2>1. run[r] \in RunRecord /\ run[r].job \in Jobs
    BY <1>0 DEF RunsOK, RunOK
  <2>2. Lease \in -1..Lease
    BY TimesAssumption
  <2>3. /\ rec \in RunRecord /\ rec.job = run[r].job
        /\ rec.state = "running" /\ rec.owner = w /\ rec.lease = Lease
    BY <2>1, <2>2 DEF RunRecord
  <2> HIDE DEF rec
  <2>4. QED
    BY <2>1, <2>3 DEF RunOK
<1> HIDE DEF rec
<1>3. RunsOK(run') /\ run'[r] = rec /\ \A q \in Runs : q # r => run'[q] = run[q]
  BY <1>0, <1>1, <1>2 DEF RunsOK, RunOK
<1>4. \A v \in Workers : Holding(v) => worker[v].run # r
  BY <1>0, HeldRuns
<1>5. \A v \in Workers : Holding(v) => run'[worker[v].run] = run[worker[v].run]
  BY <1>3, <1>4, HeldRuns
<1>6. CASE UNCHANGED worker
  BY <1>1, <1>3, <1>5, <1>6, HeldRunsKept DEF Claim
<1>7. CASE worker' = [worker EXCEPT ![w] = [Idle EXCEPT !.phase = "working", !.run = r]]
  <2> DEFINE busy == [Idle EXCEPT !.phase = "working", !.run = r]
  <2>1. busy \in WorkerRecord /\ busy.phase = "working" /\ busy.run = r /\ busy.elapsed = 0
    <3>1. Idle \in WorkerRecord /\ Idle.elapsed = 0
      BY IdleOK DEF Idle
    <3>2. QED
      BY <3>1 DEF WorkerRecord
  <2> HIDE DEF busy
  <2>2. worker \in [Workers -> WorkerRecord] /\ \A v \in Workers : WorkerOK(v)
    BY DEF IInv
  <2>3. worker' \in [Workers -> WorkerRecord] /\ worker'[w] = busy
          /\ \A v \in Workers \ {w} : worker'[v] = worker[v]
    BY <1>7, <2>1, <2>2 DEF busy
  <2>4. WorkerOK(w)'
    BY <1>2, <1>3, <2>1, <2>3, TimesAssumption DEF WorkerOK
  <2>5. \A v \in Workers \ {w} : WorkerOK(v)'
    BY <1>5, <2>2, <2>3 DEF WorkerOK, Holding
  <2>6. discovery' \in {"none", "active", "completed", "stopped"}
    BY DEF Claim, IInv
  <2>7. QED
    BY <1>1, <1>3, <2>3, <2>4, <2>5, <2>6 DEF IInv
<1>8. QED
  BY <1>6, <1>7 DEF Claim

(* A discovery run moves by itself.                                        *)
LEMMA DiscoveryStep ==
  ASSUME IInv, NEW w \in Workers, DiscoveryMoves(w)
  PROVE  IInv'
BY DEF IInv, DiscoveryMoves, WorkerOK

(* A worker that leaves, or that has used up its first report, holds       *)
(* nothing; the runs of the others are as before.                          *)
LEMMA WorkerLetsGo ==
  ASSUME IInv, NEW w \in Workers, SyncOK(sync'), RunsOK(run'),
         \A v \in Workers \ {w} : Holding(v) => run'[worker[v].run] = run[worker[v].run],
         worker[w].phase # "idle",
         Leave(w) \/ ReportAgain(w), UNCHANGED discovery
  PROVE  IInv'
<1>1. worker \in [Workers -> WorkerRecord] /\ \A v \in Workers : WorkerOK(v)
  BY DEF IInv
<1>2. \A v \in Workers \ {w} : worker'[v] = worker[v]
  BY <1>1 DEF Leave, ReportAgain
<1>3. \A v \in Workers \ {w} : WorkerOK(v)'
  BY <1>1, <1>2 DEF WorkerOK, Holding
<1>4. CASE Leave(w)
  <2>1. worker' \in [Workers -> WorkerRecord] /\ worker'[w] = Idle
    BY <1>1, <1>4, IdleOK DEF Leave
  <2>2. WorkerOK(w)'
    BY <2>1, IdleOK DEF WorkerOK
  <2>3. QED
    BY <1>3, <2>1, <2>2 DEF IInv
<1>5. CASE ReportAgain(w)
  <2>1. PICK o \in {"blocked", "failed"} :
          worker' = [worker EXCEPT ![w] = [@ EXCEPT !.phase = "retrying", !.outcome = o]]
    BY <1>5 DEF ReportAgain
  <2>2. worker' \in [Workers -> WorkerRecord]
          /\ worker'[w].phase = "retrying" /\ worker'[w].run = worker[w].run
    BY <1>1, <2>1 DEF WorkerRecord, Outcomes
  <2>3. WorkerOK(w)'
    BY <1>1, <2>2 DEF WorkerOK
  <2>4. QED
    BY <1>3, <2>2, <2>3 DEF IInv
<1>6. QED
  BY <1>4, <1>5

(* An accepted report closes a run that no other worker holds.             *)
LEMMA FinishClaimedOK ==
  ASSUME IInv, NEW w \in Workers, worker[w].phase # "idle", FinishClaimedRun(w)
  PROVE  /\ SyncOK(sync') /\ RunsOK(run')
         /\ \A v \in Workers \ {w} : Holding(v) => run'[worker[v].run] = run[worker[v].run]
<1> DEFINE r == worker[w].run
           o == Reported(worker[w].outcome)
<1>1. worker[w] \in WorkerRecord /\ r \in Runs /\ SyncOK(sync) /\ RunsOK(run)
  BY DEF IInv, WorkerOK
<1>2. o \in {"succeeded", "blocked", "failed"} /\ o \in Terminal
  BY <1>1 DEF WorkerRecord, Outcomes, Reported, Terminal
<1>3. /\ run[r].state = "running" /\ run[r].owner = w
      /\ run' = [run EXCEPT ![r] = Closed(o)]
      /\ sync' = FinishedClaim(sync, run[r], o)
  BY DEF FinishClaimedRun, Accepted
<1> HIDE DEF r, o
<1>4. SyncOK(sync')
  BY <1>1, <1>2, <1>3, FinishedClaimOK
<1>5. RunsOK(run') /\ \A q \in Runs : q # r => run'[q] = run[q]
  BY <1>1, <1>2, <1>3, ClosedOK DEF RunsOK, RunOK
<1>6. \A v \in Workers \ {w} : Holding(v) => worker[v].run # r
  BY <1>3, HeldRuns
<1>7. QED
  BY <1>4, <1>5, <1>6, HeldRuns

(* A worker that ends touches no run of another.                           *)
LEMMA WorkerEndsStep ==
  ASSUME IInv, NEW w \in Workers, WorkerEnds(w)
  PROVE  IInv'
<1>0. /\ worker \in [Workers -> WorkerRecord] /\ \A v \in Workers : WorkerOK(v)
      /\ SyncOK(sync) /\ RunsOK(run)
  BY DEF IInv
<1>1. ASSUME NEW o \in Outcomes, JobEnds(w, o)
      PROVE  IInv'
  <2>1. worker' = [worker EXCEPT ![w] = [@ EXCEPT !.phase = "reporting", !.outcome = o]]
          /\ worker[w].phase = "working" /\ UNCHANGED <<sync, run, discovery>>
    BY <1>1 DEF JobEnds
  <2>2. worker' \in [Workers -> WorkerRecord]
          /\ worker'[w].run = worker[w].run /\ worker'[w].elapsed = worker[w].elapsed
          /\ \A v \in Workers \ {w} : worker'[v] = worker[v]
    BY <1>0, <2>1 DEF WorkerRecord
  <2>3. \A v \in Workers : WorkerOK(v)'
    BY <1>0, <2>1, <2>2 DEF WorkerOK
  <2>4. QED
    BY <2>1, <2>2, <2>3 DEF IInv
<1>2. CASE Report(w)
  <2>1. worker[w].phase = "reporting" /\ UNCHANGED discovery
    BY <1>2 DEF Report
  <2>2. CASE FinishClaimedRun(w) /\ (Leave(w) \/ ReportAgain(w))
    BY <2>1, <2>2, FinishClaimedOK, WorkerLetsGo
  <2>3. CASE ReportAgain(w) /\ UNCHANGED <<sync, run>>
    BY <1>0, <2>1, <2>3, WorkerLetsGo
  <2>4. QED
    BY <1>2, <2>2, <2>3 DEF Report
<1>3. CASE SecondReport(w)
  <2>1. worker[w].phase = "retrying" /\ UNCHANGED discovery /\ Leave(w)
    BY <1>3 DEF SecondReport
  <2>2. CASE FinishClaimedRun(w)
    BY <2>1, <2>2, FinishClaimedOK, WorkerLetsGo
  <2>3. CASE UNCHANGED <<sync, run>>
    BY <1>0, <2>1, <2>3, WorkerLetsGo
  <2>4. QED
    BY <1>3, <2>2, <2>3 DEF SecondReport
<1>4. CASE Crash(w)
  BY <1>0, <1>4, WorkerLetsGo DEF Crash
<1>5. QED
  BY <1>1, <1>2, <1>3, <1>4 DEF WorkerEnds

(* Time takes as much from a lease as it adds to the life of the worker.   *)
LEMMA TickStep ==
  ASSUME IInv, Tick
  PROVE  IInv'
<1>0. /\ worker \in [Workers -> WorkerRecord] /\ \A v \in Workers : WorkerOK(v)
      /\ SyncOK(sync) /\ RunsOK(run)
  BY DEF IInv
<1>1. SyncOK(sync')
  <2>1. Down(sync.cooldown) \in Nat /\ Down(sync.next) \in Nat
    BY <1>0 DEF SyncOK, SyncRecord, Down
  <2>2. QED
    BY <1>0, <2>1 DEF Tick, SyncOK, SyncRecord
<1>2. RunsOK(run')
  <2>1. SUFFICES ASSUME NEW r \in Runs
                 PROVE  RunOK(run'[r])
    BY DEF Tick, RunsOK, RunOK
  <2>2. CASE run[r].owner # NoWorker /\ run[r].lease >= 0
    <3>1. run'[r] = [run[r] EXCEPT !.lease = @ - 1]
      BY <2>2 DEF Tick
    <3>2. run[r].lease \in 0..Lease /\ RunOK(run[r])
      BY <1>0, <2>2, TimesAssumption DEF RunsOK, RunOK, RunRecord
    <3>3. run[r].lease - 1 \in -1..Lease
      BY <3>2, TimesAssumption
    <3>4. QED
      BY <3>1, <3>2, <3>3 DEF RunOK, RunRecord
  <2>3. CASE ~(run[r].owner # NoWorker /\ run[r].lease >= 0)
    <3>1. run'[r] = run[r]
      BY <2>3 DEF Tick
    <3>2. QED
      BY <1>0, <3>1 DEF RunsOK
  <2>4. QED
    BY <2>2, <2>3
<1>3. ASSUME NEW w \in Workers
      PROVE  worker'[w] \in WorkerRecord /\ WorkerOK(w)'
  <2>1. CASE worker[w].phase = "idle"
    <3>1. worker'[w] = worker[w]
      BY <2>1 DEF Tick
    <3>2. QED
      BY <1>0, <2>1, <3>1 DEF WorkerOK
  <2>2. CASE worker[w].phase # "idle"
    <3>1. worker'[w] = [worker[w] EXCEPT !.elapsed = @ + 1] /\ worker[w].elapsed < JobTimeout
      BY <2>2 DEF Tick
    <3>2. worker[w].elapsed \in 0..JobTimeout
      BY <1>0 DEF WorkerRecord
    <3>3. worker[w].elapsed + 1 \in 0..JobTimeout
      BY <3>1, <3>2, TimesAssumption
    <3>4. /\ worker'[w] \in WorkerRecord
          /\ worker'[w].phase = worker[w].phase /\ worker'[w].run = worker[w].run
          /\ worker'[w].elapsed = worker[w].elapsed + 1
      BY <1>0, <3>1, <3>3 DEF WorkerRecord
    <3>5. ASSUME Holding(w)
          PROVE  /\ run'[worker[w].run].state = "running"
                 /\ run'[worker[w].run].owner = w
                 /\ run'[worker[w].run].lease + worker'[w].elapsed = Lease
      <4> DEFINE r == worker[w].run
      <4>1. r \in Runs /\ run[r].state = "running" /\ run[r].owner = w /\ run[r].lease >= 0
        BY <3>5, HeldRuns
      <4>2. run[r].lease + worker[w].elapsed = Lease
        BY <1>0, <3>5 DEF WorkerOK, Holding
      <4>3. run[r] \in RunRecord /\ run[r].lease \in Int
        BY <1>0, <4>1, TimesAssumption DEF RunsOK, RunRecord
      <4>4. run'[r] = [run[r] EXCEPT !.lease = @ - 1]
        BY <4>1, WorkersAssumption DEF Tick
      <4> HIDE DEF r
      <4>5. /\ run'[r].state = "running" /\ run'[r].owner = w
            /\ run'[r].lease = run[r].lease - 1
        BY <4>1, <4>3, <4>4 DEF RunRecord
      <4>6. run'[r].lease + worker'[w].elapsed = Lease
        BY <3>2, <3>4, <4>2, <4>3, <4>5, TimesAssumption
      <4>7. QED
        BY <4>5, <4>6 DEF r
    <3>6. QED
      BY <1>0, <3>4, <3>5 DEF WorkerOK, Holding
  <2>3. QED
    BY <2>1, <2>2
<1>4. worker' \in [Workers -> WorkerRecord]
  BY <1>3 DEF Tick
<1>5. QED
  BY <1>1, <1>2, <1>3, <1>4 DEF IInv, Tick

-----------------------------------------------------------------------------
(* The invariant holds in every reachable state.                           *)
LEMMA InitIInv == Init => IInv
<1>1. SUFFICES ASSUME Init
               PROVE  IInv
  OBVIOUS
<1>2. SyncOK(sync)
  BY <1>1, TimesAssumption DEF Init, SyncOK, SyncRecord
<1>3. RunOK(Absent)
  BY TimesAssumption DEF Absent, RunOK, RunRecord
<1>4. RunsOK(run)
  BY <1>1, <1>3 DEF Init, RunsOK, RunOK
<1>5. QED
  BY <1>1, <1>2, <1>4, IdleOK DEF Init, IInv, WorkerOK

(* One case per kind of step.                                              *)
LEMMA NextIInv == IInv /\ [Next]_vars => IInv'
<1>1. SUFFICES ASSUME IInv, [Next]_vars
               PROVE  IInv'
  OBVIOUS
<1>2. CASE Operator
  BY <1>1, <1>2, ButtonStep, RunNowStep, QueueApprovedApplyStep, ExternalRunStep DEF Operator
<1>3. CASE Cron
  BY <1>1, <1>3, CronStep
<1>4. CASE Tick
  BY <1>1, <1>4, TickStep
<1>5. ASSUME NEW w \in Workers, WorkerStep(w)
      PROVE  IInv'
  BY <1>1, <1>5, ClaimStep, DiscoveryStep, WorkerEndsStep DEF WorkerStep
<1>6. CASE UNCHANGED vars
  BY <1>1, <1>6 DEF vars, IInv, WorkerOK
<1>7. QED
  BY <1>1, <1>2, <1>3, <1>4, <1>5, <1>6 DEF Next

(* The inductive invariant is an invariant.                                *)
LEMMA IInvAlways == Spec => []IInv
BY InitIInv, NextIInv, PTL DEF Spec

(* Every variable keeps its type: the workflow record, the run table, the  *)
(* worker processes and the discovery state.                               *)
THEOREM TypeCorrect == Spec => []TypeOK
<1>1. IInv => TypeOK
  BY DEF IInv, TypeOK, SyncOK, RunsOK
<1>2. QED
  BY <1>1, IInvAlways, PTL

(* A worker that executes a job, or reports it for the first time, holds   *)
(* its run under a lease that has not run out: recover_expired_claims      *)
(* never takes a run from a live worker.                                   *)
THEOREM LeaseHeld == Spec => []JobHoldsLease
<1>1. IInv => JobHoldsLease
  BY HeldRuns DEF JobHoldsLease, Holding
<1>2. QED
  BY <1>1, IInvAlways, PTL

(* A continuous release is scheduled and below the limit of warnings, and  *)
(* page driven creation runs inside one, whatever operators and workers do.*)
THEOREM WithinLimit == Spec => []ContinuousWithinLimit
<1>1. IInv => ContinuousWithinLimit
  BY DEF IInv, SyncOK, ContinuousWithinLimit
<1>2. QED
  BY <1>1, IInvAlways, PTL

(* A finished run keeps its record through every step.                     *)
LEMMA FinishedRunsStay ==
  ASSUME IInv, [Next]_vars, NEW r \in Runs, run[r].state \in Terminal
  PROVE  run'[r] = run[r]
<1>0. run \in [Runs -> RunRecord] /\ RunOK(run[r]) /\ run[r].owner = NoWorker
        /\ run[r].state \notin {"absent", "queued", "running"}
  BY DEF IInv, RunsOK, RunOK, Terminal
<1>1. CASE Operator
  <2>1. CASE UNCHANGED run
    BY <2>1
  <2>2. CASE RunNow
    BY <1>0, <2>2, OneBatchOK DEF RunNow, EndsIn, BatchOK, IInv
  <2>3. CASE QueueApprovedApply
    <3>1. \E s, backlog, out : /\ SyncOK(s) /\ out \in Dispatch(s, run, "apply", backlog)
                              /\ run' = out[2]
      <4>1. SyncOK(sync) /\ SyncOK([sync EXCEPT !.cron = TRUE, !.state = "idle"])
        BY DEF IInv, SyncOK, SyncRecord
      <4>2. QED
        BY <2>3, <4>1 DEF QueueApprovedApply, EndsIn
    <3>2. QED
      BY <1>0, <3>1, DispatchOK DEF BatchOK, IInv
  <2>4. ASSUME NEW m \in {"evidence_only", "apply"}, BeginExternalRun(m)
        PROVE  run'[r] = run[r]
    BY <1>0, <2>4, CreateOK DEF BeginExternalRun, IInv
  <2>5. ASSUME NEW q \in Runs, NEW o \in Terminal, FinishExternalRun(q, o)
        PROVE  run'[r] = run[r]
    BY <1>0, <2>5 DEF FinishExternalRun
  <2>6. QED
    BY <1>1, <2>1, <2>2, <2>3, <2>4, <2>5
       DEF Operator, Operate, RequestApproval, Approve, Reject, EnableSchedule,
           DisableSchedule, EnableContinuous, DisableContinuous, EnablePageDriven,
           DisablePageDriven, Pause, Resume, ResetCursor
<1>2. CASE Cron
  <2> DEFINE s == Recovered(sync, run)
             R == RecoveredRuns(run)
  <2>1. SyncOK(s) /\ RunsOK(R)
    BY RecoveredOK DEF IInv
  <2>2. R[r] = run[r]
    BY <1>0, RecoveredOK DEF IInv, Expired, Running
  <2>3. \E backlog : EndsIn(IF s.state = "idle" /\ s.cron
                              THEN OneBatch(s, R, backlog) ELSE {<<s, R>>})
    BY <1>2 DEF Cron
  <2> HIDE DEF s, R
  <2>4. CASE run' = R
    BY <2>2, <2>4
  <2>5. CASE \E backlog : EndsIn(OneBatch(s, R, backlog))
    BY <1>0, <2>1, <2>2, <2>5, OneBatchOK DEF EndsIn, BatchOK
  <2>6. QED
    BY <2>3, <2>4, <2>5 DEF EndsIn
<1>3. CASE Tick
  BY <1>0, <1>3 DEF Tick
<1>4. ASSUME NEW w \in Workers, WorkerStep(w)
      PROVE  run'[r] = run[r]
  <2>1. CASE UNCHANGED run
    BY <2>1
  <2>2. ASSUME NEW q \in Runs, Claim(w, q)
        PROVE  run'[r] = run[r]
    BY <1>0, <2>2 DEF Claim
  <2>3. CASE FinishClaimedRun(w)
    BY <1>0, <2>3 DEF FinishClaimedRun, Accepted
  <2>4. QED
    BY <1>4, <2>1, <2>2, <2>3
       DEF WorkerStep, WorkerEnds, DiscoveryMoves, JobEnds, Report, SecondReport, Crash
<1>5. CASE UNCHANGED vars
  BY <1>5 DEF vars
<1>6. QED
  BY <1>1, <1>2, <1>3, <1>4, <1>5 DEF Next

(* A finished run keeps its outcome: no late or repeated report and no     *)
(* recovery rewrites it.                                                   *)
THEOREM OutcomesAreFinal == Spec => TerminalIsFinal
<1>1. IInv /\ [Next]_vars
        => [\A r \in Runs : run[r].state \in Terminal => run'[r] = run[r]]_vars
  BY FinishedRunsStay
<1>2. QED
  BY <1>1, IInvAlways, PTL DEF Spec, TerminalIsFinal

-----------------------------------------------------------------------------
(* The workflow carries out DispatchContract when operators act between    *)
(* runs.  A run executes alone: the workflow record says so, and the gate  *)
(* it started through is still open.                                       *)

NoneRuns(R) == \A r \in Runs : R[r].state # "running"

RunsAlone(s, R) ==
  \A r \in Runs : R[r].state = "running" =>
    /\ s.state = "running" /\ GateOpen(s)
    /\ \A q \in Runs : R[q].state = "running" => q = r

(* What Settle of the contract allows, between a workflow with its runs    *)
(* and a later one.                                                        *)
Settles(s, R, t, S) ==
  /\ Gate(t) >= Gate(s)
  /\ \A r \in Runs : \/ S[r].state = R[r].state
                     \/ R[r].state = "running" /\ S[r].state \in Terminal
                     \/ R[r].state = "absent" /\ S[r].state = "queued"

SameGate(s, t) == t.cooldown = s.cooldown /\ t.next = s.next

(* The gate is a time, and open when it is 0.                              *)
LEMMA GateTime ==
  ASSUME NEW s, SyncOK(s)
  PROVE  /\ Gate(s) \in Nat /\ (GateOpen(s) <=> Gate(s) = 0)
         /\ s.cooldown \in Nat /\ s.next \in Nat
BY DEF SyncOK, SyncRecord, Gate, GateOpen

(* Two settling changes, one after the other, are one.                     *)
LEMMA SettlesOn ==
  ASSUME NEW s, NEW t, NEW u, SyncOK(s), SyncOK(t), SyncOK(u),
         NEW R, NEW S, NEW T, Settles(s, R, t, S), Settles(t, S, u, T)
  PROVE  Settles(s, R, u, T)
<1>1. Gate(u) >= Gate(s)
  BY GateTime DEF Settles
<1>2. ASSUME NEW r \in Runs
      PROVE  \/ T[r].state = R[r].state
             \/ R[r].state = "running" /\ T[r].state \in Terminal
             \/ R[r].state = "absent" /\ T[r].state = "queued"
  BY DEF Settles, Terminal
<1>3. QED
  BY <1>1, <1>2 DEF Settles

(* A settling change is a step of the contract, and where nothing ran      *)
(* before it nothing runs after it.                                        *)
LEMMA SettlesKeeps ==
  ASSUME IInv, IInv', Settles(sync, run, sync', run')
  PROVE  Contract!Next /\ (NoneRuns(run) => RunsAlone(sync', run'))
<1>1. ASSUME NEW r \in Runs, Shown(run')[r] # Shown(run)[r]
      PROVE  <<Shown(run)[r], Shown(run')[r]>>
               \in {<<"running", "done">>, <<"absent", "queued">>}
  BY <1>1 DEF Settles, Shown, Terminal
<1>2. DOMAIN Shown(run') = Runs /\ Gate(sync') >= Gate(sync)
  BY DEF Settles, Shown
<1>3. Contract!Settle
  BY <1>1, <1>2 DEF Contract!Settle
<1>4. NoneRuns(run) => NoneRuns(run')
  BY DEF Settles, NoneRuns, Terminal
<1>5. QED
  BY <1>3, <1>4 DEF Contract!Next, NoneRuns, RunsAlone

(* A batch only settles: it queues at most a run that did not exist, and   *)
(* writes a time only where the gate is open.                              *)
LEMMA QueueSettles ==
  ASSUME NEW s, SyncOK(s), NEW R, RunsOK(R), NEW job, NEW mode,
         NEW out \in Queue(s, R, job, mode)
  PROVE  Settles(s, R, out[1], out[2])
<1>1. CASE out = <<s, R>>
  BY <1>1, GateTime DEF Settles
<1>2. CASE FreeIds(R) # {} /\ out = <<[s EXCEPT !.state = "idle"], Create(R, job, mode, "queued")>>
  <2>1. PICK r \in Runs :
          /\ R[r].state = "absent"
          /\ out[2] = [R EXCEPT ![r] = [state |-> "queued", job |-> job, mode |-> mode,
                                        owner |-> NoWorker, lease |-> 0]]
    BY <1>2, CreateFills DEF RunsOK
  <2>2. SyncOK(out[1]) /\ SameGate(s, out[1])
    BY <1>2 DEF SyncOK, SyncRecord, SameGate
  <2>3. Gate(out[1]) >= Gate(s)
    BY <2>2, GateTime DEF SameGate, Gate
  <2>4. QED
    BY <2>1, <2>3 DEF Settles, RunsOK
<1>3. QED
  BY <1>1, <1>2 DEF Queue

(* A change of the workflow that leaves its times settles.                 *)
LEMMA SameGateSettles ==
  ASSUME NEW s, SyncOK(s), NEW t, SameGate(s, t), NEW R
  PROVE  Settles(s, R, t, R)
BY GateTime DEF Settles, SameGate, Gate

(* Pausing and switching off leave the times.                              *)
LEMMA OffKeepsGate ==
  ASSUME NEW s, SyncOK(s)
  PROVE  /\ SameGate(s, Paused(s)) /\ SameGate(s, Paused(AllOff(s)))
         /\ SameGate(s, Paused(Withdrawn(AllOff(s))))
BY DEF SyncOK, SyncRecord, SameGate, Paused, Withdrawn, AllOff

(* A wait for a retry is set where the gate is open.                       *)
LEMMA DispatchSettles ==
  ASSUME NEW s, SyncOK(s), NEW R, RunsOK(R), NEW mode, NEW backlog,
         NEW out \in Dispatch(s, R, mode, backlog)
  PROVE  Settles(s, R, out[1], out[2])
<1> DEFINE job == IF mode = "apply" THEN "catalog_release" ELSE "sparex_discovery"
           m   == IF s.page THEN "apply" ELSE mode
<1>1. CASE out = <<s, R>>
  BY <1>1, SameGateSettles DEF SameGate
<1>2. CASE GateOpen(s) /\ \E t \in 0..RetryWait : out = <<[s EXCEPT !.next = t], R>>
  <2>1. PICK t \in 0..RetryWait : out = <<[s EXCEPT !.next = t], R>>
    BY <1>2
  <2>2. SyncOK(out[1])
    BY <2>1, TimesAssumption DEF SyncOK, SyncRecord
  <2>3. Gate(out[1]) >= Gate(s)
    BY <1>2, <2>2, GateTime
  <2>4. QED
    BY <2>1, <2>3 DEF Settles
<1>3. CASE out = <<Paused(Withdrawn(AllOff(s))), R>>
  BY <1>3, OffKeepsGate, SameGateSettles
<1>4. CASE out \in Queue(s, R, job, m)
  BY <1>4, QueueSettles
<1>5. QED
  BY <1>1, <1>2, <1>3, <1>4 DEF Dispatch

(* And so does a whole batch.                                              *)
LEMMA OneBatchSettles ==
  ASSUME NEW s, SyncOK(s), NEW R, RunsOK(R), NEW backlog,
         NEW out \in OneBatch(s, R, backlog)
  PROVE  Settles(s, R, out[1], out[2])
<1>1. CASE out = <<Paused(s), R>> \/ out = <<Paused(AllOff(s)), R>>
  BY <1>1, OffKeepsGate, SameGateSettles
<1>2. CASE out \in Dispatch(s, R, Selected(s, backlog), backlog)
  BY <1>2, DispatchSettles
<1>3. QED
  BY <1>1, <1>2 DEF OneBatch

(* A recovery ends the one run there is, or does nothing; either way       *)
(* nothing that is left running is alone without need.                     *)
LEMMA RecoveredSettles ==
  ASSUME SyncOK(sync), RunsOK(run), RunsAlone(sync, run)
  PROVE  LET s == Recovered(sync, run)
             R == RecoveredRuns(run)
         IN  Settles(sync, run, s, R) /\ RunsAlone(s, R)
<1> DEFINE s == Recovered(sync, run)
           R == RecoveredRuns(run)
<1>1. CASE Expired(run) = {}
  <2>1. s = sync
    BY <1>1, FS_EmptySet DEF Recovered
  <2>2. R = run
    BY <1>1 DEF RecoveredRuns, RunsOK
  <2>3. QED
    BY <2>1, <2>2, SameGateSettles DEF SameGate
<1>2. CASE Expired(run) # {}
  <2>1. PICK r \in Runs : r \in Expired(run) /\ run[r].state = "running"
    BY <1>2 DEF Expired, Running
  <2>2. Gate(s) >= Gate(sync)
    BY <2>1, RecoveredOK, GateTime DEF RunsAlone
  <2>3. ASSUME NEW q \in Runs
        PROVE  /\ R[q].state # "running"
               /\ \/ R[q].state = run[q].state
                  \/ run[q].state = "running" /\ R[q].state \in Terminal
    <3>1. CASE q = r
      BY <2>1, <3>1, ClosedOK DEF RecoveredRuns, Terminal
    <3>2. CASE q # r
      BY <2>1, <3>2 DEF RunsAlone, RecoveredRuns, Expired, Running
    <3>3. QED
      BY <3>1, <3>2
  <2>4. QED
    BY <2>2, <2>3 DEF Settles, RunsAlone
<1>3. QED
  BY <1>1, <1>2

(* What each step must show, given that both its states are consistent.    *)
Keeps == [Contract!Next]_(Contract!vars) /\ RunsAlone(sync', run')

(* Buttons leave the times and are pressed while nothing runs.             *)
LEMMA ButtonKeeps ==
  ASSUME Disciplined, IInv, IInv',
         \/ RequestApproval \/ Approve \/ Reject
         \/ EnableSchedule \/ DisableSchedule
         \/ EnableContinuous \/ DisableContinuous
         \/ EnablePageDriven \/ DisablePageDriven
         \/ Pause \/ Resume \/ ResetCursor
  PROVE  Keeps
<1>1. SyncOK(sync) /\ run' = run
  BY DEF IInv, RequestApproval, Approve, Reject, EnableSchedule, DisableSchedule,
         EnableContinuous, DisableContinuous, EnablePageDriven, DisablePageDriven,
         Pause, Resume, ResetCursor, Operate
<1>2. NoneRuns(run)
  BY DEF RequestApproval, Approve, Reject, EnableSchedule, DisableSchedule,
         EnableContinuous, DisableContinuous, EnablePageDriven, DisablePageDriven,
         Pause, Resume, ResetCursor, Operate, Undisturbed, NoneRuns, Running
<1>3. SameGate(sync, sync')
  BY <1>1 DEF SyncOK, SyncRecord, SameGate, AllOff, Withdrawn, Paused,
         RequestApproval, Approve, Reject, EnableSchedule, DisableSchedule,
         EnableContinuous, DisableContinuous, EnablePageDriven, DisablePageDriven,
         Pause, Resume, ResetCursor, Operate
<1>4. Settles(sync, run, sync', run')
  BY <1>1, <1>3, SameGateSettles
<1>5. QED
  BY <1>2, <1>4, SettlesKeeps DEF Keeps

(* A batch run by hand settles.                                            *)
LEMMA RunNowKeeps ==
  ASSUME Disciplined, IInv, IInv', RunNow
  PROVE  Keeps
<1>1. SyncOK(sync) /\ RunsOK(run)
  BY DEF IInv
<1>2. NoneRuns(run)
  BY DEF RunNow, Undisturbed, NoneRuns, Running
<1>3. \E backlog \in Backlog : \E out \in OneBatch(sync, run, backlog) :
        sync' = out[1] /\ run' = out[2]
  BY DEF RunNow, EndsIn
<1>4. Settles(sync, run, sync', run')
  BY <1>1, <1>3, OneBatchSettles
<1>5. QED
  BY <1>2, <1>4, SettlesKeeps DEF Keeps

(* So does a release queued by hand: its switches leave the times.         *)
LEMMA QueueApprovedApplyKeeps ==
  ASSUME Disciplined, IInv, IInv', QueueApprovedApply
  PROVE  Keeps
<1>1. SyncOK(sync) /\ SyncOK(sync') /\ RunsOK(run)
  BY DEF IInv
<1>2. NoneRuns(run)
  BY DEF QueueApprovedApply, Undisturbed, NoneRuns, Running
<1>3. CASE sync.cron
  <2>1. \E backlog \in Backlog : \E out \in Dispatch(sync, run, "apply", backlog) :
          sync' = out[1] /\ run' = out[2]
    BY <1>3 DEF QueueApprovedApply, EndsIn
  <2>2. Settles(sync, run, sync', run')
    BY <1>1, <2>1, DispatchSettles
  <2>3. QED
    BY <1>2, <2>2, SettlesKeeps DEF Keeps
<1>4. CASE ~sync.cron
  <2> DEFINE s == [sync EXCEPT !.cron = TRUE, !.state = "idle"]
  <2>1. PICK backlog \in Backlog :
          \E out \in Dispatch(s, run, "apply", backlog) :
            sync' = Paused([out[1] EXCEPT !.cron = FALSE]) /\ run' = out[2]
    BY <1>4 DEF QueueApprovedApply
  <2>2. PICK out \in Dispatch(s, run, "apply", backlog) :
          sync' = Paused([out[1] EXCEPT !.cron = FALSE]) /\ run' = out[2]
    BY <2>1
  <2>3. SyncOK(s) /\ SameGate(sync, s)
    BY <1>1, <1>4 DEF SyncOK, SyncRecord, SameGate
  <2> HIDE DEF s
  <2>4. SyncOK(out[1]) /\ Settles(s, run, out[1], out[2])
    BY <1>1, <2>2, <2>3, DispatchOK, DispatchSettles DEF BatchOK
  <2>5. SameGate(out[1], sync')
    BY <2>2, <2>4 DEF SyncOK, SyncRecord, SameGate, Paused
  <2>6. Settles(sync, run, s, run) /\ Settles(out[1], out[2], sync', out[2])
    BY <1>1, <2>3, <2>4, <2>5, SameGateSettles
  <2>7. Settles(sync, run, out[1], out[2])
    BY <1>1, <2>3, <2>4, <2>6, SettlesOn
  <2>8. Settles(sync, run, sync', run')
    BY <1>1, <2>2, <2>4, <2>6, <2>7, SettlesOn
  <2>9. QED
    BY <1>2, <2>8, SettlesKeeps DEF Keeps
<1>5. QED
  BY <1>3, <1>4

(* The cron recovers first: when it goes on with a batch, the workflow is  *)
(* idle, so nothing runs.                                                  *)
LEMMA CronKeeps ==
  ASSUME IInv, IInv', RunsAlone(sync, run), Cron
  PROVE  Keeps
<1> DEFINE s == Recovered(sync, run)
           R == RecoveredRuns(run)
<1>1. SyncOK(sync) /\ SyncOK(sync') /\ RunsOK(run) /\ SyncOK(s) /\ RunsOK(R)
  BY RecoveredOK DEF IInv
<1>2. Settles(sync, run, s, R) /\ RunsAlone(s, R)
  BY <1>1, RecoveredSettles
<1>3. PICK backlog \in Backlog :
        EndsIn(IF s.state = "idle" /\ s.cron THEN OneBatch(s, R, backlog) ELSE {<<s, R>>})
  BY DEF Cron
<1> HIDE DEF s, R
<1>4. CASE sync' = s /\ run' = R
  BY <1>2, <1>4, SettlesKeeps DEF Keeps
<1>5. CASE s.state = "idle" /\ \E out \in OneBatch(s, R, backlog) :
                                 sync' = out[1] /\ run' = out[2]
  <2>1. Settles(s, R, sync', run')
    BY <1>1, <1>5, OneBatchSettles
  <2>2. Settles(sync, run, sync', run')
    BY <1>1, <1>2, <2>1, SettlesOn
  <2>3. NoneRuns(run')
    BY <1>2, <1>5, <2>1 DEF RunsAlone, Settles, Terminal, NoneRuns
  <2>4. QED
    BY <2>2, <2>3, SettlesKeeps DEF Keeps, NoneRuns, RunsAlone
<1>6. QED
  BY <1>3, <1>4, <1>5 DEF EndsIn

(* A run that starts in a workflow where none runs is a start of the       *)
(* contract.                                                               *)
LEMMA StartKeeps ==
  ASSUME IInv, RunsAlone(sync, run), NEW r \in Runs, NEW m, MayStart(m),
         run[r].state \in {"absent", "queued"},
         NEW rec, rec.state = "running", run' = [run EXCEPT ![r] = rec],
         sync' = [sync EXCEPT !.state = "running"]
  PROVE  Keeps
<1>1. SyncOK(sync) /\ run \in [Runs -> RunRecord]
  BY DEF IInv, RunsOK
<1>2. NoneRuns(run) /\ GateOpen(sync)
  BY DEF MayStart, RunsAlone, NoneRuns
<1>3. sync'.state = "running" /\ SameGate(sync, sync')
  BY <1>1 DEF SyncOK, SyncRecord, SameGate
<1>4. run'[r].state = "running" /\ \A q \in Runs : q # r => run'[q] = run[q]
  BY <1>1
<1>5. RunsAlone(sync', run')
  BY <1>2, <1>3, <1>4 DEF RunsAlone, NoneRuns, GateOpen, SameGate
<1>6. Shown(run') = [Shown(run) EXCEPT ![r] = "running"]
  <2>1. ASSUME NEW q \in Runs
        PROVE  Shown(run')[q] = IF q = r THEN "running" ELSE Shown(run)[q]
    BY <1>4 DEF Shown, Terminal
  <2>2. DOMAIN Shown(run') = Runs /\ DOMAIN Shown(run) = Runs
    BY DEF Shown
  <2>3. Shown(run') = [q \in Runs |-> IF q = r THEN "running" ELSE Shown(run)[q]]
    BY <2>1, <2>2 DEF Shown
  <2>4. QED
    BY <2>2, <2>3
<1>7. Gate(sync) = 0 /\ Gate(sync') = Gate(sync)
  BY <1>1, <1>2, <1>3, GateTime DEF SameGate, Gate
<1>8. Shown(run)[r] \in {"absent", "queued"} /\ \A q \in Runs : Shown(run)[q] # "running"
  BY <1>2 DEF Shown, Terminal, NoneRuns
<1>9. Contract!Start(r)
  BY <1>6, <1>7, <1>8 DEF Contract!Start
<1>10. QED
  BY <1>5, <1>9 DEF Keeps, Contract!Next

(* A claim starts a queued run.                                            *)
LEMMA ClaimKeeps ==
  ASSUME IInv, RunsAlone(sync, run), NEW w \in Workers, NEW r \in Runs, Claim(w, r)
  PROVE  Keeps
<1> DEFINE rec == [run[r] EXCEPT !.state = "running", !.owner = w, !.lease = Lease]
<1>1. run[r] \in RunRecord /\ run[r].state = "queued"
  BY DEF IInv, RunsOK, Claim
<1>2. rec.state = "running"
  BY <1>1 DEF RunRecord
<1>3. run' = [run EXCEPT ![r] = rec]
  BY DEF Claim
<1>4. MayStart(run[r].mode) /\ sync' = [sync EXCEPT !.state = "running"]
  BY DEF Claim
<1> HIDE DEF rec
<1>5. QED
  BY <1>1, <1>2, <1>3, <1>4, StartKeeps

(* The recording script starts a run that was not queued.                  *)
LEMMA BeginExternalRunKeeps ==
  ASSUME IInv, RunsAlone(sync, run), NEW m, BeginExternalRun(m)
  PROVE  Keeps
<1>1. PICK r \in Runs :
        /\ run[r].state = "absent"
        /\ run' = [run EXCEPT ![r] = [state |-> "running", job |-> "none", mode |-> m,
                                      owner |-> NoWorker, lease |-> 0]]
  BY CreateFills DEF BeginExternalRun, IInv, RunsOK
<1>2. MayStart(m) /\ sync' = [sync EXCEPT !.state = "running"]
  BY DEF BeginExternalRun
<1>3. QED
  BY <1>1, <1>2, StartKeeps

(* The run that ends was alone and its gate open: whatever its outcome     *)
(* sets is no nearer.                                                      *)
LEMMA EndKeeps ==
  ASSUME IInv, IInv', RunsAlone(sync, run), NEW r \in Runs, run[r].state = "running",
         NEW o \in Terminal, run' = [run EXCEPT ![r] = Closed(o)]
  PROVE  Keeps
<1>1. SyncOK(sync) /\ SyncOK(sync') /\ run \in [Runs -> RunRecord]
  BY DEF IInv, RunsOK
<1>2. run'[r].state \in Terminal /\ \A q \in Runs : q # r => run'[q] = run[q]
  BY <1>1, ClosedOK
<1>3. NoneRuns(run')
  BY <1>2 DEF RunsAlone, NoneRuns, Terminal
<1>4. Gate(sync') >= Gate(sync)
  BY <1>1, GateTime DEF RunsAlone
<1>5. Settles(sync, run, sync', run')
  BY <1>2, <1>4 DEF Settles
<1>6. QED
  BY <1>3, <1>5, SettlesKeeps DEF Keeps, NoneRuns, RunsAlone

(* An accepted report ends the run.                                        *)
LEMMA FinishClaimedKeeps ==
  ASSUME IInv, IInv', RunsAlone(sync, run), NEW w \in Workers,
         worker[w].phase # "idle", FinishClaimedRun(w)
  PROVE  Keeps
<1> DEFINE r == worker[w].run
           o == Reported(worker[w].outcome)
<1>1. worker[w] \in WorkerRecord /\ r \in Runs
  BY DEF IInv, WorkerOK
<1>2. o \in Terminal
  BY <1>1 DEF WorkerRecord, Outcomes, Reported, Terminal
<1>3. run[r].state = "running" /\ run' = [run EXCEPT ![r] = Closed(o)]
  BY DEF FinishClaimedRun, Accepted
<1> HIDE DEF r, o
<1>4. QED
  BY <1>1, <1>2, <1>3, EndKeeps

(* A step of a worker that leaves workflow and runs alone is a stutter.    *)
LEMMA StutterKeeps ==
  ASSUME RunsAlone(sync, run), UNCHANGED <<sync, run>>
  PROVE  Keeps
BY DEF Keeps, Contract!vars

(* A worker claims, ends its run, or is not seen by the contract.          *)
LEMMA WorkerStepKeeps ==
  ASSUME IInv, IInv', RunsAlone(sync, run), NEW w \in Workers, WorkerStep(w)
  PROVE  Keeps
<1>1. ASSUME NEW r \in Runs, Claim(w, r)
      PROVE  Keeps
  BY <1>1, ClaimKeeps
<1>2. CASE UNCHANGED <<sync, run>>
  BY <1>2, StutterKeeps
<1>3. CASE worker[w].phase # "idle" /\ FinishClaimedRun(w)
  BY <1>3, FinishClaimedKeeps
<1>4. QED
  BY <1>1, <1>2, <1>3
     DEF WorkerStep, WorkerEnds, DiscoveryMoves, JobEnds, Report, SecondReport, Crash

(* Time closes in on the gate by one, or finds it open.                    *)
LEMMA TickKeeps ==
  ASSUME IInv, RunsAlone(sync, run), Tick
  PROVE  Keeps
<1>1. SyncOK(sync) /\ run \in [Runs -> RunRecord]
  BY DEF IInv, RunsOK
<1>2. /\ sync'.cooldown = Down(sync.cooldown) /\ sync'.next = Down(sync.next)
      /\ sync'.state = sync.state
  BY <1>1 DEF Tick, SyncOK, SyncRecord
<1>3. \A r \in Runs : run'[r].state = run[r].state
  BY <1>1 DEF Tick, RunRecord
<1>4. Gate(sync') = Down(Gate(sync))
  BY <1>1, <1>2, GateTime DEF Gate, Down
<1>5. Shown(run') = Shown(run)
  BY <1>3 DEF Shown
<1>6. GateOpen(sync) => GateOpen(sync')
  BY <1>2 DEF GateOpen, Down
<1>7. RunsAlone(sync', run')
  BY <1>2, <1>3, <1>6 DEF RunsAlone
<1>8. CASE Gate(sync) > 0
  <2>1. Contract!Elapse
    BY <1>4, <1>5, <1>8 DEF Contract!Elapse, Down
  <2>2. QED
    BY <1>7, <2>1 DEF Keeps, Contract!Next
<1>9. CASE ~(Gate(sync) > 0)
  BY <1>4, <1>5, <1>7, <1>9 DEF Keeps, Contract!vars, Down
<1>10. QED
  BY <1>8, <1>9

(* Every step of the workflow is one of the contract, or a stutter.        *)
LEMMA NextKeeps ==
  ASSUME Disciplined, IInv, IInv', RunsAlone(sync, run), [Next]_vars
  PROVE  Keeps
<1>1. CASE Operator
  <2>1. ASSUME NEW m \in {"evidence_only", "apply"}, BeginExternalRun(m)
        PROVE  Keeps
    BY <2>1, BeginExternalRunKeeps
  <2>2. ASSUME NEW r \in Runs, NEW o \in Terminal, FinishExternalRun(r, o)
        PROVE  Keeps
    BY <2>2, EndKeeps DEF FinishExternalRun
  <2>3. QED
    BY <1>1, <2>1, <2>2, ButtonKeeps, RunNowKeeps, QueueApprovedApplyKeeps DEF Operator
<1>2. CASE Cron
  BY <1>2, CronKeeps
<1>3. CASE Tick
  BY <1>3, TickKeeps
<1>4. ASSUME NEW w \in Workers, WorkerStep(w)
      PROVE  Keeps
  BY <1>4, WorkerStepKeeps
<1>5. CASE UNCHANGED vars
  BY <1>5, StutterKeeps DEF vars
<1>6. QED
  BY <1>1, <1>2, <1>3, <1>4, <1>5 DEF Next

(* Runs execute one at a time, and the gate a run started through stays    *)
(* open until it ends.                                                     *)
OneAtATime == RunsAlone(sync, run)

(* Where operators act only between runs, the workflow carries out the     *)
(* contract: one run at a time, started through an open gate, done for     *)
(* good, and nothing but time opens the gate.                              *)
THEOREM ContractIsKept ==
  ASSUME Disciplined
  PROVE  Spec => KeepsContract
<1>1. Init => Contract!Init /\ OneAtATime
  BY DEF Init, Contract!Init, OneAtATime, RunsAlone, Shown, Gate, Absent, Terminal
<1>2. IInv /\ IInv' /\ OneAtATime /\ [Next]_vars
        => OneAtATime' /\ [Contract!Next]_(Contract!vars)
  BY NextKeeps DEF Keeps, OneAtATime
<1>3. QED
  BY <1>1, <1>2, IInvAlways, PTL DEF Spec, KeepsContract, Contract!Spec
=============================================================================
