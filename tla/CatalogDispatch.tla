--------------------------- MODULE CatalogDispatch ---------------------------
(***************************************************************************)
(* The dispatch control plane of southern_parts_intelligence: one Sparex   *)
(* workflow (southern.parts.catalog.sync in mode sparex_discovery), its    *)
(* automation runs, the Odoo cron, the operators of the form view, the     *)
(* recording script, and the AWS workers that claim a run under a lease,   *)
(* execute it as a subprocess and report the result.                       *)
(*                                                                         *)
(* Every Odoo method runs in one database transaction that is rolled back  *)
(* when the method raises, so a handler is one atomic action and a raised  *)
(* UserError is a step that does not happen.  Stored times are kept as the *)
(* time that is left until them, which Tick counts down.                   *)
(***************************************************************************)
EXTENDS Integers, FiniteSets

CONSTANTS
  Workers,      (* ids of the AWS worker processes                          *)
  NoWorker,     (* an empty lease_owner                                     *)
  MaxRuns,      (* bound: automation runs created in a behaviour            *)
  Lease,        (* lease_seconds of a claim (900 s in the worker)           *)
  JobTimeout,   (* TimeoutStartSec, after which systemd kills the worker    *)
  Cooldown,     (* the 60 minutes after a safety warning                    *)
  NextWindow,   (* the 15 minutes after a success                           *)
  RetryWait,    (* bound: longest wait for a backlog retry                  *)
  Warnings,     (* safety warnings that stop a continuous release (3)       *)
  MaxReleases,  (* MAX_CONSECUTIVE_RELEASES                                 *)
  Disciplined   (* TRUE: operators act only while no run is running, and do *)
                (* not ask for approval again during a continuous release   *)

ASSUME WorkersAssumption == NoWorker \notin Workers
ASSUME TimesAssumption ==
  /\ Warnings \in Nat \ {0}
  /\ MaxRuns \in Nat /\ MaxReleases \in Nat /\ RetryWait \in Nat
  /\ Lease \in Nat /\ JobTimeout \in Nat /\ JobTimeout <= Lease
  /\ Cooldown \in Nat /\ NextWindow \in Nat /\ NextWindow <= Cooldown
ASSUME DisciplineAssumption == Disciplined \in BOOLEAN

VARIABLES
  sync,       (* the workflow record                                        *)
  run,        (* the automation runs, "absent" until created, in id order   *)
  worker,     (* the process state of each worker                           *)
  discovery   (* state of the latest southern.sparex.discovery.run          *)

vars == <<sync, run, worker, discovery>>

-----------------------------------------------------------------------------
(* Records.                                                                *)

Runs     == 1..MaxRuns
Terminal == {"succeeded", "blocked", "failed", "cancelled"}
Jobs     == {"sparex_discovery", "catalog_release"}

(* "unarchived" is a success whose result names no archived artifact.      *)
Outcomes == {"succeeded", "unarchived", "blocked", "failed"}

(* cron is internal_cron_enabled of the workflow, timer whether the        *)
(* ir.cron of all workflows is active.  It ships inactive; two buttons     *)
(* switch it on, and no code switches it off.                              *)
SyncRecord ==
  [state : {"idle", "running", "paused", "error"},
   approval : {"not_required", "requested", "approved", "rejected"},
   cron : BOOLEAN, continuous : BOOLEAN, page : BOOLEAN, timer : BOOLEAN,
   cooldown : Nat, next : Nat, streak : Nat, releases : 0..MaxReleases]

RunRecord ==
  [state : {"absent", "queued", "running"} \cup Terminal,
   job : Jobs \cup {"none"}, mode : {"evidence_only", "apply"},
   owner : Workers \cup {NoWorker}, lease : -1..Lease]

WorkerRecord ==
  [phase : {"idle", "working", "reporting", "retrying"},
   run : Runs \cup {0}, elapsed : 0..JobTimeout, outcome : Outcomes]

Absent == [state |-> "absent", job |-> "none", mode |-> "evidence_only",
           owner |-> NoWorker, lease |-> 0]
Idle   == [phase |-> "idle", run |-> 0, elapsed |-> 0, outcome |-> "blocked"]

Running(R)     == {r \in Runs : R[r].state = "running"}
Pending(R, j)  == {r \in Runs : R[r].job = j /\ R[r].state \in {"queued", "running"}}
FreeIds(R)     == {r \in Runs : R[r].state = "absent"}

(* The run record with the least unused id.                                *)
Create(R, job, mode, state) ==
  LET r == CHOOSE i \in FreeIds(R) : \A j \in FreeIds(R) : i <= j
  IN  [R EXCEPT ![r] = [state |-> state, job |-> job, mode |-> mode,
                        owner |-> NoWorker, lease |-> 0]]

-----------------------------------------------------------------------------
(* Changes of the workflow record.                                         *)

GateOpen(s) == s.cooldown = 0 /\ s.next = 0

AllOff(s) == [s EXCEPT !.continuous = FALSE, !.page = FALSE, !.cron = FALSE]

Withdrawn(s) == [s EXCEPT !.approval = "not_required"]

Paused(s) == [s EXCEPT !.state = "paused"]

(* n safety warnings in a row: each adds to the streak of a continuous     *)
(* release, the third stops it, later ones find it stopped.  s is the      *)
(* record after the finish_run of the last warned run, so the workflow is  *)
(* left paused only when the last warning is the one that stops it.        *)
Warned(s, n) ==
  IF ~s.continuous THEN s
  ELSE IF s.streak + n < Warnings THEN [s EXCEPT !.streak = @ + n]
  ELSE LET stopped == [AllOff(s) EXCEPT !.streak = Warnings]
       IN  IF s.streak + n = Warnings THEN Paused(stopped) ELSE stopped

CoolingDown(s) == [s EXCEPT !.cooldown = Cooldown, !.next = Cooldown]

(* finish_run on the workflow of a run of mode m.                          *)
FinishedRun(s, m, outcome) ==
  [s EXCEPT
     !.state    = IF outcome = "failed" THEN "error" ELSE "idle",
     !.approval = IF m = "apply" /\ outcome = "succeeded" /\ ~s.continuous
                    THEN "not_required" ELSE @]

(* Succeeded releases since the last succeeded discovery, as the batch     *)
(* reads them from the run history.                                        *)
CountRelease(s, job) ==
  [s EXCEPT !.releases = IF job = "sparex_discovery" THEN 0
                         ELSE IF @ < MaxReleases THEN @ + 1 ELSE @]

(* finish_claimed_run on the workflow.                                     *)
FinishedClaim(s, rec, outcome) ==
  LET f == FinishedRun(s, rec.mode, outcome)
  IN  IF outcome = "succeeded"
        THEN CountRelease([f EXCEPT !.next = NextWindow,
                                    !.streak = IF s.continuous THEN 0 ELSE @], rec.job)
      ELSE IF outcome = "blocked" THEN Warned(CoolingDown(f), 1)
      ELSE IF s.continuous THEN [AllOff(f) EXCEPT !.streak = @ + 1]
      ELSE f

(* A finished run.  Its job and mode are read again only by the count of   *)
(* releases, which the workflow record keeps here, so they are dropped.    *)
Closed(outcome) == [Absent EXCEPT !.state = outcome]

-----------------------------------------------------------------------------
(* One batch of the workflow.  The outcomes are pairs of the workflow      *)
(* record and the run table; none when the method raises.  A full run      *)
(* table queues nothing (bound MaxRuns).                                   *)

Queue(s, R, job, mode) ==
  IF FreeIds(R) = {} THEN {<<s, R>>}
  ELSE IF ~s.cron \/ (mode = "apply" /\ s.approval # "approved") THEN {}
  ELSE {<<[s EXCEPT !.state = "idle"], Create(R, job, mode, "queued")>>}

(* _queue_sparex_dispatch; backlog is continuous_release_status().         *)
Dispatch(s, R, mode, backlog) ==
  LET job == IF mode = "apply" THEN "catalog_release" ELSE "sparex_discovery"
  IN  IF mode = "apply" /\ s.approval # "approved" THEN {}
      ELSE IF ~GateOpen(s) \/ Pending(R, job) # {} THEN {<<s, R>>}
      ELSE IF mode = "apply" /\ s.continuous /\ backlog = "waiting"
        THEN {<<[s EXCEPT !.next = t], R>> : t \in 0..RetryWait}
      ELSE IF mode = "apply" /\ s.continuous /\ backlog \in {"complete", "needs_review"}
        THEN {<<Paused(Withdrawn(AllOff(s))), R>>}
      ELSE Queue(s, R, job, IF s.page THEN "apply" ELSE mode)

(* The dispatch mode that _run_one_batch selects.                          *)
Selected(s, backlog) ==
  IF /\ s.continuous
     /\ \/ discovery = "completed"
        \/ /\ discovery = "active" /\ GateOpen(s)
           /\ s.releases < MaxReleases /\ backlog = "actionable"
    THEN "apply" ELSE "evidence_only"

OneBatch(s, R, backlog) ==
  IF ~s.cron THEN {<<Paused(s), R>>}
  ELSE IF s.continuous /\ discovery = "stopped" THEN {<<Paused(AllOff(s)), R>>}
  ELSE Dispatch(s, R, Selected(s, backlog), backlog)

Backlog == {"actionable", "waiting", "complete", "needs_review"}

EndsIn(outcomes) == \E out \in outcomes : sync' = out[1] /\ run' = out[2]

-----------------------------------------------------------------------------
(* The Odoo cron, every minute once it is active: release the claims whose *)
(* lease has run out, then run a batch of the workflow if it is idle and   *)
(* scheduled.                                                              *)

(* Mutated form of Expired: a lease that runs out now counts as run out.   *)
ExpiredAtDeadline(R) ==
  {r \in Running(R) : R[r].owner # NoWorker /\ R[r].lease <= 0}

Expired(R) ==
  {r \in Running(R) : R[r].owner # NoWorker /\ R[r].lease < 0}

Recovered(s, R) ==
  LET n == Cardinality(Expired(R))
  IN  IF n = 0 THEN s ELSE Warned(CoolingDown([s EXCEPT !.state = "idle"]), n)

RecoveredRuns(R) ==
  [r \in Runs |-> IF r \in Expired(R) THEN Closed("blocked") ELSE R[r]]

(* Mutated form of Cron: claims are only looked at in an idle workflow.    *)
CronIdleOnly ==
  \E backlog \in Backlog :
    /\ sync.timer /\ sync.state = "idle"
    /\ EndsIn(IF sync.cron THEN OneBatch(Recovered(sync, run), RecoveredRuns(run), backlog)
              ELSE {<<Recovered(sync, run), RecoveredRuns(run)>>})
    /\ UNCHANGED <<worker, discovery>>

Cron ==
  \E backlog \in Backlog :
    LET s == Recovered(sync, run)
        R == RecoveredRuns(run)
    IN  /\ sync.timer
        /\ EndsIn(IF s.state = "idle" /\ s.cron
                    THEN OneBatch(s, R, backlog) ELSE {<<s, R>>})
        /\ UNCHANGED <<worker, discovery>>

-----------------------------------------------------------------------------
(* The operators: the buttons of the form, offered when the view shows     *)
(* them, and the script that records a run executed elsewhere.             *)

Undisturbed == Disciplined => Running(run) = {}

Operate(s) == /\ Undisturbed
              /\ sync' = s
              /\ UNCHANGED <<run, worker, discovery>>

RequestApproval ==
  /\ sync.approval # "requested"
  /\ Disciplined => ~sync.continuous
  /\ Operate([sync EXCEPT !.approval = "requested"])

Approve == sync.approval = "requested" /\ Operate([sync EXCEPT !.approval = "approved"])

Reject ==
  /\ sync.approval = "requested"
  /\ Operate(Paused(AllOff([sync EXCEPT !.approval = "rejected"])))

EnableSchedule ==
  /\ sync.approval = "approved" /\ ~sync.cron
  /\ Operate(Withdrawn([sync EXCEPT !.cron = TRUE, !.state = "idle", !.timer = TRUE]))

DisableSchedule == sync.cron /\ Operate(Paused(AllOff(sync)))

EnableContinuous ==
  /\ sync.approval = "approved" /\ ~sync.continuous
  /\ Operate([sync EXCEPT !.continuous = TRUE, !.cron = TRUE, !.timer = TRUE,
                           !.streak = 0, !.state = "idle"])

DisableContinuous == sync.continuous /\ Operate(Paused(Withdrawn(AllOff(sync))))

EnablePageDriven ==
  /\ sync.approval = "approved" /\ sync.continuous /\ ~sync.page
  /\ Operate([sync EXCEPT !.page = TRUE])

DisablePageDriven == sync.page /\ Operate([sync EXCEPT !.page = FALSE])

Pause == sync.state # "paused" /\ Operate(Paused(sync))

(* Resume is offered when the workflow is paused, Reset Cursor always.     *)
Resume      == sync.state = "paused" /\ Operate([sync EXCEPT !.state = "idle"])
ResetCursor == Operate([sync EXCEPT !.state = "idle"])

RunNow ==
  /\ Undisturbed
  /\ \E backlog \in Backlog : EndsIn(OneBatch(sync, run, backlog))
  /\ UNCHANGED <<worker, discovery>>

(* The schedule is switched on for the length of the call when it was off. *)
QueueApprovedApply ==
  /\ Undisturbed
  /\ sync.approval = "approved"
  /\ \E backlog \in Backlog :
       IF sync.cron
         THEN EndsIn(Dispatch(sync, run, "apply", backlog))
         ELSE \E out \in Dispatch([sync EXCEPT !.cron = TRUE, !.state = "idle"],
                                  run, "apply", backlog) :
                /\ sync' = Paused([out[1] EXCEPT !.cron = FALSE])
                /\ run' = out[2]
  /\ UNCHANGED <<worker, discovery>>

(* Mutated form of MayStart: without the gate.                             *)
MayStartEarly(mode) ==
  /\ sync.state # "running"
  /\ sync.approval \notin {"requested", "rejected"}
  /\ mode = "apply" => sync.approval = "approved"

(* assert_external_run_allowed, and the approval an apply run needs.       *)
MayStart(mode) ==
  /\ GateOpen(sync)
  /\ sync.state # "running"
  /\ sync.approval \notin {"requested", "rejected"}
  /\ mode = "apply" => sync.approval = "approved"

(* begin_external_run of the recording script: no lease is given.          *)
BeginExternalRun(mode) ==
  /\ Undisturbed
  /\ MayStart(mode) /\ FreeIds(run) # {}
  /\ run' = Create(run, "none", mode, "running")
  /\ sync' = [sync EXCEPT !.state = "running"]
  /\ UNCHANGED <<worker, discovery>>

(* The script finishes a run it began (finish_run has no owner check).     *)
FinishExternalRun(r, outcome) ==
  /\ run[r].state = "running" /\ run[r].job = "none"
  /\ run' = [run EXCEPT ![r] = Closed(outcome)]
  /\ sync' = FinishedRun(sync, run[r].mode, outcome)
  /\ UNCHANGED <<worker, discovery>>

-----------------------------------------------------------------------------
(* A worker process: claim, execute, report, and once more when the report *)
(* fails; it may die at any moment.                                        *)

(* The oldest queued run.  A queued row that another worker's claim in     *)
(* progress holds locked is skipped.                                       *)
Oldest(w, r) ==
  Cardinality({q \in 1..(r - 1) : run[q].state = "queued"})
    <= Cardinality({v \in Workers \ {w} : worker[v].phase = "idle"})

Claim(w, r) ==
  /\ worker[w].phase = "idle"
  /\ run[r].state = "queued" /\ Oldest(w, r)
  /\ MayStart(run[r].mode)
  /\ run' = [run EXCEPT ![r] = [@ EXCEPT !.state = "running", !.owner = w, !.lease = Lease]]
  /\ sync' = [sync EXCEPT !.state = "running"]
  /\ \/ worker' = [worker EXCEPT ![w] = [Idle EXCEPT !.phase = "working", !.run = r]]
     \/ UNCHANGED worker            \* the reply is lost: the claim has no worker
  /\ UNCHANGED discovery

(* A discovery job works on the discovery run it resolved.                 *)
DiscoveryMoves(w) ==
  /\ worker[w].phase = "working"
  /\ run[worker[w].run].job = "sparex_discovery"
  /\ discovery' \in {"active", "completed", "stopped"}
  /\ UNCHANGED <<sync, run, worker>>

(* The subprocess exits or is stopped by its timeout.                      *)
JobEnds(w, outcome) ==
  /\ worker[w].phase = "working"
  /\ worker' = [worker EXCEPT ![w] = [@ EXCEPT !.phase = "reporting", !.outcome = outcome]]
  /\ UNCHANGED <<sync, run, discovery>>

(* The state that a report writes.                                         *)
Reported(outcome) == IF outcome = "unarchived" THEN "succeeded" ELSE outcome

(* finish_claimed_run accepts the report of w.                             *)
Accepted(w) ==
  LET rec == run[worker[w].run]
  IN  /\ rec.state = "running" /\ rec.owner = w
      /\ ~(rec.mode = "apply" /\ worker[w].outcome = "unarchived")

FinishClaimedRun(w) ==
  LET r == worker[w].run
      o == Reported(worker[w].outcome)
  IN  /\ Accepted(w)
      /\ run' = [run EXCEPT ![r] = Closed(o)]
      /\ sync' = FinishedClaim(sync, run[r], o)

Leave(w) == worker' = [worker EXCEPT ![w] = Idle]

(* The except branch: a lost or refused report is repeated as a warning or *)
(* a failure, by the text of the error.                                    *)
ReportAgain(w) ==
  \E o \in {"blocked", "failed"} :
    worker' = [worker EXCEPT ![w] = [@ EXCEPT !.phase = "retrying", !.outcome = o]]

Report(w) ==
  /\ worker[w].phase = "reporting"
  /\ \/ FinishClaimedRun(w) /\ (Leave(w) \/ ReportAgain(w))
     \/ ReportAgain(w) /\ UNCHANGED <<sync, run>>
  /\ UNCHANGED discovery

SecondReport(w) ==
  /\ worker[w].phase = "retrying"
  /\ Leave(w)
  /\ FinishClaimedRun(w) \/ UNCHANGED <<sync, run>>
  /\ UNCHANGED discovery

Crash(w) ==
  /\ worker[w].phase # "idle"
  /\ Leave(w)
  /\ UNCHANGED <<sync, run, discovery>>

-----------------------------------------------------------------------------
(* One unit of time.  systemd stops a worker at JobTimeout, so no worker   *)
(* lives through a unit beyond it.                                         *)

(* Mutated form of Down: times that have passed are counted on.            *)
DownBelowZero(t) == t - 1

Down(t) == IF t > 0 THEN t - 1 ELSE t

Tick ==
  /\ \A w \in Workers : worker[w].phase # "idle" => worker[w].elapsed < JobTimeout
  /\ sync' = [sync EXCEPT !.cooldown = Down(@), !.next = Down(@)]
  /\ run' = [r \in Runs |->
               IF run[r].owner # NoWorker /\ run[r].lease >= 0
                 THEN [run[r] EXCEPT !.lease = @ - 1] ELSE run[r]]
  /\ worker' = [w \in Workers |->
                  IF worker[w].phase = "idle" THEN worker[w]
                  ELSE [worker[w] EXCEPT !.elapsed = @ + 1]]
  /\ UNCHANGED discovery

-----------------------------------------------------------------------------

Init ==
  /\ sync = [state |-> "idle", approval |-> "not_required", cron |-> FALSE,
             continuous |-> FALSE, page |-> FALSE, timer |-> FALSE,
             cooldown |-> 0, next |-> 0, streak |-> 0, releases |-> 0]
  /\ run = [r \in Runs |-> Absent]
  /\ worker = [w \in Workers |-> Idle]
  /\ discovery = "none"

Operator ==
  \/ RequestApproval \/ Approve \/ Reject
  \/ EnableSchedule \/ DisableSchedule
  \/ EnableContinuous \/ DisableContinuous
  \/ EnablePageDriven \/ DisablePageDriven
  \/ Pause \/ Resume \/ ResetCursor \/ RunNow \/ QueueApprovedApply
  \/ \E m \in {"evidence_only", "apply"} : BeginExternalRun(m)
  \/ \E r \in Runs, o \in Terminal : FinishExternalRun(r, o)

WorkerEnds(w) ==
  \/ \E o \in Outcomes : JobEnds(w, o)
  \/ Report(w) \/ SecondReport(w) \/ Crash(w)

WorkerStep(w) ==
  \/ \E r \in Runs : Claim(w, r)
  \/ DiscoveryMoves(w)
  \/ WorkerEnds(w)

Next == Operator \/ Cron \/ Tick \/ \E w \in Workers : WorkerStep(w)

Spec == Init /\ [][Next]_vars

(* An active cron runs every minute, time passes, and systemd ends every   *)
(* worker.                                                                 *)
Fairness ==
  /\ WF_vars(Cron) /\ WF_vars(Tick)
  /\ \A w \in Workers : WF_vars(WorkerEnds(w))

FairSpec == Spec /\ Fairness

-----------------------------------------------------------------------------
(* Properties.                                                             *)

TypeOK ==
  /\ sync \in SyncRecord
  /\ run \in [Runs -> RunRecord]
  /\ worker \in [Workers -> WorkerRecord]
  /\ discovery \in {"none", "active", "completed", "stopped"}

(* A worker that still executes or reports a job for the first time holds  *)
(* that run: it is running, claimed by this worker, with a lease that has  *)
(* not run out, so no recovery can have taken it away.                     *)
JobHoldsLease ==
  \A w \in Workers :
    worker[w].phase \in {"working", "reporting"} =>
      LET rec == run[worker[w].run]
      IN  rec.state = "running" /\ rec.owner = w /\ rec.lease >= 0

(* A continuous release is scheduled and has seen fewer than three safety  *)
(* warnings in a row; draft creation only runs inside one.                 *)
ContinuousWithinLimit ==
  /\ sync.continuous => sync.cron /\ sync.streak < Warnings
  /\ sync.page => sync.continuous

(* A finished run keeps its outcome: a late report, a repeated report or a *)
(* recovery never rewrites it.                                             *)
TerminalIsFinal ==
  [][\A r \in Runs : run[r].state \in Terminal => run'[r] = run[r]]_vars

(* What the contract sees of the runs and of the workflow record.          *)
Shown(R) == [r \in Runs |-> IF R[r].state \in Terminal THEN "done" ELSE R[r].state]
Gate(s)  == IF s.cooldown > s.next THEN s.cooldown ELSE s.next

(* The workflow carries out the contract of DispatchContract: one run at a *)
(* time, started only through an open gate, that nothing but time opens -  *)
(* no success, warning, recovery or wait for a retry shortens it.          *)
Contract == INSTANCE DispatchContract WITH
  status <- Shown(run), gate <- Gate(sync)

KeepsContract == Contract!Spec

(* Once the cron is active, a run that a worker claimed reaches an end,    *)
(* whatever becomes of the worker and whatever the state of the workflow.  *)
(* Before that a release queued by Queue Approved Apply can be claimed,    *)
(* and nobody takes it from a worker that was lost.                        *)
ClaimedRunEnds ==
  \A r \in Runs :
    sync.timer /\ run[r].state = "running" /\ run[r].owner # NoWorker
      ~> run[r].state \in Terminal
=============================================================================
