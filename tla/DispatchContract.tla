--------------------------- MODULE DispatchContract ---------------------------
(***************************************************************************)
(* What the dispatch control plane promises about the executions of one    *)
(* workflow, without leases, approvals, schedules or warnings: at most one *)
(* run executes, it starts only when the gate is open, what is done stays  *)
(* done, and only time opens the gate.                                     *)
(***************************************************************************)
EXTENDS Naturals

CONSTANT Runs        (* ids of the runs                                    *)

VARIABLES
  status,            (* each run: absent, queued, running or done          *)
  gate               (* time left until the next run may start             *)

vars == <<status, gate>>

Status == {"absent", "queued", "running", "done"}

Init == status = [r \in Runs |-> "absent"] /\ gate = 0

(* A run starts, queued before or not.                                     *)
Start(r) ==
  /\ gate = 0
  /\ status[r] \in {"absent", "queued"}
  /\ \A q \in Runs : status[q] # "running"
  /\ status' = [status EXCEPT ![r] = "running"]
  /\ UNCHANGED gate

(* Runs end and runs are queued; the gate may be moved further away.       *)
Settle ==
  /\ \A r \in Runs : status'[r] # status[r] =>
       <<status[r], status'[r]>> \in {<<"running", "done">>, <<"absent", "queued">>}
  /\ DOMAIN status' = Runs
  /\ gate' >= gate

Elapse == gate > 0 /\ gate' = gate - 1 /\ UNCHANGED status

Next == (\E r \in Runs : Start(r)) \/ Settle \/ Elapse

Spec == Init /\ [][Next]_vars
=============================================================================
