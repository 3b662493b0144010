------------------------------- MODULE AiTask -------------------------------
(***************************************************************************)
(* The life of one AI task: its row, the coroutines that run it, and the   *)
(* refunds of its cost.  Runners live in the memory of the API process: a  *)
(* row says queued, and some coroutine, started by the request or by the   *)
(* sweeper, is to pick it up.  The single-task endpoints lock the row; the *)
(* bulk endpoints read it first and write it back in a later action.       *)
(***************************************************************************)
EXTENDS Naturals, FiniteSets

CONSTANTS Runners,    \* coroutines; bounds how often the task can be queued
          Sessions,   \* sessions of the bulk endpoints
          MaxAiFaults \* bound on restarts and on lost runners

ASSUME AiFaultsAssumption == MaxAiFaults \in Nat
ASSUME RunnersAssumption == Runners # {}

VARIABLES status,   \* tasks.status
          runner,   \* the coroutines
          sess,     \* what each bulk request is about to do
          refunds,  \* full refunds of the task's cost
          aiFaults  \* restarts and lost runners so far

aiVars == <<status, runner, sess, refunds, aiFaults>>

TaskStatus == {"pending", "queued", "running", "completed", "failed", "cancelled", "archived"}

(* "run" is _run_task, "scheduled" is _run_scheduled_ai_task. *)
Coroutine == [kind: {"run", "scheduled"}, phase: {"none", "waiting", "executing", "done"}]
BulkOp == {"idle", "cancel", "retry", "archive"}

None == [kind |-> "run", phase |-> "none"]

Spawn(r, k) == /\ runner[r].phase = "none"
               /\ runner' = [runner EXCEPT ![r] = [kind |-> k, phase |-> "waiting"]]
Phase(r, p) == runner' = [runner EXCEPT ![r].phase = p]

(* A task created with a scheduled_at waits for the sweeper; any other is   *)
(* handed to a coroutine by the request that creates it.                    *)
AiInit == /\ \/ status = "pending" /\ runner = [r \in Runners |-> None]
             \/ /\ status = "queued"
                /\ \E q \in Runners :
                     runner = [r \in Runners |->
                                 IF r = q THEN [kind |-> "run", phase |-> "waiting"] ELSE None]
          /\ sess = [s \in Sessions |-> "idle"]
          /\ refunds = 0
          /\ aiFaults = 0

---------------------------------------------------------------------------
(* Runners *)

(* The sweeper activates a scheduled task whose time has come, or one whose *)
(* upstream tasks have all ended, under the row lock.                       *)
Activate(r) == /\ status = "pending"
               /\ status' = "queued"
               /\ Spawn(r, "scheduled")
               /\ UNCHANGED <<sess, refunds, aiFaults>>

StillQueued == status = "queued"

(* _run_task looks at the row under its lock. *)
StartRun(r) ==
  /\ runner[r] = [kind |-> "run", phase |-> "waiting"]
  /\ IF StillQueued THEN status' = "running" /\ Phase(r, "executing")
                    ELSE status' = status /\ Phase(r, "done")
  /\ UNCHANGED <<sess, refunds, aiFaults>>

(* _run_scheduled_ai_task neither locks the row nor looks at its status.    *)
StartScheduled(r) ==
  /\ runner[r] = [kind |-> "scheduled", phase |-> "waiting"]
  /\ status' = "running"
  /\ Phase(r, "executing")
  /\ UNCHANGED <<sess, refunds, aiFaults>>


(* The last transaction of a runner writes its outcome over whatever is     *)
(* there: its session last saw "running".                                   *)
Finish(r, outcome) == /\ runner[r].phase = "executing"
                      /\ status' = outcome
                      /\ Phase(r, "done")
                      /\ UNCHANGED <<sess, aiFaults>>

(* The result is written, whether it was computed or found in the cache.    *)
Completed(r) == /\ Finish(r, "completed")
                /\ UNCHANGED refunds

NoRefund == refunds' = refunds \* mutant
RefundCost == refunds' = refunds + 1

Failed(r) == /\ Finish(r, "failed")
             /\ RefundCost

(* A runner that never starts because create_task raises after its commit   *)
(* (quota bookkeeping), or whose error path raises too: its session is in   *)
(* a failed transaction nobody rolls back, and the failure is only logged.  *)
Lose(r) == /\ aiFaults < MaxAiFaults
           /\ aiFaults' = aiFaults + 1
           /\ runner[r].phase \in {"waiting", "executing"}
           /\ Phase(r, "done")
           /\ UNCHANGED <<status, sess, refunds>>

---------------------------------------------------------------------------
(* The requester's handlers *)

Cancel == /\ status \in {"pending", "queued"}
          /\ status' = "cancelled"
          /\ RefundCost
          /\ UNCHANGED <<runner, sess, aiFaults>>

(* bulk_task_action cancels pending and queued tasks, bulk_cancel_tasks     *)
(* pending and running ones.                                                *)
BulkRead(s, op) ==
  /\ sess[s] = "idle"
  /\ \/ op = "cancel"  /\ status \in {"pending", "queued", "running"}
     \/ op = "retry"   /\ status = "failed"
     \/ op = "archive" /\ status \in {"completed", "failed", "cancelled"}
  /\ sess' = [sess EXCEPT ![s] = op]
  /\ UNCHANGED <<status, runner, refunds, aiFaults>>

BulkCommit(s, op, new) == /\ sess[s] = op
                          /\ status' = new
                          /\ sess' = [sess EXCEPT ![s] = "idle"]
                          /\ UNCHANGED aiFaults

BulkCancel(s) == BulkCommit(s, "cancel", "cancelled") /\ RefundCost /\ UNCHANGED runner
BulkArchive(s) == BulkCommit(s, "archive", "archived") /\ UNCHANGED <<refunds, runner>>

Unspawned(r) == runner[r].phase = "none" /\ UNCHANGED runner \* mutant
SpawnRetry(r) == Spawn(r, "run")

(* Neither charges the task again nor checks that it is still failed. *)
BulkRetry(s, r) == BulkCommit(s, "retry", "queued") /\ SpawnRetry(r) /\ UNCHANGED refunds

Rollback(s) == /\ sess[s] # "idle"
               /\ sess' = [sess EXCEPT ![s] = "idle"]
               /\ UNCHANGED <<status, runner, refunds, aiFaults>>

(* The process restarts: rows stay, coroutines and sessions are gone.       *)
Crash == /\ aiFaults < MaxAiFaults
         /\ aiFaults' = aiFaults + 1
         /\ runner' = [r \in Runners |-> IF runner[r].phase \in {"waiting", "executing"}
                                           THEN [runner[r] EXCEPT !.phase = "done"]
                                           ELSE runner[r]]
         /\ sess' = [s \in Sessions |-> "idle"]
         /\ UNCHANGED <<status, refunds>>

---------------------------------------------------------------------------

RunnerStep(r) == StartRun(r) \/ StartScheduled(r) \/ Completed(r) \/ Failed(r)

AiNext == \/ \E r \in Runners : Activate(r) \/ RunnerStep(r) \/ Lose(r)
          \/ Cancel
          \/ \E s \in Sessions : \/ \E op \in BulkOp : BulkRead(s, op)
                                 \/ BulkCancel(s) \/ BulkArchive(s) \/ Rollback(s)
                                 \/ \E r \in Runners : BulkRetry(s, r)
          \/ Crash

AiSpec == AiInit /\ [][AiNext]_aiVars

(* A runner in memory keeps running, and the sweeper comes round. *)
AiLiveSpec == /\ AiSpec
              /\ \A r \in Runners : WF_aiVars(RunnerStep(r))
              /\ WF_aiVars(\E r \in Runners : Activate(r))

---------------------------------------------------------------------------
(* Properties *)

(* Every variable holds a value of its kind. *)
AiTypeOK == /\ status \in TaskStatus
            /\ runner \in [Runners -> Coroutine]
            /\ sess \in [Sessions -> BulkOp]
            /\ refunds \in Nat
            /\ aiFaults \in 0..MaxAiFaults

InPhase(p) == {r \in Runners : runner[r].phase = p}

(* Short of faults, a queued task has a runner on its way and a running one *)
(* has a runner at work: no interleaving of the unlocked bulk endpoints,    *)
(* the sweeper and the guard of _run_task loses the hand-over.              *)
HandedOver ==
  aiFaults = 0 =>
    /\ status = "queued" => InPhase("waiting") # {}
    /\ status = "running" => InPhase("executing") # {}

(* A task that ended in failure or was cancelled gave its cost back, in     *)
(* whichever order runners, cancels and retries overwrote one another.      *)
LostIsRefunded == status \in {"failed", "cancelled"} => refunds > 0

(* No task is lost: it has its coroutine, or its cost went back.            *)
NoneLost == HandedOver /\ LostIsRefunded

(* A queued or running task comes to an end, short of faults.               *)
Settles ==
  [](aiFaults = 0) => (status \in {"queued", "running"} ~> status \notin {"queued", "running"})

---------------------------------------------------------------------------
(* What the source says of itself, and the code does not do *)

(* _run_task's guard: "this prevents duplicate execution".                  *)
SingleExecution == Cardinality(InPhase("executing")) <= 1

=============================================================================
