--------------------------- MODULE UpkeepProofs ---------------------------
(* What TLAPS proves of what runs in the background: of AiTask, for any    *)
(* coroutines and bulk requests, of Deferred, for any tasks, edges and     *)
(* replicas, of League, for any users, weeks and replicas, and of          *)
(* WebhookRetry, for any deliveries, replicas, batch and retry budget.     *)
EXTENDS AiTask, Deferred, League, WebhookRetry, FiniteSetTheorems, TLAPS

---------------------------------------------------------------------------
(* AiTask *)

LEMMA RunnersStep == AiTypeOK /\ [AiNext]_aiVars => AiTypeOK'
<1> SUFFICES ASSUME AiTypeOK, [AiNext]_aiVars PROVE AiTypeOK'
  OBVIOUS
<1> USE AiFaultsAssumption DEF AiTypeOK, TaskStatus, Coroutine, BulkOp
<1>1. ASSUME NEW r \in Runners, Activate(r) PROVE AiTypeOK'
  BY <1>1 DEF Activate, Spawn
<1>2. ASSUME NEW r \in Runners, StartRun(r) \/ StartScheduled(r) PROVE AiTypeOK'
  <2>1. runner' \in [Runners -> Coroutine]
    BY <1>2 DEF StartRun, StartScheduled, Phase
  <2>2. status' \in TaskStatus
    BY <1>2 DEF StartRun, StartScheduled
  <2>3. UNCHANGED <<sess, refunds, aiFaults>>
    BY <1>2 DEF StartRun, StartScheduled
  <2> QED BY <2>1, <2>2, <2>3
<1>3. ASSUME NEW r \in Runners, Completed(r) \/ Failed(r) PROVE AiTypeOK'
  <2>1. runner' \in [Runners -> Coroutine]
    BY <1>3 DEF Completed, Failed, Finish, Phase
  <2>2. status' \in {"completed", "failed"} /\ UNCHANGED <<sess, aiFaults>>
    BY <1>3 DEF Completed, Failed, Finish
  <2>3. refunds' \in Nat
    BY <1>3 DEF Completed, Failed, RefundCost
  <2> QED BY <2>1, <2>2, <2>3
<1>4. ASSUME NEW r \in Runners, Lose(r) PROVE AiTypeOK'
  BY <1>4 DEF Lose, Phase
<1>5. CASE Cancel
  BY <1>5 DEF Cancel, RefundCost
<1>6. ASSUME NEW s \in Sessions, NEW op \in BulkOp, BulkRead(s, op) PROVE AiTypeOK'
  BY <1>6 DEF BulkRead
<1>7. ASSUME NEW s \in Sessions, BulkCancel(s) \/ BulkArchive(s) \/ Rollback(s) PROVE AiTypeOK'
  BY <1>7 DEF BulkCancel, BulkArchive, BulkCommit, RefundCost, Rollback
<1>8. ASSUME NEW s \in Sessions, NEW r \in Runners, BulkRetry(s, r) PROVE AiTypeOK'
  BY <1>8 DEF BulkRetry, BulkCommit, SpawnRetry, Spawn
<1>9. CASE Crash
  BY <1>9 DEF Crash
<1>10. CASE UNCHANGED aiVars
  BY <1>10 DEF aiVars
<1> QED
  BY <1>1, <1>2, <1>3, <1>4, <1>5, <1>6, <1>7, <1>8, <1>9, <1>10 DEF AiNext, RunnerStep

(* Every variable keeps its type. *)
THEOREM RunnersTyped == AiSpec => []AiTypeOK
<1>1. AiInit => AiTypeOK
  <2> SUFFICES ASSUME AiInit PROVE AiTypeOK
    OBVIOUS
  <2>1. runner \in [Runners -> Coroutine]
    BY DEF AiInit, Coroutine, None
  <2>2. status \in TaskStatus
    BY DEF AiInit, TaskStatus
  <2>3. refunds = 0 /\ aiFaults = 0 /\ sess = [s \in Sessions |-> "idle"]
    BY DEF AiInit
  <2>4. sess \in [Sessions -> BulkOp]
    BY <2>3 DEF BulkOp
  <2>5. aiFaults \in 0..MaxAiFaults
    BY <2>3, AiFaultsAssumption
  <2> QED BY <2>1, <2>2, <2>3, <2>4, <2>5 DEF AiTypeOK
<1> QED BY <1>1, RunnersStep, PTL DEF AiSpec

(* HandedOver is inductive once the types are known: every action that      *)
(* writes "queued" spawns a runner, and a waiting or executing runner only  *)
(* leaves its phase by writing the status itself or by finding it not       *)
(* queued; what bulk requests read stale never matters to it.               *)
LEMMA HandOverStep == AiTypeOK /\ HandedOver /\ [AiNext]_aiVars => HandedOver'
<1> SUFFICES ASSUME AiTypeOK, HandedOver, [AiNext]_aiVars, aiFaults' = 0
             PROVE  /\ status' = "queued" => InPhase("waiting")' # {}
                    /\ status' = "running" => InPhase("executing")' # {}
  BY DEF HandedOver
<1> USE DEF InPhase
<1>0. runner \in [Runners -> Coroutine] /\ aiFaults \in Nat
  BY AiFaultsAssumption DEF AiTypeOK
<1>1. ASSUME NEW r \in Runners, Activate(r) PROVE status' = "queued" /\ r \in InPhase("waiting")'
  BY <1>0, <1>1 DEF Activate, Spawn
<1>2. ASSUME NEW r \in Runners, StartRun(r)
      PROVE  \/ status' = "running" /\ r \in InPhase("executing")'
             \/ status' = status /\ status # "queued" /\ InPhase("executing")' = InPhase("executing")
  <2>1. CASE StillQueued
    BY <1>0, <1>2, <2>1 DEF StartRun, Phase
  <2>2. CASE ~StillQueued
    BY <1>0, <1>2, <2>2 DEF StartRun, Phase, StillQueued
  <2> QED BY <2>1, <2>2
<1>3. ASSUME NEW r \in Runners, StartScheduled(r)
      PROVE  status' = "running" /\ r \in InPhase("executing")'
  BY <1>0, <1>3 DEF StartScheduled, Phase
<1>4. ASSUME NEW r \in Runners, Completed(r) \/ Failed(r)
      PROVE  status' \in {"completed", "failed"}
  BY <1>4 DEF Completed, Failed, Finish
<1>5. ASSUME (\E r \in Runners : Lose(r)) \/ Crash PROVE FALSE
  BY <1>0, <1>5 DEF Lose, Crash
<1>6. ASSUME Cancel \/ \E s \in Sessions : BulkCancel(s) \/ BulkArchive(s)
      PROVE  status' \in {"cancelled", "archived"}
  BY <1>6 DEF Cancel, BulkCancel, BulkArchive, BulkCommit
<1>7. ASSUME \/ UNCHANGED aiVars
             \/ \E s \in Sessions : Rollback(s) \/ \E op \in BulkOp : BulkRead(s, op)
      PROVE  UNCHANGED <<status, runner, aiFaults>>
  BY <1>7 DEF aiVars, Rollback, BulkRead
<1>8. ASSUME NEW s \in Sessions, NEW r \in Runners, BulkRetry(s, r)
      PROVE  status' = "queued" /\ r \in InPhase("waiting")'
  BY <1>0, <1>8 DEF BulkRetry, BulkCommit, SpawnRetry, Spawn
<1>9. aiFaults = 0 => /\ status = "queued" => InPhase("waiting") # {}
                      /\ status = "running" => InPhase("executing") # {}
  BY DEF HandedOver
<1>10. aiFaults' \in {aiFaults, aiFaults + 1}
  BY DEF AiNext, RunnerStep, Activate, StartRun, StartScheduled, Completed, Failed, Finish,
         Lose, Cancel, BulkRead, BulkCancel, BulkArchive, BulkRetry, BulkCommit, Rollback, Crash, aiVars
<1>11. aiFaults = 0
  BY <1>0, <1>10
<1> QED
  BY <1>1, <1>2, <1>3, <1>4, <1>5, <1>6, <1>7, <1>8, <1>9, <1>11 DEF AiNext, RunnerStep

(* HandedOver holds in every reachable state, for any number of runners and *)
(* bulk requests.                                                           *)
THEOREM NeverDropped == AiSpec => []HandedOver
<1>1. AiInit => HandedOver
  BY DEF AiInit, HandedOver, InPhase
<1> QED BY <1>1, HandOverStep, RunnersTyped, PTL DEF AiSpec

(* LostIsRefunded holds in every reachable state: every write of a losing   *)
(* status carries its refund in the same transaction.                       *)
THEOREM LossesRefunded == AiSpec => []LostIsRefunded
<1>1. AiInit => LostIsRefunded
  BY DEF AiInit, LostIsRefunded
<1>2. AiTypeOK /\ LostIsRefunded /\ [AiNext]_aiVars => LostIsRefunded'
  BY DEF AiTypeOK, LostIsRefunded, AiNext, RunnerStep, Activate, StartRun, StartScheduled, Completed,
         Failed, Finish, Lose, Cancel, BulkRead, BulkCancel, BulkArchive, BulkRetry,
         BulkCommit, RefundCost, Rollback, Crash, aiVars
<1> QED BY <1>1, <1>2, RunnersTyped, PTL DEF AiSpec

(* Short of faults the hand-over from row to coroutine is never lost, and a *)
(* cost that bought nothing is always refunded.                             *)
THEOREM NoTaskLost == AiSpec => []NoneLost
<1>1. HandedOver /\ LostIsRefunded => NoneLost
  BY DEF NoneLost
<1> QED BY <1>1, NeverDropped, LossesRefunded, PTL

---------------------------------------------------------------------------
(* Deferred *)

(* The row locks: what a pass will change it has locked, and no two passes *)
(* lock one row.                                                           *)
RowsApart ==
  /\ \A r \in Replicas : sweep[r].go \subseteq sweep[r].rows
  /\ \A r, s \in Replicas : r # s => sweep[r].rows \cap sweep[s].rows = {}

(* A locked row is as the pass read it: still pending, due, or not raised. *)
AsRead ==
  \A r \in Replicas : \A t \in sweep[r].rows :
    /\ sweep[r].op \in {"scheduled", "depends"} => stage[t] = "pending"
    /\ sweep[r].op = "scheduled" => due[t]
    /\ sweep[r].op = "escalate" => raises[t] = 0

(* Nothing pending has been started, and what is over has ended. *)
StartsKept ==
  \A t \in Jobs : /\ stage[t] = "pending" => starts[t] = 0
                  /\ stage[t] \in Terminal => t \in ended

(* A task that waits and is about to start has its upstreams behind it. *)
UpstreamsEnded ==
  \A r \in Replicas : sweep[r].op = "depends" =>
    \A t \in sweep[r].go, u \in Jobs :
      <<t, u>> \in edges => u \in ended \/ <<t, u>> \in late

DeferInv == /\ DeferTypeOK /\ RowsApart /\ AsRead /\ StartsKept
            /\ UpstreamsEnded /\ OncePerTask

(* A pass that begins locks rows no other pass holds, and those that fit it. *)
LEMMA BeginKept ==
  ASSUME DeferInv, NEW r \in Replicas, NEW op \in {"scheduled", "depends", "escalate"},
         NEW rows \in SUBSET (Jobs \ Locked), NEW go \in SUBSET rows,
         Begin(r, op, rows, go),
         op \in {"scheduled", "depends"} => \A t \in rows : stage[t] = "pending",
         op = "scheduled" => \A t \in rows : due[t],
         op = "escalate" => \A t \in rows : raises[t] = 0,
         op = "depends" => \A t \in go, u \in Jobs : <<t, u>> \in edges => u \in ended,
         UNCHANGED <<stage, due, edges, editor, aged, starts, raises, ended, late, reopened>>
  PROVE  DeferInv'
<1>1. /\ sweep' \in [Replicas -> [op : {"none", "scheduled", "depends", "escalate"},
                                  rows : SUBSET Jobs, go : SUBSET Jobs]]
      /\ sweep'[r] = [op |-> op, rows |-> rows, go |-> go]
      /\ \A s \in Replicas : s # r => sweep'[s] = sweep[s]
  BY DEF Begin, DeferInv, DeferTypeOK
<1>2. \A s \in Replicas : s # r => sweep[s].rows \cap rows = {}
  BY DEF Locked
<1>3. DeferTypeOK'
  BY <1>1 DEF DeferInv, DeferTypeOK
<1>4. RowsApart'
  BY <1>1, <1>2 DEF DeferInv, RowsApart
<1>5. AsRead'
  BY <1>1 DEF DeferInv, AsRead
<1>6. UpstreamsEnded'
  BY <1>1 DEF DeferInv, UpstreamsEnded
<1>7. StartsKept' /\ OncePerTask'
  BY DEF DeferInv, StartsKept, OncePerTask
<1>. QED  BY <1>3, <1>4, <1>5, <1>6, <1>7 DEF DeferInv

(* A pass that ends lets its rows go. *)
LEMMA EndKept ==
  ASSUME RowsApart, sweep \in [Replicas -> [op : {"none", "scheduled", "depends", "escalate"},
                                  rows : SUBSET Jobs, go : SUBSET Jobs]],
         NEW r \in Replicas, End(r)
  PROVE  /\ sweep' \in [Replicas -> [op : {"none", "scheduled", "depends", "escalate"},
                                  rows : SUBSET Jobs, go : SUBSET Jobs]]
         /\ sweep'[r] = Resting
         /\ \A s \in Replicas : s # r => sweep'[s] = sweep[s]
         /\ RowsApart'
BY DEF End, Resting, RowsApart

(* DeferTypeOK and what OncePerTask and DependenciesFirst rest on. *)
LEMMA DeferInvInit == DeferInit => DeferInv
<1>. SUFFICES ASSUME DeferInit PROVE DeferInv
  OBVIOUS
<1>1. DeferTypeOK
  BY DeferredAssumption DEF DeferInit, DeferTypeOK, Resting
<1>2. RowsApart /\ AsRead /\ UpstreamsEnded
  BY DEF DeferInit, RowsApart, AsRead, UpstreamsEnded, Resting
<1>3. StartsKept /\ OncePerTask
  BY DEF DeferInit, StartsKept, OncePerTask, Terminal
<1>. QED  BY <1>1, <1>2, <1>3 DEF DeferInv

LEMMA DeferInvNext ==
  ASSUME DeferInv, [DeferNext]_deferVars
  PROVE  DeferInv'
<1>. USE DEF DeferInv
<1>1. CASE UNCHANGED deferVars
  BY <1>1 DEF deferVars, DeferTypeOK, RowsApart, AsRead, StartsKept, UpstreamsEnded,
              OncePerTask
<1>2. ASSUME NEW r \in Replicas, ScheduledRead(r) PROVE DeferInv'
  <2>. DEFINE rows == SkipLocked({t \in Jobs : stage[t] = "pending" /\ due[t]})
  <2>1. rows \in SUBSET (Jobs \ Locked) /\ \A t \in rows : stage[t] = "pending" /\ due[t]
    BY DEF SkipLocked
  <2>2. Begin(r, "scheduled", rows, rows)
    BY <1>2 DEF ScheduledRead
  <2>. HIDE DEF rows
  <2>. QED  BY <1>2, <2>1, <2>2, BeginKept DEF ScheduledRead
<1>3. ASSUME NEW r \in Replicas, DependsRead(r) PROVE DeferInv'
  <2>. DEFINE rows == SkipLocked(Waiting)
              go == {t \in rows : AllDone(t)}
  <2>1. rows \in SUBSET (Jobs \ Locked) /\ \A t \in rows : stage[t] = "pending"
    BY DEF SkipLocked, Waiting
  <2>2. go \in SUBSET rows /\ \A t \in go, u \in Jobs : <<t, u>> \in edges => u \in ended
    BY DEF AllDone, StartsKept, Upstream
  <2>3. Begin(r, "depends", rows, go)
    BY <1>3 DEF DependsRead
  <2>. HIDE DEF rows, go
  <2>. QED  BY <1>3, <2>1, <2>2, <2>3, BeginKept DEF DependsRead
<1>4. ASSUME NEW r \in Replicas, EscalateRead(r) PROVE DeferInv'
  <2>. DEFINE rows == SkipLocked({t \in Jobs : stage[t] \in {"pending", "ready"} /\ NotEscalated(t)})
              go == {t \in rows : aged[t]}
  <2>1. rows \in SUBSET (Jobs \ Locked) /\ \A t \in rows : raises[t] = 0
    BY DEF SkipLocked, NotEscalated
  <2>2. go \in SUBSET rows
    OBVIOUS
  <2>3. Begin(r, "escalate", rows, go)
    BY <1>4 DEF EscalateRead
  <2>. HIDE DEF rows, go
  <2>. QED  BY <1>4, <2>1, <2>2, <2>3, BeginKept DEF EscalateRead
<1>5. ASSUME NEW r \in Replicas, StartAll(r) PROVE DeferInv'
  <2>. DEFINE go == sweep[r].go
  <2>1. /\ \A t \in go : t \in Jobs /\ stage[t] = "pending" /\ starts[t] = 0
        /\ \A s \in Replicas : s # r => sweep[s].rows \cap go = {}
    BY <1>5 DEF StartAll, RowsApart, AsRead, StartsKept, DeferTypeOK
  <2>2. /\ stage' = [t \in Jobs |-> IF t \in go THEN "ready" ELSE stage[t]]
        /\ starts' = [t \in Jobs |-> IF t \in go THEN starts[t] + 1 ELSE starts[t]]
        /\ UNCHANGED <<due, edges, editor, aged, raises, ended, late, reopened>>
        /\ End(r)
    BY <1>5 DEF StartAll
  <2>3. /\ sweep' \in [Replicas -> [op : {"none", "scheduled", "depends", "escalate"},
                                  rows : SUBSET Jobs, go : SUBSET Jobs]]
        /\ sweep'[r] = Resting
        /\ \A s \in Replicas : s # r => sweep'[s] = sweep[s]
        /\ RowsApart'
    BY <2>2, EndKept DEF DeferTypeOK
  <2>. HIDE DEF go
  <2>4. DeferTypeOK'
    BY <2>1, <2>2, <2>3 DEF DeferTypeOK
  <2>5. AsRead'
    BY <2>1, <2>2, <2>3 DEF AsRead, Resting, DeferTypeOK
  <2>6. StartsKept' /\ OncePerTask'
    BY <2>1, <2>2 DEF StartsKept, OncePerTask, Terminal, DeferTypeOK
  <2>7. UpstreamsEnded'
    BY <2>2, <2>3 DEF UpstreamsEnded, Resting
  <2>. QED  BY <2>3, <2>4, <2>5, <2>6, <2>7
<1>6. ASSUME NEW r \in Replicas, Escalate(r) PROVE DeferInv'
  <2>. DEFINE go == sweep[r].go
  <2>1. /\ \A t \in go : t \in Jobs /\ raises[t] = 0
        /\ \A s \in Replicas : s # r => sweep[s].rows \cap go = {}
    BY <1>6 DEF Escalate, RowsApart, AsRead, DeferTypeOK
  <2>2. /\ raises' = [t \in Jobs |-> IF t \in go THEN raises[t] + 1 ELSE raises[t]]
        /\ UNCHANGED <<stage, due, edges, editor, aged, starts, ended, late, reopened>>
        /\ End(r)
    BY <1>6 DEF Escalate
  <2>3. /\ sweep' \in [Replicas -> [op : {"none", "scheduled", "depends", "escalate"},
                                  rows : SUBSET Jobs, go : SUBSET Jobs]]
        /\ sweep'[r] = Resting
        /\ \A s \in Replicas : s # r => sweep'[s] = sweep[s]
        /\ RowsApart'
    BY <2>2, EndKept DEF DeferTypeOK
  <2>. HIDE DEF go
  <2>4. DeferTypeOK'
    BY <2>1, <2>2, <2>3 DEF DeferTypeOK
  <2>5. AsRead'
    BY <2>1, <2>2, <2>3 DEF AsRead, Resting, DeferTypeOK
  <2>6. StartsKept' /\ OncePerTask'
    BY <2>1, <2>2 DEF StartsKept, OncePerTask, DeferTypeOK
  <2>7. UpstreamsEnded'
    BY <2>2, <2>3 DEF UpstreamsEnded, Resting
  <2>. QED  BY <2>3, <2>4, <2>5, <2>6, <2>7
<1>7. ASSUME NEW r \in Replicas, PassFails(r) PROVE DeferInv'
  <2>1. /\ UNCHANGED <<stage, due, edges, editor, aged, starts, raises, ended, late, reopened>>
        /\ sweep' \in [Replicas -> [op : {"none", "scheduled", "depends", "escalate"},
                                  rows : SUBSET Jobs, go : SUBSET Jobs]]
        /\ sweep'[r] = Resting
        /\ \A s \in Replicas : s # r => sweep'[s] = sweep[s]
        /\ RowsApart'
    BY <1>7, EndKept DEF PassFails, DeferTypeOK
  <2>2. DeferTypeOK' /\ StartsKept' /\ OncePerTask'
    BY <2>1 DEF DeferTypeOK, StartsKept, OncePerTask
  <2>3. AsRead' /\ UpstreamsEnded'
    BY <2>1 DEF AsRead, UpstreamsEnded, Resting
  <2>. QED  BY <2>1, <2>2, <2>3
<1>8. ASSUME NEW e \in Editors, AddCommit(e) PROVE DeferInv'
  <2>. DEFINE t == editor[e].of
              u == editor[e].on
  <2>1. t \in Jobs /\ u \in Jobs
    BY <1>8 DEF AddCommit, DeferTypeOK, NoEdit
  <2>2. /\ edges' = edges \cup {<<t, u>>}
        /\ late \subseteq late'
        /\ <<t, u>> \notin edges /\ t \in Locked => <<t, u>> \in late'
        /\ UNCHANGED <<stage, due, sweep, aged, starts, raises, ended, reopened>>
    BY <1>8 DEF AddCommit
  <2>3. DeferTypeOK'
    BY <1>8, <2>1 DEF AddCommit, DeferTypeOK
  <2>. HIDE DEF t, u
  <2>4. UpstreamsEnded'
    <3>. SUFFICES ASSUME NEW r \in Replicas, sweep[r].op = "depends",
                         NEW x \in sweep[r].go, NEW y \in Jobs, <<x, y>> \in edges'
                  PROVE  y \in ended \/ <<x, y>> \in late'
      BY <2>2 DEF UpstreamsEnded
    <3>1. CASE <<x, y>> \in edges
      BY <3>1, <2>2 DEF UpstreamsEnded
    <3>2. CASE <<x, y>> \notin edges
      <4>1. <<x, y>> = <<t, u>>
        BY <3>2, <2>2
      <4>2. x \in Locked
        BY DEF RowsApart, Locked
      <4>. QED  BY <4>1, <4>2, <3>2, <2>2
    <3>. QED  BY <3>1, <3>2
  <2>. QED  BY <2>2, <2>3, <2>4 DEF RowsApart, AsRead, StartsKept, OncePerTask
<1>9. ASSUME NEW t \in Jobs, NEW u \in Jobs, RemoveEdge(t, u) \/ ComesDue(t) \/ Age(t)
      PROVE DeferInv'
  <2>1. DeferTypeOK'
    BY <1>9 DEF DeferTypeOK, RemoveEdge, ComesDue, Age
  <2>2. /\ UNCHANGED <<stage, sweep, starts, raises, ended, late>>
        /\ edges' \subseteq edges /\ \A s \in Jobs : due[s] => due'[s]
    BY <1>9 DEF DeferTypeOK, RemoveEdge, ComesDue, Age
  <2>3. RowsApart' /\ StartsKept' /\ OncePerTask'
    BY <2>2 DEF RowsApart, StartsKept, OncePerTask
  <2>4. AsRead'
    BY <2>2 DEF AsRead, DeferTypeOK
  <2>5. UpstreamsEnded'
    BY <2>2 DEF UpstreamsEnded
  <2>. QED  BY <2>1, <2>3, <2>4, <2>5
<1>10. ASSUME NEW e \in Editors, NEW t \in Jobs, NEW u \in Jobs, AddRead(e, t, u)
       PROVE DeferInv'
  <2>1. DeferTypeOK'
    BY <1>10 DEF DeferTypeOK, AddRead
  <2>. QED
    BY <1>10, <2>1 DEF AddRead, RowsApart, AsRead, StartsKept, OncePerTask, UpstreamsEnded
<1>11. ASSUME NEW t \in Jobs, FinishJob(t) \/ CancelJob(t) PROVE DeferInv'
  <2>1. /\ stage' \in [Jobs -> {"pending", "ready", "done", "cancelled"}]
        /\ \A s \in Jobs : s # t => stage'[s] = stage[s]
        /\ stage'[t] \in Terminal /\ t \notin Locked
        /\ ended' = ended \cup {t}
        /\ UNCHANGED <<due, edges, sweep, editor, aged, starts, raises, late, reopened>>
    BY <1>11 DEF FinishJob, CancelJob, DeferTypeOK, Terminal
  <2>2. \A r \in Replicas : t \notin sweep[r].rows
    BY <2>1 DEF Locked
  <2>3. DeferTypeOK'
    BY <2>1 DEF DeferTypeOK
  <2>4. AsRead'
    BY <2>1, <2>2 DEF AsRead, DeferTypeOK
  <2>5. StartsKept'
    BY <2>1 DEF StartsKept, Terminal
  <2>6. RowsApart' /\ OncePerTask' /\ UpstreamsEnded'
    BY <2>1 DEF RowsApart, OncePerTask, UpstreamsEnded
  <2>. QED  BY <2>3, <2>4, <2>5, <2>6
<1>12. ASSUME NEW t \in Jobs, Reopen(t) PROVE DeferInv'
  <2>1. DeferTypeOK'
    BY <1>12, DeferredAssumption DEF Reopen, DeferTypeOK
  <2>2. AsRead' /\ StartsKept'
    BY <1>12 DEF Reopen, AsRead, StartsKept, DeferTypeOK, Terminal
  <2>. QED  BY <1>12, <2>1, <2>2 DEF Reopen, RowsApart, OncePerTask, UpstreamsEnded
<1>. QED
  BY <1>1, <1>2, <1>3, <1>4, <1>5, <1>6, <1>7, <1>8, <1>9, <1>11, <1>12, <1>10 DEF DeferNext, Passes

LEMMA DeferInvHolds == DeferSpec => []DeferInv
BY DeferInvInit, DeferInvNext, PTL DEF DeferSpec

(* Two replicas and two sweeps open a task, and raise its priority, at     *)
(* most once (process_scheduled_tasks, process_dependencies and            *)
(* escalate_priorities of core/sweeper.py).                                *)
THEOREM OpenedOnce == DeferSpec => []OncePerTask
BY DeferInvHolds, PTL DEF DeferInv

(* A task that is not due is opened only after each of its upstreams was   *)
(* terminal, but for edges inserted while a pass held its row.             *)
THEOREM DependenciesRespected == DeferSpec => DependenciesFirst
<1>1. ASSUME DeferInv, [DeferNext]_deferVars,
             NEW t \in Jobs, stage[t] = "pending", stage'[t] = "ready", ~due[t]
      PROVE  \A u \in Upstream(t) : u \in ended \/ <<t, u>> \in late
  <2>1. \E r \in Replicas : StartAll(r)
    <3>. SUFFICES ASSUME \A r \in Replicas : ~StartAll(r) PROVE stage'[t] # "ready"
      BY <1>1
    <3>1. CASE UNCHANGED deferVars
      BY <3>1, <1>1 DEF deferVars
    <3>. QED
      BY <3>1, <1>1 DEF DeferInv, DeferTypeOK, DeferNext, Passes, ScheduledRead, DependsRead,
           EscalateRead, Escalate, PassFails, AddCommit, AddRead, RemoveEdge, ComesDue, Age,
           FinishJob, CancelJob, Reopen
  <2>2. PICK r \in Replicas : StartAll(r)
    BY <2>1
  <2>3. t \in sweep[r].go /\ sweep[r].op \in {"scheduled", "depends"}
    BY <1>1, <2>2 DEF StartAll
  <2>4. sweep[r].op = "depends"
    BY <1>1, <2>3 DEF DeferInv, RowsApart, AsRead
  <2>. QED  BY <1>1, <2>3, <2>4 DEF DeferInv, UpstreamsEnded, Upstream
<1>2. DeferInv /\ [DeferNext]_deferVars =>
        [\A t \in Jobs : (stage[t] = "pending" /\ stage'[t] = "ready" /\ ~due[t]) =>
           \A u \in Upstream(t) : u \in ended \/ <<t, u>> \in late]_deferVars
  BY <1>1
<1>. QED
  BY <1>2, DeferInvHolds, PTL DEF DeferSpec, DependenciesFirst

---------------------------------------------------------------------------
(* League *)

(* A season a pass has locked is last week's or older and still active, and *)
(* no two passes lock one season.                                           *)
SeasonsHeld ==
  /\ \A p \in Pods : pod[p].op = "season" =>
       pod[p].week \in Weeks /\ pod[p].week < week /\ season[pod[p].week] = "active"
  /\ \A p, q \in Pods : pod[p].op = "season" /\ pod[q].op = "season" /\ p # q =>
       pod[p].week # pod[q].week

LeagueShape ==
  /\ week \in Weeks /\ pod \in [Pods -> {AtRest} \cup [op : {"season"}, week : Weeks]]
  /\ season \in [Weeks -> {"none", "active", "processing", "completed"}]
  /\ moves \in [Weeks -> [Players -> Nat]]
  /\ IsFiniteSet(roll)

LeagueInv == LeagueShape /\ SeasonsHeld /\ SeasonOnce

(* Members are counted by numbers, and who joins, or earns XP this week,   *)
(* leaves no membership of a past week.                                     *)
LEMMA MembersCounted ==
  ASSUME IsFiniteSet(roll), IsFiniteSet(roll'), NEW w, NEW u
  PROVE  /\ Cardinality(MemberOf(w, u)) \in Nat
         /\ Cardinality(MemberOf(w, u))' \in Nat
<1>1. MemberOf(w, u) \subseteq roll /\ MemberOf(w, u)' \subseteq roll'
  BY DEF MemberOf
<1>2. IsFiniteSet(MemberOf(w, u)) /\ IsFiniteSet(MemberOf(w, u)')
  BY <1>1, FS_Subset
<1>. QED  BY <1>2, FS_CardinalityType

LEMMA MembersGrow ==
  ASSUME IsFiniteSet(roll), IsFiniteSet(roll'), NEW w, NEW u,
         \A m \in roll : m.week = w => m \in roll'
  PROVE  Cardinality(MemberOf(w, u)) <= Cardinality(MemberOf(w, u))'
<1>1. MemberOf(w, u) \subseteq MemberOf(w, u)' /\ MemberOf(w, u)' \subseteq roll'
  BY DEF MemberOf
<1>2. IsFiniteSet(MemberOf(w, u)')
  BY <1>1, FS_Subset
<1>. QED  BY <1>1, <1>2, FS_Subset

LEMMA LeagueInvInit == LeagueInit => LeagueInv
<1>. SUFFICES ASSUME LeagueInit PROVE LeagueInv
  OBVIOUS
<1>1. LeagueShape
  BY LeagueAssumption, FS_EmptySet DEF LeagueInit, LeagueShape, Weeks, AtRest
<1>2. SeasonsHeld
  BY DEF LeagueInit, SeasonsHeld, AtRest
<1>3. SeasonOnce
  BY DEF LeagueInit, SeasonOnce
<1>. QED  BY <1>1, <1>2, <1>3 DEF LeagueInv

LEMMA LeagueInvNext ==
  ASSUME LeagueInv, [LeagueNext]_leagueVars
  PROVE  LeagueInv'
<1>. USE DEF LeagueInv
<1>1. CASE UNCHANGED leagueVars
  BY <1>1 DEF leagueVars, LeagueShape, SeasonsHeld, SeasonOnce, MemberOf
<1>2. CASE Monday
  <2>1. /\ week \in Int /\ week' = week + 1 /\ week' \in Weeks
        /\ UNCHANGED <<season, roll, pod, moves>>
    BY <1>2, LeagueAssumption DEF Monday, LeagueShape, Weeks
  <2>2. LeagueShape'
    BY <2>1 DEF LeagueShape
  <2>3. SeasonsHeld'
    BY <2>1 DEF SeasonsHeld, LeagueShape, Weeks
  <2>4. SeasonOnce'
    <3>1. \A w, u : MemberOf(w, u)' = MemberOf(w, u)
      BY <2>1 DEF MemberOf
    <3>. QED  BY <2>1, <3>1 DEF SeasonOnce, Weeks
  <2>. QED  BY <2>2, <2>3, <2>4
<1>3. ASSUME NEW b \in Tabs, NEW u \in Players, JoinRead(b, u) PROVE LeagueInv'
  BY <1>3 DEF JoinRead, LeagueShape, SeasonsHeld, SeasonOnce, MemberOf
<1>4. ASSUME NEW b \in Tabs, JoinCommit(b) PROVE LeagueInv'
  <2>1. /\ UNCHANGED <<week, pod, moves>>
        /\ season' \in [Weeks -> {"none", "active", "processing", "completed"}]
        /\ \A w \in Weeks : season[w] # season'[w] => season[w] = "none" /\ season'[w] = "active"
    BY <1>4 DEF JoinCommit, LeagueShape
  <2>2. roll \subseteq roll' /\ IsFiniteSet(roll')
    <3>1. roll' = roll \/ \E x : roll' = roll \cup {x}
      BY <1>4 DEF JoinCommit
    <3>2. CASE roll' = roll
      BY <3>2 DEF LeagueShape
    <3>3. ASSUME NEW x, roll' = roll \cup {x} PROVE roll \subseteq roll' /\ IsFiniteSet(roll')
      <4>1. IsFiniteSet(roll)
        BY DEF LeagueShape
      <4>2. IsFiniteSet(roll \cup {x})
        BY <4>1, FS_AddElement
      <4>. QED  BY <3>3, <4>2
    <3>. QED  BY <3>1, <3>2, <3>3
  <2>3. LeagueShape'
    BY <2>1, <2>2 DEF LeagueShape
  <2>4. SeasonsHeld'
    BY <2>1 DEF SeasonsHeld
  <2>5. SeasonOnce'
    <3>1. \A w \in Weeks, u \in Players :
            Cardinality(MemberOf(w, u)) <= Cardinality(MemberOf(w, u))'
      BY <2>2, MembersGrow DEF LeagueShape
    <3>2. \A w \in Weeks, u \in Players :
            /\ Cardinality(MemberOf(w, u)) \in Nat
            /\ Cardinality(MemberOf(w, u))' \in Nat /\ moves[w][u] \in Nat
      BY <2>2, MembersCounted DEF LeagueShape
    <3>. QED  BY <2>1, <3>1, <3>2 DEF SeasonOnce, LeagueShape
  <2>. QED  BY <2>3, <2>4, <2>5
<1>5. ASSUME NEW u \in Players, AddXp(u) PROVE LeagueInv'
  <2>1. PICK m \in MemberOf(week, u) : roll' = (roll \ {m}) \cup {[m EXCEPT !.xp = @ + 1]}
    BY <1>5 DEF AddXp
  <2>2. UNCHANGED <<week, season, pod, moves>>
    BY <1>5 DEF AddXp
  <2>3. IsFiniteSet(roll')
    BY <2>1, FS_AddElement, FS_RemoveElement DEF LeagueShape
  <2>4. LeagueShape' /\ SeasonsHeld'
    BY <2>2, <2>3 DEF LeagueShape, SeasonsHeld
  <2>5. SeasonOnce'
    <3>. SUFFICES ASSUME NEW w \in Weeks PROVE
             /\ season[w] = "completed" => w < week
             /\ \A x \in Players : moves[w][x] <=
                  (IF season[w] = "completed" THEN Cardinality(MemberOf(w, x))' ELSE 0)
      BY <2>2 DEF SeasonOnce
    <3>1. CASE season[w] # "completed"
      BY <3>1 DEF SeasonOnce
    <3>2. CASE season[w] = "completed"
      <4>1. w # week
        BY <3>2 DEF SeasonOnce, LeagueShape, Weeks
      <4>2. \A x \in roll : x.week = w => x \in roll'
        BY <2>1, <4>1 DEF MemberOf
      <4>3. \A x \in Players :
              /\ Cardinality(MemberOf(w, x)) <= Cardinality(MemberOf(w, x))'
              /\ Cardinality(MemberOf(w, x)) \in Nat
              /\ Cardinality(MemberOf(w, x))' \in Nat /\ moves[w][x] \in Nat
        BY <2>3, <4>2, MembersGrow, MembersCounted DEF LeagueShape
      <4>. QED  BY <3>2, <4>3 DEF SeasonOnce
    <3>. QED  BY <3>1, <3>2
  <2>. QED  BY <2>4, <2>5
<1>6. ASSUME NEW p \in Pods, SeasonRead(p) PROVE LeagueInv'
  <2>1. /\ week - 1 \in Weeks /\ season[week - 1] = "active" /\ Unlocked(week - 1)
        /\ pod' = [pod EXCEPT ![p] = [op |-> "season", week |-> week - 1]]
        /\ UNCHANGED <<week, tier, season, roll, join, moves>>
    BY <1>6 DEF SeasonRead
  <2>2. LeagueShape'
    BY <2>1 DEF LeagueShape
  <2>3. SeasonsHeld'
    BY <2>1 DEF SeasonsHeld, LeagueShape, Unlocked, Weeks
  <2>4. SeasonOnce'
    BY <2>1 DEF SeasonOnce, MemberOf
  <2>. QED  BY <2>2, <2>3, <2>4
<1>7. ASSUME NEW p \in Pods, SeasonCommit(p) PROVE LeagueInv'
  <2>. DEFINE w == pod[p].week
  <2>1. /\ w \in Weeks /\ w < week /\ season[w] = "active"
        /\ season' = [season EXCEPT ![w] = "completed"]
        /\ moves' = [moves EXCEPT ![w] = [u \in Players |-> @[u] + Cardinality(MemberOf(w, u))]]
        /\ pod' = [pod EXCEPT ![p] = AtRest]
        /\ UNCHANGED <<week, roll, join>>
    BY <1>7 DEF SeasonCommit, SeasonsHeld
  <2>2. \A q \in Pods : q # p /\ pod[q].op = "season" => pod[q].week # w
    BY <1>7 DEF SeasonCommit, SeasonsHeld
  <2>. HIDE DEF w
  <2>3. \A u \in Players : Cardinality(MemberOf(w, u)) \in Nat
    BY <2>1, MembersCounted DEF LeagueShape
  <2>4. /\ \A x \in Weeks : x # w => moves'[x] = moves[x] /\ season'[x] = season[x]
        /\ season'[w] = "completed"
        /\ \A u \in Players : moves'[w][u] = moves[w][u] + Cardinality(MemberOf(w, u))
        /\ moves'[w] \in [Players -> Nat]
    BY <2>1, <2>3 DEF LeagueShape
  <2>5. LeagueShape'
    BY <2>1, <2>4 DEF LeagueShape
  <2>6. SeasonsHeld'
    BY <2>1, <2>2, <2>4 DEF SeasonsHeld, LeagueShape, AtRest
  <2>7. \A x, u : MemberOf(x, u)' = MemberOf(x, u)
    BY <2>1 DEF MemberOf
  <2>8. SeasonOnce'
    <3>1. \A u \in Players : moves[w][u] = 0
      BY <2>1 DEF SeasonOnce, LeagueShape
    <3>. QED  BY <2>1, <2>3, <2>4, <2>7, <3>1 DEF SeasonOnce
  <2>. QED  BY <2>5, <2>6, <2>8
<1>8. ASSUME NEW p \in Pods, SeasonFails(p) PROVE LeagueInv'
  <2>1. /\ UNCHANGED <<week, tier, roll, join, moves>>
        /\ pod' = [pod EXCEPT ![p] = AtRest]
        /\ season' = season
    BY <1>8 DEF SeasonFails, AfterFailure, SeasonsHeld, LeagueShape
  <2>2. LeagueShape' /\ SeasonsHeld'
    BY <2>1 DEF LeagueShape, SeasonsHeld, AtRest
  <2>. QED  BY <2>1, <2>2 DEF SeasonOnce, MemberOf
<1>9. ASSUME NEW b \in Tabs, ViewRead(b) PROVE LeagueInv'
  BY <1>9 DEF ViewRead, LeagueShape, SeasonsHeld, SeasonOnce, MemberOf
<1>10. ASSUME NEW b \in Tabs, ViewCommit(b) PROVE LeagueInv'
  <2>1. /\ UNCHANGED <<week, roll, pod, moves>>
        /\ season' \in [Weeks -> {"none", "active", "processing", "completed"}]
        /\ \A w \in Weeks : season[w] # season'[w] => season[w] = "none" /\ season'[w] = "active"
    BY <1>10 DEF ViewCommit, LeagueShape
  <2>2. LeagueShape' /\ SeasonsHeld'
    BY <2>1 DEF LeagueShape, SeasonsHeld
  <2>3. \A w, u : MemberOf(w, u)' = MemberOf(w, u)
    BY <2>1 DEF MemberOf
  <2>. QED  BY <2>1, <2>2, <2>3 DEF SeasonOnce
<1>. QED
  BY <1>1, <1>2, <1>3, <1>4, <1>5, <1>6, <1>7, <1>8, <1>9, <1>10 DEF LeagueNext

LEMMA LeagueInvHolds == LeagueSpec => []LeagueInv
BY LeagueInvInit, LeagueInvNext, PTL DEF LeagueSpec

(* However many replicas settle it and whatever fails, a season is settled  *)
(* once, after its week, and moves each membership once (process_season_end *)
(* and join_league of routers/leagues.py).                                  *)
THEOREM SettledOnce == LeagueSpec => []SeasonOnce
BY LeagueInvHolds, PTL DEF LeagueInv

---------------------------------------------------------------------------
(* WebhookRetry *)

(* What a poller has in its hand is of its batch. *)
HandInv == \A p \in Pollers : hand[p] # Nothing => hand[p].item \in batch[p]

(* Until the inline attempt is over there is no row and nobody holds one.   *)
InlineInv ==
  \A d \in Deliveries : inline[d] # "over" =>
    /\ row[d] = NoRow
    /\ \A p \in Pollers : \A i \in batch[p] : i.id # d
    /\ posts[d] = IF inline[d] \in Outcome THEN 1 ELSE 0

(* Only the endpoint's deletion takes rows away.                            *)
DeletedInv ==
  /\ ~endpoint => \A d \in Persistent : row[d].status = "none"
  /\ \A p \in Pollers : \A i \in batch[p] :
       row[i.id].status = "none" => i.id \in Persistent /\ ~endpoint

RowInv == HandInv /\ HeldRowsKept /\ InlineInv /\ DeletedInv

(* The attempt number of a row that is waiting, or held and not yet posted, *)
(* is the number of posts made, but for those that faults repeat.           *)
Handed(p, i) == hand[p] # Nothing /\ hand[p].item = i

InHand(d) == \E p \in Pollers : hand[p] # Nothing /\ hand[p].item.id = d

RowBudget(d) ==
  row[d].status \in {"pending", "processing"} =>
    /\ row[d].attempt \in 1..MaxAttempts
    /\ row[d].attempt <= posts[d]
    /\ ~InHand(d) => posts[d] <= row[d].attempt + faults

ItemBudget(p, i) ==
  /\ i.attempt \in 1..MaxAttempts
  /\ Handed(p, i) => i.attempt + 1 <= posts[i.id] /\ posts[i.id] <= i.attempt + 1 + faults
  /\ ~Handed(p, i) => i.attempt <= posts[i.id] /\ posts[i.id] <= i.attempt + faults

Budgeted(d) ==
  /\ WithinBudget(d)
  /\ RowBudget(d)
  /\ \A p \in Pollers : \A i \in batch[p] : i.id = d => ItemBudget(p, i)

BudgetInv == \A d \in Deliveries : Budgeted(d)

(* The endpoint's counters follow the rows.                                 *)
CountInv ==
  /\ CountedOnce
  /\ \A d \in Persistent : inline[d] # "over" => Counted(d) = 0

---------------------------------------------------------------------------

LEMMA ItemType == ASSUME NEW i \in Item PROVE i.id \in Deliveries /\ i.attempt \in Nat
BY DEF Item

LEMMA HandType ==
  ASSUME NEW h \in Hand, h # Nothing
  PROVE  h.item \in Item /\ h.outcome \in Outcome
BY DEF Hand

LEMMA RowType ==
  ASSUME NEW r \in Row
  PROVE  /\ r.status \in RowStatus /\ r.attempt \in Nat /\ r.due \in BOOLEAN
         /\ [r EXCEPT !.due = TRUE] \in Row
         /\ \A st \in RowStatus : [r EXCEPT !.status = st] \in Row
         /\ \A st \in RowStatus, o \in Outcome : [r EXCEPT !.status = st, !.code = o] \in Row
         /\ [r EXCEPT !.due = TRUE].status = r.status
BY DEF Row, RowStatus

LEMMA CountType ==
  ASSUME TypeOK, NEW d \in Deliveries, NEW k \in {"delivery", "failure"}, Count(d, k)
  PROVE  counted' \in [Deliveries -> Counters]
BY DEF TypeOK, Count, Counters

LEMMA TypeStep == TypeOK /\ HandInv /\ [Next]_vars => TypeOK'
<1> SUFFICES ASSUME TypeOK, HandInv, [Next]_vars PROVE TypeOK'
  OBVIOUS
<1>0. \A d \in Deliveries : row[d] \in Row
  BY DEF TypeOK
<1>f. ASSUME Fault PROVE faults' \in 0..MaxFaults
  BY <1>f, NumbersAssumption DEF Fault, TypeOK
<1>s. ASSUME NEW d \in Deliveries, Sent(d) PROVE posts' \in [Deliveries -> Nat]
  BY <1>s DEF Sent, TypeOK
<1>1. ASSUME NEW d \in Deliveries, Fire(d) PROVE TypeOK'
  BY <1>1 DEF Fire, TypeOK, Inline
<1>2. ASSUME NEW d \in Deliveries, NEW o \in Outcome, InlinePost(d, o) PROVE TypeOK'
  BY <1>2, <1>s DEF InlinePost, TypeOK, Inline
<1>3. ASSUME NEW d \in Deliveries, InlineSettle(d) PROVE TypeOK'
  <2>1. inline' \in [Deliveries -> Inline]
    BY <1>3 DEF InlineSettle, TypeOK, Inline
  <2>2. counted' \in [Deliveries -> Counters]
    BY <1>3, CountType DEF InlineSettle, TypeOK
  <2>3. row' \in [Deliveries -> Row]
    <3>1. [status |-> "pending", attempt |-> 1, due |-> FALSE, code |-> "none"] \in Row
      BY DEF Row, RowStatus
    <3> QED BY <1>3, <3>1 DEF InlineSettle, Enqueue, TypeOK
  <2> QED BY <1>3, <2>1, <2>2, <2>3 DEF InlineSettle, TypeOK
<1>4. ASSUME NEW d \in Deliveries, InlineLost(d) PROVE TypeOK'
  BY <1>4, <1>f DEF InlineLost, TypeOK, Inline
<1>5. ASSUME NEW d \in Deliveries, BecomeDue(d) PROVE TypeOK'
  <2>1. row' \in [Deliveries -> Row]
    BY <1>5, <1>0, RowType DEF BecomeDue, TypeOK
  <2> QED BY <1>5, <2>1 DEF BecomeDue, TypeOK
<1>6. ASSUME NEW p \in Pollers, NEW D \in SUBSET Deliveries, Poll(p, D) PROVE TypeOK'
  <2>1. row' \in [Deliveries -> Row]
    BY <1>6, <1>0, RowType DEF Poll, RowStatus
  <2>2. {[id |-> d, attempt |-> row[d].attempt] : d \in D} \subseteq Item
    <3>1. \A d \in D : row[d].attempt \in Nat
      BY <1>0, RowType
    <3>2. \A d \in D : [id |-> d, attempt |-> row[d].attempt] \in Item
      BY <3>1 DEF Item
    <3> QED BY <3>2
  <2>3. batch' \in [Pollers -> SUBSET Item]
    BY <1>6, <2>2 DEF Poll, TypeOK
  <2> QED BY <1>6, <2>1, <2>3 DEF Poll, TypeOK
<1>7. ASSUME NEW p \in Pollers, NEW i \in batch[p], NEW o \in Outcome, Post(p, i, o) PROVE TypeOK'
  <2>1. i \in Item
    BY DEF TypeOK
  <2>2. hand' \in [Pollers -> Hand]
    BY <1>7, <2>1 DEF Post, TypeOK, Hand
  <2>3. posts' \in [Deliveries -> Nat]
    BY <1>7, <1>s, <2>1, ItemType DEF Post
  <2> QED BY <1>7, <2>2, <2>3 DEF Post, TypeOK
<1>8. ASSUME NEW p \in Pollers, PutAway(p)
      PROVE  /\ batch' \in [Pollers -> SUBSET Item] /\ hand' \in [Pollers -> Hand]
             /\ UNCHANGED <<inline, endpoint, posts>>
  BY <1>8 DEF PutAway, TypeOK, Hand
<1>9. ASSUME NEW p \in Pollers, hand[p] # Nothing
      PROVE  /\ hand[p].item \in Item /\ hand[p].outcome \in Outcome
             /\ hand[p].item.id \in Deliveries /\ hand[p].item.attempt \in Nat
  BY <1>9, HandType, ItemType DEF TypeOK
<1>w. ASSUME NEW d \in Deliveries, NEW r \in Row, Write(d, r) PROVE row' \in [Deliveries -> Row]
  BY <1>w DEF Write, TypeOK
<1>10. ASSUME NEW p \in Pollers, Settle(p) PROVE TypeOK'
  <2> DEFINE i == hand[p].item
             o == hand[p].outcome
  <2>1. i \in Item /\ o \in Outcome /\ i.id \in Deliveries /\ i.attempt \in Nat
    BY <1>9, <1>10 DEF Settle, PutAway
  <2>2. \A st \in RowStatus : [row[i.id] EXCEPT !.status = st, !.code = o] \in Row
    BY <1>0, <2>1, RowType
  <2>3. [status |-> "pending", attempt |-> i.attempt + 1, due |-> FALSE, code |-> o] \in Row
    BY <2>1 DEF Row, RowStatus
  <2>4. row' \in [Deliveries -> Row]
    BY <1>10, <1>w, <2>1, <2>2, <2>3 DEF Settle, RowStatus
  <2>5. counted' \in [Deliveries -> Counters]
    BY <1>10, <2>1, CountType DEF Settle, TypeOK
  <2> QED BY <1>8, <1>10, <2>4, <2>5 DEF Settle, TypeOK
<1>11. ASSUME NEW p \in Pollers, SettleFails(p) PROVE TypeOK'
  BY <1>8, <1>f, <1>11 DEF SettleFails, TypeOK
<1>12. ASSUME NEW p \in Pollers, Raise(p) PROVE TypeOK'
  <2>1. hand[p].item.id \in Deliveries
    BY <1>9, <1>12 DEF Raise, PutAway
  <2>2. [row[hand[p].item.id] EXCEPT !.status = "pending"] \in Row
    BY <1>0, <2>1, RowType DEF RowStatus
  <2>3. row' \in [Deliveries -> Row]
    BY <1>12, <1>w, <2>1, <2>2 DEF Raise
  <2> QED BY <1>8, <1>f, <1>12, <2>3 DEF Raise, TypeOK
<1>13. ASSUME NEW p \in Pollers, PollerLost(p) PROVE TypeOK'
  BY <1>f, <1>13 DEF PollerLost, TypeOK, Hand
<1>14. CASE DeleteEndpoint
  <2>1. NoRow \in Row
    BY DEF NoRow, Row, RowStatus
  <2> QED BY <1>14, <2>1 DEF DeleteEndpoint, TypeOK
<1>15. CASE UNCHANGED vars
  BY <1>15 DEF vars, TypeOK
<1> QED
  BY <1>1, <1>2, <1>3, <1>4, <1>5, <1>6, <1>7, <1>10, <1>11, <1>12, <1>13, <1>14, <1>15
  DEF Next, InlineStep, Work

(* What finishing an item in hand does to the poller and to the rows.       *)
LEMMA Finishing ==
  ASSUME TypeOK, RowInv, NEW p \in Pollers, PutAway(p)
  PROVE  /\ hand[p] # Nothing /\ hand[p].item \in batch[p]
         /\ hand[p].item \in Item /\ hand[p].outcome \in Outcome
         /\ hand[p].item.id \in Deliveries /\ hand[p].item.attempt \in Nat
         /\ \A q \in Pollers :
              /\ batch'[q] = IF q = p THEN batch[p] \ {hand[p].item} ELSE batch[q]
              /\ hand'[q] = IF q = p THEN Nothing ELSE hand[q]
         /\ \A q \in Pollers : \A j \in batch'[q] : j \in batch[q] /\ j.id # hand[p].item.id
         /\ UNCHANGED <<inline, endpoint, posts>>
<1>1. hand[p] # Nothing /\ hand[p].item \in batch[p]
  BY DEF PutAway, RowInv, HandInv
<1>2. hand[p].item \in Item /\ hand[p].outcome \in Outcome
  BY <1>1, HandType DEF TypeOK
<1>3. \A q \in Pollers :
              /\ batch'[q] = IF q = p THEN batch[p] \ {hand[p].item} ELSE batch[q]
              /\ hand'[q] = IF q = p THEN Nothing ELSE hand[q]
  BY DEF PutAway, TypeOK
<1>4. \A q \in Pollers : \A j \in batch'[q] : j \in batch[q] /\ j.id # hand[p].item.id
  BY <1>1, <1>3 DEF RowInv, HeldRowsKept
<1> QED BY <1>1, <1>2, <1>3, <1>4, ItemType DEF PutAway

(* Rows that no poller holds after a step may change in it, and rows that   *)
(* one holds may be deleted with the endpoint.                              *)
LEMMA RowPutAway ==
  ASSUME TypeOK, RowInv, NEW p \in Pollers, PutAway(p),
         \A d \in Deliveries \ {hand[p].item.id} : row'[d] = row[d],
         row[hand[p].item.id].status = "none" => row'[hand[p].item.id] = row[hand[p].item.id]
  PROVE  RowInv'
<1> DEFINE i == hand[p].item
<1>1. i.id \in Deliveries /\ i \in batch[p] /\ UNCHANGED <<inline, endpoint, posts>>
  BY Finishing
<1>2. \A q \in Pollers : /\ batch'[q] \subseteq batch[q]
                         /\ \A j \in batch'[q] : j.id # i.id /\ j.id \in Deliveries
  BY Finishing, ItemType DEF TypeOK
<1>3. \A q \in Pollers : \A j \in batch'[q] : row'[j.id] = row[j.id]
  BY <1>2
<1>4. HandInv'
  <2>1. \A q \in Pollers : \/ hand'[q] = Nothing
                           \/ hand'[q] = hand[q] /\ batch'[q] = batch[q]
    BY Finishing
  <2> QED BY <2>1 DEF RowInv, HandInv
<1>5. HeldRowsKept'
  BY <1>2, <1>3 DEF RowInv, HeldRowsKept
<1>6. InlineInv'
  <2>1. inline[i.id] = "over"
    BY <1>1 DEF RowInv, InlineInv
  <2> QED BY <1>1, <1>2, <2>1 DEF RowInv, InlineInv
<1>7. DeletedInv'
  BY <1>1, <1>2, <1>3, PersistentAssumption DEF RowInv, DeletedInv
<1> QED BY <1>4, <1>5, <1>6, <1>7 DEF RowInv

(* An inline attempt, which nobody holds a row of.                          *)
LEMMA RowInline ==
  ASSUME TypeOK, RowInv, NEW d \in Deliveries, inline[d] # "over",
         \A e \in Deliveries \ {d} :
           row'[e] = row[e] /\ posts'[e] = posts[e] /\ inline'[e] = inline[e],
         UNCHANGED <<batch, hand, endpoint>>,
         /\ inline'[d] # "over" => /\ row'[d] = NoRow
                                   /\ posts'[d] = IF inline'[d] \in Outcome THEN 1 ELSE 0
         /\ d \in Persistent /\ ~endpoint => row'[d] = row[d]
  PROVE  RowInv'
<1>1. \A p \in Pollers : \A i \in batch[p] : i.id # d /\ i.id \in Deliveries
  BY ItemType DEF TypeOK, RowInv, InlineInv
<1>2. \A p \in Pollers : \A i \in batch[p] : row'[i.id] = row[i.id]
  BY <1>1
<1>3. HandInv'
  BY DEF RowInv, HandInv
<1>4. HeldRowsKept'
  BY <1>2 DEF RowInv, HeldRowsKept
<1>5. InlineInv'
  BY <1>1 DEF RowInv, InlineInv
<1>6. DeletedInv'
  BY <1>2, PersistentAssumption DEF RowInv, DeletedInv
<1> QED BY <1>3, <1>4, <1>5, <1>6 DEF RowInv

LEMMA RowStep == TypeOK /\ RowInv /\ [Next]_vars => RowInv'
<1> SUFFICES ASSUME TypeOK, RowInv, [Next]_vars PROVE RowInv'
  OBVIOUS
<1>0. \A p \in Pollers : \A i \in batch[p] : i \in Item /\ i.id \in Deliveries
  BY ItemType DEF TypeOK
<1>1. ASSUME NEW d \in Deliveries, Fire(d) PROVE RowInv'
  BY <1>1, RowInline DEF Fire, TypeOK, RowInv, InlineInv, Outcome
<1>2. ASSUME NEW d \in Deliveries, NEW o \in Outcome, InlinePost(d, o) PROVE RowInv'
  <2>1. inline[d] = "firing" /\ row[d] = NoRow /\ posts[d] = 0
    BY <1>2 DEF InlinePost, RowInv, InlineInv, Outcome
  <2>2. inline'[d] = o /\ posts'[d] = 1
    BY <1>2, <2>1 DEF InlinePost, Sent, TypeOK
  <2> QED BY <1>2, <2>1, <2>2, RowInline DEF InlinePost, Sent, TypeOK
<1>3. ASSUME NEW d \in Deliveries, InlineSettle(d) \/ InlineLost(d) PROVE RowInv'
  <2>1. inline[d] # "over" /\ inline'[d] = "over"
    BY <1>3 DEF InlineSettle, InlineLost, TypeOK, Outcome
  <2>2. \A e \in Deliveries \ {d} :
           row'[e] = row[e] /\ posts'[e] = posts[e] /\ inline'[e] = inline[e]
    BY <1>3 DEF InlineSettle, InlineLost, Enqueue, TypeOK
  <2>3. d \in Persistent /\ ~endpoint => row'[d] = row[d]
    BY <1>3 DEF InlineSettle, InlineLost, Enqueue
  <2> QED BY <1>3, <2>1, <2>2, <2>3, RowInline DEF InlineSettle, InlineLost
<1>4. ASSUME NEW d \in Deliveries, BecomeDue(d) PROVE RowInv'
  <2>1. \A e \in Deliveries :
          /\ row'[e].status = row[e].status /\ row'[e].attempt = row[e].attempt
          /\ row[e] = NoRow => row'[e] = NoRow
    <3>1. row[d] \in Row /\ row[d].status = "pending" /\ row'[d] = [row[d] EXCEPT !.due = TRUE]
      BY <1>4 DEF BecomeDue, TypeOK
    <3>2. row'[d].status = row[d].status /\ row'[d].attempt = row[d].attempt /\ row[d] # NoRow
      BY <3>1 DEF Row, NoRow
    <3>3. \A e \in Deliveries \ {d} : row'[e] = row[e]
      BY <1>4 DEF BecomeDue, TypeOK
    <3> QED BY <3>2, <3>3
  <2>2. HandInv'
    BY <1>4 DEF BecomeDue, RowInv, HandInv
  <2>3. HeldRowsKept'
    BY <1>0, <1>4, <2>1 DEF BecomeDue, RowInv, HeldRowsKept
  <2>4. InlineInv'
    BY <1>4, <2>1 DEF BecomeDue, RowInv, InlineInv
  <2>5. DeletedInv'
    BY <1>0, <1>4, <2>1, PersistentAssumption DEF BecomeDue, RowInv, DeletedInv
  <2> QED BY <2>2, <2>3, <2>4, <2>5 DEF RowInv
<1>5. ASSUME NEW p \in Pollers, NEW D \in SUBSET Deliveries, Poll(p, D) PROVE RowInv'
  <2>1. \A d \in Deliveries :
          row'[d] = IF d \in D THEN [row[d] EXCEPT !.status = "processing"] ELSE row[d]
    BY <1>5 DEF Poll
  <2>2. \A d \in D : row[d].status = "pending" /\ row[d] \in Row
    BY <1>5 DEF Poll, Due, TypeOK
  <2>3. \A d \in D : row'[d].status = "processing" /\ row'[d].attempt = row[d].attempt
    BY <2>1, <2>2 DEF Row
  <2>4. \A q \in Pollers \ {p} : batch'[q] = batch[q]
    BY <1>5 DEF Poll, TypeOK
  <2>5. batch'[p] = {[id |-> d, attempt |-> row[d].attempt] : d \in D} /\ batch[p] = {}
    BY <1>5 DEF Poll, TypeOK
  <2>6. \A j \in batch'[p] : j.id \in D /\ j = [id |-> j.id, attempt |-> row[j.id].attempt]
    BY <2>5
  <2>7. \A q \in Pollers \ {p} : \A i \in batch'[q] : i.id \notin D /\ row'[i.id] = row[i.id]
    <3>1. \A q \in Pollers : \A i \in batch[q] : row[i.id].status # "pending"
      BY DEF RowInv, HeldRowsKept
    <3>2. \A q \in Pollers \ {p} : \A i \in batch'[q] : i.id \in Deliveries \ D
      BY <1>0, <2>2, <2>4, <3>1
    <3> QED BY <2>1, <3>2
  <2>8. HandInv'
    BY <1>5, <2>4, <2>5 DEF Poll, RowInv, HandInv
  <2>9. HeldRowsKept'
    BY <2>3, <2>4, <2>6, <2>7 DEF RowInv, HeldRowsKept
  <2>10. InlineInv'
    <3>1. \A d \in Deliveries : inline[d] # "over" => d \notin D
      BY <2>2 DEF RowInv, InlineInv, NoRow
    <3>2. \A d \in Deliveries : inline[d] # "over" =>
            row'[d] = NoRow /\ \A q \in Pollers : \A j \in batch'[q] : j.id # d
      BY <2>1, <2>4, <2>6, <3>1 DEF RowInv, InlineInv
    <3> QED BY <1>5, <3>2 DEF Poll, RowInv, InlineInv
  <2>11. DeletedInv'
    <3>1. ~endpoint => \A d \in Persistent : d \notin D /\ row'[d] = row[d]
      BY <2>1, <2>2, PersistentAssumption DEF RowInv, DeletedInv
    <3>2. \A j \in batch'[p] : row'[j.id].status # "none"
      BY <2>3, <2>6
    <3> QED BY <1>5, <2>4, <2>7, <3>1, <3>2 DEF Poll, RowInv, DeletedInv
  <2> QED BY <2>8, <2>9, <2>10, <2>11 DEF RowInv
<1>6. ASSUME NEW p \in Pollers, NEW i \in batch[p], NEW o \in Outcome, Post(p, i, o) PROVE RowInv'
  <2>1. HandInv'
    BY <1>6 DEF Post, TypeOK, RowInv, HandInv
  <2>2. \A d \in Deliveries : inline[d] # "over" => posts'[d] = posts[d]
    BY <1>0, <1>6 DEF Post, Sent, TypeOK, RowInv, InlineInv
  <2> QED BY <1>6, <2>1, <2>2 DEF Post, RowInv, HeldRowsKept, InlineInv, DeletedInv
<1>7. ASSUME NEW p \in Pollers, Settle(p) PROVE RowInv'
  <2>1. PutAway(p) /\ hand[p].item.id \in Deliveries
    BY <1>7, Finishing DEF Settle
  <2>2. \A d \in Deliveries \ {hand[p].item.id} : row'[d] = row[d]
    BY <1>7, <2>1 DEF Settle, Write, TypeOK
  <2>3. row[hand[p].item.id].status = "none" => row' = row
    BY <1>7 DEF Settle, Write
  <2> QED BY <2>1, <2>2, <2>3, RowPutAway
<1>8. ASSUME NEW p \in Pollers, SettleFails(p) \/ Raise(p) PROVE RowInv'
  <2>1. PutAway(p) /\ hand[p].item.id \in Deliveries
    BY <1>8, Finishing DEF SettleFails, Raise
  <2>2. \A d \in Deliveries \ {hand[p].item.id} : row'[d] = row[d]
    BY <1>8, <2>1 DEF SettleFails, Raise, Write, TypeOK
  <2>3. row[hand[p].item.id].status = "none" => row' = row
    BY <1>8 DEF SettleFails, Raise, Write
  <2> QED BY <2>1, <2>2, <2>3, RowPutAway
<1>9. ASSUME NEW p \in Pollers, PollerLost(p) PROVE RowInv'
  <2>1. \A q \in Pollers : batch'[q] \subseteq batch[q]
    BY <1>9 DEF PollerLost, TypeOK
  <2>2. HandInv'
    BY <1>9 DEF PollerLost, TypeOK, RowInv, HandInv
  <2> QED BY <1>9, <2>1, <2>2 DEF PollerLost, RowInv, HeldRowsKept, InlineInv, DeletedInv
<1>10. CASE DeleteEndpoint
  <2>1. \A d \in Deliveries : row'[d] = IF d \in Persistent THEN NoRow ELSE row[d]
    BY <1>10 DEF DeleteEndpoint
  <2>2. HandInv' /\ InlineInv'
    BY <1>10, <2>1 DEF DeleteEndpoint, RowInv, HandInv, InlineInv
  <2>3. HeldRowsKept'
    BY <1>0, <1>10, <2>1 DEF DeleteEndpoint, RowInv, HeldRowsKept, NoRow
  <2>4. DeletedInv'
    BY <1>0, <1>10, <2>1, PersistentAssumption DEF DeleteEndpoint, RowInv, DeletedInv, NoRow
  <2> QED BY <2>2, <2>3, <2>4 DEF RowInv
<1>11. CASE UNCHANGED vars
  BY <1>11 DEF vars, RowInv, HandInv, HeldRowsKept, InlineInv, DeletedInv
<1> QED
  BY <1>1, <1>2, <1>3, <1>4, <1>5, <1>6, <1>7, <1>8, <1>9, <1>10, <1>11
  DEF Next, InlineStep, Work

(* What the settling of an item writes down. *)
LEMMA Settling ==
  ASSUME TypeOK, RowInv, NEW p \in Pollers, Settle(p)
  PROVE  LET i == hand[p].item
             o == hand[p].outcome
         IN  /\ PutAway(p) /\ faults' = faults
             /\ \A e \in Deliveries \ {i.id} : row'[e] = row[e]
             /\ row[i.id].status = "none" => row' = row
             /\ row[i.id].status # "none" =>
                  \/ row'[i.id].status = "completed" /\ Count(i.id, "delivery")
                  \/ /\ row'[i.id].status = "dead_letter" /\ Count(i.id, "failure")
                     /\ row'[i.id].code = "client" \/ Exhausted(i)
                  \/ /\ row'[i.id].status = "pending" /\ row'[i.id].attempt = i.attempt + 1
                     /\ ~Exhausted(i) /\ UNCHANGED counted
             /\ UNCHANGED counted \/ Count(i.id, "delivery") \/ Count(i.id, "failure")
<1> DEFINE i == hand[p].item
           o == hand[p].outcome
<1>1. PutAway(p) /\ i.id \in Deliveries /\ row[i.id] \in Row /\ o \in Outcome
  BY Finishing DEF Settle, TypeOK
<1>2. \A e \in Deliveries \ {i.id} : row'[e] = row[e]
  BY <1>1 DEF Settle, Write, TypeOK
<1>3. row[i.id].status = "none" => row' = row
  BY DEF Settle, Write
<1>4. \A st \in {"completed", "dead_letter"} :
        LET r == [row[i.id] EXCEPT !.status = st, !.code = o] IN r.status = st /\ r.code = o
  BY <1>1 DEF Row
<1>5. \A r : row[i.id].status # "none" /\ Write(i.id, r) => row'[i.id] = r
  BY <1>1 DEF Write, TypeOK
<1>6. CASE /\ Write(i.id, [row[i.id] EXCEPT !.status = "completed", !.code = o])
           /\ Count(i.id, "delivery")
  BY <1>1, <1>2, <1>3, <1>4, <1>5, <1>6 DEF Settle
<1>7. CASE /\ o = "client" \/ Exhausted(i)
           /\ Write(i.id, [row[i.id] EXCEPT !.status = "dead_letter", !.code = o])
           /\ Count(i.id, "failure")
  BY <1>1, <1>2, <1>3, <1>4, <1>5, <1>7 DEF Settle
<1>8. CASE /\ ~Exhausted(i) /\ UNCHANGED counted
           /\ Write(i.id, [status |-> "pending", attempt |-> i.attempt + 1,
                           due |-> FALSE, code |-> o])
  BY <1>1, <1>2, <1>3, <1>5, <1>8 DEF Settle
<1> QED BY <1>6, <1>7, <1>8 DEF Settle

LEMMA Counting ==
  ASSUME TypeOK, NEW d \in Deliveries, NEW k \in {"delivery", "failure"}, Count(d, k)
  PROVE  /\ \A e \in Deliveries \ {d} : counted'[e] = counted[e]
         /\ d \notin Persistent \/ ~endpoint => counted' = counted
         /\ d \in Persistent /\ endpoint =>
              /\ counted'[d][k] = counted[d][k] + 1
              /\ \A m \in {"delivery", "failure"} \ {k} : counted'[d][m] = counted[d][m]
  BY DEF Count, TypeOK, Counters

(* Short of faults, whoever claimed a row has it until it is written down.  *)
LEMMA NotAbandonedStep ==
  TypeOK /\ TypeOK' /\ RowInv /\ NotAbandoned /\ [Next]_vars => NotAbandoned'
<1> SUFFICES ASSUME TypeOK, TypeOK', RowInv, NotAbandoned, [Next]_vars, faults' = 0,
                    NEW e \in Deliveries, row'[e].status = "processing"
             PROVE  \E q \in Pollers : \E j \in batch'[q] : j.id = e
  BY DEF NotAbandoned
<1>0. ASSUME Fault PROVE FALSE
  BY <1>0 DEF Fault, TypeOK
<1>1. ASSUME faults' = faults, batch' = batch, row'[e].status = row[e].status
      PROVE  \E q \in Pollers : \E j \in batch'[q] : j.id = e
  BY <1>1 DEF NotAbandoned
<1>2. ASSUME NEW d \in Deliveries, Fire(d) \/ InlineStep(d)
      PROVE  \E q \in Pollers : \E j \in batch'[q] : j.id = e
  <2>1. row'[e] = row[e] \/ row'[e].status = "pending"
    BY <1>2 DEF Fire, InlineStep, InlinePost, InlineSettle, Enqueue, TypeOK
  <2> QED BY <1>1, <1>2, <2>1 DEF Fire, InlineStep, InlinePost, InlineSettle
<1>3. ASSUME NEW d \in Deliveries, BecomeDue(d)
      PROVE  \E q \in Pollers : \E j \in batch'[q] : j.id = e
  <2>1. row'[e].status = row[e].status
    BY <1>3 DEF BecomeDue, TypeOK, Row
  <2> QED BY <1>1, <1>3, <2>1 DEF BecomeDue
<1>4. ASSUME NEW p \in Pollers, NEW D \in SUBSET Deliveries, Poll(p, D)
      PROVE  \E q \in Pollers : \E j \in batch'[q] : j.id = e
  <2>1. batch'[p] = {[id |-> d, attempt |-> row[d].attempt] : d \in D} /\ batch[p] = {}
    BY <1>4 DEF Poll, TypeOK
  <2>2. CASE e \in D
    <3> DEFINE j == [id |-> e, attempt |-> row[e].attempt]
    <3>1. j \in batch'[p] /\ j.id = e
      BY <2>1, <2>2
    <3> QED BY <3>1
  <2>3. CASE e \notin D
    <3>1. row'[e] = row[e] /\ faults = 0
      BY <1>4, <2>3 DEF Poll
    <3>2. PICK q \in Pollers : \E j \in batch[q] : j.id = e
      BY <3>1 DEF NotAbandoned
    <3>3. batch'[q] = batch[q]
      BY <1>4, <2>1, <3>2 DEF Poll, TypeOK
    <3> QED BY <3>2, <3>3
  <2> QED BY <2>2, <2>3
<1>5. ASSUME NEW p \in Pollers, NEW i \in batch[p], NEW o \in Outcome, Post(p, i, o)
      PROVE  \E q \in Pollers : \E j \in batch'[q] : j.id = e
  BY <1>1, <1>5 DEF Post
<1>6. ASSUME NEW p \in Pollers, Settle(p)
      PROVE  \E q \in Pollers : \E j \in batch'[q] : j.id = e
  <2> DEFINE i == hand[p].item
  <2>1. PutAway(p) /\ i.id \in Deliveries /\ faults = 0
    BY <1>6, Settling, Finishing
  <2>2. e # i.id /\ row'[e] = row[e]
    BY <1>6, <2>1, Settling
  <2>3. PICK q \in Pollers : \E j \in batch[q] : j.id = e
    BY <2>1, <2>2 DEF NotAbandoned
  <2>4. PICK j \in batch[q] : j.id = e
    BY <2>3
  <2>5. j \in batch'[q]
    <3>1. batch'[q] = IF q = p THEN batch[p] \ {i} ELSE batch[q]
      BY <2>1, Finishing
    <3>2. j # i
      BY <2>2, <2>4
    <3> QED BY <2>4, <3>1, <3>2
  <2> QED BY <2>4, <2>5
<1>7. CASE DeleteEndpoint
  BY <1>1, <1>7 DEF DeleteEndpoint, NoRow
<1>8. CASE UNCHANGED vars
  BY <1>1, <1>8 DEF vars
<1> QED
  BY <1>0, <1>2, <1>3, <1>4, <1>5, <1>6, <1>7, <1>8
  DEF Next, Work, InlineLost, SettleFails, Raise, PollerLost

LEMMA CountStep == TypeOK /\ TypeOK' /\ RowInv /\ CountInv /\ [Next]_vars => CountInv'
<1> DEFINE Good(d) == /\ Counted(d) <= 1
                      /\ inline[d] # "over" => Counted(d) = 0
                      /\ endpoint => /\ row[d].status = "completed" => counted[d]["delivery"] = 1
                                     /\ row[d].status = "dead_letter" => counted[d]["failure"] = 1
                                     /\ row[d].status \in {"pending", "processing"} => Counted(d) = 0
<1> SUFFICES ASSUME TypeOK, TypeOK', RowInv, CountInv, [Next]_vars, NEW e \in Persistent
             PROVE  Good(e)'
  BY DEF CountInv, CountedOnce
<1>g. Good(e) /\ e \in Deliveries
  BY PersistentAssumption DEF CountInv, CountedOnce
<1>n. /\ counted[e]["delivery"] \in Nat /\ counted[e]["failure"] \in Nat
      /\ counted'[e]["delivery"] \in Nat /\ counted'[e]["failure"] \in Nat
  BY <1>g DEF TypeOK, Counters
<1>1. ASSUME counted'[e] = counted[e], row'[e].status = row[e].status,
             endpoint' => endpoint, inline'[e] # "over" => inline[e] # "over"
      PROVE  Good(e)'
  BY <1>1, <1>g DEF Counted
<1>2. ASSUME NEW d \in Deliveries, Fire(d)
      PROVE  Good(e)'
  BY <1>1, <1>2 DEF Fire, TypeOK
<1>3. ASSUME NEW d \in Deliveries, NEW o \in Outcome, InlinePost(d, o)
      PROVE  Good(e)'
  BY <1>1, <1>3 DEF InlinePost, TypeOK
<1>4. ASSUME NEW d \in Deliveries, InlineSettle(d)
      PROVE  Good(e)'
  <2>1. inline[d] # "over" /\ row[d] = NoRow
    BY <1>4 DEF InlineSettle, RowInv, InlineInv
  <2>2. CASE e # d
    <3>1. row'[e] = row[e] /\ inline'[e] = inline[e]
      BY <1>4, <2>2, <1>g DEF InlineSettle, Enqueue, TypeOK
    <3>2. counted'[e] = counted[e]
      BY <1>4, <2>2, <1>g DEF InlineSettle, Count, TypeOK
    <3> QED BY <1>1, <1>4, <3>1, <3>2 DEF InlineSettle
  <2>3. CASE e = d
    <3>1. Counted(e) = 0 /\ counted[e]["delivery"] = 0 /\ counted[e]["failure"] = 0
      BY <1>g, <1>n, <2>1, <2>3 DEF Counted
    <3>2. inline'[e] = "over" /\ endpoint' = endpoint
      BY <1>4, <2>3 DEF InlineSettle, TypeOK
    <3>3. CASE row' = row
      <4>1. row'[e].status = "none"
        BY <2>1, <2>3, <3>3 DEF NoRow
      <4>2. Counted(e)' <= 1
        BY <1>4, <1>n, <2>3, <3>1, Counting DEF InlineSettle, Counted
      <4> QED BY <3>2, <4>1, <4>2
    <3>4. CASE row' # row
      <4>1. row'[e].status = "pending" /\ counted' = counted
        BY <1>4, <2>3, <3>4 DEF InlineSettle, Enqueue, TypeOK
      <4> QED BY <3>1, <3>2, <4>1 DEF Counted
    <3> QED BY <3>3, <3>4
  <2> QED BY <2>2, <2>3
<1>5. ASSUME NEW d \in Deliveries, InlineLost(d)
      PROVE  Good(e)'
  BY <1>1, <1>5 DEF InlineLost, TypeOK
<1>6. ASSUME NEW d \in Deliveries, BecomeDue(d)
      PROVE  Good(e)'
  <2>1. row'[e].status = row[e].status
    BY <1>6, <1>g DEF BecomeDue, TypeOK, Row
  <2> QED BY <1>1, <1>6, <2>1 DEF BecomeDue
<1>7. ASSUME NEW p \in Pollers, NEW D \in SUBSET Deliveries, Poll(p, D)
      PROVE  Good(e)'
  <2>1. CASE e \in D
    <3>1. row[e].status = "pending" /\ row[e] \in Row
      BY <1>7, <2>1, <1>g DEF Poll, Due, TypeOK
    <3>2. row'[e] = [row[e] EXCEPT !.status = "processing"]
      BY <1>7, <2>1, <1>g DEF Poll
    <3>3. row'[e].status = "processing"
      BY <3>1, <3>2 DEF Row
    <3> QED BY <1>7, <1>g, <3>1, <3>3 DEF Poll, Counted
  <2>2. CASE e \notin D
    BY <1>1, <1>7, <1>g, <2>2 DEF Poll
  <2> QED BY <2>1, <2>2
<1>8. ASSUME NEW p \in Pollers, NEW i \in batch[p], NEW o \in Outcome, Post(p, i, o)
      PROVE  Good(e)'
  BY <1>1, <1>8 DEF Post
<1>9. ASSUME NEW p \in Pollers, Settle(p)
      PROVE  Good(e)'
  <2> DEFINE i == hand[p].item
  <2>1. PutAway(p)
    BY <1>9, Settling
  <2>2. /\ i \in batch[p] /\ i.id \in Deliveries /\ inline' = inline /\ endpoint' = endpoint
    BY <2>1, Finishing
  <2>3. CASE e # i.id
    <3>1. row'[e] = row[e]
      BY <1>9, <1>g, <2>3, Settling
    <3>2. counted'[e] = counted[e]
      BY <1>9, <1>g, <2>2, <2>3, Settling, Counting
    <3> QED BY <1>1, <2>2, <3>1, <3>2
  <2>4. CASE e = i.id /\ ~endpoint
    <3>1. counted' = counted
      BY <1>9, <2>2, <2>4, Settling, Counting
    <3> QED BY <1>g, <2>2, <2>4, <3>1 DEF Counted
  <2>5. CASE e = i.id /\ endpoint
    <3>1. row[e].status = "processing" /\ inline[e] = "over"
      BY <2>2, <2>5 DEF RowInv, HeldRowsKept, DeletedInv, InlineInv
    <3>2. counted[e]["delivery"] = 0 /\ counted[e]["failure"] = 0
      BY <1>g, <1>n, <2>5, <3>1 DEF Counted
    <3>3. \/ row'[e].status = "completed" /\ Count(e, "delivery")
          \/ row'[e].status = "dead_letter" /\ Count(e, "failure")
          \/ row'[e].status = "pending" /\ UNCHANGED counted
      BY <1>9, <2>5, <3>1, Settling
    <3>4. CASE row'[e].status = "completed" /\ Count(e, "delivery")
      <4>1. counted'[e]["delivery"] = 1 /\ counted'[e]["failure"] = 0
        BY <1>g, <2>5, <3>2, <3>4, Counting
      <4> QED BY <2>2, <3>1, <3>4, <4>1 DEF Counted
    <3>5. CASE row'[e].status = "dead_letter" /\ Count(e, "failure")
      <4>1. counted'[e]["delivery"] = 0 /\ counted'[e]["failure"] = 1
        BY <1>g, <2>5, <3>2, <3>5, Counting
      <4> QED BY <2>2, <3>1, <3>5, <4>1 DEF Counted
    <3>6. CASE row'[e].status = "pending" /\ UNCHANGED counted
      BY <2>2, <3>1, <3>2, <3>6 DEF Counted
    <3> QED BY <3>3, <3>4, <3>5, <3>6
  <2> QED BY <2>3, <2>4, <2>5
<1>10. ASSUME NEW p \in Pollers, SettleFails(p)
       PROVE  Good(e)'
  BY <1>1, <1>10 DEF SettleFails, PutAway
<1>11. ASSUME NEW p \in Pollers, Raise(p)
       PROVE  Good(e)'
  <2> DEFINE i == hand[p].item
  <2>1. PutAway(p) /\ UNCHANGED <<counted, inline, endpoint>>
    BY <1>11 DEF Raise, PutAway
  <2>2. i \in batch[p] /\ i.id \in Deliveries /\ row[i.id] \in Row
    BY <2>1, Finishing DEF TypeOK
  <2>3. CASE e # i.id \/ row' = row
    <3>1. row'[e] = row[e]
      BY <1>11, <1>g, <2>2, <2>3 DEF Raise, Write, TypeOK
    <3> QED BY <1>1, <2>1, <3>1
  <2>4. CASE e = i.id /\ row' # row
    <3>1. row'[e] = [row[e] EXCEPT !.status = "pending"] /\ row[e].status # "none"
      BY <1>11, <1>g, <2>4 DEF Raise, Write, TypeOK
    <3>2. row'[e].status = "pending" /\ row[e].status = "processing"
      BY <2>2, <2>4, <3>1 DEF Row, RowInv, HeldRowsKept
    <3> QED BY <1>g, <2>1, <3>2 DEF Counted
  <2> QED BY <2>3, <2>4
<1>12. ASSUME NEW p \in Pollers, PollerLost(p)
       PROVE  Good(e)'
  BY <1>1, <1>12 DEF PollerLost
<1>13. CASE DeleteEndpoint
  BY <1>13, <1>g DEF DeleteEndpoint, Counted
<1>14. CASE UNCHANGED vars
  BY <1>1, <1>14 DEF vars
<1> QED
  BY <1>2, <1>3, <1>4, <1>5, <1>6, <1>7, <1>8, <1>9, <1>10, <1>11, <1>12, <1>13, <1>14
  DEF Next, InlineStep, Work

(* A step that leaves a delivery's row and posts alone, and hands nothing   *)
(* of it out or back, keeps it within its budget: faults only add to it.    *)
LEMMA BudgetFrame ==
  ASSUME TypeOK, TypeOK', NEW d \in Deliveries, Budgeted(d),
         row'[d].status = row[d].status, row'[d].attempt = row[d].attempt,
         row'[d].code = row[d].code, posts'[d] = posts[d], faults <= faults',
         InHand(d) => InHand(d)',
         \A p \in Pollers : \A i \in batch'[p] : i.id = d =>
           i \in batch[p] /\ (Handed(p, i)' <=> Handed(p, i))
  PROVE  Budgeted(d)'
<1>1. posts[d] \in Nat /\ faults \in Nat /\ faults' \in Nat /\ row[d].attempt \in Nat
  BY DEF TypeOK, Row
<1>2. WithinBudget(d)'
  BY <1>1, NumbersAssumption DEF Budgeted, WithinBudget
<1>3. RowBudget(d)'
  <2>1. ~InHand(d)' => ~InHand(d)
    OBVIOUS
  <2>2. RowBudget(d)
    BY DEF Budgeted
  <2>3. row'[d].status \in {"pending", "processing"} =>
          /\ row'[d].attempt \in 1..MaxAttempts
          /\ row'[d].attempt <= posts'[d]
          /\ ~InHand(d)' => posts'[d] <= row'[d].attempt + faults'
    <3> HIDE DEF InHand
    <3> QED BY <1>1, <2>1, <2>2 DEF RowBudget
  <2> QED BY <2>3 DEF RowBudget
<1>4. \A p \in Pollers : \A i \in batch'[p] : i.id = d => ItemBudget(p, i)'
  <2> SUFFICES ASSUME NEW p \in Pollers, NEW i \in batch'[p], i.id = d PROVE ItemBudget(p, i)'
    OBVIOUS
  <2>1. ItemBudget(p, i) /\ (Handed(p, i)' <=> Handed(p, i)) /\ i \in Item
    BY DEF Budgeted, TypeOK
  <2>2. i.attempt \in Nat
    BY <2>1, ItemType
  <2> QED BY <1>1, <2>1, <2>2 DEF ItemBudget
<1> QED BY <1>2, <1>3, <1>4 DEF Budgeted

(* The numbers of a delivery that no poller holds. *)
LEMMA BudgetFree ==
  ASSUME TypeOK', NEW d \in Deliveries,
         \A p \in Pollers : \A i \in batch'[p] : i.id # d,
         posts'[d] <= MaxRetries + faults',
         row'[d].status = "dead_letter" => row'[d].code = "client" \/ posts'[d] >= MaxRetries,
         row'[d].status \in {"pending", "processing"} =>
           /\ row'[d].attempt \in 1..MaxAttempts
           /\ row'[d].attempt <= posts'[d]
           /\ posts'[d] <= row'[d].attempt + faults'
  PROVE  Budgeted(d)'
<1>1. WithinBudget(d)'
  BY DEF WithinBudget
<1>2. RowBudget(d)'
  BY DEF RowBudget
<1> QED BY <1>1, <1>2 DEF Budgeted

(* A poller that puts its item away, and what the row may then be.          *)
LEMMA BudgetPutAway ==
  ASSUME TypeOK, TypeOK', RowInv, BudgetInv, NEW p \in Pollers, PutAway(p), faults <= faults',
         \A e \in Deliveries \ {hand[p].item.id} : row'[e] = row[e],
         row'[hand[p].item.id].status = "dead_letter" =>
           row'[hand[p].item.id].code = "client" \/ hand[p].item.attempt >= MaxAttempts,
         row'[hand[p].item.id].status \in {"pending", "processing"} =>
           \/ /\ row'[hand[p].item.id].attempt = hand[p].item.attempt + 1
              /\ hand[p].item.attempt < MaxAttempts
           \/ /\ row'[hand[p].item.id].attempt = hand[p].item.attempt
              /\ faults' = faults + 1
  PROVE  BudgetInv'
<1> DEFINE i == hand[p].item
<1>1. /\ i \in batch[p] /\ hand[p] # Nothing /\ posts' = posts
      /\ i.id \in Deliveries /\ i.attempt \in Nat
  BY Finishing
<1>2. \A q \in Pollers : \A j \in batch'[q] : j \in batch[q] /\ j.id # i.id
  BY Finishing
<1>3. \A q \in Pollers : hand'[q] = IF q = p THEN Nothing ELSE hand[q]
  BY DEF PutAway, TypeOK
<1>4. faults \in Nat /\ faults' \in Nat /\ posts[i.id] \in Nat /\ MaxAttempts \in Nat
  BY <1>1, NumbersAssumption DEF TypeOK, MaxAttempts
<1>5. ASSUME NEW d \in Deliveries, d = i.id PROVE Budgeted(d)'
  <2>1. Handed(p, i) /\ ItemBudget(p, i)
    BY <1>1 DEF Handed, BudgetInv, Budgeted
  <2>2. /\ i.attempt \in 1..MaxAttempts
        /\ i.attempt + 1 <= posts[i.id] /\ posts[i.id] <= i.attempt + 1 + faults
    BY <2>1 DEF ItemBudget
  <2>3. posts[i.id] <= MaxRetries + faults'
    BY <1>4, <2>2, NumbersAssumption DEF MaxAttempts
  <2>4. row'[i.id].status = "dead_letter" => row'[i.id].code = "client" \/ posts[i.id] >= MaxRetries
    BY <1>4, <2>2, NumbersAssumption DEF MaxAttempts
  <2>5. row'[i.id].status \in {"pending", "processing"} =>
          /\ row'[i.id].attempt \in 1..MaxAttempts
          /\ row'[i.id].attempt <= posts[i.id]
          /\ posts[i.id] <= row'[i.id].attempt + faults'
    BY <1>4, <2>2
  <2>6. \A q \in Pollers : \A j \in batch'[q] : j.id # d
    BY <1>2, <1>5
  <2> QED BY <1>1, <1>5, <2>3, <2>4, <2>5, <2>6, BudgetFree
<1>6. ASSUME NEW e \in Deliveries, e # i.id PROVE Budgeted(e)'
  <2>1. Budgeted(e) /\ row'[e] = row[e] /\ posts'[e] = posts[e]
    BY <1>1, <1>6 DEF BudgetInv
  <2>2. InHand(e) => InHand(e)'
    BY <1>3, <1>6 DEF InHand
  <2>3. \A q \in Pollers : \A j \in batch'[q] : j.id = e =>
          j \in batch[q] /\ (Handed(q, j)' <=> Handed(q, j))
    BY <1>2, <1>3, <1>6 DEF Handed
  <2> QED BY <2>1, <2>2, <2>3, BudgetFrame
<1> QED BY <1>1, <1>5, <1>6 DEF BudgetInv

LEMMA BudgetStep == TypeOK /\ TypeOK' /\ RowInv /\ BudgetInv /\ [Next]_vars => BudgetInv'
<1> SUFFICES ASSUME TypeOK, TypeOK', RowInv, BudgetInv, [Next]_vars PROVE BudgetInv'
  OBVIOUS
<1>n. faults \in Nat /\ faults' \in Nat /\ MaxAttempts \in Nat \ {0} /\ MaxRetries = MaxAttempts + 1
  BY NumbersAssumption DEF TypeOK, MaxAttempts
<1>i. \A q \in Pollers : \A j \in batch[q] : j \in Item /\ j.id \in Deliveries /\ j.attempt \in Nat
  BY ItemType DEF TypeOK
<1>f. Fault => faults <= faults'
  BY <1>n DEF Fault
<1>1. ASSUME NEW e \in Deliveries, UNCHANGED <<batch, hand>>, faults <= faults', posts'[e] = posts[e],
             row'[e].status = row[e].status, row'[e].attempt = row[e].attempt,
             row'[e].code = row[e].code
      PROVE  Budgeted(e)'
  <2>1. (InHand(e) => InHand(e)') /\ Budgeted(e)
    BY <1>1 DEF InHand, BudgetInv
  <2>2. \A q \in Pollers : \A j \in batch'[q] : j.id = e =>
          j \in batch[q] /\ (Handed(q, j)' <=> Handed(q, j))
    BY <1>1 DEF Handed
  <2> QED BY <1>1, <2>1, <2>2, BudgetFrame
<1>2. ASSUME NEW d \in Deliveries, Fire(d)
      PROVE  BudgetInv'
  BY <1>1, <1>2, <1>n DEF Fire, BudgetInv
<1>3. ASSUME NEW d \in Deliveries, NEW o \in Outcome, InlinePost(d, o)
      PROVE  BudgetInv'
  <2>1. row[d] = NoRow /\ posts[d] = 0 /\ \A q \in Pollers : \A j \in batch[q] : j.id # d
    BY <1>3 DEF InlinePost, RowInv, InlineInv, Outcome
  <2>2. posts'[d] = 1 /\ row'[d].status = "none"
    BY <1>3, <2>1 DEF InlinePost, Sent, TypeOK, NoRow
  <2>3. Budgeted(d)'
    BY <1>3, <1>n, <2>1, <2>2, BudgetFree DEF InlinePost
  <2>4. \A e \in Deliveries \ {d} : posts'[e] = posts[e]
    BY <1>3 DEF InlinePost, Sent, TypeOK
  <2> QED BY <1>1, <1>3, <1>n, <2>3, <2>4 DEF InlinePost, BudgetInv
<1>4. ASSUME NEW d \in Deliveries, InlineSettle(d)
      PROVE  BudgetInv'
  <2>1. \A e \in Deliveries \ {d} : row'[e] = row[e]
    BY <1>4 DEF InlineSettle, Enqueue, TypeOK
  <2>2. row[d] = NoRow /\ posts[d] = 1 /\ \A q \in Pollers : \A j \in batch[q] : j.id # d
    BY <1>4 DEF InlineSettle, RowInv, InlineInv, Outcome
  <2>3. row'[d].status = "none" \/ (row'[d].status = "pending" /\ row'[d].attempt = 1)
    BY <1>4, <2>2 DEF InlineSettle, Enqueue, TypeOK, NoRow
  <2>4. Budgeted(d)'
    BY <1>4, <1>n, <2>2, <2>3, BudgetFree DEF InlineSettle
  <2> QED BY <1>1, <1>4, <1>n, <2>1, <2>4 DEF InlineSettle, BudgetInv
<1>5. ASSUME NEW d \in Deliveries, InlineLost(d)
      PROVE  BudgetInv'
  BY <1>1, <1>5, <1>f DEF InlineLost, BudgetInv
<1>6. ASSUME NEW d \in Deliveries, BecomeDue(d)
      PROVE  BudgetInv'
  <2>1. \A e \in Deliveries : /\ row'[e].status = row[e].status /\ row'[e].attempt = row[e].attempt
                              /\ row'[e].code = row[e].code
    BY <1>6 DEF BecomeDue, TypeOK, Row
  <2> QED BY <1>1, <1>6, <1>n, <2>1 DEF BecomeDue, BudgetInv
<1>7. ASSUME NEW p \in Pollers, NEW D \in SUBSET Deliveries, Poll(p, D)
      PROVE  BudgetInv'
  <2>1. batch'[p] = {[id |-> d, attempt |-> row[d].attempt] : d \in D} /\ batch[p] = {}
    BY <1>7 DEF Poll, TypeOK
  <2>2. /\ \A q \in Pollers \ {p} : batch'[q] = batch[q]
        /\ \A q \in Pollers : hand'[q] = hand[q]
    BY <1>7 DEF Poll, TypeOK
  <2>3. hand[p] = Nothing
    BY <2>1 DEF RowInv, HandInv
  <2>4. ASSUME NEW e \in Deliveries, e \in D PROVE Budgeted(e)'
    <3>1. row[e].status = "pending" /\ row[e] \in Row
      BY <1>7, <2>4 DEF Poll, Due, TypeOK
    <3>2. row'[e] = [row[e] EXCEPT !.status = "processing"]
      BY <1>7, <2>4 DEF Poll
    <3>3. row'[e].status = "processing" /\ row'[e].attempt = row[e].attempt /\ row[e].attempt \in Nat
      BY <3>1, <3>2 DEF Row
    <3>4. \A q \in Pollers : \A j \in batch[q] : j.id # e
      BY <3>1 DEF RowInv, HeldRowsKept
    <3>5. ~InHand(e)
      BY <3>4 DEF InHand, RowInv, HandInv
    <3>6. /\ row[e].attempt \in 1..MaxAttempts
          /\ row[e].attempt <= posts[e] /\ posts[e] <= row[e].attempt + faults
      BY <3>1, <3>5 DEF BudgetInv, Budgeted, RowBudget
    <3>7. posts' = posts /\ faults' = faults
      BY <1>7 DEF Poll
    <3>8. WithinBudget(e)'
      BY <3>3, <3>7 DEF BudgetInv, Budgeted, WithinBudget
    <3>9. RowBudget(e)'
      BY <3>3, <3>6, <3>7 DEF RowBudget
    <3>10. ASSUME NEW q \in Pollers, NEW j \in batch'[q], j.id = e PROVE ItemBudget(q, j)'
      <4>1. q = p /\ j.attempt = row[e].attempt
        BY <2>1, <2>2, <3>4, <3>10
      <4>2. ~Handed(q, j)'
        BY <2>2, <2>3, <4>1 DEF Handed
      <4> QED BY <3>6, <3>7, <3>10, <4>1, <4>2 DEF ItemBudget
    <3> QED BY <3>8, <3>9, <3>10 DEF Budgeted
  <2>5. ASSUME NEW e \in Deliveries, e \notin D PROVE Budgeted(e)'
    <3>1. /\ row'[e] = row[e] /\ posts'[e] = posts[e] /\ faults <= faults'
          /\ InHand(e) => InHand(e)'
      BY <1>7, <1>n, <2>5 DEF Poll, InHand
    <3>2. \A q \in Pollers : \A j \in batch'[q] : j.id = e =>
            j \in batch[q] /\ (Handed(q, j)' <=> Handed(q, j))
      BY <2>1, <2>2, <2>5 DEF Handed
    <3> QED BY <3>1, <3>2, BudgetFrame DEF BudgetInv
  <2> QED BY <2>4, <2>5 DEF BudgetInv
<1>8. ASSUME NEW p \in Pollers, NEW i \in batch[p], NEW o \in Outcome, Post(p, i, o)
      PROVE  BudgetInv'
  <2>1. /\ hand[p] = Nothing /\ hand'[p] = [item |-> i, outcome |-> o] /\ hand'[p] # Nothing
        /\ hand'[p].item = i
    BY <1>8 DEF Post, TypeOK, Nothing, Outcome
  <2>2. \A q \in Pollers \ {p} : hand'[q] = hand[q]
    BY <1>8 DEF Post, TypeOK
  <2>3. ASSUME NEW e \in Deliveries, e = i.id PROVE Budgeted(e)'
    <3>1. ItemBudget(p, i) /\ ~Handed(p, i) /\ i.attempt \in Nat
      BY <1>i, <2>1, <2>3 DEF BudgetInv, Budgeted, Handed
    <3>2. i.attempt \in 1..MaxAttempts /\ i.attempt <= posts[e] /\ posts[e] <= i.attempt + faults
      BY <2>3, <3>1 DEF ItemBudget
    <3>3. posts'[e] = posts[e] + 1 /\ posts[e] \in Nat /\ faults' = faults /\ row' = row
      BY <1>8, <2>3 DEF Post, Sent, TypeOK
    <3>4. /\ row[e].status = "none" \/ (row[e].status = "processing" /\ row[e].attempt = i.attempt)
          /\ \A q \in Pollers : \A j \in batch[q] : j.id = e => q = p /\ j = i
      BY <2>3 DEF RowInv, HeldRowsKept
    <3>5. WithinBudget(e)'
      BY <1>n, <3>1, <3>2, <3>3, <3>4 DEF WithinBudget
    <3>6. InHand(e)'
      BY <2>1, <2>3 DEF InHand
    <3>7. RowBudget(e)'
      <4>1. row'[e].status \in {"pending", "processing"} =>
              row'[e].attempt \in 1..MaxAttempts /\ row'[e].attempt <= posts'[e]
        BY <3>1, <3>2, <3>3, <3>4
      <4> QED BY <3>6, <4>1 DEF RowBudget
    <3>8. ASSUME NEW q \in Pollers, NEW j \in batch'[q], j.id = e PROVE ItemBudget(q, j)'
      <4>1. q = p /\ j = i /\ Handed(q, j)'
        BY <1>8, <2>1, <3>4, <3>8 DEF Post, Handed
      <4> QED BY <1>n, <3>1, <3>2, <3>3, <3>8, <4>1 DEF ItemBudget
    <3> QED BY <3>5, <3>7, <3>8 DEF Budgeted
  <2>4. ASSUME NEW e \in Deliveries, e # i.id PROVE Budgeted(e)'
    <3>1. /\ row' = row /\ batch' = batch /\ faults <= faults' /\ posts'[e] = posts[e]
      BY <1>8, <1>n, <2>4 DEF Post, Sent, TypeOK
    <3>2. InHand(e) => InHand(e)'
      BY <2>1, <2>2 DEF InHand
    <3>3. \A q \in Pollers : \A j \in batch'[q] : j.id = e =>
            j \in batch[q] /\ (Handed(q, j)' <=> Handed(q, j))
      BY <2>1, <2>2, <2>4, <3>1 DEF Handed
    <3> QED BY <3>1, <3>2, <3>3, BudgetFrame DEF BudgetInv
  <2> QED BY <2>3, <2>4 DEF BudgetInv
<1>9. ASSUME NEW p \in Pollers, Settle(p)
      PROVE  BudgetInv'
  <2> DEFINE i == hand[p].item
  <2>1. /\ PutAway(p) /\ faults <= faults' /\ i \in batch[p] /\ i.attempt \in Nat
    <3>1. PutAway(p) /\ faults' = faults
      BY <1>9, Settling
    <3>2. i \in batch[p] /\ i.attempt \in Nat
      BY <3>1, <1>i DEF PutAway, RowInv, HandInv
    <3> QED BY <1>n, <3>1, <3>2
  <2>2. row[i.id].status = "none" => row'[i.id].status = "none"
    BY <1>9, Settling
  <2>3. row'[i.id].status = "dead_letter" => row'[i.id].code = "client" \/ i.attempt >= MaxAttempts
    BY <1>9, <2>2, Settling DEF Exhausted
  <2>4. row'[i.id].status \in {"pending", "processing"} =>
          row'[i.id].attempt = i.attempt + 1 /\ i.attempt < MaxAttempts
    BY <1>9, <1>n, <2>1, <2>2, Settling DEF Exhausted
  <2> QED BY <1>9, <2>1, <2>3, <2>4, Settling, BudgetPutAway
<1>10. ASSUME NEW p \in Pollers, SettleFails(p) \/ Raise(p)
       PROVE  BudgetInv'
  <2> DEFINE i == hand[p].item
  <2>1. PutAway(p) /\ faults <= faults' /\ faults' = faults + 1
    BY <1>10, <1>f DEF SettleFails, Raise, Fault
  <2>2. i \in batch[p] /\ i.id \in Deliveries /\ row[i.id] \in Row
    BY <2>1, Finishing DEF TypeOK
  <2>3. row[i.id].status = "none" \/ (row[i.id].status = "processing" /\ row[i.id].attempt = i.attempt)
    BY <2>2 DEF RowInv, HeldRowsKept
  <2>4. \A e \in Deliveries \ {i.id} : row'[e] = row[e]
    BY <1>10, <2>2 DEF SettleFails, Raise, Write, TypeOK
  <2>5. row'[i.id] = row[i.id] \/ row'[i.id] = [row[i.id] EXCEPT !.status = "pending"]
    BY <1>10, <2>2 DEF SettleFails, Raise, Write, TypeOK
  <2>6. row'[i.id].status # "dead_letter" /\ row'[i.id].attempt = row[i.id].attempt
    BY <2>2, <2>3, <2>5 DEF Row
  <2>7. row[i.id].status = "none" => row'[i.id].status = "none"
    BY <1>10 DEF SettleFails, Raise, Write
  <2> QED BY <2>1, <2>3, <2>4, <2>6, <2>7, BudgetPutAway
<1>11. ASSUME NEW p \in Pollers, PollerLost(p)
       PROVE  BudgetInv'
  <2>1. /\ faults' = faults + 1 /\ row' = row /\ posts' = posts
        /\ batch'[p] = {} /\ hand'[p] = Nothing
        /\ \A q \in Pollers \ {p} : batch'[q] = batch[q] /\ hand'[q] = hand[q]
    BY <1>11 DEF PollerLost, Fault, TypeOK
  <2> SUFFICES ASSUME NEW e \in Deliveries PROVE Budgeted(e)'
    BY DEF BudgetInv
  <2>2. CASE hand[p] = Nothing \/ hand[p].item.id # e
    <3>1. InHand(e) => InHand(e)'
      BY <2>1, <2>2 DEF InHand
    <3>2. \A q \in Pollers : \A j \in batch'[q] : j.id = e =>
            j \in batch[q] /\ (Handed(q, j)' <=> Handed(q, j))
      BY <2>1 DEF Handed
    <3> QED BY <1>n, <2>1, <3>1, <3>2, BudgetFrame DEF BudgetInv
  <2>3. CASE hand[p] # Nothing /\ hand[p].item.id = e
    <3> DEFINE i == hand[p].item
    <3>1. i \in batch[p] /\ Handed(p, i) /\ i.attempt \in Nat
      BY <1>i, <2>3 DEF RowInv, HandInv, Handed
    <3>2. ItemBudget(p, i)
      BY <2>3, <3>1 DEF BudgetInv, Budgeted
    <3>3. /\ i.attempt \in 1..MaxAttempts
          /\ i.attempt + 1 <= posts[e] /\ posts[e] <= i.attempt + 1 + faults
      BY <2>3, <3>1, <3>2 DEF ItemBudget
    <3>4. /\ row[e].status = "none" \/ (row[e].status = "processing" /\ row[e].attempt = i.attempt)
          /\ \A q \in Pollers : \A j \in batch[q] : j.id = e => q = p
      BY <2>3, <3>1 DEF RowInv, HeldRowsKept
    <3>5. \A q \in Pollers : \A j \in batch'[q] : j.id # e
      BY <2>1, <3>4
    <3>6. posts[e] \in Nat
      BY DEF TypeOK
    <3> QED BY <1>n, <2>1, <3>1, <3>3, <3>4, <3>5, <3>6, BudgetFree
  <2> QED BY <2>2, <2>3
<1>12. CASE DeleteEndpoint
  <2>1. ASSUME NEW e \in Persistent PROVE Budgeted(e)'
    <3>1. /\ row'[e].status = "none" /\ e \in Deliveries /\ posts' = posts /\ faults' = faults
          /\ hand' = hand /\ batch' = batch
      BY <1>12, PersistentAssumption DEF DeleteEndpoint, NoRow
    <3>2. Budgeted(e)
      BY <3>1 DEF BudgetInv
    <3>3. WithinBudget(e)' /\ RowBudget(e)'
      BY <3>1, <3>2 DEF Budgeted, WithinBudget, RowBudget
    <3>4. \A q \in Pollers : \A j \in batch'[q] : j.id = e => ItemBudget(q, j)'
      BY <3>1, <3>2 DEF Budgeted, ItemBudget, Handed
    <3> QED BY <3>3, <3>4 DEF Budgeted
  <2>2. ASSUME NEW e \in Deliveries, e \notin Persistent PROVE Budgeted(e)'
    BY <1>1, <1>12, <1>n, <2>2 DEF DeleteEndpoint
  <2> QED BY <2>1, <2>2 DEF BudgetInv
<1>13. CASE UNCHANGED vars
  BY <1>1, <1>13, <1>n DEF vars, BudgetInv
<1> QED
  BY <1>2, <1>3, <1>4, <1>5, <1>6, <1>7, <1>8, <1>9, <1>10, <1>11, <1>12, <1>13
  DEF Next, InlineStep, Work

(* The row of an ended delivery is in nobody's batch, so no step but the    *)
(* endpoint's deletion touches it.                                          *)
LEMMA EndedStep ==
  ASSUME TypeOK, RowInv, [Next]_vars, NEW e \in Deliveries, row[e].status \in Ended
  PROVE  row'[e] \in {row[e], NoRow}
<1>1. row[e] # NoRow /\ row[e].status \notin {"none", "pending", "processing"}
  BY DEF Ended, NoRow
<1>2. \A p \in Pollers : \A i \in batch[p] : i.id # e
  BY <1>1 DEF RowInv, HeldRowsKept
<1>3. inline[e] = "over"
  BY <1>1 DEF RowInv, InlineInv
<1>4. ASSUME NEW d \in Deliveries, Fire(d) \/ InlineStep(d) \/ InlineLost(d) \/ BecomeDue(d)
      PROVE  row'[e] = row[e]
  <2>1. CASE BecomeDue(d)
    BY <1>1, <2>1 DEF BecomeDue, TypeOK
  <2>2. CASE Fire(d) \/ InlineLost(d)
    BY <2>2 DEF Fire, InlineLost
  <2>3. CASE InlineStep(d)
    BY <1>3, <2>3 DEF InlineStep, InlinePost, InlineSettle, Enqueue, TypeOK
  <2> QED BY <1>4, <2>1, <2>2, <2>3
<1>5. ASSUME NEW p \in Pollers, NEW D \in SUBSET Deliveries, Poll(p, D)
      PROVE  row'[e] = row[e]
  BY <1>1, <1>5 DEF Poll, Due
<1>6. ASSUME NEW p \in Pollers, Settle(p) \/ SettleFails(p) \/ Raise(p)
      PROVE  row'[e] = row[e]
  <2>1. PutAway(p)
    BY <1>6 DEF Settle, SettleFails, Raise
  <2>2. hand[p].item \in batch[p] /\ hand[p].item.id # e
    BY <1>2, <2>1 DEF PutAway, RowInv, HandInv
  <2>3. CASE Settle(p)
    BY <2>2, <2>3, Settling
  <2>4. CASE SettleFails(p) \/ Raise(p)
    BY <2>2, <2>4 DEF SettleFails, Raise, Write, TypeOK
  <2> QED BY <1>6, <2>3, <2>4
<1>7. ASSUME NEW p \in Pollers, (\E i \in batch[p], o \in Outcome : Post(p, i, o)) \/ PollerLost(p)
      PROVE  row'[e] = row[e]
  BY <1>7 DEF Post, PollerLost
<1>8. DeleteEndpoint => row'[e] \in {row[e], NoRow}
  BY DEF DeleteEndpoint
<1>9. UNCHANGED vars => row'[e] = row[e]
  BY DEF vars
<1> QED BY <1>4, <1>5, <1>6, <1>7, <1>8, <1>9 DEF Next, Work

---------------------------------------------------------------------------

IInv == TypeOK /\ RowInv

LEMMA InitIInv == Init => IInv
<1> SUFFICES ASSUME Init PROVE IInv
  OBVIOUS
<1>1. TypeOK
  BY NumbersAssumption
  DEF Init, TypeOK, Inline, Row, RowStatus, Hand, Counters, NoRow
<1>2. HandInv /\ HeldRowsKept
  BY DEF Init, HandInv, HeldRowsKept
<1>3. InlineInv /\ DeletedInv
  BY DEF Init, InlineInv, DeletedInv, Outcome
<1> QED BY <1>1, <1>2, <1>3 DEF IInv, RowInv

LEMMA IInvStep == IInv /\ [Next]_vars => IInv'
BY TypeStep, RowStep DEF IInv, RowInv

(* Every variable always holds a value of its kind, so that no counter of   *)
(* the endpoint ever goes below zero.                                       *)
THEOREM TypeCorrect == Spec => []TypeOK
<1>1. IInv => TypeOK
  BY DEF IInv
<1> QED BY <1>1, InitIInv, IInvStep, PTL DEF Spec

(* Two retry workers never hold the same row, and a row that one holds is   *)
(* changed by no other, however the replicas' polls interleave.             *)
THEOREM HeldRowsAreKept == Spec => []HeldRowsKept
<1>1. IInv => HeldRowsKept
  BY DEF IInv, RowInv
<1> QED BY <1>1, InitIInv, IInvStep, PTL DEF Spec

(* A row that is completed or dead is never worked on again.                *)
THEOREM EndsAreFinal == Spec => EndedIsFinal
<1>1. IInv /\ [Next]_vars => [\A d \in Deliveries : row[d].status \in Ended => row'[d] \in {row[d], NoRow}]_vars
  BY EndedStep DEF IInv
<1> QED BY <1>1, InitIInv, IInvStep, PTL DEF Spec, EndedIsFinal

(* Posts keep to max_retries but for one more per fault, and the dead       *)
(* letters have had a 4xx or the whole budget.                              *)
THEOREM BudgetKept == Spec => []PostsBudgeted
<1>1. Init => BudgetInv
  <2> SUFFICES ASSUME Init, NEW d \in Deliveries PROVE Budgeted(d)
    BY DEF BudgetInv
  <2>1. /\ row[d].status = "none" /\ posts[d] = 0 /\ faults = 0
        /\ \A p \in Pollers : batch[p] = {}
    BY DEF Init, NoRow
  <2> QED BY <2>1, NumbersAssumption DEF Budgeted, WithinBudget, RowBudget
<1>2. IInv /\ IInv' /\ BudgetInv /\ [Next]_vars => BudgetInv'
  BY BudgetStep DEF IInv
<1>3. BudgetInv => PostsBudgeted
  BY DEF BudgetInv, Budgeted, PostsBudgeted
<1> QED BY <1>1, <1>2, <1>3, InitIInv, IInvStep, PTL DEF Spec

(* The endpoint's counters count no delivery twice, and count each as what  *)
(* its row says it came to.                                                 *)
THEOREM DeliveriesCountOnce == Spec => []CountedOnce
<1>1. Init => CountInv
  BY PersistentAssumption DEF Init, CountInv, CountedOnce, Counted, NoRow
<1>2. IInv /\ IInv' /\ CountInv /\ [Next]_vars => CountInv'
  BY CountStep DEF IInv
<1>3. CountInv => CountedOnce
  BY DEF CountInv
<1> QED BY <1>1, <1>2, <1>3, InitIInv, IInvStep, PTL DEF Spec

(* Both at once (PostedAndCounted).                                         *)
THEOREM DeliveriesSettle == Spec => []PostedAndCounted
<1>1. PostsBudgeted /\ CountedOnce => PostedAndCounted
  BY DEF PostedAndCounted
<1> QED BY <1>1, BudgetKept, DeliveriesCountOnce, PTL

(* The queue keeps its rows apart and its counts right, for any number of   *)
(* replicas, deliveries and faults.                                         *)
THEOREM QueueSafe == Spec => []QueueKept
<1>1. HeldRowsKept /\ PostedAndCounted => QueueKept
  BY DEF QueueKept
<1> QED BY <1>1, HeldRowsAreKept, DeliveriesSettle, PTL

(* Only a fault can leave a row in processing that no worker has.           *)
THEOREM NoneAbandoned == Spec => []NotAbandoned
<1>1. Init => NotAbandoned
  BY DEF Init, NotAbandoned, NoRow
<1>2. IInv /\ IInv' /\ NotAbandoned /\ [Next]_vars => NotAbandoned'
  BY NotAbandonedStep DEF IInv
<1> QED BY <1>1, <1>2, InitIInv, IInvStep, PTL DEF Spec

=============================================================================
