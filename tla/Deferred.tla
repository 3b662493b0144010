----------------------------- MODULE Deferred -----------------------------
(* Tasks that wait: the edges of routers/task_dependencies.py and the      *)
(* sweeps of core/sweeper.py that end the wait, or raise a priority, in    *)
(* every replica.  Only a task created with a start time is ever pending,  *)
(* and only a pending task can be given upstreams.                         *)
EXTENDS Integers, FiniteSets

CONSTANTS Jobs, Replicas, Editors, MaxReopen

ASSUME DeferredAssumption ==
  IsFiniteSet(Jobs) /\ IsFiniteSet(Replicas) /\ MaxReopen \in Nat

VARIABLES
  stage,    \* tasks.status: "ready" is open or queued and what follows
  due,      \* scheduled_at has passed
  edges,    \* task_dependencies: <<task, upstream>>
  sweep,    \* the rows the pass of each replica has locked, and those it will change
  editor,   \* add_dependency between its checks and its insert
  aged,     \* the task is older than its priority allows
  starts,   \* how often a task was opened or handed to a runner
  raises,   \* how often its priority was raised
  ended,    \* history: the tasks that have been terminal at some time
  late,     \* history: edges inserted while a pass held the task
  reopened  \* rejections that took a finished task up again

deferVars == <<stage, due, edges, sweep, editor, aged, starts, raises, ended, late, reopened>>

CompletedOnly == {"done"} \* mutant
Terminal == {"done", "cancelled"}

Resting == [op |-> "none", rows |-> {}, go |-> {}]
NoEdit == [op |-> "none"]

DeferTypeOK ==
  /\ stage \in [Jobs -> {"pending", "ready", "done", "cancelled"}]
  /\ due \in [Jobs -> BOOLEAN] /\ aged \in [Jobs -> BOOLEAN]
  /\ edges \subseteq Jobs \X Jobs /\ late \subseteq Jobs \X Jobs
  /\ sweep \in [Replicas -> [op : {"none", "scheduled", "depends", "escalate"},
                             rows : SUBSET Jobs, go : SUBSET Jobs]]
  /\ editor \in [Editors -> {NoEdit} \cup [op : {"add"}, of : Jobs, on : Jobs]]
  /\ starts \in [Jobs -> Nat] /\ raises \in [Jobs -> Nat]
  /\ ended \subseteq Jobs
  /\ reopened \in 0..MaxReopen

DeferInit ==
  /\ stage \in [Jobs -> {"pending", "ready"}]
  /\ due = [t \in Jobs |-> FALSE]
  /\ aged = [t \in Jobs |-> FALSE]
  /\ edges = {} /\ late = {}
  /\ sweep = [r \in Replicas |-> Resting]
  /\ editor = [e \in Editors |-> NoEdit]
  /\ starts = [t \in Jobs |-> 0]
  /\ raises = [t \in Jobs |-> 0]
  /\ ended = {}
  /\ reopened = 0

Upstream(t) == {u \in Jobs : <<t, u>> \in edges}
Locked == UNION {sweep[r].rows : r \in Replicas}

(* FOR UPDATE SKIP LOCKED: a pass takes what no other pass holds. *)
TakeAll(S) == S \* mutant
SkipLocked(S) == S \ Locked

Begin(r, op, rows, go) ==
  /\ sweep[r] = Resting /\ go # {}
  /\ sweep' = [sweep EXCEPT ![r] = [op |-> op, rows |-> rows, go |-> go]]

End(r) == sweep' = [sweep EXCEPT ![r] = Resting]

---------------------------------------------------------------------------
(* add_dependency and remove_dependency *)

CloseCycle(t, u) == <<u, t>> \in edges

AddRead(e, t, u) ==
  /\ t # u /\ stage[t] = "pending"
  /\ <<t, u>> \notin edges /\ ~CloseCycle(t, u)
  /\ editor[e] = NoEdit
  /\ editor' = [editor EXCEPT ![e] = [op |-> "add", of |-> t, on |-> u]]
  /\ UNCHANGED <<stage, due, edges, sweep, aged, starts, raises, ended, late, reopened>>

(* The pair is unique: an edge inserted meanwhile makes this insert fail. *)
AddCommit(e) ==
  LET t == editor[e].of
      u == editor[e].on IN
  /\ editor[e].op = "add"
  /\ editor' = [editor EXCEPT ![e] = NoEdit]
  /\ edges' = edges \cup {<<t, u>>}
  /\ late' = IF <<t, u>> \notin edges /\ (t \in Locked \/ stage[t] # "pending")
               THEN late \cup {<<t, u>>} ELSE late
  /\ UNCHANGED <<stage, due, sweep, aged, starts, raises, ended, reopened>>

RemoveEdge(t, u) ==
  /\ <<t, u>> \in edges
  /\ edges' = edges \ {<<t, u>>}
  /\ UNCHANGED <<stage, due, sweep, editor, aged, starts, raises, ended, late, reopened>>

---------------------------------------------------------------------------
(* What happens to tasks meanwhile *)

ComesDue(t) ==
  /\ stage[t] = "pending" /\ ~due[t]
  /\ due' = [due EXCEPT ![t] = TRUE]
  /\ UNCHANGED <<stage, edges, sweep, editor, aged, starts, raises, ended, late, reopened>>

Age(t) ==
  /\ stage[t] \in {"pending", "ready"} /\ ~aged[t]
  /\ aged' = [aged EXCEPT ![t] = TRUE]
  /\ UNCHANGED <<stage, due, edges, sweep, editor, starts, raises, ended, late, reopened>>

(* It completes or fails, or its owner cancels it; these lock the row. *)
FinishJob(t) ==
  /\ stage[t] = "ready" /\ t \notin Locked
  /\ stage' = [stage EXCEPT ![t] = "done"]
  /\ ended' = ended \cup {t}
  /\ UNCHANGED <<due, edges, sweep, editor, aged, starts, raises, late, reopened>>

CancelJob(t) ==
  /\ stage[t] \in {"pending", "ready"} /\ t \notin Locked
  /\ stage' = [stage EXCEPT ![t] = "cancelled"]
  /\ ended' = ended \cup {t}
  /\ UNCHANGED <<due, edges, sweep, editor, aged, starts, raises, late, reopened>>

(* reject_submission reopens a completed human task. *)
Reopen(t) ==
  /\ stage[t] = "done" /\ reopened < MaxReopen
  /\ stage' = [stage EXCEPT ![t] = "ready"]
  /\ reopened' = reopened + 1
  /\ UNCHANGED <<due, edges, sweep, editor, aged, starts, raises, ended, late>>

---------------------------------------------------------------------------
(* The sweeps.  Each locks the rows it may change; the dependency sweep    *)
(* reads upstreams without a lock.                                         *)

ScheduledRead(r) ==
  /\ LET rows == SkipLocked({t \in Jobs : stage[t] = "pending" /\ due[t]}) IN
     Begin(r, "scheduled", rows, rows)
  /\ UNCHANGED <<stage, due, edges, editor, aged, starts, raises, ended, late, reopened>>

AnyDone(t) == Upstream(t) = {} \/ \E u \in Upstream(t) : stage[u] \in Terminal \* mutant
AllDone(t) == \A u \in Upstream(t) : stage[u] \in Terminal
Waiting == {t \in Jobs : stage[t] = "pending" /\ Upstream(t) # {}}

DependsRead(r) ==
  /\ LET rows == SkipLocked(Waiting) IN
     Begin(r, "depends", rows, {t \in rows : AllDone(t)})
  /\ UNCHANGED <<stage, due, edges, editor, aged, starts, raises, ended, late, reopened>>

StartAll(r) ==
  LET go == sweep[r].go IN
  /\ sweep[r].op \in {"scheduled", "depends"}
  /\ stage' = [t \in Jobs |-> IF t \in go THEN "ready" ELSE stage[t]]
  /\ starts' = [t \in Jobs |-> IF t \in go THEN starts[t] + 1 ELSE starts[t]]
  /\ End(r)
  /\ UNCHANGED <<due, edges, editor, aged, raises, ended, late, reopened>>

NotEscalated(t) == raises[t] = 0

EscalateRead(r) ==
  /\ LET rows == SkipLocked({t \in Jobs : stage[t] \in {"pending", "ready"} /\ NotEscalated(t)}) IN
     Begin(r, "escalate", rows, {t \in rows : aged[t]})
  /\ UNCHANGED <<stage, due, edges, editor, aged, starts, raises, ended, late, reopened>>

Escalate(r) ==
  /\ sweep[r].op = "escalate"
  /\ raises' = [t \in Jobs |-> IF t \in sweep[r].go THEN raises[t] + 1 ELSE raises[t]]
  /\ End(r)
  /\ UNCHANGED <<stage, due, edges, editor, aged, starts, ended, late, reopened>>

(* The pass raises or its process dies; the sweeper's loop goes on. *)
PassFails(r) ==
  /\ sweep[r] # Resting
  /\ End(r)
  /\ UNCHANGED <<stage, due, edges, editor, aged, starts, raises, ended, late, reopened>>

---------------------------------------------------------------------------
Passes(r) == ScheduledRead(r) \/ DependsRead(r) \/ EscalateRead(r)

DeferNext ==
  \/ \E r \in Replicas : Passes(r) \/ StartAll(r) \/ Escalate(r) \/ PassFails(r)
  \/ \E e \in Editors : AddCommit(e) \/ \E t, u \in Jobs : AddRead(e, t, u)
  \/ \E t, u \in Jobs : RemoveEdge(t, u)
  \/ \E t \in Jobs : ComesDue(t) \/ Age(t) \/ FinishJob(t) \/ CancelJob(t) \/ Reopen(t)

DeferSpec == DeferInit /\ [][DeferNext]_deferVars

(* run_sweeper repeats its passes for ever, and a pass that has read goes  *)
(* on to commit, though some fail.                                         *)
DeferFairness == /\ SF_deferVars(\E r \in Replicas : DependsRead(r))
                 /\ SF_deferVars(\E r \in Replicas : StartAll(r))
                 /\ WF_deferVars(\E r \in Replicas : Escalate(r) \/ PassFails(r))

DeferLiveSpec == DeferSpec /\ DeferFairness

---------------------------------------------------------------------------
(* Two replicas and two sweeps never open or hand over a task twice, nor   *)
(* raise its priority twice, whatever fails in between.                    *)
OncePerTask == \A t \in Jobs : starts[t] <= 1 /\ raises[t] <= 1

(* A task whose start time has not come is started only after each of its  *)
(* upstreams was terminal, unless the edge was inserted too late for the   *)
(* pass to see it.                                                         *)
DependenciesFirst ==
  [][\A t \in Jobs : (stage[t] = "pending" /\ stage'[t] = "ready" /\ ~due[t]) =>
       \A u \in Upstream(t) : u \in ended \/ <<t, u>> \in late]_deferVars

(* A pending task whose upstreams have all ended, cancelled ones included, *)
(* is started at last, if its upstreams stay so.                           *)
Free(t) == /\ stage[t] = "pending" /\ Upstream(t) # {}
           /\ \A u \in Upstream(t) : stage[u] \in {"done", "cancelled"}
Unblocks == \A t \in Jobs : Free(t) ~> ~Free(t)

(* add_dependency: "task_id must wait for depends_on_id to finish before   *)
(* it can be executed" (task_dependencies.py:74).                          *)
WaitsForUpstream ==
  [][\A t \in Jobs : (stage[t] = "pending" /\ stage'[t] = "ready") =>
       \A u \in Upstream(t) : u \in ended \/ <<t, u>> \in late]_deferVars
============================================================================
