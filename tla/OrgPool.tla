------------------------------- MODULE OrgPool -------------------------------
(***************************************************************************)
(* An organisation: its members and invites, its pool of credits, and the  *)
(* tasks it pays for.  A request about the pool first checks the role of   *)
(* its user, which loads the organisation without a lock; the locked read  *)
(* that follows does not refresh the loaded row, so what the request       *)
(* writes back is computed from the first read.  The tasks are here for    *)
(* what they cost: who paid it, and how often it was given back, by the    *)
(* handlers that lock the task's row and by those that read it first and   *)
(* write it later.  Archiving moves no credits and is left to HumanTask    *)
(* and AiTask.                                                             *)
(***************************************************************************)
EXTENDS Integers, FiniteSets, FiniteSetsExt

CONSTANTS Users,
          Owner,      \* the user who created the organisation
          Sessions,   \* requests about the pool in progress
          Hands,      \* requests in progress that read a task without a lock
          Invites, Tasks,
          Given,      \* the roles handed out
          Funds,      \* what each user starts with
          Amount,     \* of a transfer
          Cost,       \* of a task
          Reward,     \* given back for a rejected answer
          MaxStale,   \* bounds the writes from outdated copies
          MaxPast     \* bounds the retries, answers and crossings of a task

ASSUME OwnerAssumption == Owner \in Users
ASSUME GivenAssumption == Given \subseteq {"viewer", "member", "admin"}
ASSUME AmountsAssumption ==
  /\ Amount \in Nat \ {0} /\ Cost \in Nat \ {0} /\ Reward \in Nat
  /\ Funds \in [Users -> Nat]
  /\ MaxStale \in Nat /\ MaxPast \in Nat
ASSUME RowsAssumption == IsFiniteSet(Users) /\ IsFiniteSet(Tasks)

VARIABLES alive,    \* the organisation's row is there
          pool,     \* organizations.credits
          credits,  \* users.credits
          role,     \* org_members.role
          invite,   \* org_invites
          session,
          stale,    \* how often a request wrote the pool from an outdated copy
          task,
          runner,   \* the coroutines of an AI task, by what they are about to do
          hand,     \* what each request with an unlocked task has read
          paid,     \* history: what was paid for a task, less what was given back
          past      \* history: what befell a task

taskVars == <<task, runner, hand, paid, past>>
poolVars == <<alive, pool, credits, role, invite, session, stale, taskVars>>

Roles == {"none", "viewer", "member", "admin", "owner"}
Rank == [none |-> 0, viewer |-> 1, member |-> 2, admin |-> 3, owner |-> 4]
Ops == {"deposit", "withdraw", "delete"}
NoUser == "nobody"

Session == [op: Ops \cup {"idle"}, by: Users \cup {NoUser}, copy: Int]
Idle == [op |-> "idle", by |-> NoUser, copy |-> 0]

Invite == [status: {"none", "pending", "accepted", "gone"}, for: Users \cup {NoUser}, role: Roles]
NoInvite == [status |-> "none", for |-> NoUser, role |-> "none"]
Used(i, st) == [invite[i] EXCEPT !.status = st]

(* "waiting" is queued or open; "org" is whether tasks.org_id is set.      *)
TaskStatus == {"none", "pending", "waiting", "assigned", "running", "completed", "failed", "cancelled"}
Task == [status: TaskStatus, human: BOOLEAN, user: Users \cup {NoUser}, org: BOOLEAN]
NoTask == [status |-> "none", human |-> FALSE, user |-> NoUser, org |-> FALSE]
Undone(st) == st \in {"failed", "cancelled"}

(* "run" is _run_task, "scheduled" is _run_scheduled_ai_task, "executing"  *)
(* either of them at work.                                                 *)
Coroutines == [run: Nat, scheduled: Nat, executing: Nat]
NoRunner == [run |-> 0, scheduled |-> 0, executing |-> 0]

HandOps == {"cancel", "retry", "reopen", "reject", "settle"}
Hand == [op: HandOps \cup {"idle"}, of: Tasks \cup {NoUser}, seen: TaskStatus, org: BOOLEAN]
Empty == [op |-> "idle", of |-> NoUser, seen |-> "none", org |-> FALSE]

(* Retries, answers and rejected answers of a task, and the writes to it by *)
(* somebody who had not seen that it was lost, or lost no longer, or that   *)
(* its organisation was gone.                                               *)
Past == [retried: Nat, answered: Nat, rejected: Nat, crossed: Nat]
NoPast == [retried |-> 0, answered |-> 0, rejected |-> 0, crossed |-> 0]

PoolInit == /\ alive = TRUE
            /\ pool = 0
            /\ credits = Funds
            /\ role = [u \in Users |-> IF u = Owner THEN "owner" ELSE "none"]
            /\ invite = [i \in Invites |-> NoInvite]
            /\ session = [s \in Sessions |-> Idle]
            /\ stale = 0
            /\ task = [t \in Tasks |-> NoTask]
            /\ runner = [t \in Tasks |-> NoRunner]
            /\ hand = [h \in Hands |-> Empty]
            /\ paid = [t \in Tasks |-> 0]
            /\ past = [t \in Tasks |-> NoPast]

---------------------------------------------------------------------------
(* Requests about the pool *)

AtLeast(u, r) == Rank[role[u]] >= Rank[r]
RoleFor(op) == IF op = "delete" THEN "owner" ELSE "admin"

(* The role check, with the organisation's row as it is then. *)
Begin(s, u, op) ==
  /\ session[s] = Idle
  /\ alive
  /\ AtLeast(u, RoleFor(op))
  /\ session' = [session EXCEPT ![s] = [op |-> op, by |-> u, copy |-> pool]]
  /\ UNCHANGED <<alive, pool, credits, role, invite, stale, taskVars>>

Doing(s, op) == session[s].op = op
Done(s) == session' = [session EXCEPT ![s] = Idle]

(* The request is refused, or fails before its commit. *)
Refuse(s) == /\ session[s] # Idle
             /\ Done(s)
             /\ UNCHANGED <<alive, pool, credits, role, invite, stale, taskVars>>

(* Writing what was computed from the copy. *)
FromCopy(s) == IF session[s].copy = pool THEN stale' = stale
                                         ELSE stale < MaxStale /\ stale' = stale + 1
WritePool(s, amount) == pool' = session[s].copy + amount /\ FromCopy(s)

Deposit(s) == /\ Doing(s, "deposit")
              /\ alive
              /\ credits[session[s].by] >= Amount
              /\ credits' = [credits EXCEPT ![session[s].by] = @ - Amount]
              /\ WritePool(s, Amount)
              /\ Done(s)
              /\ UNCHANGED <<alive, role, invite, taskVars>>

Covers(held, amount) == held >= amount

Withdraw(s) == /\ Doing(s, "withdraw")
               /\ alive
               /\ Covers(session[s].copy, Amount)
               /\ credits' = [credits EXCEPT ![session[s].by] = @ + Amount]
               /\ WritePool(s, -Amount)
               /\ Done(s)
               /\ UNCHANGED <<alive, role, invite, taskVars>>

Open(i) == invite[i].status = "pending"

(* CANCELLABLE leaves out the assigned.                                    *)
Billed == {t \in Tasks : task[t].org /\ task[t].status \in {"pending", "waiting"}}

(* Deleting the organisation cancels the tasks that wait under its id,     *)
(* hands the rest of the pool, as the request first read it, to the owner, *)
(* and takes memberships, invites and the tasks' org_id with it.           *)
TeardownKeepsPool(s) == credits' = [credits EXCEPT ![session[s].by] = @ + session[s].copy] \* mutant
Teardown(s) == credits' = [credits EXCEPT ![session[s].by] = @ + session[s].copy + Cost * Cardinality(Billed)]

Orphaned(t, org) == [task[t] EXCEPT !.org = org, !.status = IF t \in Billed THEN "cancelled" ELSE @]

DeleteOrgKeepsIds(s) == /\ Doing(s, "delete") \* mutant
                        /\ alive
                        /\ alive' = FALSE
                        /\ pool' = 0
                        /\ Teardown(s)
                        /\ FromCopy(s)
                        /\ task' = [t \in Tasks |-> Orphaned(t, task[t].org)]
                        /\ paid' = [t \in Tasks |-> IF t \in Billed THEN paid[t] - Cost ELSE paid[t]]
                        /\ role' = [u \in Users |-> "none"]
                        /\ invite' = [i \in Invites |-> IF Open(i) THEN Used(i, "gone") ELSE invite[i]]
                        /\ Done(s)
                        /\ UNCHANGED <<runner, hand, past>>

DeleteOrg(s) == /\ Doing(s, "delete")
                /\ alive
                /\ alive' = FALSE
                /\ pool' = 0
                /\ Teardown(s)
                /\ FromCopy(s)
                /\ task' = [t \in Tasks |-> Orphaned(t, FALSE)]
                /\ paid' = [t \in Tasks |-> IF t \in Billed THEN paid[t] - Cost ELSE paid[t]]
                /\ role' = [u \in Users |-> "none"]
                /\ invite' = [i \in Invites |-> IF Open(i) THEN Used(i, "gone") ELSE invite[i]]
                /\ Done(s)
                /\ UNCHANGED <<runner, hand, past>>

---------------------------------------------------------------------------
(* Members and invites *)

(* The owner's row is left alone, and an admin makes no other admin. *)
ChangeableAny(v) == role[v] # "none" \* mutant
Changeable(v) == role[v] \notin {"none", "owner"}

SetRole(u, v, r) == /\ alive
                    /\ AtLeast(u, "admin")
                    /\ Changeable(v)
                    /\ r = "admin" => role[u] = "owner"
                    /\ role' = [role EXCEPT ![v] = r]
                    /\ UNCHANGED <<alive, pool, credits, invite, session, stale, taskVars>>

Remove(u, v) == /\ alive
                /\ AtLeast(u, "admin") \/ u = v
                /\ Changeable(v)
                /\ role' = [role EXCEPT ![v] = "none"]
                /\ UNCHANGED <<alive, pool, credits, invite, session, stale, taskVars>>

InvitePending(v) == \E i \in Invites : Open(i) /\ invite[i].for = v

SendInvite(u, v, i, r) == /\ alive
                          /\ AtLeast(u, "admin")
                          /\ role[v] = "none" /\ ~InvitePending(v)
                          /\ invite[i].status = "none"
                          /\ invite' = [invite EXCEPT ![i] = [status |-> "pending", for |-> v, role |-> r]]
                          /\ UNCHANGED <<alive, pool, credits, role, session, stale, taskVars>>

(* Cancelled by an admin, or past its seven days. *)
DropInvite(i) == /\ Open(i)
                 /\ invite' = [invite EXCEPT ![i] = Used(i, "gone")]
                 /\ UNCHANGED <<alive, pool, credits, role, session, stale, taskVars>>

(* The locked invite is accepted by its user, unless a member already. *)
AcceptInvite(i) == /\ alive
                   /\ Open(i)
                   /\ role[invite[i].for] = "none"
                   /\ role' = [role EXCEPT ![invite[i].for] = invite[i].role]
                   /\ invite' = [invite EXCEPT ![i] = Used(i, "accepted")]
                   /\ UNCHANGED <<alive, pool, credits, session, stale, taskVars>>

---------------------------------------------------------------------------
(* Paying for tasks.  The payer's row is locked and read once, so it is up *)
(* to date.                                                                *)

FromPool == /\ alive
            /\ pool >= Cost
            /\ pool' = pool - Cost
            /\ credits' = credits
FromUser(u) == /\ credits[u] >= Cost
               /\ credits' = [credits EXCEPT ![u] = @ - Cost]
               /\ pool' = pool

(* A row to come, and the coroutine an AI task is handed to at once unless *)
(* it is scheduled for later.                                              *)
NewTask(t, u, human, org, st) ==
  /\ task[t] = NoTask
  /\ task' = [task EXCEPT ![t] = [status |-> st, human |-> human, user |-> u, org |-> org]]
  /\ runner' = [runner EXCEPT ![t].run = IF human \/ st = "pending" THEN 0 ELSE 1]
  /\ paid' = [paid EXCEPT ![t] = Cost]

(* A member has the organisation pay.  Only a human task's row takes its   *)
(* id.                                                                     *)
CreateTask(t, u, human, st) == /\ \/ /\ role[u] # "none"
                                     /\ FromPool
                                     /\ NewTask(t, u, human, human, st)
                                  \/ /\ FromUser(u)
                                     /\ NewTask(t, u, human, FALSE, st)
                               /\ UNCHANGED <<alive, role, invite, session, stale, hand, past>>

(* A batch: the user pays for all of it, is given back what the rows that  *)
(* could not be made cost, and the rest is created with that in one commit. *)
CreateBatch(u, human, failed) ==
  LET made == DOMAIN human IN
  /\ \A t \in made : task[t] = NoTask
  /\ credits[u] >= Cost * (Cardinality(made) + failed)
  /\ credits' = [credits EXCEPT ![u] = @ - Cost * Cardinality(made)]
  /\ task' = [t \in Tasks |-> IF t \in made
                 THEN [status |-> "waiting", human |-> human[t], user |-> u, org |-> FALSE]
                 ELSE task[t]]
  /\ runner' = [t \in Tasks |-> IF t \in made /\ ~human[t]
                 THEN [NoRunner EXCEPT !.run = 1] ELSE runner[t]]
  /\ paid' = [t \in Tasks |-> IF t \in made THEN Cost ELSE paid[t]]
  /\ UNCHANGED <<alive, pool, role, invite, session, stale, hand, past>>

(* A rerun of an organisation's task asks for no membership and falls back *)
(* on the user's own credits.                                              *)
Rerun(t, old) == LET u == task[old].user IN
                 /\ task[old].status # "none"
                 /\ IF task[old].org /\ pool >= Cost THEN FromPool ELSE FromUser(u)
                 /\ NewTask(t, u, task[old].human, task[old].org, "waiting")
                 /\ UNCHANGED <<alive, role, invite, session, stale, hand, past>>

(* The refund goes by the organisation's id on the task as it was read: to *)
(* the pool, to nobody when the organisation is gone, else to the user.    *)
Refund(t, org) ==
  \/ /\ org /\ alive
     /\ pool' = pool + Cost /\ credits' = credits
     /\ paid' = [paid EXCEPT ![t] = @ - Cost]
  \/ /\ org /\ ~alive
     /\ UNCHANGED <<pool, credits, paid>>
  \/ /\ ~org
     /\ credits' = [credits EXCEPT ![task[t].user] = @ + Cost] /\ pool' = pool
     /\ paid' = [paid EXCEPT ![t] = @ - Cost]

SetStatus(t, st) == task' = [task EXCEPT ![t].status = st]
Unpaid == UNCHANGED <<pool, credits, paid>>
Aside == UNCHANGED <<alive, role, invite, session, stale>>

---------------------------------------------------------------------------
(* Handlers that decide on a task's row under its lock *)

(* The sweeper starts a scheduled task whose time has come. *)
ActivateTask(t) == /\ task[t].status = "pending"
                   /\ SetStatus(t, "waiting")
                   /\ runner' = [runner EXCEPT ![t].scheduled = IF task[t].human THEN @ ELSE @ + 1]
                   /\ Unpaid /\ Aside /\ UNCHANGED <<hand, past>>

CancellableUnlessDone(t) == task[t].status \in {"pending", "waiting", "failed"} \* mutant
Cancellable(t) == task[t].status \in {"pending", "waiting"}

CancelTask(t) == /\ Cancellable(t)
                 /\ SetStatus(t, "cancelled")
                 /\ Refund(t, task[t].org)
                 /\ Aside /\ UNCHANGED <<runner, hand, past>>

(* Workers take the last slot of a human task, and hand one back. *)
AssignTask(t) == /\ task[t].human /\ task[t].status = "waiting"
                 /\ SetStatus(t, "assigned")
                 /\ Unpaid /\ Aside /\ UNCHANGED <<runner, hand, past>>
ReleaseTask(t) == /\ task[t].status = "assigned"
                  /\ SetStatus(t, "waiting")
                  /\ Unpaid /\ Aside /\ UNCHANGED <<runner, hand, past>>

(* An answer, after which the task is done, or open for the next, or left  *)
(* as it is for the consensus check.                                       *)
AnswerTask(t, st) ==
  /\ task[t].human /\ task[t].status \in {"waiting", "assigned", "completed"}
  /\ \/ st \in {task[t].status, "completed"}
     \/ st = "waiting" /\ task[t].status = "assigned"
  /\ past[t].answered < MaxPast
  /\ SetStatus(t, st)
  /\ past' = [past EXCEPT ![t].answered = @ + 1]
  /\ Unpaid /\ Aside /\ UNCHANGED <<runner, hand>>

---------------------------------------------------------------------------
(* Handlers that write what a task was when they read it *)

(* One more crossing, if the task was lost, or no longer lost, meanwhile.  *)
Meets(t, seen, gone) ==
  LET crossing == IF Undone(task[t].status) # Undone(seen) \/ gone THEN 1 ELSE 0 IN
  /\ past[t].crossed + crossing <= MaxPast
  /\ past' = [past EXCEPT ![t].crossed = @ + crossing]

(* _run_task looks at the row under its lock; the scheduled runner does    *)
(* not look at it.                                                         *)
StartTask(t) == /\ runner[t].run > 0
                /\ IF task[t].status = "waiting"
                     THEN /\ SetStatus(t, "running")
                          /\ runner' = [runner EXCEPT ![t].run = @ - 1, ![t].executing = @ + 1]
                     ELSE task' = task /\ runner' = [runner EXCEPT ![t].run = @ - 1]
                /\ Unpaid /\ Aside /\ UNCHANGED <<hand, past>>

StartScheduled(t) == /\ runner[t].scheduled > 0
                     /\ SetStatus(t, "running")
                     /\ Meets(t, "waiting", FALSE)
                     /\ runner' = [runner EXCEPT ![t].scheduled = @ - 1, ![t].executing = @ + 1]
                     /\ Unpaid /\ Aside /\ UNCHANGED hand

(* A runner's outcome goes over whatever is there. *)
Finish(t, st) == /\ runner[t].executing > 0
                 /\ SetStatus(t, st)
                 /\ Meets(t, "running", FALSE)
                 /\ runner' = [runner EXCEPT ![t].executing = @ - 1]
                 /\ Aside /\ UNCHANGED hand

CompleteTask(t) == Finish(t, "completed") /\ Unpaid
FailTask(t) == Finish(t, "failed") /\ Refund(t, task[t].org)

(* A coroutine is lost, and with a restart all of them. *)
LoseRunner(t, k) == /\ runner[t][k] > 0
                    /\ runner' = [runner EXCEPT ![t][k] = @ - 1]
                    /\ Unpaid /\ Aside /\ UNCHANGED <<task, hand, past>>

(* bulk_task_action and bulk_cancel_tasks, each task of a request on its   *)
(* own; the sweep of expired claims; a rejection; the consensus check.     *)
Reads(t, op) ==
  CASE op = "cancel" -> task[t].status \in {"pending", "waiting", "running"}
    [] op = "retry"  -> task[t].status = "failed" /\ ~task[t].human
    [] op = "reopen" -> task[t].status = "assigned"
    [] op = "reject" -> past[t].rejected < past[t].answered
    [] op = "settle" -> task[t].status \in {"waiting", "assigned"} /\ past[t].answered > 0

TakeUp(h, t, op) ==
  /\ hand[h] = Empty
  /\ Reads(t, op)
  /\ hand' = [hand EXCEPT ![h] = [op |-> op, of |-> t, seen |-> task[t].status, org |-> task[t].org]]
  /\ Unpaid /\ Aside /\ UNCHANGED <<task, runner, past>>

Lay(h) == hand' = [hand EXCEPT ![h] = Empty]
Handles(h, op) == hand[h].op = op

(* The request fails, or ends, before its commit. *)
Drop(h) == /\ hand[h] # Empty
           /\ Lay(h)
           /\ Unpaid /\ Aside /\ UNCHANGED <<task, runner, past>>

BulkCancel(h) == LET t == hand[h].of IN
                 /\ Handles(h, "cancel")
                 /\ SetStatus(t, "cancelled")
                 /\ Meets(t, hand[h].seen, hand[h].org /\ ~alive)
                 /\ Refund(t, hand[h].org)
                 /\ Lay(h) /\ Aside /\ UNCHANGED runner

(* A retry charges nothing. *)
BulkRetry(h) == LET t == hand[h].of
                    crossing == IF Undone(task[t].status) THEN 0 ELSE 1 IN
                /\ Handles(h, "retry")
                /\ SetStatus(t, "waiting")
                /\ past[t].retried < MaxPast /\ past[t].crossed + crossing <= MaxPast
                /\ past' = [past EXCEPT ![t].retried = @ + 1, ![t].crossed = @ + crossing]
                /\ runner' = [runner EXCEPT ![t].run = @ + 1]
                /\ Lay(h) /\ Unpaid /\ Aside

(* The sweep reopens, and the consensus check closes, what they read.      *)
ReopenTask(h) == LET t == hand[h].of IN
             /\ Handles(h, "reopen")
             /\ SetStatus(t, "waiting")
             /\ Meets(t, hand[h].seen, FALSE)
             /\ Lay(h) /\ Unpaid /\ Aside /\ UNCHANGED runner

SettleTask(h) == LET t == hand[h].of IN
                 /\ Handles(h, "settle")
                 /\ SetStatus(t, "completed")
                 /\ Meets(t, hand[h].seen, FALSE)
                 /\ Lay(h) /\ Unpaid /\ Aside /\ UNCHANGED runner

(* A rejection reopens a task it read as completed, and gives the reward   *)
(* back to the user, also when the pool paid.  The answer is locked.       *)
Reject(h) ==
  LET t == hand[h].of
      reopens == hand[h].seen = "completed"
      crossing == IF reopens /\ Undone(task[t].status) THEN 1 ELSE 0 IN
  /\ Handles(h, "reject")
  /\ past[t].rejected < past[t].answered /\ past[t].crossed + crossing <= MaxPast
  /\ task' = IF reopens THEN [task EXCEPT ![t].status = "waiting"] ELSE task
  /\ past' = [past EXCEPT ![t].rejected = @ + 1, ![t].crossed = @ + crossing]
  /\ credits' = [credits EXCEPT ![task[t].user] = @ + Reward]
  /\ paid' = [paid EXCEPT ![t] = @ - Reward]
  /\ Lay(h) /\ Aside /\ UNCHANGED <<pool, runner>>

---------------------------------------------------------------------------
Request(s) == \/ \E u \in Users, op \in Ops : Begin(s, u, op)
              \/ Refuse(s) \/ Deposit(s) \/ Withdraw(s) \/ DeleteOrg(s)
Membership == \/ \E u, v \in Users : Remove(u, v) \/ \E r \in Given : SetRole(u, v, r)
              \/ \E i \in Invites : \/ DropInvite(i) \/ AcceptInvite(i)
                                    \/ \E u, v \in Users, r \in Given : SendInvite(u, v, i, r)
Tasking(t) == \/ \E u \in Users, human \in BOOLEAN, st \in {"pending", "waiting"} : CreateTask(t, u, human, st)
              \/ \E old \in Tasks : Rerun(t, old)
              \/ ActivateTask(t) \/ CancelTask(t)
              \/ AssignTask(t) \/ ReleaseTask(t) \/ \E st \in TaskStatus : AnswerTask(t, st)
              \/ StartTask(t) \/ StartScheduled(t) \/ CompleteTask(t) \/ FailTask(t)
              \/ \E k \in DOMAIN NoRunner : LoseRunner(t, k)
Handing(h) == \/ \E t \in Tasks, op \in HandOps : TakeUp(h, t, op)
              \/ Drop(h) \/ BulkCancel(h) \/ BulkRetry(h) \/ ReopenTask(h) \/ SettleTask(h) \/ Reject(h)
PoolNext == \/ \E s \in Sessions : Request(s)
            \/ Membership
            \/ \E t \in Tasks : Tasking(t)
            \/ \E h \in Hands : Handing(h)
            \/ \E u \in Users, made \in SUBSET Tasks : \E human \in [made -> BOOLEAN],
                  failed \in 0..Cardinality(Tasks \ made) : CreateBatch(u, human, failed)

PoolSpec == PoolInit /\ [][PoolNext]_poolVars

---------------------------------------------------------------------------
(* Properties *)

(* Every variable keeps its type. *)
PoolTypeOK == /\ alive \in BOOLEAN
              /\ pool \in Nat
              /\ credits \in [Users -> Nat]
              /\ role \in [Users -> Roles]
              /\ invite \in [Invites -> Invite]
              /\ session \in [Sessions -> Session]
              /\ stale \in 0..MaxStale
              /\ task \in [Tasks -> Task]
              /\ runner \in [Tasks -> Coroutines]
              /\ hand \in [Hands -> Hand]
              /\ paid \in [Tasks -> Int]
              /\ past \in [Tasks -> Past]

Total == MapThenSumSet(LAMBDA u : credits[u], Users) + pool + MapThenSumSet(LAMBDA t : paid[t], Tasks)

(* What a task should have cost by now: once, if it is not lost, less what *)
(* was given back before a free retry and for rejected answers.            *)
Owed(t) == (IF task[t].status = "none" \/ Undone(task[t].status) THEN 0 ELSE Cost)
            - Cost * past[t].retried - Reward * past[t].rejected

(* A task that failed or was cancelled was given back, and one that goes   *)
(* on or is done was not, each at most once between two retries; every     *)
(* time a handler writes a task it does not know to be lost, or no longer  *)
(* lost, one cost is given too much or too little, and never more.         *)
RefundsFit == \A t \in Tasks : /\ paid[t] - Owed(t) <= Cost * past[t].crossed
                               /\ Owed(t) - paid[t] <= Cost * past[t].crossed

(* While the organisation exists its creator is its one owner, whatever    *)
(* administrators do to members, roles and invitations; and as long as a   *)
(* task carries the organisation's id, the organisation is there to be     *)
(* refunded.                                                               *)
OrgSound == /\ alive => \A u \in Users : role[u] = "owner" <=> u = Owner
            /\ \A t \in Tasks : task[t].org => alive
=============================================================================
