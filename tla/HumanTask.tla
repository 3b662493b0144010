----------------------------- MODULE HumanTask -----------------------------
(***************************************************************************)
(* The life of one human task of the marketplace: its row in "tasks", the  *)
(* "task_assignments" rows of the workers who claim it, and the credit     *)
(* transactions that name it.                                              *)
(*                                                                         *)
(* PostgreSQL runs READ COMMITTED.  A handler that reads every row it      *)
(* decides on under SELECT ... FOR UPDATE is one action, taken when it     *)
(* commits.  A handler that reads the task row without the lock is two     *)
(* actions, a Read that keeps the row it saw in its database session and a *)
(* Commit that writes back what it changed; anything may happen between.   *)
(***************************************************************************)
EXTENDS Integers, FiniteSets

CONSTANTS Assignments,  \* ids of the assignment rows that can be created
          Workers,      \* users with the worker role
          Answers,      \* non-empty responses a worker can submit
          EmptyAnswer,  \* the response {}
          None,         \* SQL NULL
          Required,     \* tasks.assignments_required
          Strategy,     \* tasks.consensus_strategy
          Scheduled,    \* whether the task was created with a scheduled_at
          Sessions      \* database sessions that can be open between two actions

Strategies == {"any_first", "majority_vote", "unanimous", "requester_review"}

ASSUME RequiredAssumption == Required \in Nat \ {0}
ASSUME StrategyAssumption == Strategy \in Strategies
ASSUME ScheduledAssumption == Scheduled \in BOOLEAN
ASSUME AssignmentsAssumption == IsFiniteSet(Assignments)
ASSUME NoneAssumption == None \notin Assignments \cup Workers \cup Answers \cup {EmptyAnswer}

VARIABLES task,      \* the task row
          asg,       \* the assignment rows
          earnings,  \* number of "earning" transactions of each assignment
          rejects,   \* number of "refund" transactions of each rejected assignment
          refunds,   \* number of full refunds of the task's cost
          sess       \* what each open session has read

vars == <<task, asg, earnings, rejects, refunds, sess>>

---------------------------------------------------------------------------
(* Rows and sessions *)

TaskStatus == {"pending", "open", "assigned", "completed", "cancelled", "archived"}
AssignmentStatus == {"none", "active", "submitted", "approved", "rejected",
                     "released", "timed_out"}

TaskRow == [status: TaskStatus, completed: Nat, winner: Assignments \cup {None},
            dispute: {"none", "disputed", "resolved"},
            output: Answers \cup {EmptyAnswer, None}]

AssignmentRow == [worker: Workers \cup {None}, status: AssignmentStatus,
                  response: Answers \cup {EmptyAnswer, None}, expired: BOOLEAN]

Session == [op: {"idle", "sweep", "consensus", "cancel", "archive", "reject", "resolve"},
            seen: TaskRow, rows: SUBSET Assignments, held: Nat,
            pick: Assignments \cup {None}]

NewRow(s) == [status |-> s, completed |-> 0, winner |-> None, dispute |-> "none",
              output |-> None]
Unclaimed == [worker |-> None, status |-> "none", response |-> None, expired |-> FALSE]
Idle == [op |-> "idle", seen |-> NewRow("pending"), rows |-> {}, held |-> 0, pick |-> None]


(* A claim that ends without an answer; its timeout_at is not read again.   *)
Ended(row, st) == [row EXCEPT !.status = st, !.expired = FALSE]

(* SQLAlchemy's UPDATE names only the columns whose value differs from the  *)
(* one the session loaded; the others keep what other sessions wrote.       *)
Dirty(row, seen, new) == IF new # seen THEN new ELSE row
Flush(row, seen, new) ==
  [status    |-> Dirty(row.status, seen.status, new.status),
   completed |-> Dirty(row.completed, seen.completed, new.completed),
   winner    |-> Dirty(row.winner, seen.winner, new.winner),
   dispute   |-> Dirty(row.dispute, seen.dispute, new.dispute),
   output    |-> Dirty(row.output, seen.output, new.output)]

WithStatus(S) == {a \in Assignments : asg[a].status \in S}
Active == WithStatus({"active"})
Live   == WithStatus({"submitted", "approved"})

NoRowLocks == {} \* mutant

(* Rows the sweeper has locked: other handlers wait, then no longer find    *)
(* them active.                                                             *)
HeldBySweep == UNION {sess[s].rows : s \in {t \in Sessions : sess[t].op = "sweep"}}

Open(s, op, rows, held, pick) ==
  /\ sess[s] = Idle
  /\ sess' = [sess EXCEPT ![s] = [op |-> op, seen |-> task, rows |-> rows,
                                  held |-> held, pick |-> pick]]

Close(s) == sess' = [sess EXCEPT ![s] = Idle]

Init == /\ task = NewRow(IF Scheduled THEN "pending" ELSE "open")
        /\ asg = [a \in Assignments |-> Unclaimed]
        /\ earnings = [a \in Assignments |-> 0]
        /\ rejects = [a \in Assignments |-> 0]
        /\ refunds = 0
        /\ sess = [s \in Sessions |-> Idle]

---------------------------------------------------------------------------
(* The sweeper's activation of a scheduled task, and the workers' handlers *)

Activate == /\ task.status = "pending"
            /\ task' = [task EXCEPT !.status = "open"]
            /\ UNCHANGED <<asg, earnings, rejects, refunds, sess>>

AlreadyAnswered(w) == \E b \in Live : asg[b].worker = w \* mutant
AlreadyClaimed(w) == \E b \in Active \cup Live : asg[b].worker = w

SlotNotDone == task.completed < Required \* mutant
SlotFree == task.completed < Required /\ task.completed + Cardinality(Active) < Required

Claim(w, a) ==
  /\ task.status = "open"
  /\ asg[a] = Unclaimed
  /\ ~AlreadyClaimed(w)
  /\ SlotFree
  /\ asg' = [asg EXCEPT ![a] = [@ EXCEPT !.worker = w, !.status = "active"]]
  /\ task' = IF task.completed + Cardinality(Active) + 1 >= Required
               THEN [task EXCEPT !.status = "assigned"] ELSE task
  /\ UNCHANGED <<earnings, rejects, refunds, sess>>

(* timeout_at passes *)
Expire(a) == /\ asg[a].status = "active" /\ ~asg[a].expired
             /\ asg' = [asg EXCEPT ![a].expired = TRUE]
             /\ UNCHANGED <<task, earnings, rejects, refunds, sess>>

WonByFirst(row, a, x) == \* mutant
  [row EXCEPT !.status = "completed", !.winner = IF @ = None THEN a ELSE @, !.output = x]
Won(row, a, x) == [row EXCEPT !.status = "completed", !.winner = a, !.output = x]

CountedWhileOpen(a, x) == \* mutant
  IF task.status = "assigned" THEN [task EXCEPT !.status = "open"]
    ELSE [task EXCEPT !.completed = @ + 1]

(* The row of the task once assignment a, answered x, is counted. *)
Counted(a, x) ==
  LET row == [task EXCEPT !.completed = @ + 1] IN
  IF row.completed >= Required
    THEN IF Strategy = "any_first" THEN Won(row, a, x) ELSE row
    ELSE IF row.status = "assigned" THEN [row EXCEPT !.status = "open"] ELSE row

(* The transaction that counts and pays; when it fills the last slot of a   *)
(* task decided by consensus, the same request goes on to the consensus     *)
(* check in a second transaction, with the task object it already holds.    *)
Submit(a, x) ==
  /\ asg[a].status = "active" /\ ~asg[a].expired
  /\ a \notin HeldBySweep
  /\ task.status \notin {"cancelled", "archived"}
  /\ asg' = [asg EXCEPT ![a] = [@ EXCEPT !.status = "submitted", !.response = x]]
  /\ task' = Counted(a, x)
  /\ earnings' = [earnings EXCEPT ![a] = @ + 1]
  /\ IF Strategy # "any_first" /\ task'.completed >= Required
       THEN \E s \in Sessions :
              /\ sess[s] = Idle
              /\ sess' = [sess EXCEPT ![s] = [Idle EXCEPT !.op = "consensus", !.seen = task']]
       ELSE UNCHANGED sess
  /\ UNCHANGED <<rejects, refunds>>

(* The submit handler's answer to a claim past its timeout. *)
SubmitLate(a) ==
  /\ asg[a].status = "active" /\ asg[a].expired
  /\ a \notin HeldBySweep
  /\ asg' = [asg EXCEPT ![a] = Ended(@, "timed_out")]
  /\ UNCHANGED <<task, earnings, rejects, refunds, sess>>

Release(a) ==
  /\ asg[a].status = "active"
  /\ a \notin HeldBySweep
  /\ asg' = [asg EXCEPT ![a] = Ended(@, "released")]
  /\ task' = IF task.status = "assigned" THEN [task EXCEPT !.status = "open"] ELSE task
  /\ UNCHANGED <<earnings, rejects, refunds, sess>>

---------------------------------------------------------------------------
(* Consensus (check_and_apply_consensus) *)

Votes(x) == {a \in Live : asg[a].response = x}
Voted == {asg[a].response : a \in Live} \ {EmptyAnswer}

Agreed == IF Strategy = "majority_vote"
            THEN {x \in Voted : 2 * Cardinality(Votes(x)) > Cardinality(Live)}
            ELSE IF Strategy = "unanimous" /\ Cardinality(Voted) = 1 THEN Voted ELSE {}

LeftUndisputed(row) == [row EXCEPT !.status = "completed"] \* mutant
Disputed(row) == [row EXCEPT !.status = "completed", !.dispute = "disputed"]

Consensus(s) ==
  LET seen == sess[s].seen IN
  /\ sess[s].op = "consensus"
  /\ IF Live = {} THEN task' = task
     ELSE IF Agreed # {}
       THEN \E x \in Agreed : \E a \in Votes(x) :
              task' = Flush(task, seen, [seen EXCEPT !.status = "completed", !.winner = a,
                                                     !.dispute = "none", !.output = x])
       ELSE task' = Flush(task, seen, Disputed(seen))
  /\ Close(s)
  /\ UNCHANGED <<asg, earnings, rejects, refunds>>

---------------------------------------------------------------------------
(* The sweeper's pass over expired claims: the assignments are locked, the *)
(* task and the count of held slots are read without a lock.               *)

ExpiredOfAssigned == \* mutant
  {a \in Active : asg[a].expired /\ task.status = "assigned"} \ HeldBySweep
Expired == {a \in Active : asg[a].expired} \ HeldBySweep

SweepRead(s) ==
  /\ Expired # {}
  /\ Open(s, "sweep", Expired,
          Cardinality(WithStatus({"active", "submitted", "approved"})), None)
  /\ UNCHANGED <<task, asg, earnings, rejects, refunds>>

SweepCommit(s) ==
  LET ses == sess[s] IN
  /\ ses.op = "sweep"
  /\ asg' = [a \in Assignments |->
               IF a \in ses.rows THEN Ended(asg[a], "timed_out") ELSE asg[a]]
  /\ task' = IF ses.seen.status = "assigned" /\ ses.held - Cardinality(ses.rows) < Required
               THEN Flush(task, ses.seen, [ses.seen EXCEPT !.status = "open"]) ELSE task
  /\ Close(s)
  /\ UNCHANGED <<earnings, rejects, refunds>>

---------------------------------------------------------------------------
(* The requester's handlers *)

Cancel == /\ task.status \in {"pending", "open"}
          /\ task' = [task EXCEPT !.status = "cancelled"]
          /\ refunds' = refunds + 1
          /\ UNCHANGED <<asg, earnings, rejects, sess>>

BulkCancelRead(s) ==
  /\ task.status \in {"pending", "open"}
  /\ Open(s, "cancel", {}, 0, None)
  /\ UNCHANGED <<task, asg, earnings, rejects, refunds>>

BulkCancelCommit(s) ==
  LET seen == sess[s].seen IN
  /\ sess[s].op = "cancel"
  /\ task' = Flush(task, seen, [seen EXCEPT !.status = "cancelled"])
  /\ refunds' = refunds + 1
  /\ Close(s)
  /\ UNCHANGED <<asg, earnings, rejects>>

BulkArchiveRead(s) ==
  /\ task.status \in {"completed", "cancelled"}
  /\ Open(s, "archive", {}, 0, None)
  /\ UNCHANGED <<task, asg, earnings, rejects, refunds>>

BulkArchiveCommit(s) ==
  LET seen == sess[s].seen IN
  /\ sess[s].op = "archive"
  /\ task' = Flush(task, seen, [seen EXCEPT !.status = "archived"])
  /\ Close(s)
  /\ UNCHANGED <<asg, earnings, rejects, refunds>>

(* approve_submission decides on the assignment only, which it locks. *)
Approve(a) ==
  /\ asg[a].status = "submitted"
  /\ asg' = [asg EXCEPT ![a].status = "approved"]
  /\ UNCHANGED <<task, earnings, rejects, refunds, sess>>

(* reject_submission reads the task, then locks the assignment. *)
RejectRead(s, a) ==
  /\ asg[a].status \in {"active", "submitted"}
  /\ Open(s, "reject", {}, 0, a)
  /\ UNCHANGED <<task, asg, earnings, rejects, refunds>>

NotYetRejected(a) == asg[a].status \in {"submitted", "approved", "rejected"} \* mutant
NotYetReviewed(a) == asg[a].status \in {"active", "submitted"} \* mutant
Rejectable(a) == asg[a].status = "submitted"

RefundReward(a) == rejects' = [rejects EXCEPT ![a] = @ + 1]

ReopenedAnyway(seen) == \* mutant
  IF seen.completed > 0 THEN [seen EXCEPT !.completed = @ - 1, !.status = "open"] ELSE seen

Reopened(seen) ==
  IF seen.status = "completed" /\ seen.completed > 0
    THEN [seen EXCEPT !.completed = @ - 1, !.status = "open"] ELSE seen

RejectCommit(s) ==
  LET ses == sess[s]
      a   == ses.pick IN
  /\ ses.op = "reject"
  /\ Rejectable(a)
  /\ asg' = [asg EXCEPT ![a].status = "rejected"]
  /\ RefundReward(a)
  /\ task' = Flush(task, ses.seen, Reopened(ses.seen))
  /\ Close(s)
  /\ UNCHANGED <<earnings, refunds>>

(* resolve_dispute reads the task, the winner and the submitted rows, and   *)
(* locks none of them.                                                      *)
ResolveRead(s, a) ==
  /\ task.dispute = "disputed"
  /\ a \in Live
  /\ Open(s, "resolve", WithStatus({"submitted"}), 0, a)
  /\ UNCHANGED <<task, asg, earnings, rejects, refunds>>

ResolveCommit(s) ==
  LET ses == sess[s] IN
  /\ ses.op = "resolve"
  /\ task' = Flush(task, ses.seen,
                   [ses.seen EXCEPT !.winner = ses.pick, !.dispute = "resolved",
                                    !.output = asg[ses.pick].response])
  /\ asg' = [a \in Assignments |->
               IF a \in ses.rows
                 THEN [asg[a] EXCEPT !.status = IF a = ses.pick THEN "approved" ELSE "rejected"]
                 ELSE asg[a]]
  /\ Close(s)
  /\ UNCHANGED <<earnings, rejects, refunds>>

(* A request that raises (a failed check under the lock, an error, a lost   *)
(* connection, the process going down) rolls its open transaction back.     *)
Rollback(s) == /\ sess[s] # Idle
               /\ Close(s)
               /\ UNCHANGED <<task, asg, earnings, rejects, refunds>>

---------------------------------------------------------------------------

WorkerNext == \/ \E a \in Assignments : \/ \E w \in Workers : Claim(w, a)
                                        \/ \E x \in Answers \cup {EmptyAnswer} : Submit(a, x)
                                        \/ SubmitLate(a)
                                        \/ Release(a)
                                        \/ Expire(a)
              \/ \E s \in Sessions : Consensus(s)

SweeperNext == Activate \/ \E s \in Sessions : SweepRead(s) \/ SweepCommit(s)

RequesterNext == \/ Cancel
                 \/ \E a \in Assignments : Approve(a)
                 \/ \E s \in Sessions :
                      \/ BulkCancelRead(s) \/ BulkCancelCommit(s)
                      \/ BulkArchiveRead(s) \/ BulkArchiveCommit(s)
                      \/ RejectCommit(s) \/ ResolveCommit(s)
                      \/ \E a \in Assignments : RejectRead(s, a) \/ ResolveRead(s, a)

Next == WorkerNext \/ SweeperNext \/ RequesterNext \/ \E s \in Sessions : Rollback(s)

Spec == Init /\ [][Next]_vars

(* Time passes; every open session ends; the sweeper's loop comes round     *)
(* again whatever became of its last pass, and not every pass fails.        *)
Fairness == /\ \A a \in Assignments : WF_vars(Expire(a))
            /\ \A s \in Sessions : WF_vars(Rollback(s)) /\ WF_vars(Consensus(s))
            /\ SF_vars(\E s \in Sessions : SweepRead(s))
            /\ \A s \in Sessions : SF_vars(SweepCommit(s))

LiveSpec == Spec /\ Fairness

---------------------------------------------------------------------------
(* Properties *)

(* Every row and every session snapshot holds the values its columns allow. *)
TypeOK == /\ task \in TaskRow
          /\ asg \in [Assignments -> AssignmentRow]
          /\ earnings \in [Assignments -> Nat]
          /\ rejects \in [Assignments -> Nat]
          /\ refunds \in Nat
          /\ sess \in [Sessions -> Session]
          /\ \A s \in Sessions :
               sess[s].op \in {"reject", "resolve"} => sess[s].pick \in Assignments

(* The slots counted as done and the claims being worked on never exceed    *)
(* the workers the task asked for, whatever unlocked writes of the sweeper, *)
(* bulk endpoints and rejections fall between a claim's check and later     *)
(* claims ("over-assign a task", claim_task).                               *)
NoOverAssignment == task.completed + Cardinality(Active) <= Required

(* A worker holds at most one active claim on the task: submit_task and     *)
(* release_task look the claim up with scalar_one_or_none.                  *)
OneActiveClaim == \A a, b \in Active : asg[a].worker = asg[b].worker => a = b

(* A worker is paid exactly once for each answer that was accepted for      *)
(* review, and never for a claim that was released or ran out: the pay in   *)
(* submit_task agrees with what sweeper, reviews and resolutions leave.     *)
PaidOncePerSubmission ==
  \A a \in Assignments :
    earnings[a] = IF asg[a].status \in {"submitted", "approved", "rejected"} THEN 1 ELSE 0

(* The requester is refunded at most once for an assignment, and a refunded *)
(* one can never be rejected (refunded) again (reject_submission).          *)
RefundedOncePerRejection ==
  \A a \in Assignments :
    rejects[a] <= 1 /\ (rejects[a] = 1 => asg[a].status \in {"approved", "rejected"})

(* However claims, answers, timeouts and reviews of the workers overlap, a  *)
(* worker holds one claim at a time and is paid once for each answer, and   *)
(* what a rejection returns is returned once.                               *)
PayOnce == OneActiveClaim /\ PaidOncePerSubmission /\ RefundedOncePerRejection

(* What a session decided on still holds when it commits: rows the sweeper   *)
(* locked stay active and are locked once (SKIP LOCKED), and a resolution's *)
(* rows, locked by nobody, can only have been reviewed.                     *)
RowsKept ==
  /\ \A s \in Sessions : sess[s].op = "sweep" => sess[s].rows \subseteq Active
  /\ \A s, t \in Sessions :
       s # t /\ sess[s].op = "sweep" /\ sess[t].op = "sweep" => sess[s].rows \cap sess[t].rows = {}
  /\ \A s \in Sessions :
       sess[s].op = "resolve" =>
         sess[s].rows \subseteq WithStatus({"submitted", "approved", "rejected"})

Paid     == {a \in Assignments : earnings[a] > 0}
Refunded == {a \in Assignments : rejects[a] > 0}

(* No more answers are paid for than the slots charged at creation plus the *)
(* slots whose reward went back to the requester: reopening after a         *)
(* rejection, even from a stale count, never frees two slots for one refund.*)
DisbursementBounded == Cardinality(Paid) <= Required + Cardinality(Refunded)

(* The counter behind the slots of an any_first task: a completed task has  *)
(* counted every slot, a counted slot is paid or refunded, and a rejection  *)
(* that saw the task completed meets a count at most one below it.          *)
SlotsAccounted ==
  /\ task.status = "completed" => task.completed = Required
  /\ Cardinality(Paid) <= task.completed + Cardinality(Refunded)
  /\ \A s \in Sessions :
       sess[s].op = "reject" /\ sess[s].seen.status = "completed" =>
         sess[s].seen.completed = Required /\ task.completed >= Required - 1

(* Claims, answers, timeouts and rejections of an any_first task keep its   *)
(* slots, its counter and the money paid for them in step.                  *)
SlotsKept == NoOverAssignment /\ SlotsAccounted /\ DisbursementBounded

(* The task's output is the response of the assignment recorded as winner.  *)
OutputIsWinners == task.winner # None => task.output = asg[task.winner].response

(* A completed task has an output unless it is waiting in dispute, across   *)
(* consensus, resolution, reopening and the writes of stale sessions.       *)
DecidedOrDisputed ==
  task.status = "completed" /\ task.output = None => task.dispute = "disputed"

(* The task, seen through its money, is an escrow of Required slots.        *)
Escrow == INSTANCE SlotEscrow WITH Slots <- Assignments, Capacity <- Required,
                                   claimed <- Active, paid <- Paid, refunded <- Refunded

EscrowSpec == Escrow!Spec

(* A claim whose timeout has passed does not stay active for ever.          *)
ExpiredClaimEnds ==
  \A a \in Assignments :
    (asg[a].status = "active" /\ asg[a].expired) ~> asg[a].status # "active"

---------------------------------------------------------------------------
(* What the source says of itself, and the code does not do *)

(* worker.py: on cancelled tasks "no state mutations should occur".         *)
CancelledIsFinal ==
  [][task.status = "cancelled" => task'.status \in {"cancelled", "archived"}]_vars

(* A task's cost is refunded once ("Edge cases: double-cancel").            *)
RefundedAtMostOnce == refunds <= 1

(* The sweeper "reopens stalled tasks".                                     *)
StalledTaskReopens ==
  (task.status = "assigned" /\ Active = {}) ~> task.status # "assigned"

=============================================================================
