-------------------------- MODULE HumanTaskProofs --------------------------
EXTENDS HumanTask, TLAPS, FiniteSetTheorems

LEMMA FlushType ==
  ASSUME NEW row \in TaskRow, NEW seen \in TaskRow, NEW new \in TaskRow
  PROVE  Flush(row, seen, new) \in TaskRow
BY DEF Flush, Dirty, TaskRow

LEMMA NewRowType == \A st \in TaskStatus : NewRow(st) \in TaskRow
BY DEF NewRow, TaskRow, TaskStatus

LEMMA IdleType == Idle \in Session
BY NewRowType DEF Idle, Session, TaskStatus

LEMMA ReopenedType == \A seen \in TaskRow : Reopened(seen) \in TaskRow
<1> SUFFICES ASSUME NEW seen \in TaskRow PROVE Reopened(seen) \in TaskRow
  OBVIOUS
<1>1. CASE seen.status = "completed" /\ seen.completed > 0
  <2>1. seen.completed \in Nat /\ seen.completed - 1 \in Nat
    BY <1>1 DEF TaskRow
  <2> QED BY <1>1, <2>1 DEF Reopened, TaskRow, TaskStatus
<1>2. CASE ~(seen.status = "completed" /\ seen.completed > 0)
  BY <1>2 DEF Reopened
<1> QED BY <1>1, <1>2

LEMMA CountedType ==
  ASSUME task \in TaskRow, NEW a \in Assignments, NEW x \in Answers \cup {EmptyAnswer}
  PROVE  Counted(a, x) \in TaskRow
<1> DEFINE row == [task EXCEPT !.completed = @ + 1]
<1>1. row \in TaskRow
  BY DEF TaskRow
<1>2. \A r \in TaskRow : Won(r, a, x) \in TaskRow /\ [r EXCEPT !.status = "open"] \in TaskRow
  BY DEF Won, TaskRow, TaskStatus
<1>3. Counted(a, x) \in {row, Won(row, a, x), [row EXCEPT !.status = "open"]}
  BY DEF Counted
<1> QED BY <1>1, <1>2, <1>3

LEMMA ConsensusType ==
  ASSUME TypeOK, NEW s \in Sessions, Consensus(s)
  PROVE  task' \in TaskRow
<1> DEFINE seen == sess[s].seen
<1>1. seen \in TaskRow /\ task \in TaskRow
  BY DEF TypeOK, Session
<1>2. CASE Live = {}
  BY <1>1, <1>2 DEF Consensus
<1>3. CASE Live # {} /\ Agreed # {}
  <2>1. PICK x \in Agreed : \E a \in Votes(x) :
              task' = Flush(task, seen, [seen EXCEPT !.status = "completed", !.winner = a,
                                                     !.dispute = "none", !.output = x])
    BY <1>3 DEF Consensus
  <2>2. PICK a \in Votes(x) :
              task' = Flush(task, seen, [seen EXCEPT !.status = "completed", !.winner = a,
                                                     !.dispute = "none", !.output = x])
    BY <2>1
  <2>3. a \in Assignments /\ asg[a].response = x
    BY DEF Votes, Live, WithStatus
  <2>4. asg[a].response \in Answers \cup {EmptyAnswer, None}
    BY <2>3 DEF TypeOK, AssignmentRow
  <2>5. [seen EXCEPT !.status = "completed", !.winner = a, !.dispute = "none", !.output = x] \in TaskRow
    BY <1>1, <2>3, <2>4 DEF TaskRow, TaskStatus
  <2> QED BY <1>1, <2>2, <2>5, FlushType
<1>4. CASE Live # {} /\ Agreed = {}
  <2>1. task' = Flush(task, seen, Disputed(seen))
    BY <1>4 DEF Consensus
  <2>2. Disputed(seen) \in TaskRow
    BY <1>1 DEF Disputed, TaskRow, TaskStatus
  <2> QED BY <1>1, <2>1, <2>2, FlushType
<1> QED BY <1>2, <1>3, <1>4

LEMMA OpenType ==
  ASSUME TypeOK, NEW s \in Sessions,
         NEW op \in {"sweep", "cancel", "archive", "reject", "resolve"},
         NEW rows \in SUBSET Assignments, NEW held \in Nat,
         NEW pick \in Assignments \cup {None},
         op \in {"reject", "resolve"} => pick \in Assignments,
         Open(s, op, rows, held, pick), task' = task
  PROVE  /\ sess' \in [Sessions -> Session]
         /\ \A t \in Sessions :
              sess'[t].op \in {"reject", "resolve"} => sess'[t].pick \in Assignments
BY DEF TypeOK, Open, Session

LEMMA CloseType ==
  ASSUME TypeOK, NEW s \in Sessions, Close(s)
  PROVE  /\ sess' \in [Sessions -> Session]
         /\ \A t \in Sessions :
              sess'[t].op \in {"reject", "resolve"} => sess'[t].pick \in Assignments
BY IdleType DEF TypeOK, Close, Idle

LEMMA HeldType == \A S \in SUBSET AssignmentStatus : Cardinality(WithStatus(S)) \in Nat
BY AssignmentsAssumption, FS_Subset, FS_CardinalityType DEF WithStatus, AssignmentsAssumption

(* One step per action; what an action leaves alone keeps its type. *)
LEMMA TypeStep == TypeOK /\ [Next]_vars => TypeOK'
<1> SUFFICES ASSUME TypeOK, [Next]_vars PROVE TypeOK'
  OBVIOUS
<1> USE DEF TypeOK
<1>1. CASE Activate
  BY <1>1 DEF Activate, TaskRow, TaskStatus
<1>2. ASSUME NEW a \in Assignments, NEW w \in Workers, Claim(w, a) PROVE TypeOK'
  <2>1. task' \in TaskRow
    BY <1>2 DEF Claim, TaskRow, TaskStatus
  <2>2. asg' \in [Assignments -> AssignmentRow]
    BY <1>2 DEF Claim, AssignmentRow, AssignmentStatus
  <2> QED BY <1>2, <2>1, <2>2 DEF Claim
<1>3. ASSUME NEW a \in Assignments, NEW x \in Answers \cup {EmptyAnswer}, Submit(a, x)
      PROVE  TypeOK'
  <2>1. task' \in TaskRow
    BY <1>3, CountedType DEF Submit
  <2>2. asg' \in [Assignments -> AssignmentRow]
    BY <1>3 DEF Submit, AssignmentRow, AssignmentStatus
  <2>3. earnings' \in [Assignments -> Nat]
    BY <1>3 DEF Submit
  <2>4. /\ sess' \in [Sessions -> Session]
        /\ \A t \in Sessions :
             sess'[t].op \in {"reject", "resolve"} => sess'[t].pick \in Assignments
    <3>1. CASE sess' = sess
      BY <3>1
    <3>2. CASE \E s \in Sessions :
                 sess' = [sess EXCEPT ![s] = [Idle EXCEPT !.op = "consensus", !.seen = task']]
      <4>1. [Idle EXCEPT !.op = "consensus", !.seen = task'] \in Session
        BY <2>1, IdleType DEF Session
      <4>2. [Idle EXCEPT !.op = "consensus", !.seen = task'].op = "consensus"
        BY DEF Idle
      <4> QED BY <3>2, <4>1, <4>2
    <3> QED BY <1>3, <3>1, <3>2 DEF Submit
  <2> QED BY <1>3, <2>1, <2>2, <2>3, <2>4 DEF Submit
<1>4. ASSUME NEW a \in Assignments, SubmitLate(a) PROVE TypeOK'
  BY <1>4 DEF SubmitLate, Ended, AssignmentRow, AssignmentStatus
<1>5. ASSUME NEW a \in Assignments, Release(a) PROVE TypeOK'
  <2>1. task' \in TaskRow
    BY <1>5 DEF Release, TaskRow, TaskStatus
  <2>2. asg' \in [Assignments -> AssignmentRow]
    BY <1>5 DEF Release, Ended, AssignmentRow, AssignmentStatus
  <2> QED BY <1>5, <2>1, <2>2 DEF Release
<1>6. ASSUME NEW a \in Assignments, Expire(a) PROVE TypeOK'
  BY <1>6 DEF Expire, AssignmentRow
<1>7. ASSUME NEW s \in Sessions, Consensus(s) PROVE TypeOK'
  BY <1>7, ConsensusType, CloseType DEF Consensus
<1>8. ASSUME NEW s \in Sessions, SweepRead(s) PROVE TypeOK'
  <2>1. Expired \in SUBSET Assignments
    BY DEF Expired, Active, WithStatus
  <2>2. Cardinality(WithStatus({"active", "submitted", "approved"})) \in Nat
    BY HeldType DEF AssignmentStatus
  <2> QED BY <1>8, <2>1, <2>2, OpenType DEF SweepRead
<1>9. ASSUME NEW s \in Sessions, SweepCommit(s) PROVE TypeOK'
  <2>1. task' \in TaskRow
    <3>1. [sess[s].seen EXCEPT !.status = "open"] \in TaskRow /\ sess[s].seen \in TaskRow
      BY DEF Session, TaskRow, TaskStatus
    <3> QED BY <1>9, <3>1, FlushType DEF SweepCommit
  <2>2. asg' \in [Assignments -> AssignmentRow]
    BY <1>9 DEF SweepCommit, Ended, AssignmentRow, AssignmentStatus
  <2> QED BY <1>9, <2>1, <2>2, CloseType DEF SweepCommit
<1>10. CASE Cancel
  BY <1>10 DEF Cancel, TaskRow, TaskStatus
<1>11. ASSUME NEW a \in Assignments, Approve(a) PROVE TypeOK'
  BY <1>11 DEF Approve, AssignmentRow, AssignmentStatus
<1>12. ASSUME NEW s \in Sessions, BulkCancelRead(s) \/ BulkArchiveRead(s) PROVE TypeOK'
  BY <1>12, OpenType DEF BulkCancelRead, BulkArchiveRead
<1>13. ASSUME NEW s \in Sessions, BulkCancelCommit(s) PROVE TypeOK'
  <2>1. [sess[s].seen EXCEPT !.status = "cancelled"] \in TaskRow /\ sess[s].seen \in TaskRow
    BY DEF Session, TaskRow, TaskStatus
  <2> QED BY <1>13, <2>1, FlushType, CloseType DEF BulkCancelCommit
<1>14. ASSUME NEW s \in Sessions, BulkArchiveCommit(s) PROVE TypeOK'
  <2>1. [sess[s].seen EXCEPT !.status = "archived"] \in TaskRow /\ sess[s].seen \in TaskRow
    BY DEF Session, TaskRow, TaskStatus
  <2> QED BY <1>14, <2>1, FlushType, CloseType DEF BulkArchiveCommit
<1>15. ASSUME NEW s \in Sessions, RejectCommit(s) PROVE TypeOK'
  <2>1. sess[s].seen \in TaskRow /\ sess[s].pick \in Assignments
    BY <1>15 DEF RejectCommit, Session
  <2>2. Reopened(sess[s].seen) \in TaskRow
    BY <2>1, ReopenedType
  <2>3. asg' \in [Assignments -> AssignmentRow]
    BY <1>15, <2>1 DEF RejectCommit, AssignmentRow, AssignmentStatus
  <2>4. rejects' \in [Assignments -> Nat]
    BY <1>15, <2>1 DEF RejectCommit, RefundReward
  <2> QED BY <1>15, <2>1, <2>2, <2>3, <2>4, FlushType, CloseType DEF RejectCommit
<1>16. ASSUME NEW s \in Sessions, ResolveCommit(s) PROVE TypeOK'
  <2>1. sess[s].seen \in TaskRow /\ sess[s].pick \in Assignments
    BY <1>16 DEF ResolveCommit, Session
  <2>2. asg[sess[s].pick].response \in Answers \cup {EmptyAnswer, None}
    BY <2>1 DEF AssignmentRow
  <2>3. [sess[s].seen EXCEPT !.winner = sess[s].pick, !.dispute = "resolved",
                             !.output = asg[sess[s].pick].response] \in TaskRow
    BY <2>1, <2>2 DEF TaskRow
  <2>4. asg' \in [Assignments -> AssignmentRow]
    BY <1>16 DEF ResolveCommit, AssignmentRow, AssignmentStatus
  <2> QED BY <1>16, <2>1, <2>3, <2>4, FlushType, CloseType DEF ResolveCommit
<1>17. ASSUME NEW s \in Sessions, NEW a \in Assignments, RejectRead(s, a) PROVE TypeOK'
  BY <1>17, OpenType DEF RejectRead
<1>18. ASSUME NEW s \in Sessions, NEW a \in Assignments, ResolveRead(s, a) PROVE TypeOK'
  <2>1. WithStatus({"submitted"}) \in SUBSET Assignments
    BY DEF WithStatus
  <2> QED BY <1>18, <2>1, OpenType DEF ResolveRead
<1>19. ASSUME NEW s \in Sessions, Rollback(s) PROVE TypeOK'
  BY <1>19, CloseType DEF Rollback
<1>20. CASE UNCHANGED vars
  BY <1>20 DEF vars
<1> QED
  BY <1>1, <1>2, <1>3, <1>4, <1>5, <1>6, <1>7, <1>8, <1>9, <1>10, <1>11, <1>12, <1>13,
     <1>14, <1>15, <1>16, <1>17, <1>18, <1>19, <1>20
     DEF Next, WorkerNext, SweeperNext, RequesterNext

THEOREM TypeCorrect == Spec => []TypeOK
<1>1. Init => TypeOK
  BY NewRowType, IdleType, ScheduledAssumption
     DEF Init, TypeOK, AssignmentRow, AssignmentStatus, Unclaimed, TaskStatus, Idle
<1> QED BY <1>1, TypeStep, PTL DEF Spec

---------------------------------------------------------------------------
(* Rows, pay and rejections, whatever the strategy.  Pay is single because  *)
(* only an active row is submitted and only a submitted one is rejected;    *)
(* that the sweeper does not end a submitted row is RowsKept: its rows are  *)
(* still active when it commits, since nobody else can change them.         *)

RowInv == /\ RowsKept
          /\ OneActiveClaim
          /\ PaidOncePerSubmission
          /\ RefundedOncePerRejection

(* An action that changes no assignment and opens no sweep or resolution.   *)
LEMMA RowsUntouched ==
  ASSUME TypeOK, RowInv, UNCHANGED <<asg, earnings, rejects>>,
         \A t \in Sessions : \/ sess'[t] = sess[t]
                             \/ sess'[t].op \notin {"sweep", "resolve"}
  PROVE  RowInv'
<1>1. Active' = Active /\ WithStatus({"submitted", "approved", "rejected"})'
        = WithStatus({"submitted", "approved", "rejected"})
  BY DEF Active, WithStatus
<1>2. RowsKept'
  BY <1>1 DEF RowInv, RowsKept
<1> QED BY <1>1, <1>2 DEF RowInv, OneActiveClaim, PaidOncePerSubmission, RefundedOncePerRejection

(* An action of one assignment a, not locked by the sweeper, that keeps its *)
(* worker, leaves it inactive, and keeps the books on it.                   *)
LEMMA RowEnded ==
  ASSUME TypeOK, RowInv, NEW a \in Assignments, a \notin HeldBySweep,
         \A b \in Assignments \ {a} :
            /\ asg'[b].status = asg[b].status /\ asg'[b].worker = asg[b].worker
            /\ earnings'[b] = earnings[b] /\ rejects'[b] = rejects[b],
         asg'[a].status # "active",
         asg[a].status \in {"submitted", "approved", "rejected"}
            => asg'[a].status \in {"submitted", "approved", "rejected"},
         earnings'[a] = IF asg'[a].status \in {"submitted", "approved", "rejected"} THEN 1 ELSE 0,
         rejects'[a] <= 1,
         rejects'[a] = 1 => asg'[a].status \in {"approved", "rejected"},
         \A t \in Sessions : \/ sess'[t] = sess[t]
                             \/ sess'[t].op \notin {"sweep", "resolve"}
  PROVE  RowInv'
<1>1. Active' = Active \ {a}
  BY DEF Active, WithStatus
<1>2. WithStatus({"submitted", "approved", "rejected"})
        \subseteq WithStatus({"submitted", "approved", "rejected"})'
  BY DEF WithStatus
<1>3. \A t \in Sessions : sess[t].op = "sweep" => a \notin sess[t].rows
  BY DEF HeldBySweep
<1>4. RowsKept'
  BY <1>1, <1>2, <1>3 DEF RowInv, RowsKept
<1>5. OneActiveClaim'
  BY <1>1 DEF RowInv, OneActiveClaim, Active, WithStatus
<1>6. PaidOncePerSubmission' /\ RefundedOncePerRejection'
  BY DEF RowInv, PaidOncePerSubmission, RefundedOncePerRejection
<1> QED BY <1>4, <1>5, <1>6 DEF RowInv

LEMMA SweptRowsActive ==
  ASSUME RowInv PROVE HeldBySweep \subseteq Active
BY DEF HeldBySweep, RowInv, RowsKept

LEMMA ActiveBooks ==
  ASSUME TypeOK, RowInv, NEW a \in Assignments, asg[a].status = "active"
  PROVE  earnings[a] = 0 /\ rejects[a] = 0
<1>1. rejects[a] \in Nat /\ rejects[a] <= 1 /\ rejects[a] # 1
  BY DEF TypeOK, RowInv, RefundedOncePerRejection
<1> QED BY <1>1 DEF RowInv, PaidOncePerSubmission

LEMMA RowStep == TypeOK /\ RowInv /\ [Next]_vars => RowInv'
<1> SUFFICES ASSUME TypeOK, RowInv, [Next]_vars PROVE RowInv'
  OBVIOUS
<1>1. ASSUME Activate \/ Cancel \/ UNCHANGED vars PROVE RowInv'
  BY <1>1, RowsUntouched DEF Activate, Cancel, vars
<1>2. ASSUME NEW a \in Assignments, NEW w \in Workers, Claim(w, a) PROVE RowInv'
  <2>1. asg[a].status = "none"
    BY <1>2 DEF Claim, Unclaimed
  <2>2. /\ asg'[a].status = "active" /\ asg'[a].worker = w
        /\ \A b \in Assignments \ {a} : asg'[b] = asg[b]
    BY <1>2 DEF Claim, TypeOK, AssignmentRow
  <2>3. Active' = Active \cup {a} /\ a \notin Active
    BY <2>1, <2>2 DEF Active, WithStatus
  <2>4. RowsKept'
    BY <1>2, <2>1, <2>2, <2>3 DEF Claim, RowInv, RowsKept, WithStatus
  <2>5. OneActiveClaim'
    BY <1>2, <2>2, <2>3 DEF Claim, AlreadyClaimed, RowInv, OneActiveClaim
  <2>6. PaidOncePerSubmission' /\ RefundedOncePerRejection'
    BY <1>2, <2>1, <2>2
       DEF Claim, RowInv, PaidOncePerSubmission, RefundedOncePerRejection, TypeOK
  <2> QED BY <2>4, <2>5, <2>6 DEF RowInv
<1>3. ASSUME NEW a \in Assignments, NEW x \in Answers \cup {EmptyAnswer}, Submit(a, x)
      PROVE  RowInv'
  <2>1. /\ a \notin HeldBySweep
        /\ asg[a].status = "active" /\ earnings[a] = 0 /\ rejects[a] = 0
    BY <1>3, ActiveBooks DEF Submit
  <2>2. /\ asg'[a].status = "submitted" /\ earnings'[a] = 1 /\ rejects' = rejects
        /\ \A b \in Assignments \ {a} : asg'[b] = asg[b] /\ earnings'[b] = earnings[b]
    BY <1>3, <2>1 DEF Submit, TypeOK, AssignmentRow
  <2>3. \A t \in Sessions : sess'[t] = sess[t] \/ sess'[t].op \notin {"sweep", "resolve"}
    BY <1>3 DEF Submit, TypeOK, Idle
  <2> QED BY <2>1, <2>2, <2>3, RowEnded
<1>4. ASSUME NEW a \in Assignments, SubmitLate(a) \/ Release(a) PROVE RowInv'
  <2>1. /\ a \notin HeldBySweep
        /\ asg[a].status = "active" /\ earnings[a] = 0 /\ rejects[a] = 0
    BY <1>4, ActiveBooks DEF SubmitLate, Release
  <2>2. /\ asg'[a].status \in {"timed_out", "released"}
        /\ \A b \in Assignments \ {a} : asg'[b] = asg[b]
    <3>1. \E st \in {"timed_out", "released"} : asg' = [asg EXCEPT ![a] = Ended(@, st)]
      BY <1>4 DEF SubmitLate, Release
    <3>2. asg[a] \in AssignmentRow /\ asg \in [Assignments -> AssignmentRow]
      BY DEF TypeOK
    <3> QED BY <3>1, <3>2 DEF Ended, AssignmentRow
  <2>3. earnings' = earnings /\ rejects' = rejects /\ sess' = sess
    BY <1>4 DEF SubmitLate, Release
  <2> QED BY <2>1, <2>2, <2>3, RowEnded
<1>5. ASSUME NEW a \in Assignments, Expire(a) PROVE RowInv'
  <2>1. \A b \in Assignments : /\ asg'[b].status = asg[b].status
                               /\ asg'[b].worker = asg[b].worker
    BY <1>5 DEF Expire, TypeOK, AssignmentRow
  <2>2. Active' = Active /\ WithStatus({"submitted", "approved", "rejected"})'
          = WithStatus({"submitted", "approved", "rejected"})
    BY <2>1 DEF Active, WithStatus
  <2> QED BY <1>5, <2>1, <2>2 DEF Expire, RowInv, RowsKept, OneActiveClaim, Active, WithStatus,
             PaidOncePerSubmission, RefundedOncePerRejection
<1>6. ASSUME NEW s \in Sessions,
             Consensus(s) \/ BulkCancelCommit(s) \/ BulkArchiveCommit(s) \/ Rollback(s)
      PROVE  RowInv'
  <2>1. UNCHANGED <<asg, earnings, rejects>> /\ Close(s)
    BY <1>6 DEF Consensus, BulkCancelCommit, BulkArchiveCommit, Rollback
  <2> QED BY <2>1, RowsUntouched DEF Close, Idle, TypeOK
<1>7. ASSUME NEW s \in Sessions,
             BulkCancelRead(s) \/ BulkArchiveRead(s) \/ \E a \in Assignments : RejectRead(s, a)
      PROVE  RowInv'
  BY <1>7, RowsUntouched DEF BulkCancelRead, BulkArchiveRead, RejectRead, Open, TypeOK
<1>8. ASSUME NEW s \in Sessions, SweepRead(s) PROVE RowInv'
  <2>1. /\ sess'[s].op = "sweep" /\ sess'[s].rows = Expired
        /\ \A t \in Sessions \ {s} : sess'[t] = sess[t]
    BY <1>8 DEF SweepRead, Open, TypeOK
  <2>2. \A t \in Sessions : sess[t].op = "sweep" => sess[t].rows \cap Expired = {}
    BY DEF Expired, HeldBySweep
  <2>3. Active' = Active /\ asg' = asg /\ Expired \subseteq Active
    BY <1>8 DEF SweepRead, Active, WithStatus, Expired
  <2>4. RowsKept'
    BY <2>1, <2>2, <2>3 DEF RowInv, RowsKept, WithStatus
  <2> QED BY <1>8, <2>3, <2>4 DEF SweepRead, RowInv, OneActiveClaim, PaidOncePerSubmission,
             RefundedOncePerRejection
<1>9. ASSUME NEW s \in Sessions, SweepCommit(s) PROVE RowInv'
  <2> DEFINE R == sess[s].rows
  <2>1. /\ R \subseteq Active
        /\ \A t \in Sessions \ {s} : sess[t].op = "sweep" => sess[t].rows \subseteq Active \ R
    BY <1>9 DEF SweepCommit, RowInv, RowsKept
  <2>2. \A b \in Assignments : /\ asg'[b].worker = asg[b].worker
                               /\ b \in R => asg'[b].status = "timed_out"
                               /\ b \notin R => asg'[b] = asg[b]
    BY <1>9 DEF SweepCommit, Ended, TypeOK, AssignmentRow
  <2>3. Active' = Active \ R
    BY <2>2 DEF Active, WithStatus
  <2>4. sess'[s].op = "idle" /\ \A t \in Sessions \ {s} : sess'[t] = sess[t]
    BY <1>9 DEF SweepCommit, Close, Idle, TypeOK
  <2>5. WithStatus({"submitted", "approved", "rejected"})
          \subseteq WithStatus({"submitted", "approved", "rejected"})'
    BY <2>1, <2>2 DEF WithStatus, Active
  <2>6. RowsKept'
    BY <2>1, <2>3, <2>4, <2>5 DEF RowInv, RowsKept
  <2>7. OneActiveClaim'
    BY <2>2, <2>3 DEF RowInv, OneActiveClaim, Active, WithStatus
  <2>8. PaidOncePerSubmission' /\ RefundedOncePerRejection'
    BY <1>9, <2>1, <2>2 DEF SweepCommit, RowInv, PaidOncePerSubmission, RefundedOncePerRejection,
                            Active, WithStatus
  <2> QED BY <2>6, <2>7, <2>8 DEF RowInv
<1>10. ASSUME NEW a \in Assignments, Approve(a) PROVE RowInv'
  <2>1. a \notin HeldBySweep /\ asg[a].status = "submitted"
    BY <1>10, SweptRowsActive DEF Approve, Active, WithStatus
  <2>2. asg'[a].status = "approved" /\ \A b \in Assignments \ {a} : asg'[b] = asg[b]
    BY <1>10 DEF Approve, TypeOK, AssignmentRow
  <2>3. earnings[a] = 1 /\ rejects[a] <= 1
    BY <2>1 DEF RowInv, PaidOncePerSubmission, RefundedOncePerRejection
  <2>4. earnings' = earnings /\ rejects' = rejects /\ sess' = sess
    BY <1>10 DEF Approve
  <2> QED BY <2>1, <2>2, <2>3, <2>4, RowEnded
<1>11. ASSUME NEW s \in Sessions, RejectCommit(s) PROVE RowInv'
  <2> DEFINE a == sess[s].pick
  <2>1. a \in Assignments /\ a \notin HeldBySweep /\ asg[a].status = "submitted"
    BY <1>11, SweptRowsActive DEF RejectCommit, Rejectable, Active, WithStatus, TypeOK
  <2>2. asg'[a].status = "rejected" /\ \A b \in Assignments \ {a} : asg'[b] = asg[b]
    BY <1>11, <2>1 DEF RejectCommit, TypeOK, AssignmentRow
  <2>3. earnings[a] = 1 /\ rejects[a] = 0
    <3>1. rejects[a] \in Nat /\ rejects[a] <= 1 /\ rejects[a] # 1
      BY <2>1 DEF TypeOK, RowInv, RefundedOncePerRejection
    <3> QED BY <2>1, <3>1 DEF RowInv, PaidOncePerSubmission
  <2>4. /\ earnings' = earnings /\ rejects'[a] = 1
        /\ \A b \in Assignments \ {a} : rejects'[b] = rejects[b]
    BY <1>11, <2>1, <2>3 DEF RejectCommit, RefundReward, TypeOK
  <2>5. \A t \in Sessions : sess'[t] = sess[t] \/ sess'[t].op \notin {"sweep", "resolve"}
    BY <1>11 DEF RejectCommit, Close, Idle, TypeOK
  <2> HIDE DEF a
  <2> QED BY <2>1, <2>2, <2>3, <2>4, <2>5, RowEnded
<1>12. ASSUME NEW s \in Sessions, NEW a \in Assignments, ResolveRead(s, a) PROVE RowInv'
  <2>1. /\ sess'[s].op = "resolve" /\ sess'[s].rows = WithStatus({"submitted"})
        /\ \A t \in Sessions \ {s} : sess'[t] = sess[t]
    BY <1>12 DEF ResolveRead, Open, TypeOK
  <2>2. asg' = asg /\ earnings' = earnings /\ rejects' = rejects
    BY <1>12 DEF ResolveRead
  <2>3. RowsKept'
    BY <2>1, <2>2 DEF RowInv, RowsKept, WithStatus, Active
  <2> QED BY <2>2, <2>3 DEF RowInv, OneActiveClaim, PaidOncePerSubmission,
             RefundedOncePerRejection, Active, WithStatus
<1>13. ASSUME NEW s \in Sessions, ResolveCommit(s) PROVE RowInv'
  <2> DEFINE R == sess[s].rows
  <2>1. R \subseteq WithStatus({"submitted", "approved", "rejected"})
    BY <1>13 DEF ResolveCommit, RowInv, RowsKept
  <2>2. \A b \in Assignments :
          /\ asg'[b].worker = asg[b].worker
          /\ b \in R => asg'[b].status \in {"approved", "rejected"}
          /\ b \notin R => asg'[b] = asg[b]
    BY <1>13 DEF ResolveCommit, TypeOK, AssignmentRow
  <2>3. Active' = Active
    BY <2>1, <2>2 DEF Active, WithStatus
  <2>4. WithStatus({"submitted", "approved", "rejected"})
          = WithStatus({"submitted", "approved", "rejected"})'
    BY <2>1, <2>2 DEF WithStatus
  <2>5. sess'[s].op = "idle" /\ \A t \in Sessions \ {s} : sess'[t] = sess[t]
    BY <1>13 DEF ResolveCommit, Close, Idle, TypeOK
  <2>6. RowsKept'
    BY <2>3, <2>4, <2>5 DEF RowInv, RowsKept
  <2>7. OneActiveClaim'
    BY <2>2, <2>3 DEF RowInv, OneActiveClaim, Active, WithStatus
  <2>8. PaidOncePerSubmission' /\ RefundedOncePerRejection'
    BY <1>13, <2>1, <2>2 DEF ResolveCommit, RowInv, PaidOncePerSubmission,
                             RefundedOncePerRejection, WithStatus
  <2> QED BY <2>6, <2>7, <2>8 DEF RowInv
<1> QED
  BY <1>1, <1>2, <1>3, <1>4, <1>5, <1>6, <1>7, <1>8, <1>9, <1>10, <1>11, <1>12, <1>13
     DEF Next, WorkerNext, SweeperNext, RequesterNext

LEMMA RowsInvariant == Spec => []RowInv
<1>1. Init => RowInv
  BY DEF Init, RowInv, RowsKept, OneActiveClaim, PaidOncePerSubmission, RefundedOncePerRejection,
         Active, WithStatus, Unclaimed, Idle
<1> QED BY <1>1, RowStep, TypeCorrect, PTL DEF Spec

(* OneActiveClaim, PaidOncePerSubmission and RefundedOncePerRejection hold  *)
(* in every reachable state, for every strategy, and so does what they rest *)
(* on: the rows a session decided on are as it saw them (RowsKept).         *)
THEOREM PaySingle ==
  Spec => [](RowsKept /\ PayOnce)
<1>1. RowInv => RowsKept /\ PayOnce
  BY DEF RowInv, PayOnce
<1> QED BY <1>1, RowsInvariant, PTL

---------------------------------------------------------------------------
(* Slots and money when the first answer wins.  No session is ever in       *)
(* consensus or resolution, so only submit and reject write the counter;    *)
(* a stale reject writes Required - 1 over a count that is Required or      *)
(* Required - 1 already, which is what SlotsAccounted says.                 *)

SlotInv == /\ NoOverAssignment
           /\ SlotsAccounted
           /\ task.dispute = "none"
           /\ \A s \in Sessions : sess[s].op \notin {"consensus", "resolve"}

LEMMA CardType ==
  \A S \in SUBSET Assignments :
    /\ IsFiniteSet(S) /\ Cardinality(S) \in Nat
    /\ \A T \in SUBSET S : Cardinality(T) <= Cardinality(S)
BY AssignmentsAssumption, FS_Subset, FS_CardinalityType DEF AssignmentsAssumption

LEMMA CardAdd ==
  \A S \in SUBSET Assignments : \A a \in Assignments \ S :
    Cardinality(S \cup {a}) = Cardinality(S) + 1
BY CardType, FS_AddElement

LEMMA CardRemove ==
  \A S \in SUBSET Assignments : \A a \in S :
    Cardinality(S \ {a}) = Cardinality(S) - 1
BY CardType, FS_RemoveElement

LEMMA BooksType ==
  Active \in SUBSET Assignments /\ Paid \in SUBSET Assignments /\ Refunded \in SUBSET Assignments
BY DEF Active, WithStatus, Paid, Refunded

LEMMA FlushStatus ==
  ASSUME NEW row \in TaskRow, NEW seen \in TaskRow, NEW st \in TaskStatus
  PROVE  /\ Flush(row, seen, [seen EXCEPT !.status = st]).completed = row.completed
         /\ Flush(row, seen, [seen EXCEPT !.status = st]).dispute = row.dispute
         /\ Flush(row, seen, [seen EXCEPT !.status = st]).status \in {row.status, st}
BY DEF Flush, Dirty, TaskRow

(* An action that leaves the counter and the books alone and adds no claim. *)
LEMMA SlotsUntouched ==
  ASSUME TypeOK, TypeOK', SlotInv, Active' \subseteq Active, UNCHANGED <<earnings, rejects>>,
         task'.completed = task.completed, task'.dispute = task.dispute,
         task'.status = "completed" => task.status = "completed",
         \A t \in Sessions : \/ sess'[t] = sess[t]
                             \/ sess'[t].op \notin {"consensus", "resolve", "reject"}
                             \/ sess'[t].op = "reject" /\ sess'[t].seen = task
  PROVE  SlotInv'
<1>1. Paid' = Paid /\ Refunded' = Refunded
  BY DEF Paid, Refunded
<1>2. /\ Cardinality(Active) \in Nat /\ Cardinality(Active') \in Nat
      /\ Cardinality(Active') <= Cardinality(Active)
  BY BooksType, CardType
<1>3. task.completed \in Nat /\ Required \in Nat \ {0}
  BY RequiredAssumption DEF TypeOK, TaskRow
<1>4. NoOverAssignment'
  BY <1>2, <1>3 DEF SlotInv, NoOverAssignment
<1>5. SlotsAccounted'
  BY <1>1, <1>3 DEF SlotInv, SlotsAccounted
<1> QED BY <1>4, <1>5 DEF SlotInv

LEMMA SlotStep ==
  ASSUME Strategy = "any_first", TypeOK, TypeOK', RowInv, SlotInv, [Next]_vars
  PROVE  SlotInv'
<1> DEFINE act == Cardinality(Active)
           paid == Cardinality(Paid)
           back == Cardinality(Refunded)
           done == task.completed
<1>0. /\ act \in Nat /\ paid \in Nat /\ back \in Nat /\ done \in Nat /\ Required \in Nat \ {0}
      /\ done + act <= Required /\ paid <= done + back
  BY BooksType, CardType, RequiredAssumption
     DEF TypeOK, TaskRow, SlotInv, NoOverAssignment, SlotsAccounted
<1>1. ASSUME Activate \/ Cancel \/ UNCHANGED vars PROVE SlotInv'
  <2>1. Active' = Active
    BY <1>1 DEF Activate, Cancel, vars, Active, WithStatus
  <2> QED BY <1>1, <2>1, SlotsUntouched DEF Activate, Cancel, vars, TypeOK, TaskRow
<1>2. ASSUME NEW a \in Assignments, NEW w \in Workers, Claim(w, a) PROVE SlotInv'
  <2>1. /\ asg[a].status = "none" /\ asg'[a].status = "active"
        /\ \A b \in Assignments \ {a} : asg'[b] = asg[b]
    BY <1>2 DEF Claim, Unclaimed, TypeOK, AssignmentRow
  <2>2. Active' = Active \cup {a} /\ a \notin Active
    BY <2>1 DEF Active, WithStatus
  <2>3. Cardinality(Active') = act + 1
    BY <2>2, BooksType, CardAdd
  <2>4. done + act < Required
    BY <1>2 DEF Claim, SlotFree
  <2>5. /\ task'.completed = done /\ task'.dispute = task.dispute
        /\ task'.status = "completed" => task.status = "completed"
    BY <1>2 DEF Claim, TypeOK, TaskRow
  <2>6. Paid' = Paid /\ Refunded' = Refunded /\ sess' = sess
    BY <1>2 DEF Claim, Paid, Refunded
  <2> QED BY <1>0, <2>3, <2>4, <2>5, <2>6 DEF SlotInv, NoOverAssignment, SlotsAccounted
<1>3. ASSUME NEW a \in Assignments, NEW x \in Answers \cup {EmptyAnswer}, Submit(a, x)
      PROVE  SlotInv'
  <2>1. /\ asg[a].status = "active" /\ asg'[a].status = "submitted"
        /\ \A b \in Assignments \ {a} : asg'[b] = asg[b]
    BY <1>3 DEF Submit, TypeOK, AssignmentRow
  <2>2. Active' = Active \ {a} /\ a \in Active
    BY <2>1 DEF Active, WithStatus
  <2>3. Cardinality(Active') = act - 1 /\ act >= 1
    <3>1. Cardinality(Active') = act - 1 /\ Cardinality(Active') \in Nat
      BY <2>2, BooksType, CardRemove, CardType
    <3> QED BY <1>0, <3>1
  <2>4. earnings[a] = 0 /\ earnings' = [earnings EXCEPT ![a] = 1]
    <3>1. earnings[a] = 0
      BY <2>1, ActiveBooks
    <3>2. earnings' = [earnings EXCEPT ![a] = earnings[a] + 1]
      BY <1>3 DEF Submit
    <3> QED BY <3>1, <3>2
  <2>5. Paid' = Paid \cup {a} /\ a \notin Paid
    BY <2>4 DEF Paid, TypeOK
  <2>6. Cardinality(Paid') = paid + 1
    BY <2>5, BooksType, CardAdd
  <2>7. Refunded' = Refunded /\ sess' = sess
    BY <1>3 DEF Submit, Refunded
  <2>8. task' = Counted(a, x) /\ task \in TaskRow
    BY <1>3 DEF Submit, TypeOK
  <2>9. task'.completed = done + 1 /\ task'.dispute = task.dispute
    BY <2>8 DEF Counted, Won, TaskRow
  <2>10. task'.status = "completed" => done + 1 >= Required
    <3>1. task.status # "completed"
      BY <1>0, <2>3 DEF SlotInv, SlotsAccounted
    <3>2. CASE done + 1 < Required
      BY <2>8, <3>1, <3>2, <1>0 DEF Counted, TaskRow
    <3> QED BY <3>2, <1>0
  <2> QED BY <1>0, <2>3, <2>6, <2>7, <2>9, <2>10 DEF SlotInv, NoOverAssignment, SlotsAccounted
<1>4. ASSUME NEW a \in Assignments, SubmitLate(a) \/ Release(a) \/ Expire(a) \/ Approve(a)
      PROVE  SlotInv'
  <2>1. Active' \subseteq Active
    <3>1. asg \in [Assignments -> AssignmentRow]
      BY DEF TypeOK
    <3>2. \A b \in Assignments : asg'[b].status = "active" => asg[b].status = "active"
      <4>1. CASE SubmitLate(a)
        BY <3>1, <4>1 DEF SubmitLate, Ended, AssignmentRow
      <4>2. CASE Release(a)
        BY <3>1, <4>2 DEF Release, Ended, AssignmentRow
      <4>3. CASE Expire(a)
        BY <3>1, <4>3 DEF Expire, AssignmentRow
      <4>4. CASE Approve(a)
        BY <3>1, <4>4 DEF Approve, AssignmentRow
      <4> QED BY <1>4, <4>1, <4>2, <4>3, <4>4
    <3> QED BY <3>2 DEF Active, WithStatus
  <2>2. /\ task'.completed = task.completed /\ task'.dispute = task.dispute
        /\ task'.status = "completed" => task.status = "completed"
    BY <1>4 DEF SubmitLate, Release, Expire, Approve, TypeOK, TaskRow
  <2>3. UNCHANGED <<earnings, rejects, sess>>
    BY <1>4 DEF SubmitLate, Release, Expire, Approve
  <2> QED BY <2>1, <2>2, <2>3, SlotsUntouched
<1>5. ASSUME NEW s \in Sessions, \/ SweepRead(s) \/ BulkCancelRead(s) \/ BulkArchiveRead(s)
                                 \/ \E a \in Assignments : RejectRead(s, a)
      PROVE  SlotInv'
  <2>1. /\ UNCHANGED <<task, asg, earnings, rejects>>
        /\ \A t \in Sessions \ {s} : sess'[t] = sess[t]
        /\ sess'[s].op \notin {"consensus", "resolve"} /\ sess'[s].seen = task
    BY <1>5 DEF SweepRead, BulkCancelRead, BulkArchiveRead, RejectRead, Open, TypeOK
  <2>2. Active' = Active
    BY <2>1 DEF Active, WithStatus
  <2> QED BY <2>1, <2>2, SlotsUntouched
<1>6. ASSUME NEW s \in Sessions, \/ SweepCommit(s) \/ BulkCancelCommit(s)
                                 \/ BulkArchiveCommit(s) \/ Rollback(s)
      PROVE  SlotInv'
  <2>1. Close(s) /\ UNCHANGED <<earnings, rejects>>
    BY <1>6 DEF SweepCommit, BulkCancelCommit, BulkArchiveCommit, Rollback
  <2>2. \A t \in Sessions : sess'[t] = sess[t] \/ sess'[t].op = "idle"
    BY <2>1 DEF Close, Idle, TypeOK
  <2>3. Active' \subseteq Active
    <3>1. CASE asg' = asg
      BY <3>1 DEF Active, WithStatus
    <3>2. CASE SweepCommit(s)
      BY <3>2 DEF SweepCommit, Ended, Active, WithStatus, TypeOK, AssignmentRow
    <3> QED BY <1>6, <3>1, <3>2 DEF BulkCancelCommit, BulkArchiveCommit, Rollback
  <2>4. \/ task' = task
        \/ \E st \in {"open", "cancelled", "archived"} :
             task' = Flush(task, sess[s].seen, [sess[s].seen EXCEPT !.status = st])
    BY <1>6 DEF SweepCommit, BulkCancelCommit, BulkArchiveCommit, Rollback
  <2>5. /\ task'.completed = task.completed /\ task'.dispute = task.dispute
        /\ task'.status = "completed" => task.status = "completed"
    <3>1. task \in TaskRow /\ sess[s].seen \in TaskRow
      BY DEF TypeOK, Session
    <3>2. CASE task' = task
      BY <3>2
    <3>3. ASSUME NEW st \in {"open", "cancelled", "archived"},
                 task' = Flush(task, sess[s].seen, [sess[s].seen EXCEPT !.status = st])
          PROVE  /\ task'.completed = task.completed /\ task'.dispute = task.dispute
                 /\ task'.status \in {task.status, st}
      <4>1. st \in TaskStatus
        BY DEF TaskStatus
      <4> QED BY <3>1, <3>3, <4>1, FlushStatus
    <3> QED BY <2>4, <3>2, <3>3
  <2> QED BY <2>1, <2>2, <2>3, <2>5, SlotsUntouched
<1>7. ASSUME NEW s \in Sessions, RejectCommit(s) PROVE SlotInv'
  <2> DEFINE a == sess[s].pick
             seen == sess[s].seen
  <2>1. /\ a \in Assignments /\ asg[a].status = "submitted" /\ asg'[a].status = "rejected"
        /\ \A b \in Assignments \ {a} : asg'[b] = asg[b]
    BY <1>7 DEF RejectCommit, Rejectable, TypeOK, AssignmentRow
  <2>2. Active' = Active
    BY <2>1 DEF Active, WithStatus
  <2>3. rejects[a] = 0 /\ rejects' = [rejects EXCEPT ![a] = 1]
    <3>1. rejects[a] \in Nat /\ rejects[a] <= 1 /\ rejects[a] # 1
      BY <2>1 DEF TypeOK, RowInv, RefundedOncePerRejection
    <3>2. rejects[a] = 0
      BY <3>1
    <3> QED BY <1>7, <3>2 DEF RejectCommit, RefundReward
  <2>4. Refunded' = Refunded \cup {a} /\ a \notin Refunded
    BY <2>1, <2>3 DEF Refunded, TypeOK
  <2>5. Cardinality(Refunded') = back + 1
    BY <2>1, <2>4, BooksType, CardAdd
  <2>6. Paid' = Paid
    BY <1>7 DEF RejectCommit, Paid
  <2>7. task' = Flush(task, seen, Reopened(seen)) /\ task \in TaskRow /\ seen \in TaskRow
    BY <1>7 DEF RejectCommit, TypeOK, Session
  <2>8. sess'[s].op = "idle" /\ \A t \in Sessions \ {s} : sess'[t] = sess[t]
    BY <1>7 DEF RejectCommit, Close, Idle, TypeOK
  <2>9. CASE seen.status = "completed"
    <3>1. seen.completed = Required /\ done >= Required - 1 /\ seen.completed > 0
      BY <1>0, <1>7, <2>9 DEF RejectCommit, SlotInv, SlotsAccounted
    <3>2. Reopened(seen).completed = Required - 1 /\ Reopened(seen).status = "open"
          /\ Reopened(seen).dispute = seen.dispute
      BY <2>7, <2>9, <3>1 DEF Reopened, TaskRow
    <3>3. task'.completed = Required - 1 /\ task'.status = "open" /\ task'.dispute = task.dispute
      BY <1>0, <2>7, <2>9, <3>1, <3>2 DEF Flush, Dirty
    <3>4. NoOverAssignment'
      BY <1>0, <2>2, <3>1, <3>3 DEF NoOverAssignment
    <3>5. SlotsAccounted'
      BY <1>0, <2>5, <2>6, <2>8, <3>1, <3>3 DEF SlotInv, SlotsAccounted
    <3> QED BY <2>8, <3>3, <3>4, <3>5 DEF SlotInv
  <2>10. CASE seen.status # "completed"
    <3>1. task' = task
      BY <2>7, <2>10 DEF Reopened, Flush, Dirty, TaskRow
    <3>2. NoOverAssignment'
      BY <1>0, <2>2, <3>1 DEF NoOverAssignment
    <3>3. SlotsAccounted'
      BY <1>0, <2>5, <2>6, <2>8, <3>1 DEF SlotInv, SlotsAccounted
    <3> QED BY <2>8, <3>1, <3>2, <3>3 DEF SlotInv
  <2> QED BY <2>9, <2>10
<1>8. ASSUME NEW s \in Sessions, \/ Consensus(s) \/ ResolveCommit(s)
                                 \/ \E a \in Assignments : ResolveRead(s, a)
      PROVE  FALSE
  BY <1>8 DEF Consensus, ResolveCommit, ResolveRead, SlotInv
<1> QED
  BY <1>1, <1>2, <1>3, <1>4, <1>5, <1>6, <1>7, <1>8
     DEF Next, WorkerNext, SweeperNext, RequesterNext

LEMMA SlotsInvariant ==
  ASSUME Strategy = "any_first" PROVE Spec => []SlotInv
<1>1. Init => SlotInv
  <2> SUFFICES ASSUME Init PROVE SlotInv
    OBVIOUS
  <2>1. Active = {} /\ Paid = {} /\ Refunded = {}
    BY DEF Init, Active, WithStatus, Unclaimed, Paid, Refunded
  <2> QED BY <2>1, FS_EmptySet, RequiredAssumption
          DEF Init, SlotInv, NoOverAssignment, SlotsAccounted, NewRow, Idle
<1>2. TypeOK /\ TypeOK' /\ RowInv /\ SlotInv /\ [Next]_vars => SlotInv'
  BY SlotStep
<1> QED BY <1>1, <1>2, RowsInvariant, TypeCorrect, PTL DEF Spec

(* For any_first tasks, of any number of slots: no over-assignment, the     *)
(* counter of done slots agrees with what was paid and refunded, and no     *)
(* more answers are paid for than slots (SlotsKept), in every reachable     *)
(* state.                                                                   *)
THEOREM SlotsBounded ==
  ASSUME Strategy = "any_first"
  PROVE  Spec => []SlotsKept
<1>1. TypeOK /\ SlotInv => DisbursementBounded
  BY BooksType, CardType, RequiredAssumption
     DEF TypeOK, TaskRow, SlotInv, NoOverAssignment, SlotsAccounted, DisbursementBounded
<1>2. SlotInv => NoOverAssignment /\ SlotsAccounted
  BY DEF SlotInv
<1>3. TypeOK /\ SlotInv => SlotsKept
  BY <1>1, <1>2 DEF SlotsKept
<1> QED BY <1>3, SlotsInvariant, TypeCorrect, PTL

---------------------------------------------------------------------------
(* The task implements the slot escrow.  A claim finds room because a paid  *)
(* slot is counted or refunded; a submission pays; a release, a late answer *)
(* or a sweep drops; a rejection refunds; everything else stutters.         *)

LEMMA EscrowStutter ==
  ASSUME Active' = Active, UNCHANGED <<earnings, rejects>>
  PROVE  UNCHANGED Escrow!slotVars
BY DEF Escrow!slotVars, Paid, Refunded

LEMMA EscrowDrop ==
  ASSUME NEW R \in SUBSET Active, Active' = Active \ R, UNCHANGED <<earnings, rejects>>
  PROVE  Escrow!Next
<1>1. Paid' = Paid /\ Refunded' = Refunded /\ R \in SUBSET Assignments
  BY DEF Paid, Refunded, Active, WithStatus
<1>2. Escrow!Drop(R)
  BY <1>1 DEF Escrow!Drop
<1> QED BY <1>1, <1>2 DEF Escrow!Next

LEMMA EscrowStep ==
  ASSUME Strategy = "any_first", TypeOK, RowInv, SlotInv, [Next]_vars
  PROVE  [Escrow!Next]_(Escrow!slotVars)
<1>1. ASSUME NEW a \in Assignments, NEW w \in Workers, Claim(w, a) PROVE Escrow!Next
  <2>1. /\ asg[a].status = "none" /\ asg'[a].status = "active"
        /\ \A b \in Assignments \ {a} : asg'[b] = asg[b]
    BY <1>1 DEF Claim, Unclaimed, TypeOK, AssignmentRow
  <2>2. Active' = Active \cup {a} /\ a \notin Active
    BY <2>1 DEF Active, WithStatus
  <2>3. a \notin Paid
    BY <2>1 DEF RowInv, PaidOncePerSubmission, Paid
  <2>4. Escrow!Room
    <3>1. /\ Cardinality(Active) \in Nat /\ Cardinality(Paid) \in Nat /\ Cardinality(Refunded) \in Nat
          /\ task.completed \in Nat /\ Required \in Nat
      BY BooksType, CardType, RequiredAssumption DEF TypeOK, TaskRow
    <3>2. /\ task.completed + Cardinality(Active) < Required
          /\ Cardinality(Paid) <= task.completed + Cardinality(Refunded)
      BY <1>1 DEF Claim, SlotFree, SlotInv, SlotsAccounted
    <3>3. Cardinality(Active) + Cardinality(Paid) < Required + Cardinality(Refunded)
      BY <3>1, <3>2
    <3> QED BY <3>3 DEF Escrow!Room, Escrow!Cardinality, Cardinality
  <2>5. Paid' = Paid /\ Refunded' = Refunded
    BY <1>1 DEF Claim, Paid, Refunded
  <2>6. Escrow!Claim(a)
    BY <2>2, <2>3, <2>4, <2>5 DEF Escrow!Claim
  <2> QED BY <2>6 DEF Escrow!Next
<1>2. ASSUME NEW a \in Assignments, NEW x \in Answers \cup {EmptyAnswer}, Submit(a, x)
      PROVE  Escrow!Next
  <2>1. /\ asg[a].status = "active" /\ asg'[a].status = "submitted"
        /\ \A b \in Assignments \ {a} : asg'[b] = asg[b]
    BY <1>2 DEF Submit, TypeOK, AssignmentRow
  <2>2. Active' = Active \ {a} /\ a \in Active
    BY <2>1 DEF Active, WithStatus
  <2>3. earnings[a] = 0 /\ earnings' = [earnings EXCEPT ![a] = earnings[a] + 1] /\ rejects' = rejects
    BY <1>2, <2>1, ActiveBooks DEF Submit
  <2>4. Paid' = Paid \cup {a} /\ Refunded' = Refunded
    BY <2>3 DEF Paid, Refunded, TypeOK
  <2>5. Escrow!Pay(a)
    BY <2>2, <2>4 DEF Escrow!Pay
  <2> QED BY <2>5 DEF Escrow!Next
<1>3. ASSUME NEW a \in Assignments, SubmitLate(a) \/ Release(a) PROVE Escrow!Next
  <2>1. asg[a].status = "active" /\ UNCHANGED <<earnings, rejects>>
    BY <1>3 DEF SubmitLate, Release
  <2>2. /\ asg'[a].status # "active"
        /\ \A b \in Assignments \ {a} : asg'[b] = asg[b]
    <3>1. \E st \in {"timed_out", "released"} : asg' = [asg EXCEPT ![a] = Ended(@, st)]
      BY <1>3 DEF SubmitLate, Release
    <3>2. asg[a] \in AssignmentRow /\ asg \in [Assignments -> AssignmentRow]
      BY DEF TypeOK
    <3> QED BY <3>1, <3>2 DEF Ended, AssignmentRow
  <2>3. {a} \in SUBSET Active /\ Active' = Active \ {a}
    BY <2>1, <2>2 DEF Active, WithStatus
  <2> QED BY <2>1, <2>3, EscrowDrop
<1>4. ASSUME NEW s \in Sessions, SweepCommit(s) PROVE Escrow!Next
  <2> DEFINE R == sess[s].rows
  <2>1. R \in SUBSET Active /\ UNCHANGED <<earnings, rejects>>
    BY <1>4 DEF SweepCommit, RowInv, RowsKept
  <2>2. \A b \in Assignments : /\ b \in R => asg'[b].status = "timed_out"
                               /\ b \notin R => asg'[b] = asg[b]
    BY <1>4 DEF SweepCommit, Ended, TypeOK, AssignmentRow
  <2>3. Active' = Active \ R
    BY <2>2 DEF Active, WithStatus
  <2> QED BY <2>1, <2>3, EscrowDrop
<1>5. ASSUME NEW s \in Sessions, RejectCommit(s) PROVE Escrow!Next
  <2> DEFINE a == sess[s].pick
  <2>1. /\ a \in Assignments /\ asg[a].status = "submitted" /\ asg'[a].status = "rejected"
        /\ \A b \in Assignments \ {a} : asg'[b] = asg[b]
    BY <1>5 DEF RejectCommit, Rejectable, TypeOK, AssignmentRow
  <2>2. Active' = Active
    BY <2>1 DEF Active, WithStatus
  <2>3. rejects[a] = 0 /\ rejects' = [rejects EXCEPT ![a] = 1] /\ earnings[a] = 1
    <3>1. rejects[a] \in Nat /\ rejects[a] <= 1 /\ rejects[a] # 1
      BY <2>1 DEF TypeOK, RowInv, RefundedOncePerRejection
    <3>2. rejects[a] = 0
      BY <3>1
    <3>3. earnings[a] = 1
      BY <2>1 DEF RowInv, PaidOncePerSubmission
    <3> QED BY <1>5, <3>2, <3>3 DEF RejectCommit, RefundReward
  <2>4. Refunded' = Refunded \cup {a} /\ a \in Paid \ Refunded
    BY <2>1, <2>3 DEF Refunded, Paid, TypeOK
  <2>5. Paid' = Paid
    BY <1>5 DEF RejectCommit, Paid
  <2>6. Escrow!Refund(a)
    BY <2>2, <2>4, <2>5 DEF Escrow!Refund
  <2> QED BY <2>1, <2>6 DEF Escrow!Next
<1>6. ASSUME \/ Activate \/ Cancel \/ UNCHANGED vars
             \/ \E a \in Assignments : Expire(a) \/ Approve(a)
             \/ \E s \in Sessions :
                  \/ SweepRead(s) \/ BulkCancelRead(s) \/ BulkCancelCommit(s)
                  \/ BulkArchiveRead(s) \/ BulkArchiveCommit(s) \/ Rollback(s)
                  \/ \E a \in Assignments : RejectRead(s, a)
      PROVE  UNCHANGED Escrow!slotVars
  <2>1. UNCHANGED <<earnings, rejects>>
    BY <1>6 DEF Activate, Cancel, vars, Expire, Approve, SweepRead, BulkCancelRead,
                BulkCancelCommit, BulkArchiveRead, BulkArchiveCommit, Rollback, RejectRead
  <2>2. asg \in [Assignments -> AssignmentRow]
    BY DEF TypeOK
  <2>3. \/ asg' = asg
        \/ \E a \in Assignments : asg' = [asg EXCEPT ![a].expired = TRUE]
        \/ \E a \in Assignments : asg[a].status = "submitted"
                                  /\ asg' = [asg EXCEPT ![a].status = "approved"]
    BY <1>6 DEF Activate, Cancel, vars, Expire, Approve, SweepRead, BulkCancelRead,
                BulkCancelCommit, BulkArchiveRead, BulkArchiveCommit, Rollback, RejectRead
  <2>4. \A b \in Assignments : asg'[b].status = "active" <=> asg[b].status = "active"
    BY <2>2, <2>3 DEF AssignmentRow
  <2>5. Active' = Active
    BY <2>4 DEF Active, WithStatus
  <2> QED BY <2>1, <2>5, EscrowStutter
<1>7. ASSUME NEW s \in Sessions, \/ Consensus(s) \/ ResolveCommit(s)
                                 \/ \E a \in Assignments : ResolveRead(s, a)
      PROVE  FALSE
  BY <1>7 DEF Consensus, ResolveCommit, ResolveRead, SlotInv
<1> QED
  BY <1>1, <1>2, <1>3, <1>4, <1>5, <1>6, <1>7
     DEF Next, WorkerNext, SweeperNext, RequesterNext

(* An any_first task implements the slot escrow: for any number of slots,   *)
(* claims are bounded by the slots left or refunded, each is paid at most   *)
(* once and each paid one refunded at most once, whatever is interleaved.   *)
THEOREM EscrowImplemented ==
  ASSUME Strategy = "any_first"
  PROVE  Spec => EscrowSpec
<1>1. Init => Escrow!Init
  BY DEF Init, Escrow!Init, Active, WithStatus, Unclaimed, Paid, Refunded
<1>2. TypeOK /\ RowInv /\ SlotInv /\ [Next]_vars => [Escrow!Next]_(Escrow!slotVars)
  BY EscrowStep
<1> QED BY <1>1, <1>2, TypeCorrect, RowsInvariant, SlotsInvariant, PTL
        DEF Spec, EscrowSpec, Escrow!Spec


---------------------------------------------------------------------------
(* Outputs.  An output is never taken back, so a session's copy of the task *)
(* can only know less of it; and a dispute ends with an output.  That is    *)
(* what lets a consensus check leave the columns its copy agrees with.      *)

Answered == {"submitted", "approved", "rejected"}
KnowsLess(seen, row) ==
  /\ seen.output # None => row.output # None
  /\ seen.dispute = "disputed" => (row.dispute = "disputed" \/ row.output # None)

DecideInv ==
  /\ DecidedOrDisputed
  /\ \A a \in Assignments : asg[a].status \in Answered => asg[a].response # None
  /\ \A s \in Sessions : /\ KnowsLess(sess[s].seen, task)
                         /\ sess[s].op = "resolve" => asg[sess[s].pick].response # None

LEMMA AnswersGiven ==
  ASSUME DecideInv, NEW a \in Live
  PROVE  a \in Assignments /\ asg[a].response # None
BY DEF DecideInv, Live, WithStatus, Answered

(* What an action must keep of the answers, the task and the sessions.      *)
LEMMA DecideFrame ==
  ASSUME TypeOK, DecideInv,
         \A a \in Assignments : asg'[a].status \in Answered => asg'[a].response # None,
         \A a \in Assignments : asg[a].response # None => asg'[a].response # None,
         KnowsLess(task, task'),
         task'.status = "completed" /\ task'.output = None => task'.dispute = "disputed",
         \A t \in Sessions : \/ sess'[t] = sess[t]
                             \/ sess'[t].seen \in {task, task', NewRow("pending")} /\ sess'[t].op # "resolve"
                             \/ sess'[t].seen = task /\ asg'[sess'[t].pick].response # None
  PROVE  DecideInv'
<1>1. DecidedOrDisputed'  BY DEF DecidedOrDisputed
<1>2. ASSUME NEW t \in Sessions PROVE KnowsLess(sess'[t].seen, task')
  <2>1. KnowsLess(NewRow("pending"), task') /\ KnowsLess(task', task')  BY DEF KnowsLess, NewRow
  <2>2. KnowsLess(sess[t].seen, task)  BY DEF DecideInv
  <2>3. KnowsLess(sess[t].seen, task')  BY <2>2 DEF KnowsLess
  <2>. QED  BY <2>1, <2>3
<1>3. ASSUME NEW t \in Sessions, sess'[t].op = "resolve"
      PROVE  asg'[sess'[t].pick].response # None
  <2>1. CASE sess'[t] = sess[t]
    <3>1. sess[t].op = "resolve" /\ sess[t].pick \in Assignments /\ asg[sess[t].pick].response # None
      BY <1>3, <2>1 DEF DecideInv, TypeOK
    <3>. QED  BY <2>1, <3>1
  <2>. QED  BY <1>3, <2>1
<1>. QED  BY <1>1, <1>2, <1>3 DEF DecideInv, KnowsLess

(* Most actions write at most the status of the task, never "completed",    *)
(* and the counter.                                                         *)
LEMMA DecideQuiet ==
  ASSUME TypeOK, DecideInv,
         \A a \in Assignments : asg'[a].status \in Answered => asg[a].status \in Answered,
         \A a \in Assignments : asg'[a].response = asg[a].response,
         task'.output = task.output, task'.dispute = task.dispute,
         task'.status = "completed" => task.status = "completed",
         \A t \in Sessions : \/ sess'[t] = sess[t]
                             \/ sess'[t].seen \in {task, NewRow("pending")} /\ sess'[t].op # "resolve"
                             \/ sess'[t].seen = task /\ asg[sess'[t].pick].response # None /\ sess'[t].pick \in Assignments
  PROVE  DecideInv'
<1>1. \A a \in Assignments : asg'[a].status \in Answered => asg'[a].response # None
  BY DEF DecideInv
<1>2. KnowsLess(task, task')  BY DEF KnowsLess
<1>3. task'.status = "completed" /\ task'.output = None => task'.dispute = "disputed"
  BY DEF DecideInv, DecidedOrDisputed
<1>4. \A t \in Sessions : \/ sess'[t] = sess[t]
                          \/ sess'[t].seen \in {task, task', NewRow("pending")} /\ sess'[t].op # "resolve"
                          \/ sess'[t].seen = task /\ asg'[sess'[t].pick].response # None
  OBVIOUS
<1>5. \A a \in Assignments : asg[a].response # None => asg'[a].response # None  OBVIOUS
<1>. QED  BY <1>1, <1>2, <1>3, <1>4, <1>5, DecideFrame

LEMMA FlushFields ==
  ASSUME NEW row \in TaskRow, NEW seen \in TaskRow, NEW new \in TaskRow
  PROVE  /\ Flush(row, seen, new).status = (IF new.status # seen.status THEN new.status ELSE row.status)
         /\ Flush(row, seen, new).completed = (IF new.completed # seen.completed THEN new.completed ELSE row.completed)
         /\ Flush(row, seen, new).winner = (IF new.winner # seen.winner THEN new.winner ELSE row.winner)
         /\ Flush(row, seen, new).dispute = (IF new.dispute # seen.dispute THEN new.dispute ELSE row.dispute)
         /\ Flush(row, seen, new).output = (IF new.output # seen.output THEN new.output ELSE row.output)
BY DEF Flush, Dirty

(* A flush that changes the status alone, or reopens.                       *)
LEMMA FlushQuiet ==
  ASSUME NEW row \in TaskRow, NEW seen \in TaskRow, NEW new,
         \/ \E st \in {"open", "cancelled", "archived"} : new = [seen EXCEPT !.status = st]
         \/ new = Reopened(seen)
  PROVE  /\ Flush(row, seen, new).output = row.output /\ Flush(row, seen, new).dispute = row.dispute
         /\ Flush(row, seen, new).winner = row.winner
         /\ Flush(row, seen, new).status = "completed" => row.status = "completed"
<1>1. new \in TaskRow /\ new.output = seen.output /\ new.dispute = seen.dispute /\ new.winner = seen.winner
      /\ new.status \in {"open", "cancelled", "archived", seen.status}
  <2>1. CASE new = Reopened(seen)
    <3>1. new \in TaskRow  BY <2>1, ReopenedType
    <3>2. seen \in TaskRow  OBVIOUS
    <3>. QED  BY ONLY <2>1, <3>1, <3>2 DEF Reopened, TaskRow
  <2>2. CASE \E st \in {"open", "cancelled", "archived"} : new = [seen EXCEPT !.status = st]
    BY <2>2 DEF TaskRow, TaskStatus
  <2>. QED  BY <2>1, <2>2
<1>. QED  BY <1>1, FlushFields

LEMMA SubmitDecides ==
  ASSUME TypeOK, DecideInv, NEW a \in Assignments, NEW x \in Answers \cup {EmptyAnswer}, Submit(a, x)
  PROVE  DecideInv'
<1>1. /\ task' = Counted(a, x) /\ asg[a].status = "active"
      /\ asg' = [asg EXCEPT ![a] = [@ EXCEPT !.status = "submitted", !.response = x]]
      /\ x # None /\ task \in TaskRow /\ asg \in [Assignments -> AssignmentRow]
  BY NoneAssumption DEF Submit, TypeOK
<1>2. /\ task'.dispute = task.dispute
      /\ task'.output \in {task.output, x}
      /\ task'.status = "completed" => task'.output = x \/ (task.status = "completed" /\ task'.output = task.output)
  BY <1>1 DEF Counted, Won, TaskRow
<1>3. KnowsLess(task, task')  BY <1>1, <1>2 DEF KnowsLess
<1>4. task'.status = "completed" /\ task'.output = None => task'.dispute = "disputed"
  BY <1>1, <1>2 DEF DecideInv, DecidedOrDisputed
<1>5. \A t \in Sessions : sess'[t] = sess[t] \/ (sess'[t].seen = task' /\ sess'[t].op = "consensus")
  <2>1. CASE sess' = sess  BY <2>1
  <2>2. ASSUME NEW s \in Sessions, sess' = [sess EXCEPT ![s] = [Idle EXCEPT !.op = "consensus", !.seen = task']]
        PROVE  \A t \in Sessions : sess'[t] = sess[t] \/ (sess'[t].seen = task' /\ sess'[t].op = "consensus")
    BY <2>2 DEF TypeOK, Idle
  <2>. QED  BY <2>1, <2>2 DEF Submit
<1>6. \A b \in Assignments : /\ asg'[b].status \in Answered => asg'[b].response # None
                             /\ asg[b].response # None => asg'[b].response # None
  BY <1>1 DEF DecideInv, AssignmentRow
<1>. QED  BY <1>3, <1>4, <1>5, <1>6, DecideFrame

LEMMA CommitTypes ==
  ASSUME TypeOK, NEW s \in Sessions, Close(s)
  PROVE  /\ task \in TaskRow /\ sess[s].seen \in TaskRow /\ asg \in [Assignments -> AssignmentRow]
         /\ \A t \in Sessions : \/ sess'[t] = sess[t]
                                \/ sess'[t].seen \in {task, task', NewRow("pending")} /\ sess'[t].op # "resolve"
BY DEF TypeOK, Session, Close, Idle

LEMMA ConsensusDecides ==
  ASSUME TypeOK, DecideInv, NEW s \in Sessions, Consensus(s)
  PROVE  DecideInv'
<1>. DEFINE seen == sess[s].seen
<1>1. Close(s) /\ asg' = asg
  <2>. HIDE DEF seen
  <2>. QED  BY ONLY Consensus(s) DEF Consensus
<1>2. /\ task \in TaskRow /\ seen \in TaskRow
      /\ \A t \in Sessions : \/ sess'[t] = sess[t]
                             \/ sess'[t].seen \in {task, task', NewRow("pending")} /\ sess'[t].op # "resolve"
  BY <1>1, CommitTypes
<1>3. KnowsLess(seen, task)  BY DEF DecideInv
<1>4. \A a \in Assignments : /\ asg'[a].status \in Answered => asg'[a].response # None
                             /\ asg[a].response # None => asg'[a].response # None
  BY <1>1 DEF DecideInv
<1>5. KnowsLess(task, task') /\ (task'.status = "completed" /\ task'.output = None => task'.dispute = "disputed")
  <2>1. CASE task' = task  BY <2>1 DEF KnowsLess, DecideInv, DecidedOrDisputed
  <2>2. ASSUME NEW x \in Agreed, NEW a \in Votes(x),
               task' = Flush(task, seen, [seen EXCEPT !.status = "completed", !.winner = a,
                                                      !.dispute = "none", !.output = x])
        PROVE  task'.output # None
    <3>. DEFINE new == [seen EXCEPT !.status = "completed", !.winner = a, !.dispute = "none", !.output = x]
    <3>1. a \in Live /\ asg[a].response = x  BY DEF Votes
    <3>2. a \in Assignments /\ x # None  BY <3>1, AnswersGiven
    <3>3. asg[a].response \in Answers \cup {EmptyAnswer, None}  BY <3>2 DEF TypeOK, AssignmentRow
    <3>4. new \in TaskRow /\ new.output = x  BY <1>2, <3>1, <3>2, <3>3 DEF TaskRow, TaskStatus
    <3>. HIDE DEF new
    <3>5. task'.output = (IF new.output # seen.output THEN new.output ELSE task.output)
      <4>1. task' = Flush(task, seen, new)  BY <2>2 DEF new
      <4>. QED  BY <1>2, <3>4, <4>1, FlushFields
    <3>. QED  BY <1>3, <3>2, <3>4, <3>5 DEF KnowsLess
  <2>3. ASSUME task' = Flush(task, seen, Disputed(seen))
        PROVE  task'.output = task.output /\ (task'.dispute = "disputed" \/ task'.output # None)
    <3>1. /\ Disputed(seen) \in TaskRow /\ Disputed(seen).output = seen.output
          /\ Disputed(seen).dispute = "disputed"
      BY <1>2 DEF Disputed, TaskRow, TaskStatus
    <3>2. /\ task'.output = task.output
          /\ task'.dispute = (IF seen.dispute # "disputed" THEN "disputed" ELSE task.dispute)
      BY <1>2, <2>3, <3>1, FlushFields
    <3>. QED  BY <1>3, <3>2 DEF KnowsLess
  <2>4. CASE Live = {}
    <3>1. task' = task  BY <2>4 DEF Consensus
    <3>. QED  BY <2>1, <3>1
  <2>5. CASE Live # {} /\ Agreed # {}
    <3>1. PICK x \in Agreed : \E a \in Votes(x) :
            task' = Flush(task, seen, [seen EXCEPT !.status = "completed", !.winner = a,
                                                   !.dispute = "none", !.output = x])
      BY <2>5 DEF Consensus
    <3>2. PICK a \in Votes(x) :
            task' = Flush(task, seen, [seen EXCEPT !.status = "completed", !.winner = a,
                                                   !.dispute = "none", !.output = x])
      BY <3>1
    <3>3. task'.output # None  BY <2>2, <3>2
    <3>4. KnowsLess(task, task')  BY ONLY <3>3 DEF KnowsLess
    <3>. QED  BY ONLY <3>3, <3>4
  <2>6. CASE Live # {} /\ Agreed = {}
    <3>1. task' = Flush(task, seen, Disputed(seen))  BY <2>6 DEF Consensus
    <3>2. task'.output = task.output /\ (task'.dispute = "disputed" \/ task'.output # None)
      BY <2>3, <3>1
    <3>. QED  BY ONLY <3>2 DEF KnowsLess
  <2>. QED  BY <2>4, <2>5, <2>6
<1>. QED  BY <1>2, <1>4, <1>5, DecideFrame

LEMMA ResolveDecides ==
  ASSUME TypeOK, RowInv, DecideInv, NEW s \in Sessions, ResolveCommit(s)
  PROVE  DecideInv'
<1>. DEFINE seen == sess[s].seen
            pick == sess[s].pick
            new == [seen EXCEPT !.winner = pick, !.dispute = "resolved", !.output = asg[pick].response]
<1>1. /\ Close(s) /\ sess[s].op = "resolve" /\ task' = Flush(task, seen, new)
      /\ asg' = [a \in Assignments |->
               IF a \in sess[s].rows
                 THEN [asg[a] EXCEPT !.status = IF a = pick THEN "approved" ELSE "rejected"]
                 ELSE asg[a]]
  BY DEF ResolveCommit
<1>2. /\ task \in TaskRow /\ seen \in TaskRow /\ asg \in [Assignments -> AssignmentRow]
      /\ \A t \in Sessions : \/ sess'[t] = sess[t]
                             \/ sess'[t].seen \in {task, task', NewRow("pending")} /\ sess'[t].op # "resolve"
  BY <1>1, CommitTypes
<1>3. pick \in Assignments /\ asg[pick].response # None  BY <1>1 DEF TypeOK, DecideInv
<1>4. new \in TaskRow /\ new.output = asg[pick].response /\ new.status = seen.status
  <2>1. asg[pick].response \in Answers \cup {EmptyAnswer, None}  BY <1>2, <1>3 DEF AssignmentRow
  <2>. QED  BY <1>2, <1>3, <2>1 DEF TaskRow
<1>. HIDE DEF new
<1>5. task'.output # None
  <2>1. task'.output = (IF new.output # seen.output THEN new.output ELSE task.output)
    BY <1>1, <1>2, <1>4, FlushFields
  <2>. QED  BY <1>3, <1>4, <2>1 DEF DecideInv, KnowsLess
<1>6. ASSUME NEW a \in Assignments
      PROVE  /\ asg'[a].response = asg[a].response
             /\ asg'[a].status \in Answered => asg[a].status \in Answered
  <2>1. CASE a \in sess[s].rows
    <3>1. asg[a].status \in Answered  BY <1>1, <2>1 DEF RowInv, RowsKept, WithStatus, Answered
    <3>. QED  BY <2>1, <3>1, <1>1, <1>2 DEF AssignmentRow
  <2>. QED  BY <2>1, <1>1
<1>7. \A a \in Assignments : asg'[a].status \in Answered => asg'[a].response # None
  BY <1>6 DEF DecideInv
<1>8. \A a \in Assignments : asg[a].response # None => asg'[a].response # None  BY <1>6
<1>. QED  BY <1>2, <1>5, <1>7, <1>8, DecideFrame DEF KnowsLess

LEMMA DecideStep == TypeOK /\ RowInv /\ DecideInv /\ [Next]_vars => DecideInv'
<1>. SUFFICES ASSUME TypeOK, RowInv, DecideInv, [Next]_vars PROVE DecideInv'
  OBVIOUS
<1>0. /\ task \in TaskRow /\ asg \in [Assignments -> AssignmentRow] /\ sess \in [Sessions -> Session]
  BY DEF TypeOK
<1>1. ASSUME Activate \/ Cancel \/ UNCHANGED vars PROVE DecideInv'
  <2>1. /\ UNCHANGED <<asg, sess>> /\ task'.output = task.output /\ task'.dispute = task.dispute
        /\ task'.status = "completed" => task.status = "completed"
    BY <1>0, <1>1 DEF Activate, Cancel, vars, TaskRow
  <2>. QED  BY <2>1, DecideQuiet
<1>2. ASSUME NEW a \in Assignments,
             \/ \E w \in Workers : Claim(w, a)
             \/ SubmitLate(a) \/ Release(a) \/ Expire(a) \/ Approve(a)
      PROVE  DecideInv'
  <2>1. /\ sess' = sess /\ task'.output = task.output /\ task'.dispute = task.dispute
        /\ task'.status = "completed" => task.status = "completed"
    <3>1. task' \in {task, [task EXCEPT !.status = "assigned"], [task EXCEPT !.status = "open"]} /\ sess' = sess
      BY <1>2 DEF Claim, SubmitLate, Release, Expire, Approve
    <3>. QED  BY <3>1, <1>0 DEF TaskRow
  <2>2. \A b \in Assignments : /\ asg'[b].status \in Answered => asg[b].status \in Answered
                               /\ asg'[b].response = asg[b].response
    <3>1. CASE \E w \in Workers : Claim(w, a)  BY <3>1, <1>0 DEF Claim, AssignmentRow, Answered
    <3>2. CASE SubmitLate(a) \/ Release(a)
      <4>1. PICK st \in {"timed_out", "released"} : asg' = [asg EXCEPT ![a] = Ended(@, st)]
        BY <3>2 DEF SubmitLate, Release
      <4>2. Ended(asg[a], st).status = st /\ Ended(asg[a], st).response = asg[a].response
        BY <1>0 DEF Ended, AssignmentRow
      <4>. HIDE DEF Ended
      <4>. QED  BY <4>1, <4>2, <1>0 DEF Answered
    <3>3. CASE Expire(a) \/ Approve(a)
      BY <3>3, <1>0 DEF Expire, Approve, AssignmentRow, Answered
    <3>. QED  BY <1>2, <3>1, <3>2, <3>3
  <2>. QED  BY <2>1, <2>2, DecideQuiet
<1>3. ASSUME NEW s \in Sessions, \/ SweepRead(s) \/ BulkCancelRead(s) \/ BulkArchiveRead(s)
                                 \/ \E a \in Assignments : RejectRead(s, a) \/ ResolveRead(s, a)
      PROVE  DecideInv'
  <2>1. UNCHANGED <<task, asg>> /\ \A t \in Sessions : t # s => sess'[t] = sess[t]
    BY <1>0, <1>3 DEF SweepRead, BulkCancelRead, BulkArchiveRead, RejectRead, ResolveRead, Open
  <2>2. CASE \E a \in Assignments : ResolveRead(s, a)
    <3>1. PICK a \in Assignments : ResolveRead(s, a)  BY <2>2
    <3>2. sess'[s].seen = task /\ sess'[s].pick = a /\ a \in Live
      BY <3>1, <1>0 DEF ResolveRead, Open
    <3>3. asg[a].response # None  BY <3>2, AnswersGiven
    <3>. QED  BY <2>1, <3>2, <3>3, DecideQuiet
  <2>3. CASE ~\E a \in Assignments : ResolveRead(s, a)
    <3>1. sess'[s].seen = task /\ sess'[s].op # "resolve"
      BY <1>0, <1>3, <2>3 DEF SweepRead, BulkCancelRead, BulkArchiveRead, RejectRead, Open
    <3>. QED  BY <2>1, <3>1, DecideQuiet
  <2>. QED  BY <2>2, <2>3
<1>4. ASSUME NEW s \in Sessions, \/ SweepCommit(s) \/ BulkCancelCommit(s) \/ BulkArchiveCommit(s)
                                 \/ RejectCommit(s) \/ Rollback(s)
      PROVE  DecideInv'
  <2>1. Close(s)
    BY <1>4 DEF SweepCommit, BulkCancelCommit, BulkArchiveCommit, RejectCommit, Rollback
  <2>2. sess[s].seen \in TaskRow /\ \A t \in Sessions :
          sess'[t] = sess[t] \/ (sess'[t].seen = NewRow("pending") /\ sess'[t].op # "resolve")
    BY <1>0, <2>1 DEF Close, Idle, Session
  <2>3. \/ task' = task
        \/ \E st \in {"open", "cancelled", "archived"} :
             task' = Flush(task, sess[s].seen, [sess[s].seen EXCEPT !.status = st])
        \/ task' = Flush(task, sess[s].seen, Reopened(sess[s].seen))
    BY <1>4 DEF SweepCommit, BulkCancelCommit, BulkArchiveCommit, RejectCommit, Rollback
  <2>4. /\ task'.output = task.output /\ task'.dispute = task.dispute
        /\ task'.status = "completed" => task.status = "completed"
    <3>1. CASE task' = task  BY <3>1
    <3>2. CASE task' = Flush(task, sess[s].seen, Reopened(sess[s].seen))
      BY <1>0, <2>2, <3>2, FlushQuiet
    <3>3. ASSUME NEW st \in {"open", "cancelled", "archived"},
                 task' = Flush(task, sess[s].seen, [sess[s].seen EXCEPT !.status = st])
          PROVE  /\ task'.output = task.output /\ task'.dispute = task.dispute
                 /\ task'.status = "completed" => task.status = "completed"
      BY <1>0, <2>2, <3>3, FlushQuiet
    <3>. QED  BY <2>3, <3>1, <3>2, <3>3
  <2>5. \A b \in Assignments : /\ asg'[b].status \in Answered => asg[b].status \in Answered
                               /\ asg'[b].response = asg[b].response
    <3>1. CASE asg' = asg  BY <3>1
    <3>2. CASE SweepCommit(s)  BY <3>2, <1>0 DEF SweepCommit, Ended, AssignmentRow, Answered
    <3>3. CASE RejectCommit(s)
      <4>1. /\ asg' = [asg EXCEPT ![sess[s].pick].status = "rejected"]
            /\ asg[sess[s].pick].status = "submitted"
        BY <3>3 DEF RejectCommit, Rejectable
      <4>. QED  BY <4>1, <1>0 DEF AssignmentRow, Answered
    <3>. QED  BY <1>4, <3>1, <3>2, <3>3 DEF BulkCancelCommit, BulkArchiveCommit, Rollback
  <2>. QED  BY <2>2, <2>4, <2>5, DecideQuiet
<1>. QED  BY <1>1, <1>2, <1>3, <1>4, SubmitDecides, ConsensusDecides, ResolveDecides
          DEF Next, WorkerNext, SweeperNext, RequesterNext

(* For every strategy and any number of slots: a completed task has an      *)
(* output unless it waits in dispute, whatever stale sessions write         *)
(* (check_and_apply_consensus, resolve_dispute).                            *)
THEOREM CompletedIsDecided == Spec => []DecidedOrDisputed
<1>1. Init => DecideInv
  <2>. SUFFICES ASSUME Init PROVE DecideInv
    OBVIOUS
  <2>1. task.output = None /\ task.status # "completed"  BY DEF Init, NewRow
  <2>2. \A a \in Assignments : asg[a].status \notin Answered  BY DEF Init, Unclaimed, Answered
  <2>3. \A s \in Sessions : sess[s].op # "resolve" /\ KnowsLess(sess[s].seen, task)
    BY DEF Init, Idle, NewRow, KnowsLess
  <2>. QED  BY <2>1, <2>2, <2>3 DEF DecideInv, DecidedOrDisputed
<1>2. DecideInv => DecidedOrDisputed  BY DEF DecideInv
<1>. QED  BY <1>1, <1>2, DecideStep, TypeCorrect, RowsInvariant, PTL DEF Spec

(* When the first answer wins, nothing but submit_task writes a winner, and *)
(* an answer that was given is not changed.                                 *)
OutputInv == task.winner # None =>
  /\ task.output = asg[task.winner].response
  /\ asg[task.winner].status \in Answered

LEMMA OutputFrame ==
  ASSUME TypeOK, OutputInv,
         task'.winner = task.winner, task'.output = task.output,
         \A a \in Assignments : asg[a].status \in Answered =>
           asg'[a].status \in Answered /\ asg'[a].response = asg[a].response
  PROVE  OutputInv'
<1>. SUFFICES ASSUME task.winner # None
              PROVE  task'.output = asg'[task.winner].response /\ asg'[task.winner].status \in Answered
  BY DEF OutputInv
<1>1. task.winner \in Assignments  BY DEF TypeOK, TaskRow
<1>. QED  BY <1>1 DEF OutputInv

(* Only "active" rows change their answer, and only when they are submitted.*)
LEMMA AnswerKept ==
  ASSUME TypeOK, RowInv, NEW a \in Assignments, asg[a].status \in Answered,
         NEW b \in Assignments,
         \/ \E w \in Workers : Claim(w, b)
         \/ \E x \in Answers \cup {EmptyAnswer} : Submit(b, x)
         \/ SubmitLate(b) \/ Release(b) \/ Expire(b) \/ Approve(b)
  PROVE  asg'[a].status \in Answered /\ asg'[a].response = asg[a].response
<1>0. asg \in [Assignments -> AssignmentRow]  BY DEF TypeOK
<1>1. CASE \E w \in Workers : Claim(w, b)
  <2>1. PICK w \in Workers : Claim(w, b)  BY <1>1
  <2>2. asg' = [asg EXCEPT ![b] = [@ EXCEPT !.worker = w, !.status = "active"]] /\ asg[b].status = "none"
    BY ONLY <2>1 DEF Claim, Unclaimed
  <2>. QED  BY <1>0, <2>2 DEF Answered
<1>2. ASSUME NEW x \in Answers \cup {EmptyAnswer}, Submit(b, x)
      PROVE  asg'[a] = asg[a]
  <2>1. asg' = [asg EXCEPT ![b] = [@ EXCEPT !.status = "submitted", !.response = x]] /\ asg[b].status = "active"
    BY ONLY <1>2 DEF Submit
  <2>. QED  BY <1>0, <2>1 DEF Answered
<1>3. CASE SubmitLate(b) \/ Release(b)
  <2>1. PICK st \in {"timed_out", "released"} : asg' = [asg EXCEPT ![b] = Ended(@, st)]
    BY <1>3 DEF SubmitLate, Release
  <2>2. asg[b].status = "active"  BY <1>3 DEF SubmitLate, Release
  <2>. QED  BY <1>0, <2>1, <2>2 DEF Answered
<1>4. CASE Expire(b)  BY <1>0, <1>4 DEF Expire, Answered
<1>5. CASE Approve(b)  BY <1>0, <1>5 DEF Approve, AssignmentRow, Answered
<1>. QED  BY <1>1, <1>2, <1>3, <1>4, <1>5

LEMMA OutputStep ==
  ASSUME Strategy = "any_first"
  PROVE  TypeOK /\ RowInv /\ SlotInv /\ OutputInv /\ [Next]_vars => OutputInv'
<1>. SUFFICES ASSUME TypeOK, RowInv, SlotInv, OutputInv, [Next]_vars PROVE OutputInv'
  OBVIOUS
<1>0. /\ task \in TaskRow /\ asg \in [Assignments -> AssignmentRow] /\ sess \in [Sessions -> Session]
  BY DEF TypeOK
<1>1. ASSUME Activate \/ Cancel \/ UNCHANGED vars PROVE OutputInv'
  <2>1. asg' = asg /\ task'.winner = task.winner /\ task'.output = task.output
    BY <1>0, <1>1 DEF Activate, Cancel, vars, TaskRow
  <2>. QED  BY <2>1, OutputFrame
<1>2. ASSUME NEW b \in Assignments,
             \/ \E w \in Workers : Claim(w, b)
             \/ SubmitLate(b) \/ Release(b) \/ Expire(b) \/ Approve(b)
      PROVE  OutputInv'
  <2>1. task' \in {task, [task EXCEPT !.status = "assigned"], [task EXCEPT !.status = "open"]}
    BY <1>2 DEF Claim, SubmitLate, Release, Expire, Approve
  <2>2. task'.winner = task.winner /\ task'.output = task.output  BY <1>0, <2>1 DEF TaskRow
  <2>3. \A a \in Assignments : asg[a].status \in Answered =>
          asg'[a].status \in Answered /\ asg'[a].response = asg[a].response
    BY <1>2, AnswerKept
  <2>. QED  BY <2>2, <2>3, OutputFrame
<1>3. ASSUME NEW b \in Assignments, NEW x \in Answers \cup {EmptyAnswer}, Submit(b, x)
      PROVE  OutputInv'
  <2>1. /\ task' = Counted(b, x)
        /\ asg' = [asg EXCEPT ![b] = [@ EXCEPT !.status = "submitted", !.response = x]]
    BY <1>3 DEF Submit
  <2>2. asg'[b].response = x /\ asg'[b].status \in Answered  BY <1>0, <2>1 DEF AssignmentRow, Answered
  <2>3. \/ task'.winner = b /\ task'.output = x
        \/ task'.winner = task.winner /\ task'.output = task.output
    BY <1>0, <2>1 DEF Counted, Won, TaskRow
  <2>4. CASE task'.winner = b /\ task'.output = x  BY <2>2, <2>4 DEF OutputInv
  <2>5. CASE task'.winner = task.winner /\ task'.output = task.output
    <3>1. \A a \in Assignments : asg[a].status \in Answered =>
            asg'[a].status \in Answered /\ asg'[a].response = asg[a].response
      BY <1>3, AnswerKept
    <3>. QED  BY <2>5, <3>1, OutputFrame
  <2>. QED  BY <2>3, <2>4, <2>5
<1>4. ASSUME NEW s \in Sessions, \/ SweepRead(s) \/ BulkCancelRead(s) \/ BulkArchiveRead(s)
                                 \/ \E a \in Assignments : RejectRead(s, a) \/ ResolveRead(s, a)
      PROVE  OutputInv'
  <2>1. UNCHANGED <<task, asg>>
    BY <1>4 DEF SweepRead, BulkCancelRead, BulkArchiveRead, RejectRead, ResolveRead
  <2>. QED  BY <2>1, OutputFrame
<1>5. ASSUME NEW s \in Sessions, \/ SweepCommit(s) \/ BulkCancelCommit(s) \/ BulkArchiveCommit(s)
                                 \/ RejectCommit(s) \/ Rollback(s)
      PROVE  OutputInv'
  <2>1. sess[s].seen \in TaskRow  BY <1>0 DEF Session
  <2>2. \/ task' = task
        \/ \E st \in {"open", "cancelled", "archived"} :
             task' = Flush(task, sess[s].seen, [sess[s].seen EXCEPT !.status = st])
        \/ task' = Flush(task, sess[s].seen, Reopened(sess[s].seen))
    BY <1>5 DEF SweepCommit, BulkCancelCommit, BulkArchiveCommit, RejectCommit, Rollback
  <2>3. task'.winner = task.winner /\ task'.output = task.output
    <3>1. CASE task' = task  BY <3>1
    <3>2. CASE task' = Flush(task, sess[s].seen, Reopened(sess[s].seen))
      BY <1>0, <2>1, <3>2, FlushQuiet
    <3>3. ASSUME NEW st \in {"open", "cancelled", "archived"},
                 task' = Flush(task, sess[s].seen, [sess[s].seen EXCEPT !.status = st])
          PROVE  task'.winner = task.winner /\ task'.output = task.output
      BY <1>0, <2>1, <3>3, FlushQuiet
    <3>. QED  BY <2>2, <3>1, <3>2, <3>3
  <2>4. \A a \in Assignments : asg[a].status \in Answered =>
          asg'[a].status \in Answered /\ asg'[a].response = asg[a].response
    <3>1. CASE asg' = asg  BY <3>1
    <3>2. CASE SweepCommit(s)
      <4>1. sess[s].rows \subseteq Active  BY <3>2 DEF SweepCommit, RowInv, RowsKept
      <4>2. asg' = [a \in Assignments |->
                     IF a \in sess[s].rows THEN Ended(asg[a], "timed_out") ELSE asg[a]]
        BY <3>2 DEF SweepCommit
      <4>3. \A a \in Assignments : asg[a].status \in Answered => a \notin sess[s].rows
        BY <4>1 DEF Active, WithStatus, Answered
      <4>. QED  BY <4>2, <4>3
    <3>3. CASE RejectCommit(s)
      <4>1. asg' = [asg EXCEPT ![sess[s].pick].status = "rejected"]
        BY <3>3 DEF RejectCommit
      <4>. QED  BY <4>1, <1>0 DEF AssignmentRow, Answered
    <3>. QED  BY <1>5, <3>1, <3>2, <3>3 DEF BulkCancelCommit, BulkArchiveCommit, Rollback
  <2>. QED  BY <2>3, <2>4, OutputFrame
<1>6. ASSUME NEW s \in Sessions, Consensus(s) \/ ResolveCommit(s) PROVE FALSE
  <2>1. sess[s].op \in {"consensus", "resolve"}
    BY ONLY <1>6 DEF Consensus, ResolveCommit
  <2>. QED  BY <2>1 DEF SlotInv
<1>. QED  BY <1>1, <1>2, <1>3, <1>4, <1>5, <1>6 DEF Next, WorkerNext, SweeperNext, RequesterNext

(* For any number of slots of an any_first task: the output a requester is  *)
(* shown is the response of the assignment recorded as the winner, though   *)
(* sweeper, bulk endpoints and rejections write from stale copies of the    *)
(* row and a reopened task is won again (submit_task, reject_submission).   *)
THEOREM WinnerAnswered ==
  ASSUME Strategy = "any_first"
  PROVE  Spec => []OutputIsWinners
<1>1. Init => OutputInv  BY DEF Init, NewRow, OutputInv
<1>2. TypeOK /\ RowInv /\ SlotInv /\ OutputInv /\ [Next]_vars => OutputInv'  BY OutputStep
<1>3. OutputInv => OutputIsWinners  BY DEF OutputInv, OutputIsWinners
<1>. QED  BY <1>1, <1>2, <1>3, TypeCorrect, RowsInvariant, SlotsInvariant, PTL DEF Spec
=============================================================================
