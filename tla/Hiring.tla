------------------------------ MODULE Hiring ------------------------------
(* The four ways to a row of task_assignments, over several tasks and      *)
(* workers: claim_task (routers/worker.py), accepting an application       *)
(* (routers/applications.py), accepting an invite                          *)
(* (routers/worker_marketplace.py), and after them submit, release,        *)
(* approval and cancel.  Timeouts, rejections and consensus, which         *)
(* HumanTask has for one task, are left out.  Skill, reputation, team and  *)
(* ban gates, read without a lock, are a choice of which worker calls.     *)
EXTENDS Integers, FiniteSets, Sequences

CONSTANTS Tasks, ByApplication, Workers, Desks, Slots, Cap, MaxRows, MaxLate

ASSUME HiringAssumption ==
  /\ ByApplication \subseteq Tasks
  /\ Slots \in [Tasks -> Nat \ {0}]
  /\ Cap \in Nat \ {0} /\ MaxRows \in Nat /\ MaxLate \in Nat

VARIABLES
  job,   \* tasks: status and assignments_completed
  hired, \* the sequence of task_assignments
  bid,   \* task_applications, one per task and worker at most
  offer, \* worker_invites, one per task and worker at most
  desk,  \* requests under way: what each has read and locked
  late   \* assignments a worker got between the check and the commit of a claim

hireVars == <<job, hired, bid, offer, desk, late>>

Row == [task : Tasks, worker : Workers, via : {"claim", "invite", "application"},
        status : {"active", "submitted", "approved", "released"}]

Free == [op |-> "free"]
Session ==
  {Free} \cup
  [op : {"claim"}, task : Tasks, worker : Workers, count : 0..MaxRows] \cup
  [op : {"accept"}, task : ByApplication, worker : Workers, others : SUBSET Workers] \cup
  [op : {"apply", "withdraw"}, task : ByApplication, worker : Workers] \cup
  [op : {"respond", "list"}, task : Tasks, worker : Workers]

HireTypeOK ==
  /\ job \in [Tasks -> [status : {"open", "assigned", "completed", "cancelled"},
                        completed : 0..MaxRows]]
  /\ hired \in Seq(Row) /\ Len(hired) <= MaxRows
  /\ bid \in [ByApplication -> [Workers -> {"none", "pending", "accepted", "rejected",
                                            "withdrawn"}]]
  /\ offer \in [Tasks -> [Workers -> {"none", "pending", "stale", "accepted", "declined",
                                      "expired"}]]
  /\ desk \in [Desks -> Session]
  /\ late \in 0..MaxLate

HireInit ==
  /\ job = [t \in Tasks |-> [status |-> "open", completed |-> 0]]
  /\ hired = <<>>
  /\ bid = [t \in ByApplication |-> [w \in Workers |-> "none"]]
  /\ offer = [t \in Tasks |-> [w \in Workers |-> "none"]]
  /\ desk = [d \in Desks |-> Free]
  /\ late = 0

RowsWhere(P(_)) == Cardinality({i \in DOMAIN hired : P(hired[i])})
OnTask(t, S) == RowsWhere(LAMBDA r : r.task = t /\ r.status \in S)
ActiveOf(w) == RowsWhere(LAMBDA r : r.worker = w /\ r.status = "active")

Doing(op, t, w) == \E d \in Desks : /\ desk[d].op = op
                                    /\ desk[d].task = t /\ desk[d].worker = w

(* Rows a request under way has locked with SELECT ... FOR UPDATE. *)
TaskLocked(t) == \E w \in Workers : Doing("claim", t, w)
BidLocked(t, w) == Doing("accept", t, w)
OfferLocked(t, w) == Doing("respond", t, w)

Sit(d, ses) == desk[d] = Free /\ desk' = [desk EXCEPT ![d] = ses]
Leave(d) == desk' = [desk EXCEPT ![d] = Free]

Hire(t, w, via) ==
  /\ Len(hired) < MaxRows
  /\ hired' = Append(hired, [task |-> t, worker |-> w, via |-> via, status |-> "active"])

SetStatus(t, st) == job' = [job EXCEPT ![t].status = st]

(* A request that ends with an error, a refusal, or a deadlock abort. *)
Refuse(d) == desk[d] # Free /\ Leave(d) /\ UNCHANGED <<job, hired, bid, offer, late>>

---------------------------------------------------------------------------
(* claim_task: the task is locked, the worker's other claims are only      *)
(* counted.                                                                *)

UnderCapNext(n) == n <= Cap \* mutant
UnderCap(n) == n < Cap

InProgress(t) == job[t].completed + OnTask(t, {"active"})

ClaimBegin(d, t, w) ==
  /\ t \notin ByApplication
  /\ job[t].status = "open" /\ ~TaskLocked(t)
  /\ ~\E i \in DOMAIN hired : /\ hired[i].task = t /\ hired[i].worker = w
                              /\ hired[i].status \in {"active", "submitted", "approved"}
  /\ InProgress(t) < Slots[t]
  /\ UnderCap(ActiveOf(w))
  /\ Sit(d, [op |-> "claim", task |-> t, worker |-> w, count |-> ActiveOf(w)])
  /\ UNCHANGED <<job, hired, bid, offer, late>>

ClaimEnd(d) ==
  LET t == desk[d].task
      w == desk[d].worker IN
  /\ desk[d].op = "claim"
  /\ Hire(t, w, "claim")
  /\ IF InProgress(t) + 1 >= Slots[t] THEN SetStatus(t, "assigned") ELSE UNCHANGED job
  /\ late' = late + (IF ActiveOf(w) > desk[d].count THEN ActiveOf(w) - desk[d].count ELSE 0)
  /\ late' <= MaxLate
  /\ Leave(d)
  /\ UNCHANGED <<bid, offer>>

---------------------------------------------------------------------------
(* Applications                                                            *)

ApplyBegin(d, t, w) ==
  /\ job[t].status = "open"
  /\ bid[t][w] \in {"none", "withdrawn"}
  /\ Sit(d, [op |-> "apply", task |-> t, worker |-> w])
  /\ UNCHANGED <<job, hired, bid, offer, late>>

(* (task, worker) is unique: after a withdrawal the insert fails. *)
ApplyEnd(d) ==
  LET t == desk[d].task
      w == desk[d].worker IN
  /\ desk[d].op = "apply"
  /\ bid[t][w] = "none"
  /\ bid' = [bid EXCEPT ![t][w] = "pending"]
  /\ Leave(d)
  /\ UNCHANGED <<job, hired, offer, late>>

DecidableTwice(b) == b \in {"pending", "rejected"} \* mutant
Decidable(b) == b = "pending"

(* accept_application locks the application it accepts; the others, and    *)
(* the task, it only reads.                                                *)
AcceptBegin(d, t, w) ==
  /\ Decidable(bid[t][w]) /\ ~BidLocked(t, w)
  /\ Sit(d, [op |-> "accept", task |-> t, worker |-> w,
             others |-> {v \in Workers \ {w} : bid[t][v] = "pending"}])
  /\ UNCHANGED <<job, hired, bid, offer, late>>

AcceptEnd(d) ==
  LET t == desk[d].task
      w == desk[d].worker
      others == desk[d].others IN
  /\ desk[d].op = "accept"
  /\ ~TaskLocked(t)
  /\ \A v \in others : ~BidLocked(t, v)
  /\ Hire(t, w, "application")
  /\ bid' = [bid EXCEPT ![t] = [v \in Workers |-> IF v = w THEN "accepted"
                                                  ELSE IF v \in others THEN "rejected"
                                                  ELSE bid[t][v]]]
  /\ SetStatus(t, "assigned")
  /\ Leave(d)
  /\ UNCHANGED <<offer, late>>

RejectBid(t, w) ==
  /\ Decidable(bid[t][w]) /\ ~BidLocked(t, w)
  /\ bid' = [bid EXCEPT ![t][w] = "rejected"]
  /\ UNCHANGED <<job, hired, offer, desk, late>>

(* withdraw_application takes no lock: its write may come after a decision. *)
WithdrawBegin(d, t, w) ==
  /\ bid[t][w] = "pending"
  /\ Sit(d, [op |-> "withdraw", task |-> t, worker |-> w])
  /\ UNCHANGED <<job, hired, bid, offer, late>>

WithdrawEnd(d) ==
  LET t == desk[d].task
      w == desk[d].worker IN
  /\ desk[d].op = "withdraw"
  /\ ~BidLocked(t, w)
  /\ bid' = [bid EXCEPT ![t][w] = "withdrawn"]
  /\ Leave(d)
  /\ UNCHANGED <<job, hired, offer, late>>

---------------------------------------------------------------------------
(* Invites                                                                 *)

Invitable(t, w) == offer[t][w] = "none"

Invite(t, w) ==
  /\ job[t].status = "open"
  /\ Invitable(t, w)
  /\ offer' = [offer EXCEPT ![t][w] = "pending"]
  /\ UNCHANGED <<job, hired, bid, desk, late>>

(* Those invited before are skipped. *)
BulkInvite(t, asked) ==
  /\ job[t].status = "open"
  /\ offer' = [offer EXCEPT ![t] = [w \in Workers |->
       IF w \in asked /\ Invitable(t, w) THEN "pending" ELSE offer[t][w]]]
  /\ UNCHANGED <<job, hired, bid, desk, late>>

(* 48 hours pass. *)
GrowStale(t, w) ==
  /\ offer[t][w] = "pending"
  /\ offer' = [offer EXCEPT ![t][w] = "stale"]
  /\ UNCHANGED <<job, hired, bid, desk, late>>

(* respond_to_invite locks the invite, and then the task. *)
RespondBegin(d, t, w) ==
  /\ offer[t][w] = "pending" /\ ~OfferLocked(t, w)
  /\ Sit(d, [op |-> "respond", task |-> t, worker |-> w])
  /\ UNCHANGED <<job, hired, bid, offer, late>>

(* The handler's check looks at unfinished and unreviewed rows only. *)
Occupied(t) == OnTask(t, {"active", "submitted"})

AcceptInvite(d) ==
  LET t == desk[d].task
      w == desk[d].worker IN
  /\ desk[d].op = "respond"
  /\ job[t].status = "open" /\ ~TaskLocked(t)
  /\ Occupied(t) < Slots[t]
  /\ Hire(t, w, "invite")
  /\ IF job[t].completed + Occupied(t) + 1 >= Slots[t]
       THEN SetStatus(t, "assigned") ELSE UNCHANGED job
  /\ offer' = [offer EXCEPT ![t][w] = "accepted"]
  /\ Leave(d)
  /\ UNCHANGED <<bid, late>>

DeclineInvite(d) ==
  /\ desk[d].op = "respond"
  /\ offer' = [offer EXCEPT ![desk[d].task][desk[d].worker] = "declined"]
  /\ Leave(d)
  /\ UNCHANGED <<job, hired, bid, late>>

RespondTooLate(t, w) ==
  /\ offer[t][w] = "stale" /\ ~OfferLocked(t, w)
  /\ offer' = [offer EXCEPT ![t][w] = "expired"]
  /\ UNCHANGED <<job, hired, bid, desk, late>>

(* list_my_invites marks what it read as pending and old, by id alone. *)
ListBegin(d, t, w) ==
  /\ offer[t][w] = "stale"
  /\ Sit(d, [op |-> "list", task |-> t, worker |-> w])
  /\ UNCHANGED <<job, hired, bid, offer, late>>

ListEnd(d) ==
  LET t == desk[d].task
      w == desk[d].worker IN
  /\ desk[d].op = "list"
  /\ ~OfferLocked(t, w)
  /\ offer' = [offer EXCEPT ![t][w] = "expired"]
  /\ Leave(d)
  /\ UNCHANGED <<job, hired, bid, late>>

---------------------------------------------------------------------------
(* After the assignment                                                    *)

(* submit and release look for the worker's one active row of the task;    *)
(* with two of them both raise.                                            *)
TheClaim(i) ==
  /\ hired[i].status = "active" /\ ~TaskLocked(hired[i].task)
  /\ \A j \in DOMAIN hired \ {i} : ~ /\ hired[j].status = "active"
                                     /\ hired[j].task = hired[i].task
                                     /\ hired[j].worker = hired[i].worker

Submit(i) ==
  LET t == hired[i].task
      done == job[t].completed + 1 IN
  /\ TheClaim(i)
  /\ job[t].status # "cancelled"
  /\ hired' = [hired EXCEPT ![i].status = "submitted"]
  /\ job' = [job EXCEPT ![t] = [completed |-> done,
                                status |-> IF done >= Slots[t] THEN "completed"
                                           ELSE IF @.status = "assigned" THEN "open"
                                           ELSE @.status]]
  /\ UNCHANGED <<bid, offer, desk, late>>

Release(i) ==
  LET t == hired[i].task IN
  /\ TheClaim(i)
  /\ hired' = [hired EXCEPT ![i].status = "released"]
  /\ IF job[t].status = "assigned" THEN SetStatus(t, "open") ELSE UNCHANGED job
  /\ UNCHANGED <<bid, offer, desk, late>>

Approve(i) ==
  /\ hired[i].status = "submitted"
  /\ hired' = [hired EXCEPT ![i].status = "approved"]
  /\ UNCHANGED <<job, bid, offer, desk, late>>

CancelTask(t) ==
  /\ job[t].status = "open" /\ ~TaskLocked(t)
  /\ SetStatus(t, "cancelled")
  /\ UNCHANGED <<hired, bid, offer, desk, late>>

---------------------------------------------------------------------------
Requests(d) ==
  \/ Refuse(d)
  \/ ClaimEnd(d) \/ ApplyEnd(d) \/ AcceptEnd(d) \/ WithdrawEnd(d)
  \/ AcceptInvite(d) \/ DeclineInvite(d) \/ ListEnd(d)
  \/ \E t \in Tasks, w \in Workers :
       ClaimBegin(d, t, w) \/ RespondBegin(d, t, w) \/ ListBegin(d, t, w)
  \/ \E t \in ByApplication, w \in Workers :
       ApplyBegin(d, t, w) \/ AcceptBegin(d, t, w) \/ WithdrawBegin(d, t, w)

HireNext ==
  \/ \E d \in Desks : Requests(d)
  \/ \E t \in Tasks, w \in Workers :
       Invite(t, w) \/ GrowStale(t, w) \/ RespondTooLate(t, w)
  \/ \E t \in Tasks, asked \in SUBSET Workers : BulkInvite(t, asked)
  \/ \E t \in ByApplication, w \in Workers : RejectBid(t, w)
  \/ \E i \in DOMAIN hired : Submit(i) \/ Release(i) \/ Approve(i)
  \/ \E t \in Tasks : CancelTask(t)

HireSpec == HireInit /\ [][HireNext]_hireVars

---------------------------------------------------------------------------
Through(via, t, w) == RowsWhere(LAMBDA r : r.via = via /\ r.task = t /\ r.worker = w)

(* One answer, one assignment: however acceptances, rejections, withdrawals *)
(* and listings of one application or invite overlap, it puts its worker on *)
(* the task at most once, exactly once if it says accepted, and never while *)
(* it is undecided or declined.  (A withdrawal, a listing, or an acceptance *)
(* that read an uncommitted rival may be written over an acceptance.)       *)
HiredOnce ==
  /\ \A t \in ByApplication, w \in Workers :
       /\ Through("application", t, w) <= 1
       /\ bid[t][w] = "accepted" => Through("application", t, w) = 1
       /\ bid[t][w] \in {"none", "pending"} => Through("application", t, w) = 0
  /\ \A t \in Tasks, w \in Workers :
       /\ Through("invite", t, w) <= 1
       /\ offer[t][w] = "accepted" => Through("invite", t, w) = 1
       /\ offer[t][w] \in {"none", "pending", "stale", "declined"} => Through("invite", t, w) = 0

(* The cap of active claims (claim_task), counted without a lock on the    *)
(* worker: a claim comes on top of at most Cap - 1 assignments still       *)
(* active, however they were obtained, and of those the worker got while   *)
(* it was under way.                                                       *)
CapHeld == \A i \in DOMAIN hired :
  hired[i].via = "claim" /\ hired[i].status = "active" =>
    Cardinality({j \in 1..i : /\ hired[j].worker = hired[i].worker
                             /\ hired[j].status = "active"}) <= Cap + late

(* However claims, applications and invites overlap, each answer hires once *)
(* and the cap is passed by no more than what was under way.                *)
HiringKept == HiredOnce /\ CapHeld

(* respond_to_invite: "the worker is auto-assigned to the task (if still   *)
(* open and slots are available)": the rows of a task without applications *)
(* never outnumber its slots.                                              *)
InviteKeepsSlots == \A t \in Tasks \ ByApplication :
  OnTask(t, {"active", "submitted", "approved"}) <= Slots[t]
============================================================================
