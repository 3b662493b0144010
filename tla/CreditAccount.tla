--------------------------- MODULE CreditAccount ---------------------------
(***************************************************************************)
(* One user's credits: the balance in "users", the credit transactions     *)
(* that explain it, the payout requests that hold part of it, and the      *)
(* bonuses that may be awarded once.                                       *)
(*                                                                         *)
(* Every handler is a session that first reads and then commits.  SELECT   *)
(* ... FOR UPDATE keeps the row locked from the read to the commit; a      *)
(* handler that does not lock holds a balance or a flag that may be old by *)
(* the time it writes, and its UPDATE still waits for the row's lock.  A   *)
(* lock does not refresh a user the session already holds either.          *)
(***************************************************************************)
EXTENDS Integers, FiniteSets

CONSTANTS Sessions,   \* database sessions that can be open at once
          Payouts,    \* ids of the payout requests that can be created
          Steps,      \* steps of the worker's onboarding
          Amounts,    \* credits a charge, an earning or a payout can be about
          Initial,    \* the user's credits at the start
          MinPayout,  \* MIN_PAYOUT_CREDITS
          FreezeCost, \* STREAK_FREEZE_COST
          MaxFreezes, \* MAX_STREAK_FREEZES
          Bonus,      \* credits of a bonus
          Ceiling,    \* bound on the balance an earning can reach
          MaxClaims,  \* bound on the awards claimed before another is begun
          MaxPooled,  \* bound on the pool charges booked to the user and not refunded
          MaxDrift    \* bound on what outdated writes made of the balance

ASSUME AmountsAssumption == Amounts \subseteq Nat \ {0}
ASSUME NumbersAssumption ==
  {Initial, MinPayout, FreezeCost, MaxFreezes, Bonus, Ceiling, MaxClaims,
   MaxPooled, MaxDrift} \subseteq Nat

VARIABLES credits,    \* users.credits
          booked,     \* sum of the amounts in the user's credit transactions
          pooled,     \* of that, the amounts an organisation's pool paid or got back
          payout,     \* the payout requests
          returned,   \* number of refund transactions of each payout
          steps,      \* onboarding steps marked done
          claimed,    \* bonus_claimed, bonus_paid of each award
          awards,     \* number of bonus transactions of each award
          freezes,    \* users.streak_freezes
          drift,      \* what writes from an outdated row added to the user's worth
          sess        \* what each open session has read

vars == <<credits, booked, pooled, payout, returned, steps, claimed, awards, freezes, drift, sess>>

Awards == {"daily", "referral", "onboarding"}
PayoutStatus == {"none", "pending", "processing", "paid", "rejected"}

(* An open session: what it does, and what it read to decide on it. *)
Idle == [op |-> "idle"]
Session ==
  {Idle} \cup [op: {"charge", "earn"}, seen: Nat, amount: Nat]
         \cup [op: {"freeze"}, seen: Nat, held: Nat]
         \cup [op: {"request"}, seen: Nat, amount: Nat, payout: Payouts]
         \cup [op: {"cancel", "review"}, payout: Payouts, to: PayoutStatus]
         \cup [op: {"run"}, seen: Nat, amount: Nat] \cup [op: {"executor", "notify"}, seen: Nat]
         \cup [op: {"daily", "onboarding"}] \cup [op: {"referral"}, held: BOOLEAN, seen: Nat]
         \cup [op: {"step"}, step: Steps, done: SUBSET Steps, bonus: BOOLEAN]
         \cup [op: {"reset"}, done: SUBSET Steps]

Begin(s, ses) == sess[s] = Idle /\ sess' = [sess EXCEPT ![s] = ses]
Close(s) == sess' = [sess EXCEPT ![s] = Idle]

LockingWithoutRequest == {"charge", "earn", "run", "daily"} \* mutant
LockingWithoutCharge == {"earn", "request", "run", "daily"} \* mutant

(* Handlers that read the user row FOR UPDATE before they decide. *)
LockingUser == {"charge", "earn", "request", "run", "daily"}

UserFree(s) == \A t \in Sessions \ {s} : sess[t].op \notin LockingUser

PayoutReadFreely(p) == TRUE \* mutant
(* The lock cancel_payout_request and admin_review_payout take first. *)
PayoutFree(p) == \A t \in Sessions : sess[t].op \in {"cancel", "review"} => sess[t].payout # p

Open == {p \in Payouts : payout[p].status \in {"pending", "processing"}}

Init == /\ credits = Initial
        /\ booked = 0
        /\ pooled = 0
        /\ payout = [p \in Payouts |-> [status |-> "none", amount |-> 0]]
        /\ returned = [p \in Payouts |-> 0]
        /\ steps = {}
        /\ claimed = [k \in Awards |-> FALSE]
        /\ awards = [k \in Awards |-> 0]
        /\ freezes = 0
        /\ drift = 0
        /\ sess = [s \in Sessions |-> Idle]

Unread == UNCHANGED <<credits, booked, pooled, payout, returned, steps, claimed, awards, freezes,
                      drift>>

(* What the user has: the credits, and the freezes at what they cost. *)
Worth(c, f) == c + FreezeCost * f

(* A write from a row read as credits c and freezes f takes back what was   *)
(* done to the row since.                                                   *)
WriteOver(c, f) == /\ drift' = drift + Worth(c, f) - Worth(credits, freezes)
                   /\ -MaxDrift <= drift' /\ drift' <= MaxDrift

(* The balance becomes c, and a transaction over the difference n is added. *)
Post(c, n) == credits' = c /\ booked' = booked + n

---------------------------------------------------------------------------
Affordable(n) == credits >= n

(* Movements under the user's lock: a task is charged, an answer is paid.   *)

ChargeRead(s, n) == /\ UserFree(s)
                    /\ Affordable(n)
                    /\ Begin(s, [op |-> "charge", seen |-> credits, amount |-> n])
                    /\ Unread

EarnRead(s, n) == /\ UserFree(s)
                  /\ credits + n <= Ceiling
                  /\ Begin(s, [op |-> "earn", seen |-> credits, amount |-> n])
                  /\ Unread

MoveCommit(s) ==
  LET ses == sess[s] IN
  /\ \/ ses.op = "charge" /\ Post(ses.seen - ses.amount, -ses.amount)
     \/ ses.op = "earn"   /\ Post(ses.seen + ses.amount, ses.amount)
  /\ UserFree(s)
  /\ Close(s)
  /\ UNCHANGED <<pooled, payout, returned, steps, claimed, awards, freezes, drift>>

(* A task billed to an organisation: the pool is charged, or refunded, and  *)
(* the transaction is the user's.  create_task holds the user's lock, too.  *)
PoolMove(n) == /\ pooled + n \in -MaxPooled .. 0
               /\ n < 0 => \A t \in Sessions : sess[t].op \notin LockingUser
               /\ booked' = booked + n
               /\ pooled' = pooled + n
               /\ UNCHANGED <<credits, payout, returned, steps, claimed, awards, freezes, drift, sess>>

(* _execute_pipeline keeps its user object from one AI step to the next:    *)
(* the first SELECT ... FOR UPDATE reads the row, a later one only locks it *)
(* and the step is charged to the balance the step before it left.          *)
RunRead(s, n) ==
  LET c == IF sess[s] = Idle THEN credits ELSE sess[s].seen IN
  /\ sess[s].op \in {"idle", "executor"}
  /\ UserFree(s)
  /\ c >= n
  /\ sess' = [sess EXCEPT ![s] = [op |-> "run", seen |-> c, amount |-> n]]
  /\ Unread

RunCommit(s) ==
  LET ses == sess[s] IN
  /\ ses.op = "run"
  /\ UserFree(s)
  /\ Post(ses.seen - ses.amount, -ses.amount)
  /\ WriteOver(ses.seen, freezes)
  /\ sess' = [sess EXCEPT ![s] = [op |-> "executor", seen |-> ses.seen - ses.amount]]
  /\ UNCHANGED <<pooled, payout, returned, steps, claimed, awards, freezes>>

(* buy_streak_freeze loads the user without a lock, and books nothing.      *)
FreezeRead(s) == /\ freezes < MaxFreezes
                 /\ Affordable(FreezeCost)
                 /\ Begin(s, [op |-> "freeze", seen |-> credits, held |-> freezes])
                 /\ Unread

FreezeCommit(s) == /\ sess[s].op = "freeze"
                   /\ UserFree(s)
                   /\ credits' = sess[s].seen - FreezeCost
                   /\ freezes' = sess[s].held + 1
                   /\ WriteOver(sess[s].seen, sess[s].held)
                   /\ Close(s)
                   /\ UNCHANGED <<booked, pooled, payout, returned, steps, claimed, awards>>

---------------------------------------------------------------------------
(* Payouts *)

RequestRead(s, p, n) ==
  /\ UserFree(s)
  /\ n >= MinPayout /\ Affordable(n)
  /\ payout[p].status = "none"
  /\ Open = {}
  /\ Begin(s, [op |-> "request", seen |-> credits, amount |-> n, payout |-> p])
  /\ Unread

RequestCommit(s) ==
  LET ses == sess[s] IN
  /\ ses.op = "request"
  /\ UserFree(s)
  /\ payout[ses.payout].status = "none"
  /\ payout' = [payout EXCEPT ![ses.payout] = [status |-> "pending", amount |-> ses.amount]]
  /\ Post(ses.seen - ses.amount, -ses.amount)
  /\ Close(s)
  /\ UNCHANGED <<pooled, returned, steps, claimed, awards, freezes, drift>>

CancelRead(s, p) ==
  /\ PayoutFree(p)
  /\ payout[p].status = "pending"
  /\ Begin(s, [op |-> "cancel", payout |-> p, to |-> "rejected"])
  /\ Unread

ReviewRead(s, p, to) ==
  /\ PayoutFree(p)
  /\ p \in Open
  /\ Begin(s, [op |-> "review", payout |-> p, to |-> to])
  /\ Unread

ReturnHeld(s, p) == /\ UserFree(s)
                    /\ Post(credits + payout[p].amount, payout[p].amount)
                    /\ returned' = [returned EXCEPT ![p] = @ + 1]

Settle(s) ==
  LET p == sess[s].payout IN
  /\ sess[s].op \in {"cancel", "review"}
  /\ payout' = [payout EXCEPT ![p].status = sess[s].to]
  /\ IF sess[s].to = "rejected" THEN ReturnHeld(s, p) ELSE UNCHANGED <<credits, booked, returned>>
  /\ Close(s)
  /\ UNCHANGED <<pooled, steps, claimed, awards, freezes, drift>>

---------------------------------------------------------------------------
(* Bonuses *)

Claimable(k) == ~claimed[k] /\ Cardinality({a \in Awards : claimed[a]}) < MaxClaims

(* claim_daily_bonus reads the flag once it holds the user's row.           *)
DailyRead(s) == /\ UserFree(s)
                /\ Claimable("daily")
                /\ Begin(s, [op |-> "daily"])
                /\ Unread

UnlockedReferral == TRUE \* mutant
(* pay_referral_bonus_on_first_task locks the unpaid referral's row first.  *)
ReferralFree == \A t \in Sessions : sess[t].op # "referral"

(* submit_task reads the requester, to tell them of the answer, first.  If  *)
(* that is the user who referred the worker, the session holds the row.     *)
NotifyRead(s) == Begin(s, [op |-> "notify", seen |-> credits]) /\ Unread

ReferralRead(s) ==
  /\ ReferralFree
  /\ Claimable("referral")
  /\ \/ /\ sess[s] = Idle
        /\ sess' = [sess EXCEPT ![s] = [op |-> "referral", held |-> FALSE, seen |-> 0]]
     \/ /\ sess[s].op = "notify"
        /\ sess' = [sess EXCEPT ![s] = [op |-> "referral", held |-> TRUE, seen |-> sess[s].seen]]
  /\ Unread

(* The balance an award is added to is read under the user's lock, held     *)
(* from the start or taken now, unless the session holds the row already;   *)
(* the flag is not read again.                                              *)
AwardCommit(s) ==
  LET k == sess[s].op
      c == IF k = "referral" /\ sess[s].held THEN sess[s].seen ELSE credits IN
  /\ k \in Awards
  /\ UserFree(s)
  /\ Post(c + Bonus, Bonus)
  /\ WriteOver(c, freezes)
  /\ claimed' = [claimed EXCEPT ![k] = TRUE]
  /\ awards' = [awards EXCEPT ![k] = @ + 1]
  /\ Close(s)
  /\ UNCHANGED <<pooled, payout, returned, steps, freezes>>

(* complete_step commits the step first; it decides whether the bonus is    *)
(* due on the row it read before, and awards it in a second transaction.    *)
StepRead(s, st) ==
  /\ st \notin steps
  /\ claimed["onboarding"] \/ Claimable("onboarding")
  /\ Begin(s, [op |-> "step", step |-> st, done |-> steps \cup {st},
               bonus |-> ~claimed["onboarding"]])
  /\ Unread

StepCommit(s) ==
  LET ses == sess[s] IN
  /\ ses.op = "step"
  /\ steps' = steps \cup {ses.step}
  /\ IF ses.done = Steps /\ ses.bonus
       THEN sess' = [sess EXCEPT ![s] = [op |-> "onboarding"]]
       ELSE Close(s)
  /\ UNCHANGED <<credits, booked, pooled, payout, returned, claimed, awards, freezes, drift>>

(* mark_onboarding_step, called from other handlers, never awards.          *)
MarkStep(st) == /\ st \notin steps
                /\ steps' = steps \cup {st}
                /\ UNCHANGED <<credits, booked, pooled, payout, returned, claimed, awards,
                               freezes, drift, sess>>

ResetRead(s) == /\ Begin(s, [op |-> "reset", done |-> steps])
                /\ Unread

ResetCommit(s) ==
  /\ sess[s].op = "reset"
  /\ steps' = steps \ sess[s].done
  /\ Close(s)
  /\ UNCHANGED <<credits, booked, pooled, payout, returned, claimed, awards, freezes, drift>>

(* A request that raises, or dies, rolls its open transaction back, and an  *)
(* executor ends after any of its steps.                                    *)
Rollback(s) == sess[s] # Idle /\ Close(s) /\ Unread

---------------------------------------------------------------------------

BalanceNext(s) == \/ \E n \in Amounts : ChargeRead(s, n) \/ EarnRead(s, n) \/ RunRead(s, n)
                  \/ MoveCommit(s) \/ RunCommit(s) \/ FreezeRead(s) \/ FreezeCommit(s)

PayoutNext(s) == \/ \E p \in Payouts :
                      \/ \E n \in Amounts : RequestRead(s, p, n)
                      \/ CancelRead(s, p)
                      \/ \E to \in {"processing", "paid", "rejected"} : ReviewRead(s, p, to)
                 \/ RequestCommit(s) \/ Settle(s)

BonusNext(s) == \/ DailyRead(s) \/ NotifyRead(s) \/ ReferralRead(s) \/ AwardCommit(s)
                \/ \E st \in Steps : StepRead(s, st)
                \/ StepCommit(s) \/ ResetRead(s) \/ ResetCommit(s)

Next == \/ \E s \in Sessions : BalanceNext(s) \/ PayoutNext(s) \/ BonusNext(s) \/ Rollback(s)
        \/ \E st \in Steps : MarkStep(st)
        \/ \E n \in Amounts : PoolMove(n) \/ PoolMove(-n)

Spec == Init /\ [][Next]_vars

---------------------------------------------------------------------------
(* Properties *)

(* Every variable holds a value of its kind; in particular the balance is   *)
(* never negative.                                                          *)
TypeOK == /\ credits \in Nat
          /\ booked \in Int
          /\ pooled \in Int
          /\ payout \in [Payouts -> [status: PayoutStatus, amount: Nat]]
          /\ returned \in [Payouts -> Nat]
          /\ steps \subseteq Steps
          /\ claimed \in [Awards -> BOOLEAN]
          /\ awards \in [Awards -> Nat]
          /\ freezes \in Nat
          /\ drift \in Int
          /\ sess \in [Sessions -> Session]

(* The credit transactions explain the balance, to the credit: charges,     *)
(* earnings, payouts, their refunds and bonuses lose no update to one       *)
(* another.  Apart from the transactions an organisation's pool paid, and   *)
(* the freezes, which are not booked, only three writes take back movements *)
(* that were committed in between, and they are off by those: a freeze, a   *)
(* pipeline's step after its first, and a referral's bonus paid to the      *)
(* requester of the answer.                                                 *)
BooksBalance == Worth(credits, freezes) = Initial + booked - pooled + drift

(* "Only one at a time" (create_payout_request), however requests, cancels  *)
(* and reviews overlap.                                                     *)
OneOpenPayout == \A p, q \in Open : p = q

(* The credits a payout holds come back exactly once, and only when it ends *)
(* rejected: the worker's cancel and the admin's review never both return.  *)
HeldReturnedOnce == \A p \in Payouts : returned[p] = IF payout[p].status = "rejected" THEN 1 ELSE 0

(* Both, whatever requests, cancels and reviews of payouts overlap: the     *)
(* credits a worker asks for are held once and end paid or returned once.   *)
PayoutsKept == OneOpenPayout /\ HeldReturnedOnce

(* A payout that was paid or rejected stays as it is (admin_review_payout   *)
(* blocks transitions from terminal states).                                *)
SettledIsFinal ==
  [][\A p \in Payouts : payout[p].status \in {"paid", "rejected"} => payout'[p] = payout[p]]_vars

(* The awards whose flag is read under a lock are made at most once.        *)
LockedAwardsOnce == awards["daily"] <= 1 /\ awards["referral"] <= 1

---------------------------------------------------------------------------
(* What the source says of itself, and the code does not do *)

(* onboarding.py complete_step: the user's lock is there so that "two       *)
(* concurrent final-step requests don't both pass the bonus_claimed guard". *)
OnboardingBonusOnce == awards["onboarding"] <= 1

=============================================================================
