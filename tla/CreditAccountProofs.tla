------------------------ MODULE CreditAccountProofs ------------------------
(***************************************************************************)
(* What TLAPS proves of CreditAccount, for any sets of sessions, payouts   *)
(* and onboarding steps and any amounts: the types (so the balance is      *)
(* never negative), the books, the payouts and the awards under a lock.    *)
(***************************************************************************)
EXTENDS CreditAccount, TLAPS

(* A session that holds the user's lock is alone in holding it, and the     *)
(* balance it read is still the balance; it does not spend more than that.  *)
LockInv ==
  /\ \A s, t \in Sessions : sess[s].op \in LockingUser /\ sess[t].op \in LockingUser => s = t
  /\ \A s \in Sessions :
       sess[s].op \in {"charge", "earn", "request"} => sess[s].seen = credits
  /\ \A s \in Sessions : sess[s].op \in {"charge", "request", "run"} => sess[s].amount <= sess[s].seen
  /\ \A s \in Sessions : sess[s].op = "freeze" => FreezeCost <= sess[s].seen
  /\ \A s \in Sessions : sess[s].op = "request" => sess[s].payout \in Payouts

(* A request is under way only while nothing is open, and a cancel or a     *)
(* review holds an open payout nobody else holds.                           *)
PayoutInv ==
  /\ OneOpenPayout
  /\ HeldReturnedOnce
  /\ \A s \in Sessions : sess[s].op = "request" => Open = {}
  /\ \A s \in Sessions : sess[s].op \in {"cancel", "review"} => sess[s].payout \in Open
  /\ \A s, t \in Sessions :
       /\ sess[s].op \in {"cancel", "review"} /\ sess[t].op \in {"cancel", "review"}
       /\ sess[s].payout = sess[t].payout
       => s = t

(* An award under a lock is made once it is claimed, and a session about to *)
(* make one is alone and early.                                             *)
AwardInv ==
  /\ \A k \in {"daily", "referral"} : awards[k] = IF claimed[k] THEN 1 ELSE 0
  /\ \A s \in Sessions : sess[s].op \in {"daily", "referral"} => ~claimed[sess[s].op]
  /\ \A s, t \in Sessions : sess[s].op = "referral" /\ sess[t].op = "referral" => s = t

---------------------------------------------------------------------------

(* The fields a session has, by what it does. *)
LEMMA SessionFields ==
  ASSUME NEW x \in Session
  PROVE  /\ x.op \in {"charge", "earn", "request", "run"} => x.seen \in Nat /\ x.amount \in Nat
         /\ x.op \in {"executor", "notify"} => x.seen \in Nat
         /\ x.op = "referral" => x.held \in BOOLEAN /\ x.seen \in Nat
         /\ x.op = "freeze" => x.seen \in Nat /\ x.held \in Nat
         /\ x.op \in {"request", "cancel", "review"} => x.payout \in Payouts
         /\ x.op \in {"cancel", "review"} => x.to \in PayoutStatus
         /\ x.op = "step" => x.step \in Steps
BY DEF Session, Idle, Awards

(* What the reads leave in their session. *)
LEMMA ReadSessions ==
  ASSUME TypeOK
  PROVE  /\ Idle \in Session
         /\ \A n \in Amounts : /\ [op |-> "charge", seen |-> credits, amount |-> n] \in Session
                               /\ [op |-> "earn", seen |-> credits, amount |-> n] \in Session
         /\ [op |-> "freeze", seen |-> credits, held |-> freezes] \in Session
         /\ \A p \in Payouts, n \in Amounts :
              [op |-> "request", seen |-> credits, amount |-> n, payout |-> p] \in Session
         /\ \A p \in Payouts, to \in PayoutStatus :
              /\ [op |-> "cancel", payout |-> p, to |-> to] \in Session
              /\ [op |-> "review", payout |-> p, to |-> to] \in Session
         /\ \A k \in {"daily", "onboarding"} : [op |-> k] \in Session
         /\ \A c \in Nat, n \in Amounts : [op |-> "run", seen |-> c, amount |-> n] \in Session
         /\ \A k \in {"executor", "notify"}, c \in Nat : [op |-> k, seen |-> c] \in Session
         /\ \A b \in BOOLEAN, c \in Nat : [op |-> "referral", held |-> b, seen |-> c] \in Session
         /\ \A st \in Steps, b \in BOOLEAN :
              [op |-> "step", step |-> st, done |-> steps \cup {st}, bonus |-> b] \in Session
         /\ [op |-> "reset", done |-> steps] \in Session
BY AmountsAssumption DEF TypeOK, Session, Idle

LEMMA ReadType ==
  ASSUME TypeOK, NEW s \in Sessions, NEW x \in Session, Begin(s, x), Unread
  PROVE  TypeOK'
BY DEF TypeOK, Begin, Unread

LEMMA TypeStep == TypeOK /\ LockInv /\ [Next]_vars => TypeOK'
<1> SUFFICES ASSUME TypeOK, LockInv, [Next]_vars PROVE TypeOK'
  OBVIOUS
<1>0. \A s \in Sessions : sess[s] \in Session
  BY DEF TypeOK
<1>n. FreezeCost \in Nat /\ Bonus \in Nat
  BY NumbersAssumption
<1>c. ASSUME NEW s \in Sessions, Close(s) PROVE sess' \in [Sessions -> Session]
  BY <1>c, ReadSessions DEF TypeOK, Close
<1>1. ASSUME NEW s \in Sessions, NEW n \in Amounts, ChargeRead(s, n) \/ EarnRead(s, n)
      PROVE  TypeOK'
  BY <1>1, ReadSessions, ReadType DEF ChargeRead, EarnRead
<1>2. ASSUME NEW s \in Sessions, FreezeRead(s) \/ DailyRead(s) \/ NotifyRead(s) \/ ResetRead(s)
      PROVE  TypeOK'
  <2>1. credits \in Nat
    BY DEF TypeOK
  <2> QED BY <1>2, <2>1, ReadSessions, ReadType DEF FreezeRead, DailyRead, NotifyRead, ResetRead
<1>2a. ASSUME NEW s \in Sessions, ReferralRead(s) PROVE TypeOK'
  <2>1. CASE sess' = [sess EXCEPT ![s] = [op |-> "referral", held |-> FALSE, seen |-> 0]]
    <3>1. [op |-> "referral", held |-> FALSE, seen |-> 0] \in Session
      BY ReadSessions
    <3> QED BY <1>2a, <2>1, <3>1 DEF ReferralRead, TypeOK, Unread
  <2>2. CASE /\ sess[s].op = "notify"
             /\ sess' = [sess EXCEPT ![s] = [op |-> "referral", held |-> TRUE, seen |-> sess[s].seen]]
    <3>1. sess[s].seen \in Nat
      BY <1>0, <2>2, SessionFields
    <3>2. [op |-> "referral", held |-> TRUE, seen |-> sess[s].seen] \in Session
      BY <3>1, ReadSessions
    <3> QED BY <1>2a, <2>2, <3>2 DEF ReferralRead, TypeOK, Unread
  <2> QED BY <1>2a, <2>1, <2>2 DEF ReferralRead
<1>2b. ASSUME NEW s \in Sessions, NEW n \in Amounts, RunRead(s, n) PROVE TypeOK'
  <2>1. PICK c \in Nat : sess' = [sess EXCEPT ![s] = [op |-> "run", seen |-> c, amount |-> n]]
    <3>1. CASE sess[s] = Idle
      BY <1>2b, <3>1 DEF RunRead, TypeOK
    <3>2. CASE sess[s] # Idle
      <4>1. sess[s].op = "executor"
        BY <1>0, <1>2b, <3>2 DEF RunRead, Session, Idle, Awards
      <4>2. sess[s].seen \in Nat
        BY <1>0, <4>1, SessionFields
      <4> QED BY <1>2b, <3>2, <4>2 DEF RunRead
    <3> QED BY <3>1, <3>2
  <2>2. Unread
    BY <1>2b DEF RunRead
  <2> QED BY <2>1, <2>2, ReadSessions DEF TypeOK, Unread
<1>2c. ASSUME NEW s \in Sessions, RunCommit(s) PROVE TypeOK'
  <2>1. sess[s].seen \in Nat /\ sess[s].amount \in Nat /\ sess[s].amount <= sess[s].seen
    BY <1>0, <1>2c, SessionFields DEF RunCommit, LockInv
  <2>2. sess[s].seen - sess[s].amount \in Nat
    BY <2>1
  <2>3. credits' \in Nat /\ booked' \in Int
    BY <1>2c, <2>1 DEF RunCommit, Post, TypeOK
  <2>4. drift' \in Int
    BY <1>2c, <1>n, <2>1 DEF RunCommit, WriteOver, Worth, TypeOK
  <2>5. sess' \in [Sessions -> Session]
    BY <1>2c, <2>2, ReadSessions DEF RunCommit, TypeOK
  <2> QED BY <1>2c, <2>3, <2>4, <2>5 DEF RunCommit, TypeOK
<1>3. ASSUME NEW s \in Sessions, NEW p \in Payouts, NEW n \in Amounts, RequestRead(s, p, n)
      PROVE  TypeOK'
  BY <1>3, ReadSessions, ReadType DEF RequestRead
<1>4. ASSUME NEW s \in Sessions, NEW p \in Payouts, NEW to \in {"processing", "paid", "rejected"},
             CancelRead(s, p) \/ ReviewRead(s, p, to)
      PROVE  TypeOK'
  BY <1>4, ReadSessions, ReadType DEF CancelRead, ReviewRead, PayoutStatus
<1>5. ASSUME NEW s \in Sessions, NEW st \in Steps, StepRead(s, st) PROVE TypeOK'
  BY <1>5, ReadSessions, ReadType DEF StepRead
<1>6. ASSUME NEW s \in Sessions, MoveCommit(s) PROVE TypeOK'
  <2>1. sess[s].seen \in Nat /\ sess[s].amount \in Nat
    BY <1>0, <1>6, SessionFields DEF MoveCommit
  <2>2. credits' \in Nat /\ booked' \in Int
    BY <1>6, <2>1 DEF MoveCommit, Post, LockInv, TypeOK
  <2> QED BY <1>6, <1>c, <2>2 DEF MoveCommit, TypeOK
<1>7. ASSUME NEW s \in Sessions, FreezeCommit(s) PROVE TypeOK'
  <2>1. sess[s].seen \in Nat /\ sess[s].held \in Nat /\ FreezeCost <= sess[s].seen
    BY <1>0, <1>7, SessionFields DEF FreezeCommit, LockInv
  <2>2. credits' \in Nat /\ freezes' \in Nat
    BY <1>7, <1>n, <2>1 DEF FreezeCommit
  <2>3. drift' \in Int
    BY <1>7, <1>n, <2>1 DEF FreezeCommit, WriteOver, Worth, TypeOK
  <2> QED BY <1>7, <1>c, <2>2, <2>3 DEF FreezeCommit, TypeOK
<1>8. ASSUME NEW s \in Sessions, RequestCommit(s) PROVE TypeOK'
  <2>1. sess[s].seen \in Nat /\ sess[s].amount \in Nat /\ sess[s].payout \in Payouts
    BY <1>0, <1>8, SessionFields DEF RequestCommit
  <2>2. credits' \in Nat /\ booked' \in Int
    BY <1>8, <2>1 DEF RequestCommit, Post, LockInv, TypeOK
  <2>3. payout' \in [Payouts -> [status: PayoutStatus, amount: Nat]]
    BY <1>8, <2>1 DEF RequestCommit, PayoutStatus, TypeOK
  <2> QED BY <1>8, <1>c, <2>2, <2>3 DEF RequestCommit, TypeOK
<1>9. ASSUME NEW s \in Sessions, Settle(s) PROVE TypeOK'
  <2>1. sess[s].payout \in Payouts /\ sess[s].to \in PayoutStatus
    BY <1>0, <1>9, SessionFields DEF Settle
  <2>2. payout[sess[s].payout].amount \in Nat
    BY <2>1 DEF TypeOK
  <2>3. credits' \in Nat /\ booked' \in Int /\ returned' \in [Payouts -> Nat]
    BY <1>9, <2>1, <2>2 DEF Settle, ReturnHeld, Post, TypeOK
  <2>4. payout' \in [Payouts -> [status: PayoutStatus, amount: Nat]]
    <3>1. payout' = [payout EXCEPT ![sess[s].payout].status = sess[s].to]
      BY <1>9 DEF Settle
    <3> QED BY <2>1, <3>1 DEF TypeOK
  <2> QED BY <1>9, <1>c, <2>3, <2>4 DEF Settle, TypeOK
<1>10. ASSUME NEW s \in Sessions, AwardCommit(s) PROVE TypeOK'
  <2>1. PICK c \in Nat : Post(c + Bonus, Bonus) /\ WriteOver(c, freezes)
    <3>1. sess[s].op = "referral" => sess[s].seen \in Nat
      BY <1>0, SessionFields
    <3> QED BY <1>10, <3>1 DEF AwardCommit, TypeOK
  <2>2. credits' \in Nat /\ booked' \in Int /\ drift' \in Int
    BY <1>n, <2>1 DEF Post, WriteOver, Worth, TypeOK
  <2> QED BY <1>10, <1>c, <2>2 DEF AwardCommit, TypeOK
<1>11. ASSUME NEW s \in Sessions, StepCommit(s) PROVE TypeOK'
  <2>1. sess' \in [Sessions -> Session]
    BY <1>11, <1>c, ReadSessions DEF StepCommit, Awards, TypeOK
  <2>2. steps' \subseteq Steps
    BY <1>0, <1>11, SessionFields DEF StepCommit, TypeOK
  <2> QED BY <1>11, <2>1, <2>2 DEF StepCommit, TypeOK
<1>12. ASSUME NEW s \in Sessions, ResetCommit(s) \/ Rollback(s) PROVE TypeOK'
  BY <1>12, <1>c DEF ResetCommit, Rollback, Unread, TypeOK
<1>13. ASSUME NEW st \in Steps, MarkStep(st) PROVE TypeOK'
  BY <1>13 DEF MarkStep, TypeOK
<1>13a. ASSUME NEW n \in Int, PoolMove(n) PROVE TypeOK'
  BY <1>13a DEF PoolMove, TypeOK
<1>13b. \A n \in Amounts : n \in Int /\ -n \in Int
  BY AmountsAssumption
<1>14. CASE UNCHANGED vars
  BY <1>14 DEF vars, TypeOK
<1> QED
  BY <1>1, <1>2, <1>2a, <1>2b, <1>2c, <1>3, <1>4, <1>5, <1>6, <1>7, <1>8, <1>9, <1>10, <1>11,
     <1>12, <1>13, <1>13a, <1>13b, <1>14
  DEF Next, BalanceNext, PayoutNext, BonusNext

(* A session that ends, or turns to work without the lock, disturbs nobody  *)
(* who holds it.                                                            *)
LEMMA LockClose ==
  ASSUME TypeOK, LockInv, NEW s \in Sessions, NEW x, sess' = [sess EXCEPT ![s] = x],
         x.op \notin LockingUser \cup {"freeze"},
         credits' = credits \/ UserFree(s)
  PROVE  LockInv'
BY DEF TypeOK, LockInv, LockingUser, UserFree

LEMMA LockStep == TypeOK /\ LockInv /\ [Next]_vars => LockInv'
<1> SUFFICES ASSUME TypeOK, LockInv, [Next]_vars PROVE LockInv'
  OBVIOUS
<1>1. ASSUME NEW s \in Sessions, NEW x, x.op \in {"charge", "earn", "request", "daily"},
             Begin(s, x), Unread, UserFree(s),
             x.op # "daily" => x.seen = credits,
             x.op \in {"charge", "request"} => x.amount <= x.seen,
             x.op = "request" => x.payout \in Payouts
      PROVE  LockInv'
  BY <1>1 DEF TypeOK, LockInv, LockingUser, UserFree, Begin, Unread
<1>3. ASSUME NEW s \in Sessions, NEW n \in Amounts, ChargeRead(s, n) \/ EarnRead(s, n)
      PROVE  LockInv'
  BY <1>3, <1>1 DEF ChargeRead, EarnRead, Affordable
<1>3a. ASSUME NEW s \in Sessions, NEW n \in Amounts, RunRead(s, n) PROVE LockInv'
  <2>1. PICK c : sess' = [sess EXCEPT ![s] = [op |-> "run", seen |-> c, amount |-> n]] /\ c >= n
    BY <1>3a DEF RunRead
  <2>2. n <= c
    BY <2>1
  <2>3. UserFree(s) /\ Unread
    BY <1>3a DEF RunRead
  <2> QED BY <2>1, <2>2, <2>3 DEF TypeOK, LockInv, LockingUser, UserFree, Unread
<1>4. ASSUME NEW s \in Sessions, NEW p \in Payouts, NEW n \in Amounts, RequestRead(s, p, n)
      PROVE  LockInv'
  BY <1>4, <1>1 DEF RequestRead, Affordable
<1>5. ASSUME NEW s \in Sessions, DailyRead(s) PROVE LockInv'
  BY <1>5, <1>1 DEF DailyRead
<1>6. ASSUME NEW s \in Sessions, FreezeRead(s) PROVE LockInv'
  <2>1. sess' = [sess EXCEPT ![s] = [op |-> "freeze", seen |-> credits, held |-> freezes]]
    BY <1>6 DEF FreezeRead, Begin
  <2>2. FreezeCost <= credits /\ credits' = credits
    BY <1>6, NumbersAssumption DEF FreezeRead, Unread, Affordable, TypeOK
  <2> QED BY <2>1, <2>2 DEF TypeOK, LockInv, LockingUser
<1>7. ASSUME NEW s \in Sessions, NotifyRead(s) \/ ReferralRead(s) \/ ResetRead(s) PROVE LockInv'
  BY <1>7, LockClose DEF NotifyRead, ReferralRead, ResetRead, Begin, Unread, LockingUser
<1>8. ASSUME NEW s \in Sessions, NEW p \in Payouts, NEW to \in {"processing", "paid", "rejected"},
             CancelRead(s, p) \/ ReviewRead(s, p, to)
      PROVE  LockInv'
  BY <1>8, LockClose DEF CancelRead, ReviewRead, Begin, Unread, LockingUser
<1>9. ASSUME NEW s \in Sessions, NEW st \in Steps, StepRead(s, st) PROVE LockInv'
  <2>1. PICK b \in BOOLEAN :
          sess' = [sess EXCEPT ![s] = [op |-> "step", step |-> st, done |-> steps \cup {st},
                                       bonus |-> b]]
    BY <1>9, Zenon DEF StepRead, Begin
  <2>2. credits' = credits
    BY <1>9 DEF StepRead, Unread
  <2> QED BY <2>1, <2>2, LockClose DEF LockingUser
<1>10. ASSUME NEW s \in Sessions, Close(s), credits' = credits \/ UserFree(s) PROVE LockInv'
  BY <1>10, LockClose DEF Close, Idle, LockingUser
<1>11. ASSUME NEW s \in Sessions, MoveCommit(s) \/ FreezeCommit(s) \/ RequestCommit(s)
                                  \/ Settle(s) \/ AwardCommit(s)
       PROVE  LockInv'
  BY <1>10, <1>11 DEF MoveCommit, FreezeCommit, RequestCommit, Settle, ReturnHeld, AwardCommit
<1>11a. ASSUME NEW s \in Sessions, RunCommit(s) PROVE LockInv'
  BY <1>11a, LockClose DEF RunCommit, LockingUser
<1>12. ASSUME NEW s \in Sessions, StepCommit(s) PROVE LockInv'
  <2>1. CASE sess' = [sess EXCEPT ![s] = [op |-> "onboarding"]]
    BY <1>12, <2>1, LockClose DEF StepCommit, LockingUser
  <2>2. CASE Close(s)
    BY <1>10, <1>12, <2>2 DEF StepCommit
  <2> QED BY <1>12, <2>1, <2>2 DEF StepCommit
<1>13. ASSUME NEW s \in Sessions, ResetCommit(s) \/ Rollback(s) PROVE LockInv'
  BY <1>10, <1>13 DEF ResetCommit, Rollback, Unread
<1>14. ASSUME (\E st \in Steps : MarkStep(st)) \/ (\E n \in Int : PoolMove(n)) \/ UNCHANGED vars
       PROVE  LockInv'
  BY <1>14 DEF MarkStep, PoolMove, vars, LockInv
<1>15. \A n \in Amounts : n \in Int /\ -n \in Int
  BY AmountsAssumption
<1> QED
  BY <1>3, <1>3a, <1>4, <1>5, <1>6, <1>7, <1>8, <1>9, <1>11, <1>11a, <1>12, <1>13, <1>14, <1>15
  DEF Next, BalanceNext, PayoutNext, BonusNext

(* What a write from a row of worth w does to the books: it books n, and    *)
(* takes back what was done since w was read.                               *)
LEMMA Rebooked ==
  ASSUME TypeOK, BooksBalance, NEW w \in Int, NEW n \in Int,
         Worth(credits', freezes') = w + n, booked' = booked + n, pooled' = pooled,
         drift' = drift + w - Worth(credits, freezes)
  PROVE  BooksBalance'
<1>1. /\ Initial \in Int /\ booked \in Int /\ pooled \in Int /\ drift \in Int
      /\ Worth(credits, freezes) \in Int
  BY NumbersAssumption DEF TypeOK, Worth
<1>2. Worth(credits, freezes) = Initial + booked - pooled + drift
  BY DEF BooksBalance
<1>3. \A i, b, p, d, v \in Int : v = i + b - p + d => w + n = i + (b + n) - p + (d + w - v)
  OBVIOUS
<1>4. w + n = Initial + (booked + n) - pooled + (drift + w - Worth(credits, freezes))
  BY <1>1, <1>2, <1>3
<1> QED BY <1>4 DEF BooksBalance

LEMMA Worths ==
  ASSUME NEW c \in Int, NEW f \in Int
  PROVE  /\ Worth(c, f) \in Int
         /\ \A n \in Int : Worth(c + n, f) = Worth(c, f) + n
         /\ Worth(c - FreezeCost, f + 1) = Worth(c, f)
<1>1. FreezeCost \in Int /\ FreezeCost * f \in Int
  BY NumbersAssumption
<1>2. FreezeCost * (f + 1) = FreezeCost * f + FreezeCost
  BY <1>1
<1> QED BY <1>1, <1>2 DEF Worth

LEMMA BooksStep == TypeOK /\ LockInv /\ BooksBalance /\ [Next]_vars => BooksBalance'
<1> SUFFICES ASSUME TypeOK, LockInv, BooksBalance, [Next]_vars PROVE BooksBalance'
  OBVIOUS
<1>0. /\ Bonus \in Int /\ credits \in Int /\ freezes \in Int /\ booked \in Int
      /\ drift \in Int /\ pooled \in Int
  BY NumbersAssumption DEF TypeOK
<1>1. ASSUME UNCHANGED <<credits, booked, pooled, freezes, drift>> PROVE BooksBalance'
  BY <1>1 DEF BooksBalance
<1>2. ASSUME NEW n \in Int, Post(credits + n, n), UNCHANGED <<pooled, freezes, drift>>
      PROVE  BooksBalance'
  <2>1. Worth(credits, freezes) \in Int /\ Worth(credits + n, freezes) = Worth(credits, freezes) + n
    BY <1>0, Worths
  <2>2. drift' = drift + Worth(credits, freezes) - Worth(credits, freezes)
    BY <1>0, <1>2, <2>1
  <2> QED BY <1>2, <2>1, <2>2, Rebooked DEF Post
<1>3. ASSUME NEW s \in Sessions, MoveCommit(s) \/ RequestCommit(s) PROVE BooksBalance'
  <2>1. sess[s].seen = credits
    BY <1>3 DEF MoveCommit, RequestCommit, LockInv
  <2>2. sess[s].amount \in Nat
    BY <1>3, SessionFields DEF MoveCommit, RequestCommit, TypeOK
  <2>3. CASE sess[s].op = "earn"
    BY <1>2, <1>3, <2>1, <2>2, <2>3 DEF MoveCommit, RequestCommit
  <2>4. CASE sess[s].op \in {"charge", "request"}
    <3>1. credits - sess[s].amount = credits + (-sess[s].amount) /\ -sess[s].amount \in Int
      BY <1>0, <2>2
    <3> QED BY <1>2, <1>3, <2>1, <2>4, <3>1 DEF MoveCommit, RequestCommit
  <2> QED BY <1>3, <2>3, <2>4 DEF MoveCommit, RequestCommit
<1>4. ASSUME NEW s \in Sessions, FreezeCommit(s) PROVE BooksBalance'
  <2>1. sess[s].seen \in Int /\ sess[s].held \in Int
    BY <1>4, SessionFields DEF FreezeCommit, TypeOK
  <2>2. PICK w \in Int : w = Worth(sess[s].seen, sess[s].held)
    BY <2>1, Worths
  <2>3. Worth(credits', freezes') = w
    BY <1>4, <2>1, <2>2, Worths DEF FreezeCommit
  <2>4. drift' = drift + w - Worth(credits, freezes) /\ UNCHANGED <<booked, pooled>>
    BY <1>4, <2>2 DEF FreezeCommit, WriteOver
  <2>5. w = w + 0 /\ booked' = booked + 0 /\ 0 \in Int
    BY <1>0, <2>2, <2>4
  <2>6. Worth(credits', freezes') = w + 0 /\ pooled' = pooled
    BY <2>3, <2>4, <2>5
  <2> QED BY <2>4, <2>5, <2>6, Rebooked
<1>5. ASSUME NEW s \in Sessions, Settle(s) PROVE BooksBalance'
  <2>1. payout[sess[s].payout].amount \in Int
    BY <1>5, SessionFields DEF Settle, TypeOK
  <2> QED BY <1>1, <1>2, <1>5, <2>1 DEF Settle, ReturnHeld
<1>6. ASSUME NEW c \in Int, NEW n \in Int, Post(c + n, n), WriteOver(c, freezes),
             UNCHANGED <<pooled, freezes>>
      PROVE  BooksBalance'
  <2>1. Worth(c, freezes) \in Int /\ Worth(c + n, freezes) = Worth(c, freezes) + n
    BY <1>0, Worths
  <2>2. Worth(credits', freezes') = Worth(c, freezes) + n
    BY <1>6, <2>1 DEF Post
  <2>3. drift' = drift + Worth(c, freezes) - Worth(credits, freezes)
    BY <1>6 DEF WriteOver
  <2> QED BY <1>6, <2>1, <2>2, <2>3, Rebooked DEF Post
<1>7. ASSUME NEW s \in Sessions, AwardCommit(s) PROVE BooksBalance'
  <2>1. PICK c \in Int : Post(c + Bonus, Bonus) /\ WriteOver(c, freezes)
    <3>1. sess[s].op = "referral" => sess[s].seen \in Int
      BY SessionFields DEF TypeOK
    <3> QED BY <1>0, <1>7, <3>1 DEF AwardCommit
  <2> QED BY <1>0, <1>6, <1>7, <2>1 DEF AwardCommit
<1>8. ASSUME NEW s \in Sessions, RunCommit(s) PROVE BooksBalance'
  <2>1. sess[s].seen \in Int /\ sess[s].amount \in Int
    BY <1>8, SessionFields DEF RunCommit, TypeOK
  <2>2. PICK n \in Int : n = -sess[s].amount
    BY <2>1
  <2>3. sess[s].seen - sess[s].amount = sess[s].seen + n
    BY <2>1, <2>2
  <2>4. Post(sess[s].seen + n, n) /\ WriteOver(sess[s].seen, freezes) /\ UNCHANGED <<pooled, freezes>>
    BY <1>8, <2>2, <2>3 DEF RunCommit
  <2> QED BY <1>6, <2>1, <2>2, <2>4
<1>9. ASSUME NEW n \in Int, PoolMove(n) PROVE BooksBalance'
  <2>1. \A i, b, p, d \in Int : i + b - p + d = i + (b + n) - (p + n) + d
    OBVIOUS
  <2>2. Initial \in Int
    BY NumbersAssumption
  <2>3. /\ booked' = booked + n /\ pooled' = pooled + n
        /\ credits' = credits /\ freezes' = freezes /\ drift' = drift
    BY <1>9 DEF PoolMove
  <2>4. Initial + booked - pooled + drift = Initial + (booked + n) - (pooled + n) + drift
    BY <1>0, <2>1, <2>2
  <2> QED BY <2>3, <2>4 DEF BooksBalance
<1>10. \A n \in Amounts : n \in Int /\ -n \in Int
  BY AmountsAssumption
<1> QED
  BY <1>1, <1>3, <1>4, <1>5, <1>7, <1>8, <1>9, <1>10
  DEF Next, BalanceNext, PayoutNext, BonusNext, ChargeRead, EarnRead, RunRead, FreezeRead,
      RequestRead, CancelRead, ReviewRead, DailyRead, NotifyRead, ReferralRead, StepRead, ResetRead,
      Unread, StepCommit, ResetCommit, MarkStep, Rollback, vars

(* A session that leaves the payouts alone, and holds none when it is done. *)
LEMMA PayoutAside ==
  ASSUME TypeOK, PayoutInv, NEW s \in Sessions, NEW x, sess' = [sess EXCEPT ![s] = x],
         x.op \notin {"request", "cancel", "review"}, UNCHANGED <<payout, returned>>
  PROVE  PayoutInv'
<1>1. Open' = Open
  BY DEF Open
<1> QED BY <1>1 DEF TypeOK, PayoutInv, OneOpenPayout, HeldReturnedOnce

LEMMA PayoutStep == TypeOK /\ LockInv /\ PayoutInv /\ [Next]_vars => PayoutInv'
<1> SUFFICES ASSUME TypeOK, LockInv, PayoutInv, [Next]_vars PROVE PayoutInv'
  OBVIOUS
<1>0. \A p \in Payouts : p \in Open <=> payout[p].status \in {"pending", "processing"}
  BY DEF Open
<1>1. ASSUME NEW s \in Sessions, NEW n \in Amounts, ChargeRead(s, n) \/ EarnRead(s, n)
      PROVE  PayoutInv'
  BY <1>1, PayoutAside DEF ChargeRead, EarnRead, Begin, Unread
<1>2. ASSUME NEW s \in Sessions, FreezeRead(s) \/ DailyRead(s) \/ NotifyRead(s) \/ ReferralRead(s)
                                  \/ ResetRead(s) \/ (\E n \in Amounts : RunRead(s, n))
      PROVE  PayoutInv'
  BY <1>2, PayoutAside
  DEF FreezeRead, DailyRead, NotifyRead, ReferralRead, ResetRead, RunRead, Begin, Unread
<1>3. ASSUME NEW s \in Sessions, NEW st \in Steps, StepRead(s, st) PROVE PayoutInv'
  <2>1. PICK b \in BOOLEAN :
          sess' = [sess EXCEPT ![s] = [op |-> "step", step |-> st, done |-> steps \cup {st},
                                       bonus |-> b]]
    BY <1>3, Zenon DEF StepRead, Begin
  <2>2. UNCHANGED <<payout, returned>>
    BY <1>3 DEF StepRead, Unread
  <2> QED BY <2>1, <2>2, PayoutAside
<1>4. ASSUME NEW s \in Sessions, NEW p \in Payouts, NEW n \in Amounts, RequestRead(s, p, n)
      PROVE  PayoutInv'
  <2>1. Open = {} /\ Open' = Open /\ UNCHANGED <<payout, returned>>
    BY <1>4 DEF RequestRead, Unread, Open
  <2>2. sess' = [sess EXCEPT ![s] = [op |-> "request", seen |-> credits, amount |-> n, payout |-> p]]
    BY <1>4 DEF RequestRead, Begin
  <2> QED BY <2>1, <2>2 DEF TypeOK, PayoutInv, OneOpenPayout, HeldReturnedOnce
<1>5. ASSUME NEW s \in Sessions, NEW p \in Payouts, NEW x \in Session,
             p \in Open, PayoutFree(p), Begin(s, x), Unread,
             x.op \in {"cancel", "review"}, x.payout = p
      PROVE  PayoutInv'
  <2>1. Open' = Open /\ UNCHANGED <<payout, returned>>
    BY <1>5 DEF Unread, Open
  <2>2. \A t \in Sessions : sess'[t] = IF t = s THEN x ELSE sess[t]
    BY <1>5 DEF Begin, TypeOK
  <2> QED BY <1>5, <2>1, <2>2 DEF PayoutInv, PayoutFree, OneOpenPayout, HeldReturnedOnce
<1>6. ASSUME NEW s \in Sessions, NEW p \in Payouts, NEW to \in {"processing", "paid", "rejected"},
             CancelRead(s, p) \/ ReviewRead(s, p, to)
      PROVE  PayoutInv'
  BY <1>0, <1>5, <1>6, ReadSessions DEF CancelRead, ReviewRead, PayoutStatus
<1>7. ASSUME NEW s \in Sessions, Close(s), UNCHANGED <<payout, returned>> PROVE PayoutInv'
  BY <1>7, PayoutAside DEF Close, Idle
<1>8. ASSUME NEW s \in Sessions, RequestCommit(s) PROVE PayoutInv'
  <2> DEFINE p == sess[s].payout
  <2>1. p \in Payouts /\ payout[p].status = "none" /\ Open = {}
    BY <1>8 DEF RequestCommit, LockInv, PayoutInv
  <2>2. payout'[p].status = "pending" /\ \A q \in Payouts \ {p} : payout'[q] = payout[q]
    BY <1>8, <2>1 DEF RequestCommit, TypeOK
  <2>3. Open' = {p}
    BY <1>0, <2>1, <2>2 DEF Open
  <2>4. returned' = returned
    BY <1>8 DEF RequestCommit
  <2>5. \A t \in Sessions : sess'[t].op \notin {"request", "cancel", "review"}
    BY <1>8, <2>1 DEF RequestCommit, Close, Idle, LockInv, LockingUser, PayoutInv, TypeOK
  <2>6. HeldReturnedOnce'
    BY <2>1, <2>2, <2>4 DEF PayoutInv, HeldReturnedOnce
  <2> QED BY <2>3, <2>5, <2>6 DEF PayoutInv, OneOpenPayout
<1>9. ASSUME NEW s \in Sessions, Settle(s) PROVE PayoutInv'
  <2> DEFINE p == sess[s].payout
  <2>1. p \in Open /\ p \in Payouts
    BY <1>9 DEF Settle, PayoutInv, Open
  <2>2. payout'[p].status = sess[s].to /\ \A q \in Payouts \ {p} : payout'[q] = payout[q]
    BY <1>9, <2>1 DEF Settle, TypeOK
  <2>3. Open' \subseteq Open /\ Open \ {p} \subseteq Open'
    BY <1>0, <2>1, <2>2 DEF Open
  <2>4. \A t \in Sessions : sess'[t] = IF t = s THEN Idle ELSE sess[t]
    BY <1>9 DEF Settle, Close, TypeOK
  <2>5. returned'[p] = IF sess[s].to = "rejected" THEN 1 ELSE 0
    <3>1. returned[p] = 0
      BY <1>0, <2>1 DEF PayoutInv, HeldReturnedOnce
    <3> QED BY <1>9, <2>1, <3>1 DEF Settle, ReturnHeld, TypeOK
  <2>6. \A q \in Payouts \ {p} : returned'[q] = returned[q]
    BY <1>9 DEF Settle, ReturnHeld, TypeOK
  <2>7. HeldReturnedOnce'
    BY <2>2, <2>5, <2>6 DEF PayoutInv, HeldReturnedOnce
  <2>8. OneOpenPayout'
    BY <2>3 DEF PayoutInv, OneOpenPayout
  <2>9. \A t \in Sessions : sess[t].op # "request"
    BY <2>1 DEF PayoutInv
  <2> QED BY <1>9, <2>3, <2>4, <2>7, <2>8, <2>9 DEF PayoutInv, Idle, Settle
<1>10. ASSUME NEW s \in Sessions, MoveCommit(s) \/ FreezeCommit(s) \/ AwardCommit(s)
                                  \/ ResetCommit(s) \/ Rollback(s)
       PROVE  PayoutInv'
  BY <1>7, <1>10 DEF MoveCommit, FreezeCommit, AwardCommit, ResetCommit, Rollback, Unread
<1>11. ASSUME NEW s \in Sessions, StepCommit(s) PROVE PayoutInv'
  <2>1. CASE sess' = [sess EXCEPT ![s] = [op |-> "onboarding"]]
    BY <1>11, <2>1, PayoutAside DEF StepCommit
  <2>2. CASE Close(s)
    BY <1>7, <1>11, <2>2 DEF StepCommit
  <2> QED BY <1>11, <2>1, <2>2 DEF StepCommit
<1>11a. ASSUME NEW s \in Sessions, RunCommit(s) PROVE PayoutInv'
  BY <1>11a, PayoutAside DEF RunCommit
<1>12. ASSUME (\E st \in Steps : MarkStep(st)) \/ (\E n \in Int : PoolMove(n)) \/ UNCHANGED vars
       PROVE  PayoutInv'
  BY <1>12 DEF MarkStep, PoolMove, vars, PayoutInv, OneOpenPayout, HeldReturnedOnce, Open
<1>13. \A n \in Amounts : n \in Int /\ -n \in Int
  BY AmountsAssumption
<1> QED
  BY <1>1, <1>2, <1>3, <1>4, <1>6, <1>8, <1>9, <1>10, <1>11, <1>11a, <1>12, <1>13
  DEF Next, BalanceNext, PayoutNext, BonusNext

(* A session that claims nothing, and will not without reading again.       *)
LEMMA AwardAside ==
  ASSUME TypeOK, AwardInv, NEW s \in Sessions, NEW x, sess' = [sess EXCEPT ![s] = x],
         x.op \notin {"daily", "referral"}, UNCHANGED <<claimed, awards>>
  PROVE  AwardInv'
BY DEF TypeOK, AwardInv

LEMMA AwardStep == TypeOK /\ LockInv /\ AwardInv /\ [Next]_vars => AwardInv'
<1> SUFFICES ASSUME TypeOK, LockInv, AwardInv, [Next]_vars PROVE AwardInv'
  OBVIOUS
<1>1. ASSUME NEW s \in Sessions, NEW n \in Amounts, ChargeRead(s, n) \/ EarnRead(s, n)
      PROVE  AwardInv'
  BY <1>1, AwardAside DEF ChargeRead, EarnRead, Begin, Unread
<1>2. ASSUME NEW s \in Sessions, FreezeRead(s) \/ NotifyRead(s) \/ ResetRead(s)
                                  \/ (\E n \in Amounts : RunRead(s, n))
      PROVE  AwardInv'
  BY <1>2, AwardAside DEF FreezeRead, NotifyRead, ResetRead, RunRead, Begin, Unread
<1>3. ASSUME NEW s \in Sessions, NEW st \in Steps, StepRead(s, st) PROVE AwardInv'
  <2>1. PICK b \in BOOLEAN :
          sess' = [sess EXCEPT ![s] = [op |-> "step", step |-> st, done |-> steps \cup {st},
                                       bonus |-> b]]
    BY <1>3, Zenon DEF StepRead, Begin
  <2>2. UNCHANGED <<claimed, awards>>
    BY <1>3 DEF StepRead, Unread
  <2> QED BY <2>1, <2>2, AwardAside
<1>4. ASSUME NEW s \in Sessions, NEW p \in Payouts, NEW n \in Amounts, RequestRead(s, p, n)
      PROVE  AwardInv'
  BY <1>4, AwardAside DEF RequestRead, Begin, Unread
<1>5. ASSUME NEW s \in Sessions, NEW p \in Payouts, NEW to \in {"processing", "paid", "rejected"},
             CancelRead(s, p) \/ ReviewRead(s, p, to)
      PROVE  AwardInv'
  BY <1>5, AwardAside DEF CancelRead, ReviewRead, Begin, Unread
<1>6. ASSUME NEW s \in Sessions, DailyRead(s) PROVE AwardInv'
  BY <1>6 DEF DailyRead, Claimable, Begin, Unread, TypeOK, AwardInv
<1>7. ASSUME NEW s \in Sessions, ReferralRead(s) PROVE AwardInv'
  <2>1. PICK b, c : sess' = [sess EXCEPT ![s] = [op |-> "referral", held |-> b, seen |-> c]]
    BY <1>7 DEF ReferralRead
  <2>2. ~claimed["referral"] /\ UNCHANGED <<claimed, awards>>
    BY <1>7 DEF ReferralRead, Claimable, Unread
  <2>3. \A t \in Sessions : sess[t].op # "referral"
    BY <1>7 DEF ReferralRead, ReferralFree
  <2> QED BY <2>1, <2>2, <2>3 DEF TypeOK, AwardInv
<1>8. ASSUME NEW s \in Sessions, Close(s), UNCHANGED <<claimed, awards>> PROVE AwardInv'
  BY <1>8, AwardAside DEF Close, Idle
<1>9. ASSUME NEW s \in Sessions, AwardCommit(s) PROVE AwardInv'
  <2> DEFINE k == sess[s].op
  <2>1. k \in Awards /\ Close(s)
    BY <1>9 DEF AwardCommit
  <2>2. \A j \in Awards : claimed'[j] = IF j = k THEN TRUE ELSE claimed[j]
    BY <1>9 DEF AwardCommit, TypeOK
  <2>3. \A j \in Awards : awards'[j] = IF j = k THEN awards[j] + 1 ELSE awards[j]
    BY <1>9 DEF AwardCommit, TypeOK
  <2>4. \A j \in {"daily", "referral"} : awards'[j] = IF claimed'[j] THEN 1 ELSE 0
    <3> TAKE j \in {"daily", "referral"}
    <3>0. j \in Awards /\ awards[j] = IF claimed[j] THEN 1 ELSE 0
      BY DEF AwardInv, Awards
    <3>1. CASE j = k
      <4>1. ~claimed[k]
        BY <3>1 DEF AwardInv
      <4>2. awards[k] = 0
        BY <3>0, <3>1, <4>1
      <4>3. awards'[j] = 1
        BY <2>3, <3>0, <3>1, <4>2
      <4>4. claimed'[j]
        BY <2>2, <3>0, <3>1, Zenon
      <4> QED BY <4>3, <4>4
    <3>2. CASE j # k
      <4>1. awards'[j] = awards[j] /\ claimed'[j] = claimed[j]
        BY <2>2, <2>3, <3>0, <3>2
      <4> QED BY <3>0, <4>1, Zenon
    <3> QED BY <3>1, <3>2
  <2>5. \A t \in Sessions : t # s /\ sess[t].op \in {"daily", "referral"} => sess[t].op # k
    BY <1>9 DEF AwardCommit, UserFree, LockingUser, AwardInv
  <2>6. \A t \in Sessions : sess'[t] = IF t = s THEN Idle ELSE sess[t]
    BY <2>1 DEF Close, TypeOK
  <2>7. ASSUME NEW t \in Sessions, sess'[t].op \in {"daily", "referral"}
        PROVE  ~claimed'[sess'[t].op]
    <3>1. t # s
      BY <2>6, <2>7 DEF Idle
    <3>2. sess'[t].op = sess[t].op /\ sess[t].op # k /\ sess[t].op \in Awards
      BY <2>5, <2>6, <2>7, <3>1 DEF Awards
    <3>3. ~claimed[sess[t].op]
      BY <2>7, <3>2 DEF AwardInv
    <3>4. claimed'[sess[t].op] = claimed[sess[t].op]
      BY <2>2, <3>2
    <3> QED BY <3>2, <3>3, <3>4, Zenon
  <2>8. \A t, u \in Sessions : sess'[t].op = "referral" /\ sess'[u].op = "referral" => t = u
    BY <2>6 DEF AwardInv, Idle
  <2> QED BY <2>4, <2>7, <2>8 DEF AwardInv
<1>10. ASSUME NEW s \in Sessions, MoveCommit(s) \/ FreezeCommit(s) \/ RequestCommit(s) \/ Settle(s)
                                  \/ ResetCommit(s) \/ Rollback(s)
       PROVE  AwardInv'
  BY <1>8, <1>10 DEF MoveCommit, FreezeCommit, RequestCommit, Settle, ResetCommit, Rollback, Unread
<1>11. ASSUME NEW s \in Sessions, StepCommit(s) PROVE AwardInv'
  <2>1. CASE sess' = [sess EXCEPT ![s] = [op |-> "onboarding"]]
    BY <1>11, <2>1, AwardAside DEF StepCommit
  <2>2. CASE Close(s)
    BY <1>8, <1>11, <2>2 DEF StepCommit
  <2> QED BY <1>11, <2>1, <2>2 DEF StepCommit
<1>11a. ASSUME NEW s \in Sessions, RunCommit(s) PROVE AwardInv'
  BY <1>11a, AwardAside DEF RunCommit
<1>12. ASSUME (\E st \in Steps : MarkStep(st)) \/ (\E n \in Int : PoolMove(n)) \/ UNCHANGED vars
       PROVE  AwardInv'
  BY <1>12 DEF MarkStep, PoolMove, vars, AwardInv
<1>13. \A n \in Amounts : n \in Int /\ -n \in Int
  BY AmountsAssumption
<1> QED
  BY <1>1, <1>2, <1>3, <1>4, <1>5, <1>6, <1>7, <1>9, <1>10, <1>11, <1>11a, <1>12, <1>13
  DEF Next, BalanceNext, PayoutNext, BonusNext

---------------------------------------------------------------------------

IInv == TypeOK /\ LockInv /\ BooksBalance /\ PayoutInv /\ AwardInv

LEMMA InitInv == Init => IInv
<1> SUFFICES ASSUME Init PROVE IInv
  OBVIOUS
<1>1. \A s \in Sessions : sess[s].op = "idle"
  BY DEF Init, Idle
<1>2. TypeOK
  <2>1. sess \in [Sessions -> Session]
    BY DEF Init, Session
  <2>2. payout \in [Payouts -> [status: PayoutStatus, amount: Nat]]
    BY DEF Init, PayoutStatus
  <2>3. returned \in [Payouts -> Nat] /\ awards \in [Awards -> Nat]
    BY DEF Init
  <2>4. claimed \in [Awards -> BOOLEAN] /\ pooled \in Int /\ drift \in Int
    BY DEF Init
  <2>5. credits \in Nat /\ booked \in Int /\ freezes \in Nat /\ steps \subseteq Steps
    BY NumbersAssumption DEF Init
  <2> QED BY <2>1, <2>2, <2>3, <2>4, <2>5 DEF TypeOK
<1>3. LockInv
  BY <1>1 DEF LockInv, LockingUser
<1>4. BooksBalance
  BY NumbersAssumption DEF Init, BooksBalance, Worth
<1>5. Open = {} /\ HeldReturnedOnce
  BY DEF Init, Open, HeldReturnedOnce
<1>6. PayoutInv
  BY <1>1, <1>5 DEF PayoutInv, OneOpenPayout
<1>7. AwardInv
  BY <1>1 DEF Init, AwardInv, Awards
<1> QED BY <1>2, <1>3, <1>4, <1>6, <1>7 DEF IInv

LEMMA Invariant == Spec => []IInv
BY InitInv, TypeStep, LockStep, BooksStep, PayoutStep, AwardStep, PTL DEF Spec, IInv

(* The balance is never negative and everything keeps its type. *)
THEOREM TypeCorrect == Spec => []TypeOK
BY Invariant, PTL DEF IInv

(* The transactions explain the balance, but for what a pool paid, what     *)
(* freezes cost, and what the three writes from an outdated row take back   *)
(* (BooksBalance).                                                          *)
THEOREM Booked == Spec => []BooksBalance
BY Invariant, PTL DEF IInv

(* One payout is open at a time (OneOpenPayout), and what a payout held is  *)
(* returned once, when it is rejected (HeldReturnedOnce).                   *)
THEOREM PayoutsSafe == Spec => []PayoutsKept
<1>1. IInv => PayoutsKept
  BY DEF IInv, PayoutInv, PayoutsKept
<1> QED BY <1>1, Invariant, PTL

(* A payout that was paid or rejected never changes again (SettledIsFinal). *)
THEOREM Final == Spec => SettledIsFinal
<1>1. ASSUME IInv, [Next]_vars
      PROVE  [\A p \in Payouts :
                payout[p].status \in {"paid", "rejected"} => payout'[p] = payout[p]]_vars
  <2>1. ASSUME NEW s \in Sessions, RequestCommit(s), NEW p \in Payouts,
               payout[p].status \in {"paid", "rejected"}
        PROVE  payout'[p] = payout[p]
    BY <1>1, <2>1 DEF IInv, TypeOK, RequestCommit
  <2>2. ASSUME NEW s \in Sessions, Settle(s), NEW p \in Payouts,
               payout[p].status \in {"paid", "rejected"}
        PROVE  payout'[p] = payout[p]
    <3>1. sess[s].payout \in Open
      BY <1>1, <2>2 DEF IInv, PayoutInv, Settle
    <3>2. p # sess[s].payout
      BY <2>2, <3>1 DEF Open
    <3> QED BY <1>1, <2>2, <3>2 DEF IInv, TypeOK, Settle
  <2>3. ASSUME UNCHANGED payout, NEW p \in Payouts PROVE payout'[p] = payout[p]
    BY <2>3
  <2> QED
    BY <1>1, <2>1, <2>2, <2>3
    DEF Next, BalanceNext, PayoutNext, BonusNext, ChargeRead, EarnRead, MoveCommit, RunRead,
        RunCommit, PoolMove, FreezeRead, FreezeCommit, RequestRead, CancelRead, ReviewRead,
        DailyRead, NotifyRead, ReferralRead, AwardCommit, StepRead, StepCommit, ResetRead, ResetCommit, MarkStep, Rollback, Unread, vars
<1> QED BY <1>1, Invariant, PTL DEF Spec, SettledIsFinal

(* Awards decided under a lock are made at most once (LockedAwardsOnce). *)
THEOREM AwardsSingle == Spec => []LockedAwardsOnce
<1>1. IInv => LockedAwardsOnce
  BY DEF IInv, AwardInv, LockedAwardsOnce
<1> QED BY <1>1, Invariant, PTL

=============================================================================
