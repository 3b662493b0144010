-------------------------- MODULE AccountsProofs --------------------------
(* What TLAPS proves of what belongs to an account: of StripeEvents and    *)
(* OrgPool, of RefreshTokens, Limits, Endpoints and Notices, for any       *)
(* members, tasks, payments, handlers, browsers, calls, secrets and alerts.*)
EXTENDS StripeEvents, RefreshTokens, Limits, Endpoints, Notices, Sums, FiniteSetTheorems, TLAPS

---------------------------------------------------------------------------
(* StripeEvents *)

Inserted(h, e) == handler[h].phase = "inserted" /\ handler[h].event = e

(* A handler that has something to do has an event; of the handlers of one *)
(* event one at most is past the insert, and while it is, nothing is       *)
(* committed for that event.                                               *)
HandlersApart ==
  /\ \A h \in Handlers : handler[h].phase # "free" => handler[h].event \in Events
  /\ \A e \in Events, h, k \in Handlers : Inserted(h, e) /\ Inserted(k, e) => h = k
  /\ \A e \in Events, h \in Handlers : Inserted(h, e) => log[e] = "none"

(* A customer is known to nobody but its checkout before that commits, and *)
(* no event is there before.                                               *)
Opened(e) == checkout[e].phase = "open"
CustomersApart ==
  /\ \A e \in Events : checkout[e].phase = "read" => checkout[e].customer = e
  /\ \A e \in Events : ~Opened(e) => customer # e /\ \A c \in Events : Opened(c) => checkout[c].customer # e
  /\ \A h \in Handlers : handler[h].phase # "free" => Opened(handler[h].event)
  /\ \A e \in Events : log[e] # "none" => Opened(e)

StripeShape ==
  /\ log \in [Events -> {"none", "processed", "error"}]
  /\ handler \in [Handlers -> Handler]
  /\ applied \in [Events -> Nat]
  /\ checkout \in [Events -> Checkout] /\ customer \in Events \cup {NoCustomer}

StripeInv ==
  /\ StripeShape /\ HandlersApart /\ CustomersApart
  /\ \A e \in Events : log[e] = "none" => applied[e] = 0
  /\ AppliedOnce

LEMMA StripeInvInit == Init => StripeInv
BY CustomerAssumption
   DEF Init, StripeInv, StripeShape, HandlersApart, CustomersApart, Opened, Inserted, AppliedOnce, Handler, Free,
       Checkout

(* What a step that leaves the checkouts alone has to keep.                *)
LEMMA CustomersStay ==
  ASSUME CustomersApart, UNCHANGED <<customer, checkout>>,
         \A h \in Handlers : handler'[h].phase # "free" => Opened(handler'[h].event),
         \A e \in Events : log'[e] # "none" => Opened(e)
  PROVE  CustomersApart'
BY DEF CustomersApart, Opened

LEMMA CheckoutsKeep ==
  ASSUME StripeInv, NEW e \in Events, CheckoutRead(e) \/ CheckoutCommit(e)
  PROVE  StripeInv'
<1>. USE DEF StripeInv
<1>1. UNCHANGED <<log, handler, acked, applied>>
  BY DEF CheckoutRead, CheckoutCommit
<1>2. CASE CheckoutRead(e)
  <2>1. PICK row \in Checkout :
          /\ checkout' = [checkout EXCEPT ![e] = row] /\ customer' = customer
          /\ ~Opened(e) /\ log[e] = "none"
          /\ \/ row.phase = "read" /\ row.customer = e
             \/ row.phase = "open" /\ row.customer = customer
    <3>1. checkout[e].phase = "none" /\ customer' = customer
      BY <1>2 DEF CheckoutRead
    <3>2. ~Opened(e) /\ log[e] = "none"
      BY <3>1 DEF Opened, CustomersApart
    <3>3. CASE customer = NoCustomer
      <4>. DEFINE row == [phase |-> "read", customer |-> e]
      <4>1. checkout' = [checkout EXCEPT ![e] = row] /\ row \in Checkout
        BY <1>2, <3>3 DEF CheckoutRead, Checkout
      <4>. QED  BY <3>1, <3>2, <4>1
    <3>4. CASE customer # NoCustomer
      <4>. DEFINE row == [phase |-> "open", customer |-> customer]
      <4>1. checkout' = [checkout EXCEPT ![e] = row] /\ row \in Checkout
        BY <1>2, <3>4 DEF CheckoutRead, Checkout, StripeShape
      <4>. QED  BY <3>1, <3>2, <4>1
    <3>. QED  BY <3>3, <3>4
  <2>2. StripeShape'
    BY <1>1, <2>1 DEF StripeShape
  <2>3. CustomersApart'
    <3>1. \A c \in Events : checkout'[c] = IF c = e THEN row ELSE checkout[c]
      BY <2>1 DEF StripeShape
    <3>. QED  BY <1>1, <2>1, <3>1 DEF CustomersApart, Opened, HandlersApart
  <2>4. AppliedOnce'
    BY <1>1, <2>1 DEF AppliedOnce, OnFile, StripeShape
  <2>. QED  BY <1>1, <2>2, <2>3, <2>4 DEF HandlersApart, Inserted
<1>3. CASE CheckoutCommit(e)
  <2>1. /\ customer' = e /\ checkout' = [checkout EXCEPT ![e].phase = "open"]
        /\ checkout[e].phase = "read" /\ checkout[e].customer = e /\ ~Opened(e) /\ log[e] = "none"
    BY <1>3 DEF CheckoutCommit, CustomersApart, Opened
  <2>2. \A c \in Events : /\ c # e => checkout'[c] = checkout[c]
                         /\ checkout'[e].phase = "open" /\ checkout'[e].customer = e
    BY <2>1 DEF StripeShape, Checkout
  <2>3. StripeShape'
    BY <1>1, <2>1 DEF StripeShape, Checkout
  <2>4. CustomersApart'
    BY <1>1, <2>1, <2>2 DEF CustomersApart, Opened, HandlersApart
  <2>5. AppliedOnce'
    <3>1. \A d \in Events : log[d] = "processed" => checkout'[d].customer = checkout[d].customer /\ checkout[d].customer # e
      BY <2>1, <2>2 DEF CustomersApart, Opened
    <3>. QED  BY <1>1, <2>1, <3>1 DEF AppliedOnce, OnFile
  <2>. QED  BY <1>1, <2>3, <2>4, <2>5 DEF HandlersApart, Inserted
<1>. QED  BY <1>2, <1>3

LEMMA StripeInvNext ==
  ASSUME StripeInv, [Next]_vars
  PROVE  StripeInv'
<1>. USE DEF StripeInv
<1>1. CASE UNCHANGED stripeVars
  BY <1>1 DEF stripeVars, StripeShape, HandlersApart, CustomersApart, Opened, Inserted, AppliedOnce, OnFile
<1>2. ASSUME NEW h \in Handlers, NEW e \in Events, Deliver(h, e) PROVE StripeInv'
  <2>1. /\ UNCHANGED <<log, applied, customer, checkout>> /\ Opened(e)
        /\ handler' = handler \/ handler' = [handler EXCEPT ![h] = [event |-> e, phase |-> "checked"]]
        /\ acked' = acked \/ (acked' = acked \cup {e} /\ log[e] = "processed")
    BY <1>2 DEF Deliver, Opened
  <2>2. StripeShape'
    BY <2>1 DEF StripeShape, Handler
  <2>3. HandlersApart'
    BY <2>1 DEF HandlersApart, Inserted, StripeShape
  <2>4. AppliedOnce'
    BY <2>1 DEF AppliedOnce, OnFile
  <2>5. CustomersApart'
    BY <2>1, CustomersStay DEF CustomersApart, StripeShape
  <2>. QED  BY <2>1, <2>2, <2>3, <2>4, <2>5
<1>3. ASSUME NEW h \in Handlers, Insert(h) PROVE StripeInv'
  <2>. DEFINE e == handler[h].event
  <2>1. /\ handler[h].phase = "checked" /\ e \in Events /\ log[e] = "none"
        /\ handler' = [handler EXCEPT ![h].phase = "inserted"]
        /\ UNCHANGED <<log, acked, applied, customer, checkout>>
    BY <1>3 DEF Insert, Unique, HandlersApart
  <2>2. \A k \in Handlers : ~ Inserted(k, e)
    <3>. SUFFICES ASSUME NEW k \in Handlers, Inserted(k, e) PROVE k \in Inserting(e)
      BY <1>3 DEF Insert, Unique
    <3>. QED  BY DEF Inserted, Inserting, StripeShape, Handler
  <2>3. StripeShape'
    BY <2>1 DEF StripeShape, Handler
  <2>4. HandlersApart'
    BY <2>1, <2>2 DEF HandlersApart, Inserted, StripeShape, Handler
  <2>5. CustomersApart'
    BY <2>1, CustomersStay DEF CustomersApart, StripeShape, Handler
  <2>. QED  BY <2>1, <2>3, <2>4, <2>5 DEF AppliedOnce, OnFile
<1>4. ASSUME NEW h \in Handlers, Duplicate(h) PROVE StripeInv'
  <2>1. /\ handler' = [handler EXCEPT ![h] = Free]
        /\ log[handler[h].event] # "none" /\ acked' = acked \cup {handler[h].event}
        /\ UNCHANGED <<log, applied, customer, checkout>>
    BY <1>4 DEF Duplicate, Frees
  <2>2. StripeShape' /\ HandlersApart'
    BY <2>1 DEF StripeShape, HandlersApart, Inserted, Handler, Free
  <2>3. AppliedOnce'
    BY <2>1 DEF AppliedOnce, StripeShape, OnFile
  <2>4. CustomersApart'
    BY <2>1, CustomersStay DEF CustomersApart, StripeShape, Free
  <2>. QED  BY <2>1, <2>2, <2>3, <2>4
<1>5. ASSUME NEW h \in Handlers, Process(h) \/ ProcessErrs(h) PROVE StripeInv'
  <2>. DEFINE e == handler[h].event
  <2>1. Inserted(h, e) /\ e \in Events /\ log[e] = "none" /\ applied[e] = 0 /\ Opened(e)
    BY <1>5 DEF Process, ProcessErrs, HandlersApart, CustomersApart, Inserted
  <2>2. PICK st \in {"processed", "error"} :
          /\ log' = [log EXCEPT ![e] = st]
          /\ acked' = acked \cup {e} \/ acked' = acked
          /\ handler' = [handler EXCEPT ![h] = Free]
          /\ UNCHANGED <<customer, checkout>>
          /\ \/ applied' = [applied EXCEPT ![e] = @ + 1]
             \/ applied' = applied /\ (st = "error" \/ ~OnFile(e))
    BY <1>5 DEF Process, ProcessErrs, Commits, Heard, Unheard, Unmatched, Apply, Skip, Frees
  <2>. HIDE DEF e
  <2>3. StripeShape'
    BY <2>1, <2>2 DEF StripeShape, Handler, Free
  <2>4. HandlersApart'
    BY <2>1, <2>2 DEF HandlersApart, Inserted, StripeShape, Free
  <2>5. AppliedOnce' /\ \A d \in Events : log'[d] = "none" => applied'[d] = 0
    <3>1. \A d \in Events : OnFile(d)' <=> OnFile(d)
      BY <2>2 DEF OnFile
    <3>. QED  BY <2>1, <2>2, <3>1 DEF AppliedOnce, StripeShape
  <2>6. CustomersApart'
    <3>1. \A d \in Events : log'[d] # "none" => Opened(d)
      BY <2>1, <2>2 DEF CustomersApart, StripeShape
    <3>2. \A k \in Handlers : handler'[k].phase # "free" => Opened(handler'[k].event)
      BY <2>2 DEF CustomersApart, StripeShape, Free
    <3>. QED  BY <2>2, <3>1, <3>2, CustomersStay
  <2>. QED  BY <2>3, <2>4, <2>5, <2>6
<1>6. ASSUME NEW h \in Handlers, HandlerDies(h) PROVE StripeInv'
  <2>1. handler' = [handler EXCEPT ![h] = Free] /\ UNCHANGED <<customer, checkout, log, acked, applied>>
    BY <1>6 DEF HandlerDies, Frees
  <2>2. CustomersApart'
    BY <2>1, CustomersStay DEF CustomersApart, StripeShape, Free
  <2>. QED  BY <2>1, <2>2 DEF StripeShape, HandlersApart, Inserted, Handler, Free, AppliedOnce, OnFile
<1>. QED
  BY <1>1, <1>2, <1>3, <1>4, <1>5, <1>6, CheckoutsKeep DEF Next, Stripe, Handling, vars, stripeVars

(* However often Stripe delivers an event, its credits are added at most   *)
(* once, and exactly once when its entry says processed and it was paid by *)
(* the customer the user has; Stripe stops only when an entry is committed *)
(* (stripe_webhook of routers/stripe_webhooks.py).                         *)
THEOREM PaymentAppliedOnce == Spec => []AppliedOnce
<1>1. Spec => []StripeInv
  BY StripeInvInit, StripeInvNext, PTL DEF Spec
<1>. QED  BY <1>1, PTL DEF StripeInv

---------------------------------------------------------------------------
(* OrgPool *)

(* A task that was not created has no coroutine and no past; a request, a  *)
(* pending invite, a task and what a request read of it are somebody's;    *)
(* what a request about the pool has loaded is a number of credits.        *)
Fresh(t) == task[t] = NoTask /\ runner[t] = NoRunner /\ past[t] = NoPast /\ paid[t] = 0
TasksShape ==
  /\ task \in [Tasks -> Task] /\ runner \in [Tasks -> Coroutines]
  /\ paid \in [Tasks -> Int] /\ past \in [Tasks -> Past]
  /\ \A t \in Tasks : task[t].status = "none" => Fresh(t)
  /\ \A t \in Tasks : task[t].status # "none" => task[t].user \in Users
  /\ hand \in [Hands -> Hand]
  /\ \A h \in Hands : hand[h].op # "idle" => hand[h].of \in Tasks /\ task[hand[h].of].status # "none"
  /\ \A h \in Hands : hand[h].op \in {"cancel", "reopen", "settle"} => ~Undone(hand[h].seen)
PoolShape ==
  /\ alive \in BOOLEAN /\ pool \in Nat /\ stale \in Nat
  /\ credits \in [Users -> Nat]
  /\ role \in [Users -> Roles]
  /\ invite \in [Invites -> Invite] /\ session \in [Sessions -> Session]
  /\ \A i \in Invites : Open(i) => invite[i].for \in Users /\ invite[i].role \in Given
  /\ \A s \in Sessions : session[s].copy \in Nat /\ (session[s].op # "idle" => session[s].by \in Users)

(* What users hold, what was paid for tasks, and what Stripe brought in.   *)
Held == SumOf(credits, Users)
Invested == SumOf(paid, Tasks)
Income == SumOf(applied, Events)
Books == stale = 0 => Held + pool + Invested = SumOf(Funds, Users) + Topup * Income

(* RefundsFit of one task, by its row and its past.                        *)
Stands(row) == IF row.status = "none" \/ Undone(row.status) THEN 0 ELSE Cost
Owes(row, b) == Stands(row) - Cost * b.retried - Reward * b.rejected
Fit(p, row, b) == p - Owes(row, b) <= Cost * b.crossed /\ Owes(row, b) - p <= Cost * b.crossed
AllFit == \A t \in Tasks : Fit(paid[t], task[t], past[t])

PoolGood == PoolShape /\ TasksShape /\ OrgSound /\ Books /\ AllFit
PoolInv == StripeInv /\ PoolGood

LEMMA FitsAlike == AllFit <=> RefundsFit
BY DEF AllFit, RefundsFit, Fit, Owes, Owed, Stands

LEMMA BooksConserve == ASSUME PoolInv PROVE PoolKept
<1>1. Total = Held + pool + Invested
  BY DEF Total, Held, Invested, SumOf
<1>2. Start = SumOf(Funds, Users) /\ Bought = Topup * Income
  BY DEF Start, SumOf, Bought, Income
<1>. QED  BY <1>1, <1>2, FitsAlike DEF PoolKept, Conserved, Books, PoolInv, PoolGood

LEMMA PoolInvInit == Init /\ StripeInv => PoolInv
<1>. SUFFICES ASSUME Init, StripeInv PROVE PoolInv
  OBVIOUS
<1>. USE DEF Init, PoolInit
<1>1. PoolShape
  BY OwnerAssumption, AmountsAssumption
     DEF PoolShape, Roles, NoInvite, Invite, Idle, Session, NoUser, Open
<1>2. TasksShape
  BY DEF TasksShape, Fresh, NoTask, Task, TaskStatus, NoRunner, Coroutines, NoPast, Past, Empty, Hand, HandOps
<1>3. OrgSound
  BY OwnerAssumption DEF OrgSound, NoTask
<1>4. Books
  <2>1. Income = 0
    <3>1. SumOf(applied, Events) = Cardinality({e \in Events : applied[e] = 1})
      BY TopupAssumption, SumCounts
    <3>2. {e \in Events : applied[e] = 1} = {}
      OBVIOUS
    <3>. QED  BY <3>1, <3>2, FS_EmptySet DEF Income
  <2>2. Invested = 0
    <3>1. SumOf(paid, Tasks) = Cardinality({t \in Tasks : paid[t] = 1})
      BY RowsAssumption, SumCounts
    <3>2. {t \in Tasks : paid[t] = 1} = {}
      OBVIOUS
    <3>. QED  BY <3>1, <3>2, FS_EmptySet DEF Invested
  <2>3. Held = SumOf(Funds, Users) /\ SumOf(Funds, Users) \in Int
    <3>1. \A u \in Users : Funds[u] \in Int
      BY AmountsAssumption
    <3>. QED  BY <3>1, RowsAssumption, SumIsInt DEF Held
  <2>. QED  BY <2>1, <2>2, <2>3, TopupAssumption DEF Books
<1>5. AllFit
  <2>1. Cost * 0 = 0 /\ Reward * 0 = 0
    BY AmountsAssumption
  <2>2. \A t \in Tasks : paid[t] = 0 /\ task[t].status = "none"
                         /\ past[t].retried = 0 /\ past[t].rejected = 0 /\ past[t].crossed = 0
    BY DEF NoTask, NoPast
  <2>. QED  BY <2>1, <2>2 DEF AllFit, Fit, Owes, Stands
<1>. QED  BY <1>1, <1>2, <1>3, <1>4, <1>5 DEF PoolInv, PoolGood

---------------------------------------------------------------------------
(* What moves the sums.                                                    *)

LEMMA HeldIsInt == PoolShape => Held \in Int
BY RowsAssumption, SumIsInt DEF PoolShape, Held

LEMMA InvestedIsInt == TasksShape => Invested \in Int
BY RowsAssumption, SumIsInt DEF TasksShape, Invested

LEMMA IncomeIsInt == StripeShape => Income \in Int
<1>1. StripeShape => \A e \in Events : applied[e] \in Int
  BY DEF StripeShape
<1>. QED  BY <1>1, TopupAssumption, SumIsInt DEF Income

LEMMA CreditsMove ==
  ASSUME PoolShape, NEW u \in Users, NEW d \in Int, credits' = [credits EXCEPT ![u] = @ + d]
  PROVE  Held' = Held + d
<1>1. /\ \A v \in Users : credits[v] \in Int
      /\ credits'[u] = credits[u] + d /\ credits'[u] \in Int
      /\ \A v \in Users \ {u} : credits'[v] = credits[v]
  BY DEF PoolShape
<1>2. SumOf(credits', Users) = SumOf(credits, Users) - credits[u] + credits'[u]
  <2>. DEFINE h == credits'
  <2>. HIDE DEF h
  <2>1. \A v \in Users : credits[v] \in Int
    BY <1>1
  <2>2. h[u] \in Int /\ \A v \in Users \ {u} : h[v] = credits[v]
    BY <1>1 DEF h
  <2>3. SumOf(h, Users) = SumOf(credits, Users) - credits[u] + h[u]
    BY <2>1, <2>2, RowsAssumption, SumMoves
  <2>. QED  BY <2>3 DEF h
<1>3. Held' = SumOf(credits', Users)
  BY DEF Held
<1>. QED  BY <1>1, <1>2, <1>3, HeldIsInt DEF Held

LEMMA PaidMoves ==
  ASSUME TasksShape, NEW t \in Tasks, NEW p \in Int, paid' = [paid EXCEPT ![t] = p]
  PROVE  Invested' = Invested - paid[t] + p
<1>1. /\ \A k \in Tasks : paid[k] \in Int
      /\ paid'[t] = p /\ \A k \in Tasks \ {t} : paid'[k] = paid[k]
  BY DEF TasksShape
<1>2. SumOf(paid', Tasks) = SumOf(paid, Tasks) - paid[t] + paid'[t]
  <2>. DEFINE h == paid'
  <2>. HIDE DEF h
  <2>1. \A k \in Tasks : paid[k] \in Int
    BY <1>1
  <2>2. h[t] \in Int /\ \A k \in Tasks \ {t} : h[k] = paid[k]
    BY <1>1 DEF h
  <2>3. SumOf(h, Tasks) = SumOf(paid, Tasks) - paid[t] + h[t]
    BY <2>1, <2>2, RowsAssumption, SumMoves
  <2>. QED  BY <2>3 DEF h
<1>. QED  BY <1>1, <1>2 DEF Invested

(* Many tasks are paid for, or refunded, at once.                          *)
LEMMA PaidShifts ==
  ASSUME TasksShape, NEW T \in SUBSET Tasks, NEW d \in Int, NEW g \in [Tasks -> Int], paid' = g,
         \A t \in Tasks : g[t] = paid[t] + (IF t \in T THEN d ELSE 0)
  PROVE  Invested' = Invested + d * Cardinality(T)
<1>1. \A t \in Tasks : paid[t] \in Int /\ g[t] = paid[t] + (IF t \in T THEN d ELSE 0)
  BY DEF TasksShape
<1>2. SumOf(g, Tasks) = SumOf(paid, Tasks) + d * Cardinality(T)
  BY <1>1, RowsAssumption, SumShifts
<1>. QED  BY <1>2 DEF Invested

LEMMA Distributes == ASSUME NEW n \in Int, NEW a \in Int, NEW b \in Int PROVE n * (a + b) = n * a + n * b
OBVIOUS

LEMMA Balances ==
  ASSUME NEW h \in Int, NEW p \in Int, NEW k \in Int, NEW s \in Int, NEW b \in Int,
         NEW d \in Int, NEW m \in Int, NEW n \in Int, h + p + k = s + b
  PROVE  (h + d) + (p + n - d - m) + (k + m) = s + (b + n)
OBVIOUS

(* The books stay closed over a step that moves d credits of users and c   *)
(* that were paid for tasks, and brings i payments in, when the pool makes *)
(* up for the difference.                                                  *)
LEMMA BooksMove ==
  ASSUME PoolShape, TasksShape, StripeShape, Books, NEW d \in Int, NEW c \in Int, NEW i \in Int,
         stale' = 0 => /\ stale = 0 /\ Held' = Held + d /\ Invested' = Invested + c
                       /\ Income' = Income + i /\ pool' = pool + Topup * i - d - c
  PROVE  Books'
<1>. SUFFICES ASSUME stale' = 0
     PROVE Held' + pool' + Invested' = SumOf(Funds, Users) + Topup * Income'
  BY DEF Books
<1>1. Held \in Int /\ pool \in Int /\ Invested \in Int /\ Topup \in Int /\ Income \in Int
  BY HeldIsInt, InvestedIsInt, IncomeIsInt, TopupAssumption DEF PoolShape
<1>2. SumOf(Funds, Users) \in Int
  <2>1. \A u \in Users : Funds[u] \in Int
    BY AmountsAssumption
  <2>. QED  BY <2>1, RowsAssumption, SumIsInt
<1>3. Topup * (Income + i) = Topup * Income + Topup * i
  BY <1>1, Distributes
<1>4. Topup * Income \in Int /\ Topup * i \in Int
  BY <1>1
<1>5. Held + pool + Invested = SumOf(Funds, Users) + Topup * Income
  BY DEF Books
<1>6. Held' = Held + d /\ pool' = pool + Topup * i - d - c /\ Invested' = Invested + c
  OBVIOUS
<1>7. Topup * Income' = Topup * Income + Topup * i
  BY <1>3
<1>8. (Held + d) + (pool + Topup * i - d - c) + (Invested + c) = SumOf(Funds, Users) + (Topup * Income + Topup * i)
  BY <1>1, <1>2, <1>4, <1>5, Balances
<1>. QED  BY <1>6, <1>7, <1>8

(* The same where no payment comes in.                                     *)
LEMMA BooksSpend ==
  ASSUME PoolShape, TasksShape, StripeShape, Books, NEW d \in Int, NEW c \in Int, UNCHANGED stripeVars,
         stale' = 0 => stale = 0 /\ Held' = Held + d /\ Invested' = Invested + c /\ pool' = pool - d - c
  PROVE  Books'
<1>1. PICK i \in Int : i = 0
  OBVIOUS
<1>2. Topup * i = 0 /\ Income' = Income + i
  BY <1>1, IncomeIsInt, TopupAssumption DEF Income, stripeVars
<1>3. pool - d - c = pool + Topup * i - d - c
  BY <1>2 DEF PoolShape
<1>. QED  BY <1>2, <1>3, BooksMove

(* The rows of tasks where nothing happens to them.                        *)
LEMMA RowsStay ==
  ASSUME TasksShape, AllFit, UNCHANGED taskVars
  PROVE  TasksShape' /\ AllFit' /\ Invested' = Invested
BY DEF TasksShape, Fresh, AllFit, Invested, taskVars

LEMMA BooksStay ==
  ASSUME Books, UNCHANGED <<stale, pool, credits, applied>>, Invested' = Invested
  PROVE  Books'
BY DEF Books, Held, Income

---------------------------------------------------------------------------
(* One task at a time.                                                     *)

HandsKeep == hand' = hand \/ \E h \in Hands : hand' = [hand EXCEPT ![h] = Empty]

LEMMA Splits ==
  ASSUME NEW h \in Int, NEW hh \in Int, NEW g \in Int, NEW gg \in Int, NEW q \in Int, NEW p \in Int, NEW i \in Int,
         hh + gg = h + g + q - p
  PROVE  hh = h + (hh - h) /\ i - q + p = i + (p - q) /\ gg = g - (hh - h) - (p - q)
OBVIOUS

LEMMA BooksOfOne ==
  ASSUME PoolShape, TasksShape, StripeShape, Books, NEW t \in Tasks, NEW p \in Int,
         paid' = [paid EXCEPT ![t] = p], stale' = stale, UNCHANGED stripeVars,
         Held' \in Int, pool' \in Int, Held' + pool' = Held + pool + paid[t] - p
  PROVE  Books'
<1>1. Held \in Int /\ pool \in Int /\ Invested \in Int /\ paid[t] \in Int
  BY HeldIsInt, InvestedIsInt DEF PoolShape, TasksShape
<1>2. PICK hh \in Int, gg \in Int, q \in Int : hh = Held' /\ gg = pool' /\ q = paid[t]
  BY <1>1
<1>3. hh = Held + (hh - Held) /\ Invested - q + p = Invested + (p - q) /\ gg = pool - (hh - Held) - (p - q)
  <2>1. hh + gg = Held + pool + q - p
    BY <1>2
  <2>. QED  BY <1>1, <2>1, Splits
<1>4. Invested' = Invested - q + p
  BY <1>2, PaidMoves
<1>. DEFINE d == hh - Held
            c == p - q
<1>5. d \in Int /\ c \in Int
  BY <1>1
<1>6. Held' = Held + d /\ Invested' = Invested + c /\ pool' = pool - d - c
  BY <1>2, <1>3, <1>4
<1>. HIDE DEF d, c
<1>. QED  BY <1>5, <1>6, BooksSpend

LEMMA OneTask ==
  ASSUME PoolGood, StripeShape, NEW t \in Tasks, NEW row \in Task, NEW run \in Coroutines, NEW p \in Int, NEW b \in Past,
         task' = [task EXCEPT ![t] = row], runner' = [runner EXCEPT ![t] = run],
         paid' = [paid EXCEPT ![t] = p], past' = [past EXCEPT ![t] = b],
         row.status # "none", row.user \in Users, row.org => alive,
         Fit(p, row, b), HandsKeep, Aside, UNCHANGED stripeVars,
         credits' \in [Users -> Nat], pool' \in Nat, Held' + pool' = Held + pool + paid[t] - p
  PROVE  PoolGood'
<1>. USE DEF PoolGood
<1>1. UNCHANGED <<alive, role, invite, session, stale>>
  BY DEF Aside
<1>2. PoolShape'
  BY <1>1 DEF PoolShape, Open
<1>3. \A k \in Tasks : /\ task'[k] = (IF k = t THEN row ELSE task[k])
                       /\ runner'[k] = (IF k = t THEN run ELSE runner[k])
                       /\ paid'[k] = (IF k = t THEN p ELSE paid[k])
                       /\ past'[k] = (IF k = t THEN b ELSE past[k])
  BY DEF TasksShape
<1>4. TasksShape'
  <2>1. /\ task' \in [Tasks -> Task] /\ runner' \in [Tasks -> Coroutines]
        /\ paid' \in [Tasks -> Int] /\ past' \in [Tasks -> Past]
    BY DEF TasksShape
  <2>2. /\ \A k \in Tasks : task'[k].status = "none" => Fresh(k)'
        /\ \A k \in Tasks : task'[k].status # "none" => task'[k].user \in Users
    BY <1>3 DEF TasksShape, Fresh
  <2>3. hand' \in [Hands -> Hand] /\ \A k \in Hands : hand'[k] = hand[k] \/ hand'[k] = Empty
    <3>1. Empty \in Hand
      BY DEF Empty, Hand, TaskStatus
    <3>. QED  BY <3>1 DEF HandsKeep, TasksShape
  <2>4. /\ \A h \in Hands : hand'[h].op # "idle" => hand'[h].of \in Tasks /\ task'[hand'[h].of].status # "none"
        /\ \A h \in Hands : hand'[h].op \in {"cancel", "reopen", "settle"} => ~Undone(hand'[h].seen)
    BY <1>3, <2>3 DEF TasksShape, Empty
  <2>. QED  BY <2>1, <2>2, <2>3, <2>4 DEF TasksShape
<1>5. OrgSound'
  BY <1>1, <1>3 DEF OrgSound
<1>6. AllFit'
  BY <1>3 DEF AllFit
<1>7. Books'
  <2>1. Held' \in Int /\ pool' \in Int
    BY <1>2, RowsAssumption, SumIsInt DEF PoolShape, Held
  <2>2. stale' = stale
    BY <1>1
  <2>. QED  BY <2>1, <2>2, BooksOfOne
<1>. QED  BY <1>2, <1>4, <1>5, <1>6, <1>7

LEMMA FitMoves ==
  ASSUME NEW p \in Int, NEW q \in Int, NEW old \in Task, NEW row \in Task, NEW b \in Past, NEW c \in Past,
         NEW k \in {0, 1}, Fit(p, old, b),
         c.retried = b.retried, c.rejected = b.rejected, c.crossed = b.crossed + k,
         k = 0 => q - p = Stands(row) - Stands(old),
         k = 1 => q - p - (Stands(row) - Stands(old)) \in (-Cost)..Cost
  PROVE  Fit(q, row, c)
<1>1. Cost \in Int /\ Reward \in Int /\ Stands(row) \in Int /\ Stands(old) \in Int
  BY AmountsAssumption DEF Stands
<1>2. b.retried \in Int /\ b.rejected \in Int /\ b.crossed \in Int
  BY DEF Past
<1>3. PICK a \in Int, r \in Int, x \in Int : a = Cost * b.retried /\ r = Reward * b.rejected /\ x = Cost * b.crossed
  BY <1>1, <1>2
<1>4. Cost * c.crossed = x + Cost * k
  BY <1>1, <1>2, <1>3, Distributes
<1>5. Cost * k = IF k = 0 THEN 0 ELSE Cost
  BY <1>1
<1>6. p - (Stands(old) - a - r) <= x /\ Stands(old) - a - r - p <= x
  BY <1>3 DEF Fit, Owes
<1>7. CASE k = 0
  <2>1. q = p + Stands(row) - Stands(old) /\ Cost * c.crossed = x
    BY <1>1, <1>3, <1>4, <1>5, <1>7
  <2>2. q - (Stands(row) - a - r) <= x /\ Stands(row) - a - r - q <= x
    BY <1>1, <1>3, <1>6, <2>1
  <2>. QED  BY <1>3, <2>1, <2>2 DEF Fit, Owes
<1>8. CASE k = 1
  <2>1. PICK d \in Int : d = q - p - (Stands(row) - Stands(old)) /\ -Cost <= d /\ d <= Cost
    BY <1>1, <1>8
  <2>2. Cost * c.crossed = x + Cost
    BY <1>4, <1>5, <1>8
  <2>3. q - (Stands(row) - a - r) <= x + Cost /\ Stands(row) - a - r - q <= x + Cost
    BY <1>1, <1>3, <1>6, <2>1
  <2>. QED  BY <1>3, <2>2, <2>3 DEF Fit, Owes
<1>. QED  BY <1>7, <1>8

(* What is refunded, or is not.                                            *)
Stranded(org) == org /\ ~alive

LEMMA Refunded ==
  ASSUME PoolShape, TasksShape, NEW t \in Tasks, task[t].user \in Users, NEW org \in BOOLEAN, Refund(t, org)
  PROVE  /\ credits' \in [Users -> Nat] /\ pool' \in Nat
         /\ \E p \in Int : /\ paid' = [paid EXCEPT ![t] = p]
                           /\ Held' + pool' = Held + pool + paid[t] - p
                           /\ p = paid[t] - Cost \/ (p = paid[t] /\ Stranded(org))
<1>1. Cost \in Nat /\ pool \in Nat /\ Held \in Int /\ paid[t] \in Int
  BY AmountsAssumption, HeldIsInt DEF PoolShape, TasksShape
<1>2. CASE org /\ alive
  <2>1. pool' = pool + Cost /\ credits' = credits /\ paid' = [paid EXCEPT ![t] = paid[t] - Cost]
    BY <1>2 DEF Refund
  <2>2. Held' = Held
    BY <2>1 DEF Held
  <2>3. Held' + pool' = Held + pool + paid[t] - (paid[t] - Cost)
    BY <1>1, <2>1, <2>2
  <2>. DEFINE p == paid[t] - Cost
  <2>4. p \in Int
    BY <1>1
  <2>. HIDE DEF p
  <2>5. paid' = [paid EXCEPT ![t] = p] /\ Held' + pool' = Held + pool + paid[t] - p /\ p = paid[t] - Cost
    BY <2>1, <2>3 DEF p
  <2>6. credits' \in [Users -> Nat] /\ pool' \in Nat
    BY <1>1, <2>1 DEF PoolShape
  <2>. QED  BY <2>4, <2>5, <2>6
<1>3. CASE org /\ ~alive
  <2>1. pool' = pool /\ credits' = credits /\ paid' = [paid EXCEPT ![t] = paid[t]]
    BY <1>3 DEF Refund, TasksShape
  <2>2. Held' = Held
    BY <2>1 DEF Held
  <2>3. Held' + pool' = Held + pool + paid[t] - paid[t]
    BY <1>1, <2>1, <2>2
  <2>4. PICK p \in Int : p = paid[t]
    BY <1>1
  <2>5. paid' = [paid EXCEPT ![t] = p] /\ Held' + pool' = Held + pool + paid[t] - p /\ p = paid[t] /\ Stranded(org)
    BY <1>3, <2>1, <2>3, <2>4 DEF Stranded
  <2>6. credits' \in [Users -> Nat] /\ pool' \in Nat
    BY <2>1 DEF PoolShape
  <2>. QED  BY <2>5, <2>6
<1>4. CASE ~org
  <2>1. /\ pool' = pool /\ credits' = [credits EXCEPT ![task[t].user] = @ + Cost]
        /\ paid' = [paid EXCEPT ![t] = paid[t] - Cost]
    BY <1>4 DEF Refund
  <2>2. Held' = Held + Cost
    <3>1. Cost \in Int
      BY <1>1
    <3>. QED  BY <2>1, <3>1, CreditsMove
  <2>3. credits' \in [Users -> Nat]
    BY <1>1, <2>1 DEF PoolShape
  <2>4. Held' + pool' = Held + pool + paid[t] - (paid[t] - Cost)
    BY <1>1, <2>1, <2>2
  <2>. DEFINE p == paid[t] - Cost
  <2>5. p \in Int
    BY <1>1
  <2>. HIDE DEF p
  <2>6. paid' = [paid EXCEPT ![t] = p] /\ Held' + pool' = Held + pool + paid[t] - p /\ p = paid[t] - Cost
    BY <2>1, <2>4 DEF p
  <2>. QED  BY <1>1, <2>1, <2>3, <2>5, <2>6
<1>. QED  BY <1>2, <1>3, <1>4

LEMMA Unrefunded ==
  ASSUME PoolShape, TasksShape, NEW t \in Tasks, Unpaid
  PROVE  /\ credits' \in [Users -> Nat] /\ pool' \in Nat
         /\ paid' = [paid EXCEPT ![t] = paid[t]] /\ Held' + pool' = Held + pool + paid[t] - paid[t]
<1>1. Held' = Held /\ Held \in Int /\ pool \in Nat /\ paid[t] \in Int
  BY HeldIsInt DEF Unpaid, Held, PoolShape, TasksShape
<1>. QED  BY <1>1 DEF Unpaid, PoolShape, TasksShape

(* A handler gives a task a status: one it knew to be lost or not, with    *)
(* the refund that is due, or one it did not, which counts as a crossing.  *)
LEMMA TaskMoves ==
  ASSUME PoolGood, StripeShape, NEW t \in Tasks, task[t].status # "none", NEW st \in TaskStatus \ {"none"},
         NEW run \in Coroutines, NEW b \in Past, NEW k \in {0, 1},
         task' = [task EXCEPT ![t].status = st], runner' = [runner EXCEPT ![t] = run],
         past' = [past EXCEPT ![t] = b],
         b.retried = past[t].retried, b.rejected = past[t].rejected, b.crossed = past[t].crossed + k,
         \/ Unpaid /\ (k = 0 => (Undone(st) <=> Undone(task[t].status)))
         \/ \E org \in BOOLEAN : /\ Refund(t, org) /\ Undone(st)
                                 /\ k = 0 => ~Undone(task[t].status) /\ (org => alive),
         HandsKeep, Aside, UNCHANGED stripeVars
  PROVE  PoolGood'
<1>. DEFINE row == [task[t] EXCEPT !.status = st]
<1>1. PoolShape /\ TasksShape /\ OrgSound /\ AllFit
  BY DEF PoolGood
<1>2. task[t] \in Task /\ task[t].user \in Users /\ (task[t].org => alive) /\ paid[t] \in Int /\ past[t] \in Past
  BY <1>1 DEF TasksShape, OrgSound
<1>3. row \in Task /\ row.status = st /\ row.user = task[t].user /\ row.org = task[t].org
  BY <1>2 DEF Task
<1>4. task' = [task EXCEPT ![t] = row]
  OBVIOUS
<1>5. Fit(paid[t], task[t], past[t])
  BY <1>1 DEF AllFit
<1>. HIDE DEF row
<1>6. /\ Stands(row) = IF Undone(st) THEN 0 ELSE Cost
      /\ Stands(task[t]) = IF Undone(task[t].status) THEN 0 ELSE Cost
      /\ Cost \in Nat
  BY <1>3, AmountsAssumption DEF Stands
<1>7. CASE Unpaid /\ (k = 0 => (Undone(st) <=> Undone(task[t].status)))
  <2>1. k = 0 => paid[t] - paid[t] = Stands(row) - Stands(task[t])
    BY <1>2, <1>6, <1>7
  <2>2. k = 1 => paid[t] - paid[t] - (Stands(row) - Stands(task[t])) \in (-Cost)..Cost
    BY <1>2, <1>6
  <2>3. Fit(paid[t], row, b)
    BY <1>2, <1>3, <1>5, <2>1, <2>2, FitMoves
  <2>. QED  BY <1>1, <1>2, <1>3, <1>4, <1>7, <2>3, Unrefunded, OneTask
<1>8. ASSUME NEW org \in BOOLEAN, Refund(t, org), Undone(st), k = 0 => ~Undone(task[t].status) /\ (org => alive)
      PROVE  PoolGood'
  <2>1. /\ credits' \in [Users -> Nat] /\ pool' \in Nat
        /\ \E p \in Int : /\ paid' = [paid EXCEPT ![t] = p]
                          /\ Held' + pool' = Held + pool + paid[t] - p
                          /\ p = paid[t] - Cost \/ (p = paid[t] /\ Stranded(org))
    BY <1>1, <1>2, <1>8, Refunded
  <2>2. PICK p \in Int : /\ paid' = [paid EXCEPT ![t] = p]
                         /\ Held' + pool' = Held + pool + paid[t] - p
                         /\ p = paid[t] - Cost \/ (p = paid[t] /\ Stranded(org))
    BY <2>1
  <2>3. k = 0 => p - paid[t] = Stands(row) - Stands(task[t])
    BY <1>2, <1>6, <1>8, <2>2 DEF Stranded
  <2>4. k = 1 => p - paid[t] - (Stands(row) - Stands(task[t])) \in (-Cost)..Cost
    BY <1>2, <1>6, <1>8, <2>2 DEF Stranded
  <2>5. Fit(p, row, b)
    BY <1>2, <1>3, <1>5, <2>3, <2>4, FitMoves
  <2>. QED  BY <1>2, <1>3, <1>4, <2>1, <2>2, <2>5, OneTask
<1>. QED  BY <1>7, <1>8

(* A handler that leaves money and refunds alone.                          *)
LEMMA Unmoved ==
  ASSUME PoolGood, StripeShape, NEW t \in Tasks, task[t].status # "none", NEW st \in TaskStatus \ {"none"},
         Undone(st) <=> Undone(task[t].status), NEW run \in Coroutines, NEW b \in Past,
         task' = [task EXCEPT ![t].status = st], runner' = [runner EXCEPT ![t] = run],
         past' = [past EXCEPT ![t] = b], b = [past[t] EXCEPT !.answered = b.answered],
         Unpaid, HandsKeep, Aside, UNCHANGED stripeVars
  PROVE  PoolGood'
<1>1. PICK k \in {0, 1} : k = 0
  OBVIOUS
<1>2. b.retried = past[t].retried /\ b.rejected = past[t].rejected /\ b.crossed = past[t].crossed + k
  <2>1. past[t] \in Past
    BY DEF PoolGood, TasksShape
  <2>. QED  BY <1>1, <2>1 DEF Past
<1>. QED  BY <1>1, <1>2, TaskMoves

(* Rows that a step leaves as they are, written as a step on a task.       *)
LEMMA RowsAsTheyAre ==
  ASSUME TasksShape, NEW t \in Tasks
  PROVE  /\ task = [task EXCEPT ![t].status = task[t].status]
         /\ runner = [runner EXCEPT ![t] = runner[t]] /\ past = [past EXCEPT ![t] = past[t]]
         /\ task[t].status \in TaskStatus /\ runner[t] \in Coroutines /\ past[t] \in Past
         /\ past[t] = [past[t] EXCEPT !.answered = past[t].answered]
BY DEF TasksShape, Task, Past

(* A coroutine belongs to a task that was created.                         *)
LEMMA Started ==
  ASSUME TasksShape, NEW t \in Tasks,
         runner[t].run > 0 \/ runner[t].scheduled > 0 \/ runner[t].executing > 0 \/ past[t].answered > 0
  PROVE  task[t].status # "none"
BY DEF TasksShape, Fresh, NoRunner, NoPast

LEMMA Launches ==
  ASSUME TasksShape, NEW t \in Tasks
  PROVE  /\ runner[t].run > 0 => /\ [runner[t] EXCEPT !.run = @ - 1] \in Coroutines
                               /\ [runner[t] EXCEPT !.run = @ - 1, !.executing = @ + 1] \in Coroutines
         /\ runner[t].scheduled > 0 => [runner[t] EXCEPT !.scheduled = @ - 1, !.executing = @ + 1] \in Coroutines
<1>1. runner[t] \in Coroutines /\ runner[t].run \in Nat /\ runner[t].scheduled \in Nat /\ runner[t].executing \in Nat
  BY DEF TasksShape, Coroutines
<1>2. runner[t].executing + 1 \in Nat
  BY <1>1
<1>3. CASE runner[t].run > 0
  <2>1. runner[t].run - 1 \in Nat
    BY <1>1, <1>3
  <2>2. /\ [runner[t] EXCEPT !.run = @ - 1] \in Coroutines
        /\ [runner[t] EXCEPT !.run = @ - 1, !.executing = @ + 1] \in Coroutines
    BY <1>1, <1>2, <2>1 DEF Coroutines
  <2>3. CASE runner[t].scheduled > 0
    <3>1. runner[t].scheduled - 1 \in Nat
      BY <1>1, <2>3
    <3>. QED  BY <1>1, <1>2, <2>2, <3>1 DEF Coroutines
  <2>. QED  BY <2>2, <2>3
<1>4. CASE ~ (runner[t].run > 0)
  <2>1. CASE runner[t].scheduled > 0
    <3>1. runner[t].scheduled - 1 \in Nat
      BY <1>1, <2>1
    <3>. QED  BY <1>1, <1>2, <1>4, <3>1 DEF Coroutines
  <2>. QED  BY <1>4, <2>1
<1>. QED  BY <1>3, <1>4

LEMMA Starts ==
  ASSUME TasksShape, NEW t \in Tasks, NEW f \in {"run", "scheduled", "executing"}
  PROVE  /\ [runner[t] EXCEPT ![f] = @ + 1] \in Coroutines
         /\ runner[t][f] > 0 => [runner[t] EXCEPT ![f] = @ - 1] \in Coroutines
BY DEF TasksShape, Coroutines

(* One more crossing, or none.                                             *)
LEMMA Crossed ==
  ASSUME TasksShape, NEW t \in Tasks, NEW seen, NEW gone \in BOOLEAN, Meets(t, seen, gone)
  PROVE  \E k \in {0, 1}, b \in Past :
            /\ past' = [past EXCEPT ![t] = b]
            /\ b.retried = past[t].retried /\ b.rejected = past[t].rejected /\ b.crossed = past[t].crossed + k
            /\ k = 0 => (Undone(task[t].status) <=> Undone(seen)) /\ ~gone
<1>. DEFINE k == IF Undone(task[t].status) # Undone(seen) \/ gone THEN 1 ELSE 0
            b == [past[t] EXCEPT !.crossed = @ + k]
<1>1. past[t] \in Past /\ k \in {0, 1}
  BY DEF TasksShape
<1>2. past' = [past EXCEPT ![t] = b]
  BY DEF Meets
<1>3. k = 0 => (Undone(task[t].status) <=> Undone(seen)) /\ ~gone
  OBVIOUS
<1>. HIDE DEF k
<1>4. b \in Past /\ b.retried = past[t].retried /\ b.rejected = past[t].rejected /\ b.crossed = past[t].crossed + k
  BY <1>1 DEF Past
<1>. HIDE DEF b
<1>. QED  BY <1>1, <1>2, <1>3, <1>4

(* What creating a task does to the two purses.                            *)
LEMMA Charged ==
  ASSUME PoolShape, NEW u \in Users, FromPool \/ FromUser(u)
  PROVE  /\ credits' \in [Users -> Nat] /\ pool' \in Nat
         /\ Held' + pool' = Held + pool + 0 - Cost
<1>1. Cost \in Nat /\ Held \in Int /\ pool \in Nat
  BY AmountsAssumption, HeldIsInt DEF PoolShape
<1>2. CASE FromPool
  <2>1. credits' = credits /\ pool' = pool - Cost /\ pool >= Cost
    BY <1>2 DEF FromPool
  <2>2. Held' = Held
    BY <2>1 DEF Held
  <2>3. credits' \in [Users -> Nat]
    BY <2>1 DEF PoolShape
  <2>. QED  BY <1>1, <2>1, <2>2, <2>3
<1>3. CASE FromUser(u)
  <2>1. /\ pool' = pool /\ credits[u] >= Cost /\ credits[u] \in Nat
        /\ credits' = [credits EXCEPT ![u] = @ - Cost]
    BY <1>3 DEF FromUser, PoolShape
  <2>2. credits' \in [Users -> Nat]
    BY <1>1, <2>1 DEF PoolShape
  <2>3. Held' = Held + (-Cost)
    <3>1. -Cost \in Int /\ credits[u] - Cost = credits[u] + (-Cost)
      BY <1>1, <2>1
    <3>2. credits' = [credits EXCEPT ![u] = @ + (-Cost)]
      BY <2>1, <3>1
    <3>. QED  BY <3>1, <3>2, CreditsMove
  <2>. QED  BY <1>1, <2>1, <2>2, <2>3
<1>. QED  BY <1>2, <1>3

LEMMA NewTaskKeeps ==
  ASSUME PoolGood, StripeShape, NEW t \in Tasks, NEW u \in Users, NEW human \in BOOLEAN, NEW org \in BOOLEAN,
         NEW st \in {"pending", "waiting"}, NewTask(t, u, human, org, st), FromPool \/ FromUser(u), org => alive,
         UNCHANGED <<hand, past>>, Aside, UNCHANGED stripeVars
  PROVE  PoolGood'
<1>. DEFINE row == [status |-> st, human |-> human, user |-> u, org |-> org]
            run == [runner[t] EXCEPT !.run = IF human \/ st = "pending" THEN 0 ELSE 1]
<1>1. PoolShape /\ TasksShape
  BY DEF PoolGood
<1>2. Fresh(t)
  BY <1>1 DEF NewTask, TasksShape, NoTask
<1>3. row \in Task /\ row.status = st /\ row.user = u /\ row.org = org
  BY DEF Task, TaskStatus
<1>4. run \in Coroutines
  BY <1>1 DEF TasksShape, Coroutines
<1>5. task' = [task EXCEPT ![t] = row] /\ runner' = [runner EXCEPT ![t] = run] /\ paid' = [paid EXCEPT ![t] = Cost]
  BY DEF NewTask
<1>6. past[t] \in Past /\ past' = [past EXCEPT ![t] = past[t]] /\ paid[t] = 0 /\ Cost \in Int
  BY <1>1, <1>2, AmountsAssumption DEF TasksShape, Fresh
<1>7. Fit(Cost, row, past[t])
  <2>1. past[t].retried = 0 /\ past[t].rejected = 0 /\ past[t].crossed = 0
    BY <1>2 DEF Fresh, NoPast
  <2>2. Cost * 0 = 0 /\ Reward * 0 = 0 /\ Cost \in Int
    BY AmountsAssumption
  <2>3. Stands(row) = Cost
    BY <1>3 DEF Stands, Undone
  <2>. QED  BY <2>1, <2>2, <2>3 DEF Fit, Owes
<1>. HIDE DEF row, run
<1>8. credits' \in [Users -> Nat] /\ pool' \in Nat /\ Held' + pool' = Held + pool + paid[t] - Cost
  BY <1>1, <1>6, Charged
<1>9. HandsKeep /\ row.status # "none" /\ row.user \in Users /\ (row.org => alive)
  BY <1>3 DEF HandsKeep
<1>. QED  BY <1>3, <1>4, <1>5, <1>6, <1>7, <1>8, <1>9, OneTask

LEMMA TaskingKeeps ==
  ASSUME PoolGood, StripeShape, NEW t \in Tasks, Tasking(t), UNCHANGED stripeVars
  PROVE  PoolGood'
<1>0. PoolShape /\ TasksShape /\ OrgSound
  BY DEF PoolGood
<1>1. ASSUME NEW u \in Users, NEW human \in BOOLEAN, NEW st \in {"pending", "waiting"}, CreateTask(t, u, human, st)
      PROVE  PoolGood'
  <2>1. PICK org \in BOOLEAN :
          /\ NewTask(t, u, human, org, st) /\ (org => alive)
          /\ FromPool \/ FromUser(u)
          /\ UNCHANGED <<hand, past>> /\ Aside
    BY <1>1 DEF CreateTask, FromPool, Aside
  <2>. QED  BY <1>1, <2>1, NewTaskKeeps
<1>2. ASSUME NEW old \in Tasks, Rerun(t, old) PROVE PoolGood'
  <2>. DEFINE u == task[old].user
  <2>1. u \in Users /\ task[old].human \in BOOLEAN /\ task[old].org \in BOOLEAN /\ (task[old].org => alive)
    BY <1>0, <1>2 DEF Rerun, TasksShape, Task, OrgSound
  <2>2. /\ FromPool \/ FromUser(u)
        /\ NewTask(t, u, task[old].human, task[old].org, "waiting")
        /\ UNCHANGED <<hand, past>> /\ Aside
    BY <1>2 DEF Rerun, Aside
  <2>. HIDE DEF u
  <2>. QED  BY <2>1, <2>2, NewTaskKeeps
<1>3. CASE ActivateTask(t)
  <2>. DEFINE run == IF task[t].human THEN runner[t] ELSE [runner[t] EXCEPT !["scheduled"] = @ + 1]
  <2>1. run \in Coroutines
    BY <1>0, Starts, RowsAsTheyAre
  <2>2. runner' = [runner EXCEPT ![t] = run]
    BY <1>0, <1>3 DEF ActivateTask, TasksShape, Coroutines
  <2>. HIDE DEF run
  <2>3. /\ task[t].status = "pending" /\ task' = [task EXCEPT ![t].status = "waiting"]
        /\ past' = past /\ hand' = hand /\ Unpaid /\ Aside
    BY <1>3 DEF ActivateTask, SetStatus
  <2>4. HandsKeep /\ (Undone("waiting") <=> Undone(task[t].status)) /\ "waiting" \in TaskStatus \ {"none"}
    BY <2>3 DEF HandsKeep, Undone, TaskStatus
  <2>5. /\ past[t] \in Past /\ past' = [past EXCEPT ![t] = past[t]]
        /\ past[t] = [past[t] EXCEPT !.answered = past[t].answered]
    BY <1>0, <2>3, RowsAsTheyAre
  <2>. QED  BY <2>1, <2>2, <2>3, <2>4, <2>5, Unmoved
<1>4. CASE AssignTask(t) \/ ReleaseTask(t)
  <2>1. PICK st \in TaskStatus \ {"none"} :
          /\ task[t].status # "none" /\ (Undone(st) <=> Undone(task[t].status))
          /\ task' = [task EXCEPT ![t].status = st]
    BY <1>4 DEF AssignTask, ReleaseTask, SetStatus, Undone, TaskStatus
  <2>2. HandsKeep /\ Unpaid /\ Aside
    BY <1>4 DEF AssignTask, ReleaseTask, HandsKeep
  <2>3. runner' = runner /\ past' = past
    BY <1>4 DEF AssignTask, ReleaseTask
  <2>4. runner[t] \in Coroutines /\ runner' = [runner EXCEPT ![t] = runner[t]]
    BY <1>0, <2>3, RowsAsTheyAre
  <2>5. /\ past[t] \in Past /\ past' = [past EXCEPT ![t] = past[t]]
        /\ past[t] = [past[t] EXCEPT !.answered = past[t].answered]
    BY <1>0, <2>3, RowsAsTheyAre
  <2>. QED  BY <2>1, <2>2, <2>4, <2>5, Unmoved
<1>5. ASSUME NEW st \in TaskStatus, AnswerTask(t, st) PROVE PoolGood'
  <2>. DEFINE b == [past[t] EXCEPT !.answered = @ + 1]
  <2>1. /\ task[t].status \in {"waiting", "assigned", "completed"} /\ st \in {"waiting", "assigned", "completed"}
        /\ task' = [task EXCEPT ![t].status = st]
        /\ runner' = runner /\ past' = [past EXCEPT ![t] = b] /\ hand' = hand /\ Unpaid /\ Aside
    BY <1>5 DEF AnswerTask, SetStatus
  <2>2. b \in Past /\ b = [past[t] EXCEPT !.answered = b.answered]
    BY <1>0 DEF TasksShape, Past
  <2>. HIDE DEF b
  <2>3. HandsKeep /\ (Undone(st) <=> Undone(task[t].status)) /\ st \in TaskStatus \ {"none"} /\ task[t].status # "none"
    BY <2>1 DEF HandsKeep, Undone
  <2>4. runner[t] \in Coroutines /\ runner' = [runner EXCEPT ![t] = runner[t]]
    BY <1>0, <2>1, RowsAsTheyAre
  <2>. QED  BY <2>1, <2>2, <2>3, <2>4, Unmoved
<1>6. CASE CancelTask(t)
  <2>1. /\ task[t].status \in {"pending", "waiting"} /\ task' = [task EXCEPT ![t].status = "cancelled"]
        /\ runner' = runner /\ past' = past /\ hand' = hand /\ Refund(t, task[t].org) /\ Aside
    BY <1>6 DEF CancelTask, Cancellable, SetStatus
  <2>2. PICK k \in {0, 1} : k = 0
    OBVIOUS
  <2>3. past[t].crossed = past[t].crossed + k
    BY <1>0, <2>2 DEF TasksShape, Past
  <2>4. /\ task[t].org \in BOOLEAN /\ Undone("cancelled") /\ ~Undone(task[t].status) /\ (task[t].org => alive)
        /\ HandsKeep /\ "cancelled" \in TaskStatus \ {"none"} /\ task[t].status # "none"
    BY <1>0, <2>1 DEF TasksShape, Task, Undone, OrgSound, HandsKeep, TaskStatus
  <2>5. /\ runner[t] \in Coroutines /\ runner' = [runner EXCEPT ![t] = runner[t]]
        /\ past[t] \in Past /\ past' = [past EXCEPT ![t] = past[t]]
    BY <1>0, <2>1, RowsAsTheyAre
  <2>6. \E org \in BOOLEAN : /\ Refund(t, org) /\ Undone("cancelled")
                            /\ k = 0 => ~Undone(task[t].status) /\ (org => alive)
    BY <2>1, <2>4
  <2>. QED  BY <2>1, <2>3, <2>4, <2>5, <2>6, TaskMoves
<1>7. CASE StartTask(t)
  <2>1. runner[t].run > 0 /\ task[t].status # "none"
    BY <1>0, <1>7, Started DEF StartTask
  <2>. DEFINE less == [runner[t] EXCEPT !.run = @ - 1]
              more == [runner[t] EXCEPT !.run = @ - 1, !.executing = @ + 1]
  <2>2. less \in Coroutines /\ more \in Coroutines
    BY <1>0, <2>1, Launches
  <2>3. PICK run \in Coroutines, st \in TaskStatus \ {"none"} :
          /\ runner' = [runner EXCEPT ![t] = run] /\ task' = [task EXCEPT ![t].status = st]
          /\ Undone(st) <=> Undone(task[t].status)
    <3>1. CASE task[t].status = "waiting"
      <4>1. runner' = [runner EXCEPT ![t] = more] /\ task' = [task EXCEPT ![t].status = "running"]
        BY <1>0, <1>7, <3>1 DEF StartTask, SetStatus, TasksShape, Coroutines
      <4>2. "running" \in TaskStatus \ {"none"} /\ (Undone("running") <=> Undone(task[t].status))
        BY <3>1 DEF TaskStatus, Undone
      <4>. QED  BY <2>2, <4>1, <4>2
    <3>2. CASE task[t].status # "waiting"
      <4>1. runner' = [runner EXCEPT ![t] = less] /\ task' = task
        BY <1>7, <3>2 DEF StartTask
      <4>. QED  BY <1>0, <2>1, <2>2, <4>1, RowsAsTheyAre
    <3>. QED  BY <3>1, <3>2
  <2>. HIDE DEF less, more
  <2>4. past' = past /\ HandsKeep /\ Unpaid /\ Aside
    BY <1>7 DEF StartTask, HandsKeep
  <2>5. /\ past[t] \in Past /\ past' = [past EXCEPT ![t] = past[t]]
        /\ past[t] = [past[t] EXCEPT !.answered = past[t].answered]
    BY <1>0, <2>4, RowsAsTheyAre
  <2>. QED  BY <2>1, <2>3, <2>4, <2>5, Unmoved
<1>8. CASE StartScheduled(t)
  <2>1. runner[t].scheduled > 0 /\ task[t].status # "none"
    BY <1>0, <1>8, Started DEF StartScheduled
  <2>. DEFINE run == [runner[t] EXCEPT !.scheduled = @ - 1, !.executing = @ + 1]
  <2>2. run \in Coroutines
    BY <1>0, <2>1, Launches
  <2>3. runner' = [runner EXCEPT ![t] = run]
    BY <1>0, <1>8 DEF StartScheduled, TasksShape, Coroutines
  <2>. HIDE DEF run
  <2>4. task' = [task EXCEPT ![t].status = "running"] /\ Unpaid /\ Aside /\ HandsKeep /\ Meets(t, "waiting", FALSE)
    BY <1>8 DEF StartScheduled, SetStatus, HandsKeep
  <2>5. PICK k \in {0, 1}, b \in Past :
          /\ past' = [past EXCEPT ![t] = b]
          /\ b.retried = past[t].retried /\ b.rejected = past[t].rejected /\ b.crossed = past[t].crossed + k
          /\ k = 0 => (Undone(task[t].status) <=> Undone("waiting")) /\ ~FALSE
    BY <1>0, <2>4, Crossed
  <2>6. "running" \in TaskStatus \ {"none"} /\ (k = 0 => (Undone("running") <=> Undone(task[t].status)))
    BY <2>5 DEF TaskStatus, Undone
  <2>. QED  BY <2>1, <2>2, <2>3, <2>4, <2>5, <2>6, TaskMoves
<1>9. CASE CompleteTask(t) \/ FailTask(t)
  <2>0. PICK st \in {"completed", "failed"} :
          /\ Finish(t, st)
          /\ (st = "completed" /\ Unpaid) \/ (st = "failed" /\ Refund(t, task[t].org))
    BY <1>9 DEF CompleteTask, FailTask
  <2>1. runner[t].executing > 0 /\ task[t].status # "none"
    BY <1>0, <2>0, Started DEF Finish
  <2>. DEFINE run == [runner[t] EXCEPT !.executing = @ - 1]
  <2>2. run \in Coroutines
    BY <1>0, <2>1 DEF TasksShape, Coroutines
  <2>3. runner' = [runner EXCEPT ![t] = run]
    BY <2>0 DEF Finish
  <2>. HIDE DEF run
  <2>4. task' = [task EXCEPT ![t].status = st] /\ Aside /\ HandsKeep /\ Meets(t, "running", FALSE)
    BY <2>0 DEF Finish, SetStatus, HandsKeep
  <2>5. PICK k \in {0, 1}, b \in Past :
          /\ past' = [past EXCEPT ![t] = b]
          /\ b.retried = past[t].retried /\ b.rejected = past[t].rejected /\ b.crossed = past[t].crossed + k
          /\ k = 0 => (Undone(task[t].status) <=> Undone("running")) /\ ~FALSE
    BY <1>0, <2>4, Crossed
  <2>6. st \in TaskStatus \ {"none"} /\ (k = 0 => ~Undone(task[t].status)) /\ (Undone(st) <=> st = "failed")
    BY <2>0, <2>5 DEF TaskStatus, Undone
  <2>7. \/ Unpaid /\ (k = 0 => (Undone(st) <=> Undone(task[t].status)))
        \/ \E org \in BOOLEAN : /\ Refund(t, org) /\ Undone(st)
                                /\ k = 0 => ~Undone(task[t].status) /\ (org => alive)
    <3>1. CASE st = "completed" /\ Unpaid
      BY <2>6, <3>1
    <3>2. CASE st = "failed" /\ Refund(t, task[t].org)
      <4>1. task[t].org \in BOOLEAN /\ (task[t].org => alive)
        BY <1>0 DEF TasksShape, Task, OrgSound
      <4>. QED  BY <2>6, <3>2, <4>1
    <3>. QED  BY <2>0, <3>1, <3>2
  <2>. QED  BY <2>1, <2>2, <2>3, <2>4, <2>5, <2>6, <2>7, TaskMoves
<1>10. ASSUME NEW k \in DOMAIN NoRunner, LoseRunner(t, k) PROVE PoolGood'
  <2>1. k \in {"run", "scheduled", "executing"} /\ runner[t][k] > 0
    BY <1>10 DEF NoRunner, LoseRunner
  <2>2. task[t].status # "none"
    <3>1. runner[t].run > 0 \/ runner[t].scheduled > 0 \/ runner[t].executing > 0
      BY <2>1
    <3>. QED  BY <1>0, <3>1, Started
  <2>. DEFINE run == [runner[t] EXCEPT ![k] = @ - 1]
  <2>3. run \in Coroutines
    BY <1>0, <2>1, Starts
  <2>4. runner' = [runner EXCEPT ![t] = run] /\ task' = task /\ past' = past /\ HandsKeep /\ Unpaid /\ Aside
    BY <1>10 DEF LoseRunner, HandsKeep
  <2>. HIDE DEF run
  <2>5. task[t].status \in TaskStatus \ {"none"} /\ task' = [task EXCEPT ![t].status = task[t].status]
    BY <1>0, <2>2, <2>4, RowsAsTheyAre
  <2>6. /\ past[t] \in Past /\ past' = [past EXCEPT ![t] = past[t]]
        /\ past[t] = [past[t] EXCEPT !.answered = past[t].answered]
    BY <1>0, <2>4, RowsAsTheyAre
  <2>. QED  BY <2>2, <2>3, <2>4, <2>5, <2>6, Unmoved
<1>. QED  BY <1>1, <1>2, <1>3, <1>4, <1>5, <1>6, <1>7, <1>8, <1>9, <1>10 DEF Tasking

---------------------------------------------------------------------------
(* Handlers that write what they read earlier.                             *)

LEMMA HandsChange ==
  ASSUME PoolGood, Unpaid, Aside, UNCHANGED <<task, runner, past, stripeVars>>, hand' \in [Hands -> Hand],
         \A h \in Hands : hand'[h].op # "idle" => hand'[h].of \in Tasks /\ task[hand'[h].of].status # "none",
         \A h \in Hands : hand'[h].op \in {"cancel", "reopen", "settle"} => ~Undone(hand'[h].seen)
  PROVE  PoolGood'
<1>. USE DEF PoolGood
<1>1. UNCHANGED <<alive, pool, credits, role, invite, session, stale, task, runner, paid, past, applied>>
  BY DEF Aside, Unpaid, stripeVars
<1>2. PoolShape' /\ OrgSound'
  BY <1>1 DEF PoolShape, OrgSound, Open
<1>3. TasksShape'
  BY <1>1 DEF TasksShape, Fresh
<1>4. Books' /\ AllFit'
  BY <1>1, BooksStay DEF AllFit, Invested
<1>. QED  BY <1>2, <1>3, <1>4

LEMMA TakeUpKeeps ==
  ASSUME PoolGood, NEW h \in Hands, NEW t \in Tasks, NEW op \in HandOps, TakeUp(h, t, op), UNCHANGED stripeVars
  PROVE  PoolGood'
<1>1. TasksShape
  BY DEF PoolGood
<1>. DEFINE row == [op |-> op, of |-> t, seen |-> task[t].status, org |-> task[t].org]
<1>2. task[t].status # "none" /\ (op \in {"cancel", "reopen", "settle"} => ~Undone(task[t].status))
  <2>1. past[t].answered \in Nat /\ past[t].rejected \in Nat
    BY <1>1 DEF TasksShape, Past
  <2>2. CASE op \in {"reject"}
    <3>1. past[t].answered > 0
      BY <2>1, <2>2 DEF TakeUp, Reads
    <3>. QED  BY <1>1, <2>2, <3>1, Started
  <2>3. CASE op \in HandOps \ {"reject"}
    BY <2>3 DEF TakeUp, Reads, Undone, HandOps
  <2>. QED  BY <2>2, <2>3
<1>3. row \in Hand
  BY <1>1 DEF Hand, TasksShape, Task
<1>4. hand' = [hand EXCEPT ![h] = row] /\ row.op = op /\ row.of = t /\ row.seen = task[t].status
  BY DEF TakeUp
<1>. HIDE DEF row
<1>5. hand' \in [Hands -> Hand] /\ \A k \in Hands : hand'[k] = (IF k = h THEN row ELSE hand[k])
  BY <1>1, <1>3, <1>4 DEF TasksShape
<1>6. /\ \A k \in Hands : hand'[k].op # "idle" => hand'[k].of \in Tasks /\ task[hand'[k].of].status # "none"
      /\ \A k \in Hands : hand'[k].op \in {"cancel", "reopen", "settle"} => ~Undone(hand'[k].seen)
  BY <1>1, <1>2, <1>4, <1>5 DEF TasksShape
<1>7. Unpaid /\ Aside /\ UNCHANGED <<task, runner, past>>
  BY DEF TakeUp
<1>. QED  BY <1>5, <1>6, <1>7, HandsChange

LEMMA DropKeeps ==
  ASSUME PoolGood, NEW h \in Hands, Drop(h), UNCHANGED stripeVars
  PROVE  PoolGood'
<1>1. TasksShape
  BY DEF PoolGood
<1>2. hand' = [hand EXCEPT ![h] = Empty] /\ Unpaid /\ Aside /\ UNCHANGED <<task, runner, past>>
  BY DEF Drop, Lay
<1>3. hand' \in [Hands -> Hand] /\ \A k \in Hands : hand'[k] = hand[k] \/ hand'[k].op = "idle"
  <2>1. Empty \in Hand /\ Empty.op = "idle"
    BY DEF Empty, Hand, TaskStatus
  <2>. QED  BY <1>1, <1>2, <2>1 DEF TasksShape
<1>4. /\ \A k \in Hands : hand'[k].op # "idle" => hand'[k].of \in Tasks /\ task[hand'[k].of].status # "none"
      /\ \A k \in Hands : hand'[k].op \in {"cancel", "reopen", "settle"} => ~Undone(hand'[k].seen)
  BY <1>1, <1>3 DEF TasksShape
<1>. QED  BY <1>2, <1>3, <1>4, HandsChange

(* Each writes a status over whatever the task has come to.                *)
LEMMA OverwritesKeep ==
  ASSUME PoolGood, StripeShape, NEW h \in Hands, BulkCancel(h) \/ ReopenTask(h) \/ SettleTask(h), UNCHANGED stripeVars
  PROVE  PoolGood'
<1>0. PoolShape /\ TasksShape
  BY DEF PoolGood
<1>1. PICK t \in Tasks : t = hand[h].of /\ task[t].status # "none"
  BY <1>0 DEF BulkCancel, ReopenTask, SettleTask, Handles, TasksShape
<1>2. hand[h].org \in BOOLEAN /\ ~Undone(hand[h].seen)
  BY <1>0 DEF BulkCancel, ReopenTask, SettleTask, Handles, TasksShape, Hand
<1>3. HandsKeep /\ Aside /\ runner' = runner
  BY DEF BulkCancel, ReopenTask, SettleTask, Lay, HandsKeep
<1>4. runner[t] \in Coroutines /\ runner' = [runner EXCEPT ![t] = runner[t]]
  BY <1>0, <1>3, RowsAsTheyAre
<1>5. CASE BulkCancel(h)
  <2>1. PICK org \in BOOLEAN : org = hand[h].org
    BY <1>2
  <2>2. PICK gone \in BOOLEAN : gone <=> Stranded(org)
    OBVIOUS
  <2>3. task' = [task EXCEPT ![t].status = "cancelled"] /\ Refund(t, org) /\ Meets(t, hand[h].seen, gone)
    BY <1>1, <1>5, <2>1, <2>2 DEF BulkCancel, SetStatus, Stranded, Meets
  <2>4. PICK k \in {0, 1}, b \in Past :
          /\ past' = [past EXCEPT ![t] = b]
          /\ b.retried = past[t].retried /\ b.rejected = past[t].rejected /\ b.crossed = past[t].crossed + k
          /\ k = 0 => (Undone(task[t].status) <=> Undone(hand[h].seen)) /\ ~gone
    BY <1>0, <2>3, Crossed
  <2>5. k = 0 => ~Undone(task[t].status) /\ (org => alive)
    BY <1>2, <2>2, <2>4 DEF Stranded
  <2>6. \E o \in BOOLEAN : Refund(t, o) /\ Undone("cancelled") /\ (k = 0 => ~Undone(task[t].status) /\ (o => alive))
    BY <2>3, <2>5 DEF Undone
  <2>7. "cancelled" \in TaskStatus \ {"none"} /\ task' = [task EXCEPT ![t].status = "cancelled"]
    BY <2>3 DEF TaskStatus
  <2>8. task[t].status # "none" /\ HandsKeep /\ Aside
    BY <1>1, <1>3
  <2>9. /\ past' = [past EXCEPT ![t] = b]
        /\ b.retried = past[t].retried /\ b.rejected = past[t].rejected /\ b.crossed = past[t].crossed + k
    BY <2>4
  <2>. QED  BY <1>4, <2>6, <2>7, <2>8, <2>9, TaskMoves
<1>6. CASE ReopenTask(h) \/ SettleTask(h)
  <2>1. PICK st \in TaskStatus \ {"none"} : ~Undone(st) /\ task' = [task EXCEPT ![t].status = st]
    BY <1>1, <1>6 DEF ReopenTask, SettleTask, SetStatus, Undone, TaskStatus
  <2>2. PICK gone \in BOOLEAN : ~gone
    OBVIOUS
  <2>3. Unpaid /\ Meets(t, hand[h].seen, gone)
    BY <1>1, <1>6, <2>2 DEF ReopenTask, SettleTask, Meets
  <2>4. PICK k \in {0, 1}, b \in Past :
          /\ past' = [past EXCEPT ![t] = b]
          /\ b.retried = past[t].retried /\ b.rejected = past[t].rejected /\ b.crossed = past[t].crossed + k
          /\ k = 0 => (Undone(task[t].status) <=> Undone(hand[h].seen)) /\ ~gone
    BY <1>0, <2>3, Crossed
  <2>5. k = 0 => (Undone(st) <=> Undone(task[t].status))
    BY <1>2, <2>1, <2>4
  <2>6. Unpaid
    BY <2>3
  <2>. QED  BY <1>1, <1>3, <1>4, <2>1, <2>4, <2>5, <2>6, TaskMoves
<1>. QED  BY <1>5, <1>6

(* A free retry, and a reward given back, take what they cost off what was *)
(* paid and off what is owed.                                              *)
LEMMA FitRetried ==
  ASSUME NEW p \in Int, NEW row \in Task, NEW b \in Past, NEW c \in Past, Fit(p, row, b),
         c.retried = b.retried + 1, c.rejected = b.rejected, c.crossed = b.crossed
  PROVE  Fit(p - Cost, row, c)
<1>1. Cost \in Int /\ Reward \in Int /\ Stands(row) \in Int /\ b.retried \in Int /\ b.rejected \in Int /\ b.crossed \in Int
  BY AmountsAssumption DEF Stands, Past
<1>2. Cost * c.retried = Cost * b.retried + Cost
  BY <1>1, Distributes
<1>3. PICK a \in Int, r \in Int, x \in Int : a = Cost * b.retried /\ r = Reward * b.rejected /\ x = Cost * b.crossed
  BY <1>1
<1>4. p - (Stands(row) - a - r) <= x /\ Stands(row) - a - r - p <= x
  BY <1>3 DEF Fit, Owes
<1>5. p - Cost - (Stands(row) - (a + Cost) - r) <= x /\ Stands(row) - (a + Cost) - r - (p - Cost) <= x
  BY <1>1, <1>3, <1>4
<1>. QED  BY <1>2, <1>3, <1>5 DEF Fit, Owes

LEMMA FitRejected ==
  ASSUME NEW p \in Int, NEW row \in Task, NEW b \in Past, NEW c \in Past, Fit(p, row, b),
         c.retried = b.retried, c.rejected = b.rejected + 1, c.crossed = b.crossed
  PROVE  Fit(p - Reward, row, c)
<1>1. Cost \in Int /\ Reward \in Int /\ Stands(row) \in Int /\ b.retried \in Int /\ b.rejected \in Int /\ b.crossed \in Int
  BY AmountsAssumption DEF Stands, Past
<1>2. Reward * c.rejected = Reward * b.rejected + Reward
  BY <1>1, Distributes
<1>3. PICK a \in Int, r \in Int, x \in Int : a = Cost * b.retried /\ r = Reward * b.rejected /\ x = Cost * b.crossed
  BY <1>1
<1>4. p - (Stands(row) - a - r) <= x /\ Stands(row) - a - r - p <= x
  BY <1>3 DEF Fit, Owes
<1>5. p - Reward - (Stands(row) - a - (r + Reward)) <= x /\ Stands(row) - a - (r + Reward) - (p - Reward) <= x
  BY <1>1, <1>3, <1>4
<1>. QED  BY <1>2, <1>3, <1>5 DEF Fit, Owes

LEMMA BulkRetryKeeps ==
  ASSUME PoolGood, StripeShape, NEW h \in Hands, BulkRetry(h), UNCHANGED stripeVars
  PROVE  PoolGood'
<1>0. PoolShape /\ TasksShape /\ OrgSound /\ AllFit
  BY DEF PoolGood
<1>1. PICK t \in Tasks : t = hand[h].of /\ task[t].status # "none"
  BY <1>0 DEF BulkRetry, Handles, TasksShape
<1>2. task[t] \in Task /\ task[t].user \in Users /\ (task[t].org => alive) /\ paid[t] \in Int /\ past[t] \in Past
  BY <1>0, <1>1 DEF TasksShape, OrgSound
<1>3. PICK k \in {0, 1} : k = IF Undone(task[t].status) THEN 0 ELSE 1
  OBVIOUS
<1>. DEFINE row == [task[t] EXCEPT !.status = "waiting"]
            run == [runner[t] EXCEPT !["run"] = @ + 1]
            b == [past[t] EXCEPT !.retried = @ + 1, !.crossed = @ + k]
            c == [past[t] EXCEPT !.retried = @ + 1]
<1>4. task' = [task EXCEPT ![t] = row] /\ row \in Task /\ row.status = "waiting" /\ row.user = task[t].user /\ row.org = task[t].org
  BY <1>1, <1>2 DEF BulkRetry, SetStatus, Task, TaskStatus
<1>5. run \in Coroutines
  BY <1>0, Starts
<1>6. runner' = [runner EXCEPT ![t] = run]
  BY <1>0, <1>1 DEF BulkRetry, TasksShape, Coroutines
<1>7. past' = [past EXCEPT ![t] = b]
  BY <1>0, <1>1, <1>3 DEF BulkRetry, TasksShape, Past
<1>8. /\ b \in Past /\ c \in Past
      /\ c.retried = past[t].retried + 1 /\ c.rejected = past[t].rejected /\ c.crossed = past[t].crossed
      /\ b.retried = c.retried /\ b.rejected = c.rejected /\ b.crossed = c.crossed + k
  <2>1. past[t].crossed + k \in Nat /\ past[t].retried + 1 \in Nat
    BY <1>2, <1>3 DEF Past
  <2>. QED  BY <1>2, <2>1 DEF Past
<1>9. HandsKeep /\ Unpaid /\ Aside
  BY DEF BulkRetry, Lay, HandsKeep
<1>. HIDE DEF row, run, b, c
<1>10. Fit(paid[t] - Cost, task[t], c)
  <2>1. Fit(paid[t], task[t], past[t])
    BY <1>0 DEF AllFit
  <2>. QED  BY <1>2, <1>8, <2>1, FitRetried
<1>11. Fit(paid[t], row, b)
  <2>1. Cost \in Nat /\ paid[t] - Cost \in Int
    BY <1>2, AmountsAssumption
  <2>2. /\ Stands(row) = Cost
        /\ Stands(task[t]) = IF Undone(task[t].status) THEN 0 ELSE Cost
    BY <1>1, <1>4 DEF Stands, Undone
  <2>3. /\ k = 0 => paid[t] - (paid[t] - Cost) = Stands(row) - Stands(task[t])
        /\ k = 1 => paid[t] - (paid[t] - Cost) - (Stands(row) - Stands(task[t])) \in (-Cost)..Cost
    BY <1>2, <1>3, <2>1, <2>2
  <2>. QED  BY <1>2, <1>4, <1>8, <1>10, <2>1, <2>3, FitMoves
<1>12. /\ row.status # "none" /\ row.user \in Users /\ (row.org => alive)
       /\ credits' \in [Users -> Nat] /\ pool' \in Nat
       /\ paid' = [paid EXCEPT ![t] = paid[t]] /\ Held' + pool' = Held + pool + paid[t] - paid[t]
  BY <1>0, <1>2, <1>4, <1>9, Unrefunded
<1>13. task' = [task EXCEPT ![t] = row] /\ row \in Task
  BY <1>4
<1>. QED  BY <1>2, <1>5, <1>6, <1>7, <1>8, <1>9, <1>11, <1>12, <1>13, OneTask

LEMMA RejectKeeps ==
  ASSUME PoolGood, StripeShape, NEW h \in Hands, Reject(h), UNCHANGED stripeVars
  PROVE  PoolGood'
<1>0. PoolShape /\ TasksShape /\ OrgSound /\ AllFit
  BY DEF PoolGood
<1>1. PICK t \in Tasks : t = hand[h].of /\ task[t].status # "none"
  BY <1>0 DEF Reject, Handles, TasksShape
<1>2. task[t] \in Task /\ task[t].user \in Users /\ (task[t].org => alive) /\ paid[t] \in Int /\ past[t] \in Past
  BY <1>0, <1>1 DEF TasksShape, OrgSound
<1>3. PICK reopens \in BOOLEAN : reopens <=> hand[h].seen = "completed"
  OBVIOUS
<1>4. PICK k \in {0, 1} : k = IF reopens /\ Undone(task[t].status) THEN 1 ELSE 0
  OBVIOUS
<1>. DEFINE row == IF reopens THEN [task[t] EXCEPT !.status = "waiting"] ELSE task[t]
            b == [past[t] EXCEPT !.rejected = @ + 1, !.crossed = @ + k]
            c == [past[t] EXCEPT !.rejected = @ + 1]
<1>5. task' = [task EXCEPT ![t] = row]
  BY <1>0, <1>1, <1>3 DEF Reject, TasksShape
<1>6. /\ row \in Task /\ row.user = task[t].user /\ row.org = task[t].org /\ row.status # "none"
      /\ reopens => row.status = "waiting"
      /\ ~reopens => row = task[t]
  BY <1>1, <1>2 DEF Task, TaskStatus
<1>7. past' = [past EXCEPT ![t] = b]
  BY <1>0, <1>1, <1>3, <1>4 DEF Reject, TasksShape, Past
<1>8. /\ b \in Past /\ c \in Past
      /\ c.retried = past[t].retried /\ c.rejected = past[t].rejected + 1 /\ c.crossed = past[t].crossed
      /\ b.retried = c.retried /\ b.rejected = c.rejected /\ b.crossed = c.crossed + k
  <2>1. past[t].crossed + k \in Nat /\ past[t].rejected + 1 \in Nat
    BY <1>2, <1>4 DEF Past
  <2>. QED  BY <1>2, <2>1 DEF Past
<1>9. /\ HandsKeep /\ Aside /\ runner' = runner /\ pool' = pool
      /\ credits' = [credits EXCEPT ![task[t].user] = @ + Reward] /\ paid' = [paid EXCEPT ![t] = paid[t] - Reward]
  BY <1>1 DEF Reject, Lay, HandsKeep
<1>10. runner[t] \in Coroutines /\ runner' = [runner EXCEPT ![t] = runner[t]]
  BY <1>0, <1>9, RowsAsTheyAre
<1>. HIDE DEF row, b, c
<1>11. PICK p \in Int : p = paid[t] - Reward
  BY <1>2, AmountsAssumption
<1>12. Fit(p, task[t], c)
  <2>1. Fit(paid[t], task[t], past[t])
    BY <1>0 DEF AllFit
  <2>. QED  BY <1>2, <1>8, <1>11, <2>1, FitRejected
<1>13. Fit(p, row, b)
  <2>1. Cost \in Nat
    BY AmountsAssumption
  <2>2. /\ reopens => Stands(row) = Cost
        /\ ~reopens => Stands(row) = Stands(task[t])
        /\ Stands(task[t]) = IF Undone(task[t].status) THEN 0 ELSE Cost
    BY <1>1, <1>6 DEF Stands, Undone
  <2>3. /\ k = 0 => p - p = Stands(row) - Stands(task[t])
        /\ k = 1 => p - p - (Stands(row) - Stands(task[t])) \in (-Cost)..Cost
    BY <1>4, <2>1, <2>2
  <2>. QED  BY <1>2, <1>6, <1>8, <1>12, <2>3, FitMoves
<1>14. credits' \in [Users -> Nat] /\ pool' \in Nat
  BY <1>0, <1>2, <1>9, AmountsAssumption DEF PoolShape
<1>15. Held' + pool' = Held + pool + paid[t] - p
  <2>1. Reward \in Int /\ Held \in Int /\ pool \in Int
    BY <1>0, AmountsAssumption, HeldIsInt DEF PoolShape
  <2>2. Held' = Held + Reward
    BY <1>0, <1>2, <1>9, <2>1, CreditsMove
  <2>. QED  BY <1>2, <1>9, <1>11, <2>1, <2>2
<1>16. /\ HandsKeep /\ Aside /\ paid' = [paid EXCEPT ![t] = p]
       /\ row.user \in Users /\ (row.org => alive)
  BY <1>2, <1>6, <1>9, <1>11
<1>. QED  BY <1>2, <1>5, <1>6, <1>7, <1>8, <1>10, <1>13, <1>14, <1>15, <1>16, OneTask

LEMMA HandingKeeps ==
  ASSUME PoolGood, StripeShape, NEW h \in Hands, Handing(h), UNCHANGED stripeVars
  PROVE  PoolGood'
BY TakeUpKeeps, DropKeeps, OverwritesKeep, BulkRetryKeeps, RejectKeeps DEF Handing

---------------------------------------------------------------------------
(* Requests about the pool, members, batches and payments.                 *)

SessionsFine(f) == f \in [Sessions -> Session]
                   /\ \A k \in Sessions : f[k].copy \in Nat /\ (f[k].op # "idle" => f[k].by \in Users)

LEMMA DoneKeepsSessions ==
  ASSUME PoolShape, NEW s \in Sessions, Done(s)
  PROVE  SessionsFine(session')
<1>1. session' = [session EXCEPT ![s] = Idle]
  BY DEF Done
<1>2. Idle \in Session /\ Idle.copy = 0 /\ Idle.op = "idle"
  BY DEF Idle, Session
<1>. QED  BY <1>1, <1>2 DEF PoolShape, SessionsFine

(* A step that leaves tasks and members alone.                             *)
LEMMA ShapeStays ==
  ASSUME PoolGood, UNCHANGED <<alive, role, invite, taskVars>>,
         pool' \in Nat, stale' \in Nat, credits' \in [Users -> Nat], SessionsFine(session')
  PROVE  PoolShape' /\ TasksShape' /\ OrgSound' /\ AllFit' /\ Invested' = Invested
<1>1. PoolShape' /\ OrgSound'
  BY DEF PoolGood, PoolShape, OrgSound, Open, SessionsFine, taskVars
<1>. QED  BY <1>1, RowsStay DEF PoolGood

LEMMA TransferKeeps ==
  ASSUME PoolGood, StripeShape, NEW s \in Sessions, NEW d \in Int, session[s].by \in Users, Done(s),
         credits' = [credits EXCEPT ![session[s].by] = @ + d], credits[session[s].by] + d \in Nat,
         pool' = session[s].copy - d, pool' \in Nat, FromCopy(s), UNCHANGED <<alive, role, invite, taskVars, stripeVars>>
  PROVE  PoolGood'
<1>1. PoolShape /\ TasksShape /\ Books
  BY DEF PoolGood
<1>2. credits' \in [Users -> Nat] /\ stale' \in Nat /\ SessionsFine(session')
  BY <1>1, DoneKeepsSessions DEF FromCopy, PoolShape
<1>3. PoolShape' /\ TasksShape' /\ OrgSound' /\ AllFit' /\ Invested' = Invested
  BY <1>2, ShapeStays
<1>4. PICK c \in Int : c = 0
  OBVIOUS
<1>5. stale' = 0 => stale = 0 /\ Held' = Held + d /\ Invested' = Invested + c /\ pool' = pool - d - c
  <2>1. Held' = Held + d
    BY <1>1, CreditsMove
  <2>2. stale' = 0 => stale = 0 /\ pool' = pool - d
    BY <1>1 DEF FromCopy, PoolShape
  <2>3. Invested' = Invested + c /\ pool - d - c = pool - d
    BY <1>1, <1>3, <1>4, InvestedIsInt DEF PoolShape
  <2>. QED  BY <2>1, <2>2, <2>3
<1>6. Books'
  BY <1>1, <1>5, BooksSpend
<1>. QED  BY <1>3, <1>6 DEF PoolGood

LEMMA RequestKeeps ==
  ASSUME PoolGood, StripeShape, NEW s \in Sessions,
         (\E u \in Users, op \in Ops : Begin(s, u, op)) \/ Refuse(s) \/ Deposit(s) \/ Withdraw(s), UNCHANGED stripeVars
  PROVE  PoolGood'
<1>0. PoolShape /\ TasksShape /\ OrgSound /\ Books /\ AllFit
  BY DEF PoolGood
<1>1. CASE (\E u \in Users, op \in Ops : Begin(s, u, op)) \/ Refuse(s)
  <2>1. UNCHANGED <<alive, pool, credits, role, invite, stale, taskVars>>
    BY <1>1 DEF Begin, Refuse
  <2>2. SessionsFine(session')
    <3>1. CASE Refuse(s)
      BY <1>0, <3>1, DoneKeepsSessions DEF Refuse
    <3>2. ASSUME NEW u \in Users, NEW op \in Ops, Begin(s, u, op) PROVE SessionsFine(session')
      <4>. DEFINE row == [op |-> op, by |-> u, copy |-> pool]
      <4>1. row \in Session /\ row.copy \in Nat /\ row.by \in Users /\ session' = [session EXCEPT ![s] = row]
        BY <1>0, <3>2 DEF Begin, Session, PoolShape
      <4>. HIDE DEF row
      <4>. QED  BY <1>0, <4>1 DEF SessionsFine, PoolShape
    <3>. QED  BY <1>1, <3>1, <3>2
  <2>3. pool' \in Nat /\ stale' \in Nat /\ credits' \in [Users -> Nat]
    BY <1>0, <2>1 DEF PoolShape
  <2>4. PoolShape' /\ TasksShape' /\ OrgSound' /\ AllFit' /\ Invested' = Invested
    BY <2>1, <2>2, <2>3, ShapeStays
  <2>5. Books'
    BY <1>0, <2>1, <2>4, BooksStay DEF stripeVars
  <2>. QED  BY <2>4, <2>5 DEF PoolGood
<1>2. CASE Deposit(s)
  <2>1. /\ session[s].by \in Users /\ session[s].copy \in Nat /\ credits[session[s].by] >= Amount /\ Amount \in Nat
        /\ credits' = [credits EXCEPT ![session[s].by] = @ - Amount] /\ pool' = session[s].copy + Amount
        /\ FromCopy(s) /\ Done(s) /\ UNCHANGED <<alive, role, invite, taskVars>>
    BY <1>0, <1>2, AmountsAssumption DEF Deposit, Doing, WritePool, PoolShape
  <2>2. PICK d \in Int : d = -Amount
    BY <2>1
  <2>3. credits[session[s].by] \in Nat
    BY <1>0, <2>1 DEF PoolShape
  <2>4. /\ credits[session[s].by] - Amount = credits[session[s].by] + d /\ credits[session[s].by] + d \in Nat
        /\ pool' = session[s].copy - d /\ pool' \in Nat
    BY <2>1, <2>2, <2>3
  <2>5. credits' = [credits EXCEPT ![session[s].by] = @ + d]
    BY <2>1, <2>4
  <2>. QED  BY <2>1, <2>4, <2>5, TransferKeeps
<1>3. CASE Withdraw(s)
  <2>1. /\ session[s].by \in Users /\ session[s].copy \in Nat /\ session[s].copy >= Amount /\ Amount \in Nat
        /\ credits' = [credits EXCEPT ![session[s].by] = @ + Amount] /\ pool' = session[s].copy + (-Amount)
        /\ FromCopy(s) /\ Done(s) /\ UNCHANGED <<alive, role, invite, taskVars>>
    BY <1>0, <1>3, AmountsAssumption DEF Withdraw, Doing, WritePool, Covers, PoolShape
  <2>2. credits[session[s].by] \in Nat
    BY <1>0, <2>1 DEF PoolShape
  <2>3. /\ credits[session[s].by] + Amount \in Nat /\ Amount \in Int
        /\ pool' = session[s].copy - Amount /\ pool' \in Nat
    BY <2>1, <2>2
  <2>. QED  BY <2>1, <2>3, TransferKeeps
<1>. QED  BY <1>1, <1>2, <1>3

(* A deletion takes the organisation's id off every task, and cancels and  *)
(* refunds those that wait.                                                *)
LEMMA DeleteMovesTasks ==
  ASSUME PoolGood, NEW s \in Sessions, DeleteOrg(s), UNCHANGED stripeVars
  PROVE  /\ TasksShape' /\ AllFit' /\ \A t \in Tasks : ~task'[t].org
         /\ Invested' = Invested + (-Cost) * Cardinality(Billed)
<1>0. TasksShape /\ AllFit /\ Billed \in SUBSET Tasks
  BY DEF PoolGood, Billed
<1>1. /\ task' = [t \in Tasks |-> Orphaned(t, FALSE)]
      /\ paid' = [t \in Tasks |-> IF t \in Billed THEN paid[t] - Cost ELSE paid[t]]
      /\ runner' = runner /\ hand' = hand /\ past' = past
  BY DEF DeleteOrg
<1>2. ASSUME NEW t \in Tasks
      PROVE  /\ task'[t] \in Task /\ ~task'[t].org /\ task'[t].user = task[t].user
             /\ task'[t].status = (IF t \in Billed THEN "cancelled" ELSE task[t].status)
             /\ t \in Billed => task[t].status \in {"pending", "waiting"}
             /\ paid'[t] = (IF t \in Billed THEN paid[t] - Cost ELSE paid[t]) /\ paid[t] \in Int /\ paid'[t] \in Int
  <2>1. task[t] \in Task /\ paid[t] \in Int /\ Cost \in Int
    BY <1>0, AmountsAssumption DEF TasksShape
  <2>2. PICK old \in Task : old = task[t]
    BY <2>1
  <2>3. PICK st \in TaskStatus : st = IF t \in Billed THEN "cancelled" ELSE old.status
    BY <2>2 DEF Task, TaskStatus
  <2>4. task'[t] = [old EXCEPT !.org = FALSE, !.status = st]
    BY <1>1, <2>2, <2>3 DEF Orphaned
  <2>5. task'[t] \in Task /\ ~task'[t].org /\ task'[t].user = old.user /\ task'[t].status = st
    BY <2>2, <2>3, <2>4 DEF Task
  <2>6. t \in Billed => task[t].status \in {"pending", "waiting"}
    BY DEF Billed
  <2>7. paid'[t] = (IF t \in Billed THEN paid[t] - Cost ELSE paid[t])
    BY <1>1
  <2>. QED  BY <2>1, <2>2, <2>3, <2>5, <2>6, <2>7
<1>3. \A t \in Tasks : /\ task'[t].status = "none" <=> task[t].status = "none"
                       /\ task'[t].status = "none" => t \notin Billed
  BY <1>2
<1>4. \A t \in Tasks : ~task[t].org => (t \notin Billed)
  BY DEF Billed
<1>5. \A t \in Tasks : t \notin Billed /\ ~task[t].org => task'[t] = task[t]
  <2>. SUFFICES ASSUME NEW t \in Tasks, t \notin Billed, ~task[t].org PROVE task'[t] = task[t]
    OBVIOUS
  <2>1. task'[t] = [task[t] EXCEPT !.org = FALSE, !.status = task[t].status]
    BY <1>1 DEF Orphaned
  <2>2. task[t] \in Task
    BY <1>0 DEF TasksShape
  <2>. QED  BY <2>1, <2>2 DEF Task
<1>6. TasksShape'
  <2>1. task' \in [Tasks -> Task] /\ paid' \in [Tasks -> Int]
    BY <1>1, <1>2
  <2>2. \A t \in Tasks : task'[t].status = "none" => Fresh(t)'
    <3>. SUFFICES ASSUME NEW t \in Tasks, task'[t].status = "none" PROVE Fresh(t)'
      OBVIOUS
    <3>1. Fresh(t) /\ t \notin Billed
      BY <1>0, <1>3 DEF TasksShape
    <3>2. task'[t] = task[t]
      BY <1>5, <3>1 DEF Fresh, NoTask
    <3>. QED  BY <1>1, <1>2, <3>1, <3>2 DEF Fresh
  <2>3. \A t \in Tasks : task'[t].status # "none" => task'[t].user \in Users
    BY <1>0, <1>2, <1>3 DEF TasksShape
  <2>4. /\ runner' \in [Tasks -> Coroutines] /\ past' \in [Tasks -> Past] /\ hand' \in [Hands -> Hand]
        /\ \A h \in Hands : hand'[h].op # "idle" => hand'[h].of \in Tasks /\ task'[hand'[h].of].status # "none"
        /\ \A h \in Hands : hand'[h].op \in {"cancel", "reopen", "settle"} => ~Undone(hand'[h].seen)
    BY <1>0, <1>1, <1>3 DEF TasksShape
  <2>. QED  BY <2>1, <2>2, <2>3, <2>4 DEF TasksShape
<1>7. AllFit'
  <2>. SUFFICES ASSUME NEW t \in Tasks PROVE Fit(paid'[t], task'[t], past'[t])
    BY DEF AllFit
  <2>1. PICK row \in Task, q \in Int : row = task'[t] /\ q = paid'[t]
    BY <1>2
  <2>2. PICK k \in {0, 1} : k = 0
    OBVIOUS
  <2>3. /\ past[t] \in Past /\ past' = past /\ past[t].crossed = past[t].crossed + k
        /\ Fit(paid[t], task[t], past[t]) /\ task[t] \in Task /\ paid[t] \in Int
    BY <1>0, <1>1, <2>2 DEF AllFit, TasksShape, Past
  <2>4. q - paid[t] = Stands(row) - Stands(task[t])
    <3>1. Cost \in Int
      BY AmountsAssumption
    <3>2. CASE t \in Billed
      <4>1. Stands(row) = 0 /\ Stands(task[t]) = Cost /\ q = paid[t] - Cost
        BY <1>2, <2>1, <3>2 DEF Stands, Undone
      <4>. QED  BY <2>3, <3>1, <4>1
    <3>3. CASE t \notin Billed
      <4>1. Stands(row) = Stands(task[t]) /\ q = paid[t] /\ Stands(row) \in Int
        BY <1>2, <2>1, <3>1, <3>3 DEF Stands
      <4>. QED  BY <2>3, <4>1
    <3>. QED  BY <3>2, <3>3
  <2>5. Fit(q, row, past[t])
    BY <2>2, <2>3, <2>4, FitMoves
  <2>. QED  BY <2>1, <2>3, <2>5
<1>8. Invested' = Invested + (-Cost) * Cardinality(Billed)
  <2>1. PICK d \in Int : d = -Cost
    BY AmountsAssumption
  <2>2. PICK g \in [Tasks -> Int] : g = paid'
    BY <1>1, <1>2
  <2>3. \A t \in Tasks : g[t] = paid[t] + (IF t \in Billed THEN d ELSE 0)
    BY <1>2, <2>1, <2>2, AmountsAssumption
  <2>4. Invested' = Invested + d * Cardinality(Billed)
    BY <1>0, <2>2, <2>3, PaidShifts
  <2>. QED  BY <2>1, <2>4
<1>. QED  BY <1>2, <1>6, <1>7, <1>8

LEMMA DeleteKeeps ==
  ASSUME PoolGood, StripeShape, NEW s \in Sessions, DeleteOrg(s), UNCHANGED stripeVars
  PROVE  PoolGood'
<1>0. PoolShape /\ TasksShape /\ OrgSound /\ Books /\ AllFit
  BY DEF PoolGood
<1>1. /\ TasksShape' /\ AllFit' /\ \A t \in Tasks : ~task'[t].org
      /\ Invested' = Invested + (-Cost) * Cardinality(Billed)
  BY DeleteMovesTasks
<1>2. Cardinality(Billed) \in Nat /\ Cost \in Nat
  BY RowsAssumption, AmountsAssumption, FS_Subset, FS_CardinalityType DEF Billed
<1>3. PICK k \in Nat : k = Cost * Cardinality(Billed)
  BY <1>2
<1>4. (-Cost) * Cardinality(Billed) = -k
  BY <1>2, <1>3
<1>5. /\ session[s].by \in Users /\ session[s].copy \in Nat /\ pool \in Nat /\ stale \in Nat
      /\ pool' = 0 /\ alive' = FALSE /\ FromCopy(s)
      /\ credits' = [credits EXCEPT ![session[s].by] = @ + session[s].copy + k]
  BY <1>0, <1>3 DEF DeleteOrg, Doing, Teardown, PoolShape
<1>6. PICK e \in Int : e = session[s].copy + k /\ e \in Nat
  BY <1>5
<1>7. credits' = [credits EXCEPT ![session[s].by] = @ + e] /\ credits' \in [Users -> Nat]
  <2>1. credits[session[s].by] \in Nat
    BY <1>0, <1>5 DEF PoolShape
  <2>2. credits[session[s].by] + session[s].copy + k = credits[session[s].by] + e /\ credits[session[s].by] + e \in Nat
    BY <1>5, <1>6, <2>1
  <2>. QED  BY <1>0, <1>5, <2>2 DEF PoolShape
<1>8. PoolShape' /\ OrgSound'
  <2>1. role' \in [Users -> Roles]
    BY DEF DeleteOrg, Roles
  <2>2. invite' \in [Invites -> Invite] /\ \A i \in Invites : ~ Open(i)'
    <3>1. invite' = [i \in Invites |-> IF Open(i) THEN [invite[i] EXCEPT !.status = "gone"] ELSE invite[i]]
      BY DEF DeleteOrg, Used
    <3>. QED  BY <1>0, <3>1 DEF PoolShape, Invite, Open
  <2>3. SessionsFine(session')
    BY <1>0, DoneKeepsSessions DEF DeleteOrg
  <2>4. alive' \in BOOLEAN
    BY <1>5
  <2>5. pool' \in Nat /\ stale' \in Nat
    BY <1>5 DEF FromCopy
  <2>. QED  BY <1>1, <1>5, <1>7, <2>1, <2>2, <2>3, <2>4, <2>5 DEF PoolShape, OrgSound, SessionsFine
<1>9. Books'
  <2>1. PICK c \in Int : c = -k
    BY <1>3
  <2>2. Held' = Held + e /\ Invested' = Invested + c
    BY <1>0, <1>1, <1>4, <1>5, <1>6, <1>7, <2>1, CreditsMove
  <2>3. stale' = 0 => stale = 0 /\ session[s].copy = pool
    BY <1>5 DEF FromCopy
  <2>4. stale' = 0 => pool' = pool - e - c
    BY <1>3, <1>5, <1>6, <2>1, <2>3
  <2>. QED  BY <1>0, <2>2, <2>3, <2>4, BooksSpend
<1>. QED  BY <1>1, <1>8, <1>9 DEF PoolGood

LEMMA MembershipKeeps ==
  ASSUME PoolGood, StripeShape, Membership, UNCHANGED stripeVars
  PROVE  PoolGood'
<1>0. PoolShape /\ TasksShape /\ OrgSound /\ Books /\ AllFit
  BY DEF PoolGood
<1>1. UNCHANGED <<alive, pool, credits, session, stale, taskVars>>
  BY DEF Membership, Remove, SetRole, DropInvite, AcceptInvite, SendInvite
<1>2. TasksShape' /\ AllFit' /\ Invested' = Invested
  BY <1>0, <1>1, RowsStay
<1>3. Books'
  BY <1>0, <1>1, <1>2, BooksStay DEF stripeVars
<1>4. task' = task
  BY <1>1 DEF taskVars
<1>5. PoolShape' /\ OrgSound'
  <2>1. ASSUME NEW u \in Users, NEW v \in Users, Remove(u, v) PROVE PoolShape' /\ OrgSound'
    BY <1>0, <1>1, <1>4, <2>1 DEF Remove, Changeable, PoolShape, OrgSound, Roles, Open
  <2>2. ASSUME NEW u \in Users, NEW v \in Users, NEW r \in Given, SetRole(u, v, r) PROVE PoolShape' /\ OrgSound'
    BY <1>0, <1>1, <1>4, <2>2, GivenAssumption DEF SetRole, Changeable, PoolShape, OrgSound, Roles, Open
  <2>3. ASSUME NEW i \in Invites, DropInvite(i) PROVE PoolShape' /\ OrgSound'
    <3>1. invite' = [invite EXCEPT ![i] = [invite[i] EXCEPT !.status = "gone"]] /\ role' = role
      BY <2>3 DEF DropInvite, Used
    <3>. QED  BY <1>0, <1>1, <1>4, <3>1 DEF PoolShape, OrgSound, Open, Invite
  <2>4. ASSUME NEW i \in Invites, AcceptInvite(i) PROVE PoolShape' /\ OrgSound'
    <3>1. /\ invite[i].for \in Users /\ invite[i].role \in Given /\ role[invite[i].for] = "none"
          /\ role' = [role EXCEPT ![invite[i].for] = invite[i].role]
          /\ invite' = [invite EXCEPT ![i] = [invite[i] EXCEPT !.status = "accepted"]]
      BY <1>0, <2>4 DEF AcceptInvite, Used, PoolShape
    <3>2. role' \in [Users -> Roles] /\ (alive => \A u \in Users : role'[u] = "owner" <=> u = Owner)
      BY <1>0, <3>1, GivenAssumption DEF PoolShape, OrgSound, Roles
    <3>. QED  BY <1>0, <1>1, <1>4, <3>1, <3>2 DEF PoolShape, OrgSound, Open, Invite
  <2>5. ASSUME NEW i \in Invites, NEW u \in Users, NEW v \in Users, NEW r \in Given, SendInvite(u, v, i, r)
        PROVE  PoolShape' /\ OrgSound'
    <3>1. invite' = [invite EXCEPT ![i] = [status |-> "pending", for |-> v, role |-> r]] /\ role' = role
      BY <2>5 DEF SendInvite
    <3>. QED  BY <1>0, <1>1, <1>4, <3>1, GivenAssumption DEF PoolShape, OrgSound, Open, Invite, Roles
  <2>. QED  BY <2>1, <2>2, <2>3, <2>4, <2>5 DEF Membership
<1>. QED  BY <1>2, <1>3, <1>5 DEF PoolGood

LEMMA BatchKeeps ==
  ASSUME PoolGood, StripeShape, NEW u \in Users, NEW made \in SUBSET Tasks,
         NEW human \in [made -> BOOLEAN], NEW failed \in Nat, CreateBatch(u, human, failed), UNCHANGED stripeVars
  PROVE  PoolGood'
<1>0. PoolShape /\ TasksShape /\ OrgSound /\ Books /\ AllFit
  BY DEF PoolGood
<1>1. Cardinality(made) \in Nat /\ Cost \in Nat
  BY RowsAssumption, AmountsAssumption, FS_Subset, FS_CardinalityType
<1>2. PICK k \in Nat : k = Cost * Cardinality(made)
  BY <1>1
<1>3. /\ \A t \in made : task[t] = NoTask
      /\ credits[u] >= Cost * (Cardinality(made) + failed)
      /\ credits' = [credits EXCEPT ![u] = @ - k]
      /\ task' = [t \in Tasks |-> IF t \in made
                    THEN [status |-> "waiting", human |-> human[t], user |-> u, org |-> FALSE]
                    ELSE task[t]]
      /\ runner' = [t \in Tasks |-> IF t \in made /\ ~human[t] THEN [NoRunner EXCEPT !.run = 1] ELSE runner[t]]
      /\ paid' = [t \in Tasks |-> IF t \in made THEN Cost ELSE paid[t]]
      /\ UNCHANGED <<alive, pool, role, invite, session, stale, hand, past>>
  BY <1>2 DEF CreateBatch
<1>4. PICK d \in Int : d = -k
  BY <1>2
<1>5. credits' = [credits EXCEPT ![u] = @ + d] /\ credits' \in [Users -> Nat]
  <2>1. credits[u] \in Nat
    BY <1>0 DEF PoolShape
  <2>2. Cost * (Cardinality(made) + failed) = k + Cost * failed /\ Cost * failed \in Nat
    BY <1>1, <1>2, Distributes
  <2>3. credits[u] >= k
    <3>1. credits[u] >= k + Cost * failed
      BY <1>3, <2>2
    <3>2. PICK f \in Nat : f = Cost * failed
      BY <2>2
    <3>. QED  BY <1>2, <2>1, <3>1, <3>2
  <2>4. credits[u] - k \in Nat /\ credits[u] - k = credits[u] + d
    BY <1>2, <1>4, <2>1, <2>3
  <2>. QED  BY <1>0, <1>3, <2>4 DEF PoolShape
<1>6. ASSUME NEW t \in Tasks
      PROVE  /\ task'[t] \in Task /\ runner'[t] \in Coroutines /\ paid'[t] \in Int
             /\ t \in made => Fresh(t) /\ task'[t].status = "waiting" /\ task'[t].user = u /\ ~task'[t].org /\ paid'[t] = Cost
             /\ t \notin made => task'[t] = task[t] /\ runner'[t] = runner[t] /\ paid'[t] = paid[t]
  <2>1. CASE t \in made
    <3>1. human[t] \in BOOLEAN
      BY <2>1
    <3>2. task'[t] = [status |-> "waiting", human |-> human[t], user |-> u, org |-> FALSE] /\ paid'[t] = Cost
      BY <1>3, <2>1
    <3>3. task'[t] \in Task /\ task'[t].status = "waiting" /\ task'[t].user = u /\ ~task'[t].org
      BY <3>1, <3>2 DEF Task, TaskStatus
    <3>4. runner'[t] = [NoRunner EXCEPT !.run = 1] \/ runner'[t] = runner[t]
      BY <1>3, <2>1
    <3>5. [NoRunner EXCEPT !.run = 1] \in Coroutines /\ runner[t] \in Coroutines
      BY <1>0 DEF TasksShape, NoRunner, Coroutines
    <3>6. Fresh(t)
      BY <1>0, <1>3, <2>1 DEF TasksShape, NoTask
    <3>. QED  BY <1>1, <2>1, <3>2, <3>3, <3>4, <3>5, <3>6
  <2>2. CASE t \notin made
    BY <1>0, <1>3, <2>2 DEF TasksShape
  <2>. QED  BY <2>1, <2>2
<1>7. TasksShape'
  <2>1. task' \in [Tasks -> Task] /\ runner' \in [Tasks -> Coroutines] /\ paid' \in [Tasks -> Int]
    BY <1>3, <1>6
  <2>2. \A t \in Tasks : task'[t].status = "none" => Fresh(t)'
    <3>. SUFFICES ASSUME NEW t \in Tasks, task'[t].status = "none" PROVE Fresh(t)'
      OBVIOUS
    <3>1. t \notin made
      BY <1>6
    <3>2. task'[t] = task[t] /\ runner'[t] = runner[t] /\ paid'[t] = paid[t] /\ past' = past
      BY <1>3, <1>6, <3>1
    <3>. QED  BY <1>0, <3>2 DEF TasksShape, Fresh
  <2>3. \A t \in Tasks : task[t].status # "none" => task'[t].status # "none"
    BY <1>6
  <2>4. \A t \in Tasks : task'[t].status # "none" => task'[t].user \in Users
    BY <1>0, <1>6 DEF TasksShape
  <2>5. /\ past' \in [Tasks -> Past] /\ hand' \in [Hands -> Hand]
        /\ \A h \in Hands : hand'[h].op # "idle" => hand'[h].of \in Tasks /\ task'[hand'[h].of].status # "none"
        /\ \A h \in Hands : hand'[h].op \in {"cancel", "reopen", "settle"} => ~Undone(hand'[h].seen)
    BY <1>0, <1>3, <2>3 DEF TasksShape
  <2>. QED  BY <2>1, <2>2, <2>4, <2>5 DEF TasksShape
<1>8. AllFit'
  <2>. SUFFICES ASSUME NEW t \in Tasks PROVE Fit(paid'[t], task'[t], past'[t])
    BY DEF AllFit
  <2>1. past' = past /\ Fit(paid[t], task[t], past[t])
    BY <1>0, <1>3 DEF AllFit
  <2>2. CASE t \in made
    <3>1. past[t].retried = 0 /\ past[t].rejected = 0 /\ past[t].crossed = 0
      BY <1>6, <2>2 DEF Fresh, NoPast
    <3>2. Stands(task'[t]) = Cost /\ paid'[t] = Cost /\ Cost * 0 = 0 /\ Reward * 0 = 0 /\ Cost \in Int
      BY <1>6, <2>2, AmountsAssumption DEF Stands, Undone
    <3>. QED  BY <2>1, <3>1, <3>2 DEF Fit, Owes
  <2>3. CASE t \notin made
    BY <1>6, <2>1, <2>3
  <2>. QED  BY <2>2, <2>3
<1>9. PoolShape' /\ OrgSound'
  <2>1. UNCHANGED <<alive, pool, role, invite, session, stale>>
    BY <1>3
  <2>2. \A t \in Tasks : task'[t].org => task[t].org
    BY <1>6
  <2>. QED  BY <1>0, <1>5, <2>1, <2>2 DEF PoolShape, OrgSound, Open
<1>10. Invested' = Invested + k
  <2>1. PICK g \in [Tasks -> Int] : g = paid'
    BY <1>3, <1>6
  <2>2. \A t \in Tasks : g[t] = paid[t] + (IF t \in made THEN Cost ELSE 0)
    <3>. SUFFICES ASSUME NEW t \in Tasks PROVE g[t] = paid[t] + (IF t \in made THEN Cost ELSE 0)
      OBVIOUS
    <3>1. t \in made => paid[t] = 0
      BY <1>6 DEF Fresh
    <3>2. paid[t] \in Int
      BY <1>0 DEF TasksShape
    <3>. QED  BY <1>1, <1>6, <2>1, <3>1, <3>2
  <2>3. Invested' = Invested + Cost * Cardinality(made)
    BY <1>0, <1>1, <2>1, <2>2, PaidShifts
  <2>. QED  BY <1>2, <2>3
<1>11. Books'
  <2>1. Held' = Held + d
    BY <1>0, <1>5, CreditsMove
  <2>2. pool' = pool /\ stale' = stale /\ pool \in Nat /\ k \in Int
    BY <1>0, <1>2, <1>3 DEF PoolShape
  <2>3. pool' = pool - d - k
    BY <1>2, <1>4, <2>2
  <2>. QED  BY <1>0, <1>10, <2>1, <2>2, <2>3, BooksSpend
<1>. QED  BY <1>7, <1>8, <1>9, <1>11 DEF PoolGood

(* A payment adds to the owner's credits; the rest of what Stripe does      *)
(* leaves the pool's variables alone.                                      *)
LEMMA AppliesKeep ==
  ASSUME PoolGood, StripeShape, NEW e \in Events, Apply(e),
         UNCHANGED <<alive, pool, role, invite, session, stale, taskVars>>
  PROVE  PoolGood'
<1>0. PoolShape /\ TasksShape /\ OrgSound /\ Books /\ AllFit
  BY DEF PoolGood
<1>1. /\ credits' = [credits EXCEPT ![Owner] = @ + Topup] /\ Topup \in Nat /\ Topup \in Int
      /\ applied' = [applied EXCEPT ![e] = @ + 1]
  BY TopupAssumption DEF Apply
<1>2. credits' \in [Users -> Nat]
  BY <1>0, <1>1, OwnerAssumption DEF PoolShape
<1>3. PoolShape' /\ OrgSound'
  BY <1>0, <1>2 DEF PoolShape, OrgSound, Open, taskVars
<1>4. TasksShape' /\ AllFit' /\ Invested' = Invested
  BY <1>0, RowsStay
<1>5. Held' = Held + Topup
  BY <1>0, <1>1, OwnerAssumption, CreditsMove
<1>6. Income' = Income + 1
  <2>. DEFINE f == applied'
  <2>. HIDE DEF f
  <2>1. /\ \A d \in Events : applied[d] \in Int
        /\ f[e] = applied[e] + 1 /\ f[e] \in Int /\ \A d \in Events \ {e} : f[d] = applied[d]
    BY <1>1 DEF f, StripeShape
  <2>2. SumOf(f, Events) = SumOf(applied, Events) - applied[e] + f[e]
    <3>1. \A d \in Events : applied[d] \in Int
      BY <2>1
    <3>. QED  BY <2>1, <3>1, TopupAssumption, SumMoves
  <2>3. Income' = SumOf(f, Events) /\ applied[e] \in Int
    BY <2>1 DEF Income, f
  <2>. QED  BY <2>1, <2>2, <2>3, IncomeIsInt DEF Income
<1>7. Books'
  <2>1. PICK i \in Int, c \in Int : i = 1 /\ c = 0
    OBVIOUS
  <2>2. Invested' = Invested + c /\ Income' = Income + i
    BY <1>0, <1>4, <1>6, <2>1, InvestedIsInt
  <2>3. pool' = pool + Topup * i - Topup - c
    BY <1>0, <1>1, <2>1 DEF PoolShape
  <2>4. stale' = stale
    OBVIOUS
  <2>. QED  BY <1>0, <1>1, <1>5, <2>2, <2>3, <2>4, BooksMove
<1>. QED  BY <1>3, <1>4, <1>7 DEF PoolGood

LEMMA StripeKeeps ==
  ASSUME PoolInv, Stripe \/ UNCHANGED vars
  PROVE  PoolGood'
<1>. USE DEF PoolInv, StripeInv
<1>1. ASSUME UNCHANGED <<poolVars, applied>> PROVE PoolGood'
  <2>1. UNCHANGED <<alive, pool, credits, role, invite, session, stale, taskVars, applied>>
    BY <1>1 DEF poolVars
  <2>2. PoolShape' /\ OrgSound'
    BY <2>1 DEF PoolGood, PoolShape, OrgSound, Open, taskVars
  <2>3. TasksShape' /\ AllFit' /\ Invested' = Invested
    BY <2>1, RowsStay DEF PoolGood
  <2>4. Books'
    BY <2>1, <2>3, BooksStay DEF PoolGood
  <2>. QED  BY <2>2, <2>3, <2>4 DEF PoolGood
<1>2. ASSUME NEW h \in Handlers, Process(h) \/ ProcessErrs(h) PROVE PoolGood'
  <2>. DEFINE e == handler[h].event
  <2>1. /\ e \in Events
        /\ UNCHANGED <<alive, pool, role, invite, session, stale, taskVars>>
        /\ Apply(e) \/ Skip
    BY <1>2 DEF Process, ProcessErrs, HandlersApart, Commits
  <2>. HIDE DEF e
  <2>2. CASE Skip
    <3>1. UNCHANGED <<poolVars, applied>>
      BY <2>1, <2>2 DEF poolVars, Skip
    <3>. QED  BY <1>1, <3>1
  <2>3. CASE Apply(e)
    BY <2>1, <2>3, AppliesKeep
  <2>. QED  BY <2>1, <2>2, <2>3
<1>3. CASE \/ UNCHANGED vars
           \/ \E e \in Events : CheckoutRead(e) \/ CheckoutCommit(e)
           \/ \E h \in Handlers, e \in Events : Deliver(h, e)
           \/ \E h \in Handlers : Insert(h) \/ Duplicate(h) \/ HandlerDies(h)
  <2>1. UNCHANGED <<poolVars, applied>>
    BY <1>3 DEF vars, stripeVars, CheckoutRead, CheckoutCommit, Deliver, Insert, Duplicate, HandlerDies
  <2>. QED  BY <1>1, <2>1
<1>. QED  BY <1>2, <1>3 DEF Stripe, Handling

LEMMA PoolInvNext ==
  ASSUME PoolInv, [Next]_vars
  PROVE  PoolGood'
<1>0. PoolGood /\ StripeShape
  BY DEF PoolInv, StripeInv
<1>1. CASE Stripe \/ UNCHANGED vars
  BY <1>1, StripeKeeps
<1>2. ASSUME UNCHANGED stripeVars, NEW s \in Sessions, Request(s) PROVE PoolGood'
  BY <1>0, <1>2, RequestKeeps, DeleteKeeps DEF Request
<1>3. ASSUME UNCHANGED stripeVars, Membership PROVE PoolGood'
  BY <1>0, <1>3, MembershipKeeps
<1>4. ASSUME UNCHANGED stripeVars, NEW t \in Tasks, Tasking(t) PROVE PoolGood'
  BY <1>0, <1>4, TaskingKeeps
<1>5. ASSUME UNCHANGED stripeVars, NEW h \in Hands, Handing(h) PROVE PoolGood'
  BY <1>0, <1>5, HandingKeeps
<1>6. ASSUME UNCHANGED stripeVars, NEW u \in Users, NEW made \in SUBSET Tasks, NEW human \in [made -> BOOLEAN],
             NEW failed \in 0..Cardinality(Tasks \ made), CreateBatch(u, human, failed)
      PROVE  PoolGood'
  <2>1. failed \in Nat
    <3>1. Cardinality(Tasks \ made) \in Nat
      BY RowsAssumption, FS_Subset, FS_CardinalityType
    <3>. QED  BY <3>1
  <2>. QED  BY <1>0, <1>6, <2>1, BatchKeeps
<1>. QED  BY <1>1, <1>2, <1>3, <1>4, <1>5, <1>6 DEF Next, PoolNext

(* Requests about the pool, tasks created, cancelled, retried, rejected,   *)
(* failed or torn down, by handlers that lock a task's row and by those    *)
(* that write what they read, and payments, in any order, lose no credits; *)
(* a lost task's cost is given back once and a kept one's is not, up to    *)
(* one cost for each write that crossed; and the organisation keeps its    *)
(* one owner (routers/tasks.py, routers/orgs.py, core/sweeper.py).         *)
THEOREM PoolSound == Spec => []PoolKept
<1>1. Init => PoolInv
  BY PoolInvInit, StripeInvInit
<1>2. PoolInv /\ [Next]_vars => PoolInv'
  <2>. SUFFICES ASSUME PoolInv, [Next]_vars PROVE PoolInv'
    OBVIOUS
  <2>. QED  BY PoolInvNext, StripeInvNext DEF PoolInv
<1>3. PoolInv => PoolKept
  BY BooksConserve
<1>. QED  BY <1>1, <1>2, <1>3, PTL DEF Spec

---------------------------------------------------------------------------
(* RefreshTokens *)

IsLive(t, f) == token[t].family = f /\ token[t].live
InJar(b, f) == jar[b] \in Tokens /\ token[jar[b]].family = f
Of(r, f) == rotation[r].at # "idle" /\ rotation[r].family = f
At(r, at) == rotation[r].at = at

TokenRow == [family : Tokens \cup {NoToken}, live : BOOLEAN, age : Ages]
RotationRow == [at : {"read", "replay", "answer"}, browser : Browsers, token : Tokens,
                family : Tokens, next : Tokens \cup {NoToken}]

TokensShape ==
  /\ token \in [Tokens -> TokenRow]
  /\ jar \in [Browsers -> Tokens \cup {NoToken}]
  /\ rotation \in [Rotations -> {NotRotating} \cup RotationRow]
  /\ \A t \in Tokens : token[t].family = NoToken => ~token[t].live /\ token[t].age # "expired"

Blank(t) == token[t].family = NoToken /\ token[t].age = "valid"

(* A token that was never used is nowhere. *)
FreshKept ==
  \A t \in Tokens : Blank(t) =>
    /\ \A b \in Browsers : jar[b] # t
    /\ \A u \in Tokens : token[u].family # t
    /\ \A r \in Rotations : ~At(r, "idle") => t \notin {rotation[r].token, rotation[r].family, rotation[r].next}
    /\ t \notin ended

(* A family belongs to one browser. *)
OneBrowser ==
  \A f \in Tokens :
    /\ \A b, c \in Browsers : InJar(b, f) /\ InJar(c, f) => b = c
    /\ \A b \in Browsers, r \in Rotations : InJar(b, f) /\ Of(r, f) => rotation[r].browser = b
    /\ \A r, q \in Rotations : Of(r, f) /\ Of(q, f) => rotation[r].browser = rotation[q].browser

(* The token of an answer is on its way to one browser and in no jar. *)
AnswersKept ==
  /\ \A r \in Rotations : At(r, "answer") =>
       /\ rotation[r].next \in Tokens
       /\ token[rotation[r].next].family = rotation[r].family
       /\ token[rotation[r].next].age = "valid"
       /\ \A b \in Browsers : jar[b] # rotation[r].next
  /\ \A r, q \in Rotations : At(r, "answer") /\ At(q, "answer") /\ r # q => rotation[r].next # rotation[q].next
  /\ \A r \in Rotations : ~At(r, "idle") => token[rotation[r].token].family \in {rotation[r].family, NoToken}

(* A family that saw no overlap, no lost answer and no end is in one         *)
(* rotation's hand at most, and its live token is in that hand, on its way, *)
(* or in a jar.                                                             *)
CalmKept ==
  \A f \in Tokens : f \notin uneasy \cup ended =>
    \A r, q \in Rotations : Of(r, f) /\ Of(q, f) => r = q /\ ~At(r, "replay")

HeldKept ==
  \A f \in Tokens, r \in Rotations : f \notin uneasy \cup ended /\ Of(r, f) =>
    /\ At(r, "read") => \A t \in Tokens : IsLive(t, f) => t = rotation[r].token
    /\ At(r, "answer") => \A t \in Tokens : IsLive(t, f) <=> t = rotation[r].next

JarsKept ==
  \A f \in Tokens, b \in Browsers :
    /\ f \notin uneasy \cup ended /\ InJar(b, f)
    /\ \A r \in Rotations : Of(r, f) => ~At(r, "answer")
    => \A t \in Tokens : IsLive(t, f) <=> t = jar[b]

(* A family that ended with no rotation in progress stays so. *)
EndedKept ==
  \A f \in Tokens : f \in ended /\ f \notin overtaken =>
    /\ \A t \in Tokens : ~IsLive(t, f)
    /\ \A r \in Rotations : Of(r, f) => ~At(r, "read")

TokensInv == TokensShape /\ FreshKept /\ OneBrowser /\ AnswersKept /\ CalmKept /\ HeldKept /\ JarsKept /\ EndedKept

(* Tokens of S are revoked, nothing else is written. *)
Revokes(S) ==
  /\ token' \in [Tokens -> TokenRow]
  /\ \A t \in Tokens : /\ token'[t].family = token[t].family /\ token'[t].age = token[t].age
                       /\ token'[t].live => token[t].live /\ t \notin S
                       /\ token[t].live /\ t \notin S => token'[t].live

LEMMA Unlive ==
  ASSUME TokensShape, NEW t \in Tokens
  PROVE  /\ [token[t] EXCEPT !.live = FALSE] \in TokenRow
         /\ [token[t] EXCEPT !.live = FALSE].family = token[t].family
         /\ [token[t] EXCEPT !.live = FALSE].age = token[t].age
         /\ ~ [token[t] EXCEPT !.live = FALSE].live
BY DEF TokensShape, TokenRow

LEMMA TokensInvInit == TokensInit => TokensInv
<1>. SUFFICES ASSUME TokensInit PROVE TokensInv
  OBVIOUS
<1>1. TokensShape
  BY DEF TokensInit, TokensShape, Unused, Ages, TokenRow
<1>2. FreshKept /\ OneBrowser /\ AnswersKept
  BY TokensAssumption DEF TokensInit, FreshKept, OneBrowser, AnswersKept, InJar, Of, At, NotRotating, Unused, Blank
<1>3. CalmKept /\ HeldKept /\ JarsKept /\ EndedKept
  BY TokensAssumption DEF TokensInit, CalmKept, HeldKept, JarsKept, EndedKept, InJar, Of, At, NotRotating
<1>. QED  BY <1>1, <1>2, <1>3 DEF TokensInv

LEMMA TokensInvNext ==
  ASSUME TokensInv, [TokensNext]_tokenVars
  PROVE  TokensInv'
<1>. USE TokensAssumption DEF TokensInv, Blank, IsLive, InJar, Of, At, NotRotating, RotationRow
<1>1. CASE UNCHANGED tokenVars
  BY <1>1 DEF tokenVars, TokensShape, FreshKept, OneBrowser, AnswersKept, CalmKept,
              HeldKept, JarsKept, EndedKept
<1>2. ASSUME NEW b \in Browsers, NEW t \in Tokens, SignIn(b, t) PROVE TokensInv'
  <2>1. /\ jar[b] = NoToken /\ Blank(t) /\ ~token[t].live
        /\ token' = [token EXCEPT ![t] = [family |-> t, live |-> TRUE, age |-> "valid"]]
        /\ jar' = [jar EXCEPT ![b] = t]
        /\ UNCHANGED <<rotation, change, uneasy, ended, overtaken>>
    BY <1>2 DEF SignIn, Row, Unused
  <2>2. TokensShape'
    BY <2>1 DEF TokensShape, TokenRow, Ages
  <2>3. FreshKept'
    BY <2>1 DEF TokensShape, FreshKept, TokenRow, Ages
  <2>4. OneBrowser'
    BY <2>1 DEF TokensShape, FreshKept, OneBrowser, AnswersKept, TokenRow, Ages
  <2>5. AnswersKept'
    BY <2>1 DEF TokensShape, FreshKept, AnswersKept, TokenRow, Ages
  <2>6. CalmKept'
    BY <2>1 DEF TokensShape, FreshKept, CalmKept, JarsKept, TokenRow, Ages
  <2>7. HeldKept'
    BY <2>1
       DEF TokensShape, FreshKept, AnswersKept, CalmKept, HeldKept, JarsKept, TokenRow, Ages
  <2>8. JarsKept'
    BY <2>1
       DEF TokensShape, FreshKept, OneBrowser, AnswersKept, CalmKept, HeldKept, JarsKept, TokenRow, Ages
  <2>9. EndedKept'
    BY <2>1 DEF TokensShape, FreshKept, AnswersKept, EndedKept, TokenRow, Ages
  <2>. QED  BY <2>2, <2>3, <2>4, <2>5, <2>6, <2>7, <2>8, <2>9
<1>3. ASSUME NEW r \in Rotations, NEW b \in Browsers, BeginRotation(r, b) PROVE TokensInv'
  <2>1. PICK t \in Tokens, f \in Tokens : t = jar[b] /\ f = token[t].family
    BY <1>3 DEF BeginRotation, Stored, TokensShape, TokenRow
  <2>2. /\ rotation[r] = NotRotating
        /\ rotation' = [rotation EXCEPT ![r] = [at |-> IF token[t].live THEN "read" ELSE "replay",
                          browser |-> b, token |-> t, family |-> f, next |-> NoToken]]
        /\ UNCHANGED <<token, jar, change, ended, overtaken>>
    BY <1>3, <2>1 DEF BeginRotation
  <2>3. /\ uneasy \subseteq uneasy'
        /\ f \notin uneasy' => \A q \in Rotations : ~Of(q, f)
    BY <1>3, <2>1 DEF BeginRotation, Rotating, Answers, Of, TokensShape
  <2>4. TokensShape'
    BY <2>1, <2>2, <2>3 DEF TokensShape, TokenRow, Ages
  <2>5. FreshKept'
    BY <2>1, <2>2, <2>3 DEF TokensShape, FreshKept, TokenRow, Ages
  <2>6. OneBrowser'
    BY <2>1, <2>2, <2>3 DEF TokensShape, FreshKept, OneBrowser, AnswersKept, TokenRow, Ages
  <2>7. AnswersKept'
    BY <2>1, <2>2, <2>3 DEF TokensShape, FreshKept, AnswersKept, TokenRow, Ages
  <2>8. CalmKept'
    BY <2>1, <2>2, <2>3 DEF TokensShape, FreshKept, CalmKept, JarsKept, TokenRow, Ages
  <2>9. HeldKept'
    BY <2>1, <2>2, <2>3
       DEF TokensShape, FreshKept, AnswersKept, CalmKept, HeldKept, JarsKept, TokenRow, Ages
  <2>10. JarsKept'
    BY <2>1, <2>2, <2>3
       DEF TokensShape, FreshKept, OneBrowser, AnswersKept, CalmKept, HeldKept, JarsKept, TokenRow, Ages
  <2>11. EndedKept'
    BY <2>1, <2>2, <2>3 DEF TokensShape, FreshKept, AnswersKept, EndedKept, TokenRow, Ages
  <2>. QED  BY <2>4, <2>5, <2>6, <2>7, <2>8, <2>9, <2>10, <2>11
<1>4. ASSUME NEW r \in Rotations, Refused(r) PROVE TokensInv'
  <2>1. /\ At(r, "read")
        /\ rotation' = [rotation EXCEPT ![r] = NotRotating]
        /\ jar' = [jar EXCEPT ![rotation[r].browser] = NoToken]
        /\ UNCHANGED <<token, change, uneasy, ended, overtaken>>
    BY <1>4 DEF Refused, Discard
  <2>2. TokensShape'
    BY <2>1 DEF TokensShape
  <2>3. FreshKept'
    BY <2>1 DEF TokensShape, FreshKept
  <2>4. OneBrowser'
    BY <2>1 DEF TokensShape, FreshKept, OneBrowser, AnswersKept
  <2>5. AnswersKept'
    BY <2>1 DEF TokensShape, FreshKept, AnswersKept
  <2>6. CalmKept'
    BY <2>1 DEF TokensShape, FreshKept, CalmKept, JarsKept
  <2>7. HeldKept'
    BY <2>1 DEF TokensShape, FreshKept, AnswersKept, CalmKept, HeldKept, JarsKept
  <2>8. JarsKept'
    <3>. SUFFICES ASSUME NEW f \in Tokens, NEW c \in Browsers, InJar(c, f)',
                         f \notin uneasy' \cup ended',
                         \A q \in Rotations : Of(q, f)' => ~At(q, "answer")'
                  PROVE  \A t \in Tokens : IsLive(t, f)' <=> t = jar'[c]
      BY DEF JarsKept
    <3>1. InJar(c, f) /\ jar'[c] = jar[c] /\ c # rotation[r].browser
      BY <2>1 DEF TokensShape
    <3>2. ~Of(r, f)
      BY <3>1 DEF OneBrowser
    <3>3. \A q \in Rotations : Of(q, f) => ~At(q, "answer")
      BY <2>1, <3>2 DEF TokensShape
    <3>. QED  BY <2>1, <3>1, <3>3 DEF JarsKept
  <2>9. EndedKept'
    BY <2>1 DEF TokensShape, FreshKept, AnswersKept, EndedKept
  <2>. QED  BY <2>2, <2>3, <2>4, <2>5, <2>6, <2>7, <2>8, <2>9
<1>5. ASSUME NEW b \in Browsers, RotateUnknown(b)  PROVE TokensInv'
  <2>1. /\ jar' = [jar EXCEPT ![b] = NoToken]
        /\ UNCHANGED <<token, rotation, change, uneasy, ended, overtaken>>
    BY <1>5 DEF RotateUnknown, Discard
  <2>2. TokensShape'
    BY <2>1 DEF TokensShape, TokenRow, Ages
  <2>3. FreshKept'
    BY <2>1 DEF TokensShape, FreshKept, TokenRow, Ages
  <2>4. OneBrowser'
    BY <2>1 DEF TokensShape, FreshKept, OneBrowser, AnswersKept, TokenRow, Ages
  <2>5. AnswersKept'
    BY <2>1 DEF TokensShape, FreshKept, AnswersKept, TokenRow, Ages
  <2>6. CalmKept'
    BY <2>1 DEF TokensShape, FreshKept, CalmKept, JarsKept, TokenRow, Ages
  <2>7. HeldKept'
    BY <2>1
       DEF TokensShape, FreshKept, AnswersKept, CalmKept, HeldKept, JarsKept, TokenRow, Ages
  <2>8. JarsKept'
    BY <2>1
       DEF TokensShape, FreshKept, OneBrowser, AnswersKept, CalmKept, HeldKept, JarsKept, TokenRow, Ages
  <2>9. EndedKept'
    BY <2>1 DEF TokensShape, FreshKept, AnswersKept, EndedKept, TokenRow, Ages
  <2>. QED  BY <2>2, <2>3, <2>4, <2>5, <2>6, <2>7, <2>8, <2>9
<1>6. ASSUME NEW r \in Rotations, NEW t \in Tokens, Issue(r, t) PROVE TokensInv'
  <2>1. /\ At(r, "read") /\ Blank(t) /\ ~token[t].live
        /\ rotation' = [rotation EXCEPT ![r].at = "answer", ![r].next = t]
        /\ UNCHANGED <<jar, change, uneasy, ended, overtaken>>
    BY <1>6 DEF Issue, Unused
  <2>2. PICK s \in Tokens, f \in Tokens : s = rotation[r].token /\ f = rotation[r].family
    BY <2>1 DEF TokensShape
  <2>3. token[s].age = "valid" /\ token[s].family = f /\ s # t
    BY <1>6, <2>1, <2>2 DEF Issue, FreshKept, AnswersKept, TokensShape, TokenRow, Ages
  <2>4. /\ token' \in [Tokens -> TokenRow]
        /\ token'[t] = [family |-> f, live |-> TRUE, age |-> "valid"]
        /\ token'[s] = [family |-> f, live |-> FALSE, age |-> "valid"]
        /\ \A u \in Tokens \ {s, t} : token'[u] = token[u]
    BY <1>6, <2>2, <2>3 DEF Issue, Row, TokensShape, TokenRow, Ages
  <2>5. TokensShape'
    <3>1. rotation[r] \in RotationRow
      BY <2>1 DEF TokensShape
    <3>2. [rotation[r] EXCEPT !.at = "answer", !.next = t] \in RotationRow
      BY ONLY <3>1, t \in Tokens DEF RotationRow
    <3>3. rotation' = [rotation EXCEPT ![r] = [rotation[r] EXCEPT !.at = "answer", !.next = t]]
      BY <2>1 DEF TokensShape
    <3>4. rotation' \in [Rotations -> {NotRotating} \cup RotationRow]
      BY <3>2, <3>3 DEF TokensShape
    <3>. QED  BY <2>1, <2>4, <3>4 DEF TokensShape
  <2>6. FreshKept'
    BY <2>1, <2>2, <2>3, <2>4 DEF TokensShape, FreshKept
  <2>7. OneBrowser'
    <3>1. \A c \in Browsers, g \in Tokens : InJar(c, g)' => InJar(c, g)
      BY <2>1, <2>2, <2>3, <2>4 DEF FreshKept, TokensShape
    <3>2. \A q \in Rotations, g \in Tokens :
            Of(q, g)' => Of(q, g) /\ rotation'[q].browser = rotation[q].browser
      BY <2>1 DEF TokensShape
    <3>. QED  BY <3>1, <3>2 DEF OneBrowser
  <2>8. AnswersKept'
    BY <2>1, <2>2, <2>3, <2>4 DEF TokensShape, FreshKept, AnswersKept
  <2>9. CalmKept'
    BY <2>1, <2>2, <2>3, <2>4 DEF TokensShape, FreshKept, CalmKept, JarsKept
  <2>10. HeldKept'
    BY <2>1, <2>2, <2>3, <2>4
       DEF TokensShape, FreshKept, AnswersKept, CalmKept, HeldKept, JarsKept
  <2>11. JarsKept'
    BY <2>1, <2>2, <2>3, <2>4
       DEF TokensShape, FreshKept, OneBrowser, AnswersKept, CalmKept, HeldKept, JarsKept
  <2>12. EndedKept'
    BY <2>1, <2>2, <2>3, <2>4 DEF TokensShape, FreshKept, AnswersKept, EndedKept
  <2>. QED  BY <2>5, <2>6, <2>7, <2>8, <2>9, <2>10, <2>11, <2>12
<1>7. ASSUME NEW r \in Rotations, Replay(r) PROVE TokensInv'
  <2>1. PICK f \in Tokens : f = rotation[r].family
    BY <1>7 DEF Replay, TokensShape
  <2>2. /\ At(r, "replay")
        /\ rotation' = [rotation EXCEPT ![r] = NotRotating]
        /\ jar' = [jar EXCEPT ![rotation[r].browser] = NoToken]
        /\ ended' = ended \cup {f}
        /\ UNCHANGED <<change, uneasy>>
    BY <1>7, <2>1 DEF Replay, Discard
  <2>3. Revokes({t \in Tokens : token[t].family = f})
    BY <1>7, <2>1, Unlive DEF Replay, RevokeFamily, Family, Stored, Revokes, TokensShape
  <2>4. /\ overtaken \subseteq overtaken'
        /\ \A q \in Rotations : q # r /\ At(q, "read") /\ Of(q, f) => f \in overtaken'
    BY <1>7, <2>1 DEF Replay, Rotating
  <2>5. TokensShape'
    BY <2>1, <2>2, <2>3, <2>4 DEF TokensShape, Revokes
  <2>6. FreshKept'
    BY <2>1, <2>2, <2>3, <2>4 DEF TokensShape, FreshKept, Revokes
  <2>7. OneBrowser'
    <3>1. \A c \in Browsers, g \in Tokens : InJar(c, g)' => InJar(c, g)
      BY <2>2, <2>3 DEF TokensShape, Revokes
    <3>2. \A q \in Rotations, g \in Tokens :
            Of(q, g)' => Of(q, g) /\ rotation'[q].browser = rotation[q].browser
      BY <2>2 DEF TokensShape
    <3>. QED  BY <3>1, <3>2 DEF OneBrowser
  <2>8. AnswersKept'
    BY <2>1, <2>2, <2>3, <2>4 DEF TokensShape, FreshKept, AnswersKept, Revokes
  <2>9. CalmKept'
    BY <2>1, <2>2, <2>3, <2>4 DEF TokensShape, FreshKept, CalmKept, JarsKept, Revokes
  <2>10. HeldKept'
    <3>. SUFFICES ASSUME NEW g \in Tokens, NEW q \in Rotations, Of(q, g)',
                         g \notin uneasy' \cup ended'
                  PROVE  /\ At(q, "read")' => \A t \in Tokens : IsLive(t, g)' => t = rotation'[q].token
                         /\ At(q, "answer")' => \A t \in Tokens : IsLive(t, g)' <=> t = rotation'[q].next
      BY DEF HeldKept
    <3>1. Of(q, g) /\ rotation'[q] = rotation[q] /\ g # f
      BY <2>2 DEF TokensShape
    <3>2. \A t \in Tokens : IsLive(t, g)' <=> IsLive(t, g)
      BY <2>3, <3>1 DEF Revokes
    <3>. QED  BY <2>2, <3>1, <3>2 DEF HeldKept
  <2>11. JarsKept'
    <3>. SUFFICES ASSUME NEW g \in Tokens, NEW c \in Browsers, InJar(c, g)',
                         g \notin uneasy' \cup ended',
                         \A q \in Rotations : Of(q, g)' => ~At(q, "answer")'
                  PROVE  \A t \in Tokens : IsLive(t, g)' <=> t = jar'[c]
      BY DEF JarsKept
    <3>1. InJar(c, g) /\ jar'[c] = jar[c] /\ g # f
      BY <2>2, <2>3 DEF TokensShape, Revokes
    <3>2. \A q \in Rotations : Of(q, g) => ~At(q, "answer")
      BY <2>1, <2>2, <3>1 DEF TokensShape
    <3>3. \A t \in Tokens : IsLive(t, g)' <=> IsLive(t, g)
      BY <2>3, <3>1 DEF Revokes
    <3>. QED  BY <2>2, <3>1, <3>2, <3>3 DEF JarsKept
  <2>12. EndedKept'
    BY <2>1, <2>2, <2>3, <2>4 DEF TokensShape, FreshKept, AnswersKept, EndedKept, Revokes
  <2>. QED  BY <2>5, <2>6, <2>7, <2>8, <2>9, <2>10, <2>11, <2>12
<1>8. ASSUME NEW r \in Rotations, Received(r) PROVE TokensInv'
  <2>1. /\ At(r, "answer")
        /\ jar' = [jar EXCEPT ![rotation[r].browser] = IF @ = NoToken THEN NoToken ELSE rotation[r].next]
        /\ rotation' = [rotation EXCEPT ![r] = NotRotating]
        /\ UNCHANGED <<token, change, uneasy, ended, overtaken>>
    BY <1>8 DEF Received
  <2>2. TokensShape'
    BY <2>1 DEF TokensShape
  <2>3. FreshKept'
    BY <2>1 DEF TokensShape, FreshKept
  <2>4. OneBrowser'
    BY <2>1 DEF TokensShape, FreshKept, OneBrowser, AnswersKept
  <2>5. AnswersKept'
    BY <2>1 DEF TokensShape, FreshKept, AnswersKept
  <2>6. CalmKept'
    BY <2>1 DEF TokensShape, FreshKept, CalmKept, JarsKept
  <2>7. HeldKept'
    BY <2>1 DEF TokensShape, FreshKept, AnswersKept, CalmKept, HeldKept, JarsKept
  <2>8. JarsKept'
    <3>. SUFFICES ASSUME NEW f \in Tokens, NEW c \in Browsers, InJar(c, f)',
                         f \notin uneasy' \cup ended',
                         \A q \in Rotations : Of(q, f)' => ~At(q, "answer")'
                  PROVE  \A t \in Tokens : IsLive(t, f)' <=> t = jar'[c]
      BY DEF JarsKept
    <3>1. CASE c = rotation[r].browser
      <4>1. jar'[c] = rotation[r].next /\ Of(r, f)
        BY <3>1, <2>1 DEF TokensShape, AnswersKept
      <4>. QED  BY <4>1, <2>1 DEF HeldKept
    <3>2. CASE c # rotation[r].browser
      <4>1. InJar(c, f) /\ jar'[c] = jar[c]
        BY <3>2, <2>1 DEF TokensShape
      <4>2. ~Of(r, f)
        BY <3>2, <4>1 DEF OneBrowser
      <4>3. \A q \in Rotations : Of(q, f) => ~At(q, "answer")
        BY <2>1, <4>2 DEF TokensShape
      <4>. QED  BY <2>1, <4>1, <4>3 DEF JarsKept
    <3>. QED  BY <3>1, <3>2
  <2>9. EndedKept'
    BY <2>1 DEF TokensShape, FreshKept, AnswersKept, EndedKept
  <2>. QED  BY <2>2, <2>3, <2>4, <2>5, <2>6, <2>7, <2>8, <2>9
<1>9. ASSUME NEW r \in Rotations, LoseAnswer(r) \/ RotationDies(r) PROVE TokensInv'
  <2>1. /\ ~At(r, "idle")
        /\ rotation' = [rotation EXCEPT ![r] = NotRotating]
        /\ uneasy \subseteq uneasy' /\ (At(r, "answer") => rotation[r].family \in uneasy')
        /\ UNCHANGED <<token, jar, change, ended, overtaken>>
    BY <1>9 DEF LoseAnswer, RotationDies
  <2>2. TokensShape'
    BY <2>1 DEF TokensShape
  <2>3. FreshKept'
    BY <2>1 DEF TokensShape, FreshKept
  <2>4. OneBrowser'
    BY <2>1 DEF TokensShape, FreshKept, OneBrowser, AnswersKept
  <2>5. AnswersKept'
    BY <2>1 DEF TokensShape, FreshKept, AnswersKept
  <2>6. CalmKept'
    BY <2>1 DEF TokensShape, FreshKept, CalmKept, JarsKept
  <2>7. HeldKept'
    BY <2>1 DEF TokensShape, FreshKept, AnswersKept, CalmKept, HeldKept, JarsKept
  <2>8. JarsKept'
    <3>. SUFFICES ASSUME NEW f \in Tokens, NEW c \in Browsers, InJar(c, f)',
                         f \notin uneasy' \cup ended',
                         \A q \in Rotations : Of(q, f)' => ~At(q, "answer")'
                  PROVE  \A t \in Tokens : IsLive(t, f)' <=> t = jar'[c]
      BY DEF JarsKept
    <3>1. InJar(c, f) /\ \A q \in Rotations : Of(q, f) => ~At(q, "answer")
      BY <2>1 DEF TokensShape
    <3>. QED  BY <2>1, <3>1 DEF JarsKept
  <2>9. EndedKept'
    BY <2>1 DEF TokensShape, FreshKept, AnswersKept, EndedKept
  <2>. QED  BY <2>2, <2>3, <2>4, <2>5, <2>6, <2>7, <2>8, <2>9
<1>10. ASSUME NEW b \in Browsers, SignOut(b) PROVE TokensInv'
  <2>1. /\ jar[b] \in Tokens
        /\ jar' = [jar EXCEPT ![b] = NoToken]
        /\ UNCHANGED <<rotation, change, uneasy, ended, overtaken>>
    BY <1>10 DEF SignOut, Discard, TokensShape
  <2>2. Revokes({jar[b]})
    <3>1. CASE jar[b] \in Stored /\ token[jar[b]].live
      <4>1. token' = [token EXCEPT ![jar[b]] = [token[jar[b]] EXCEPT !.live = FALSE]]
        BY <1>10, <3>1 DEF SignOut, Revoke
      <4>. QED  BY <2>1, <4>1, Unlive DEF Revokes, TokensShape
    <3>2. CASE ~(jar[b] \in Stored /\ token[jar[b]].live)
      <4>1. token' = token /\ ~token[jar[b]].live
        BY <1>10, <3>2, <2>1 DEF SignOut, Stored, TokensShape
      <4>. QED  BY <2>1, <4>1 DEF Revokes, TokensShape
    <3>. QED  BY <3>1, <3>2
  <2>3. TokensShape'
    BY <2>1, <2>2 DEF TokensShape, Revokes
  <2>4. FreshKept'
    BY <2>1, <2>2 DEF TokensShape, FreshKept, Revokes
  <2>5. OneBrowser'
    <3>1. \A c \in Browsers, g \in Tokens : InJar(c, g)' => InJar(c, g)
      BY <2>1, <2>2 DEF TokensShape, Revokes
    <3>2. \A q \in Rotations, g \in Tokens :
            Of(q, g)' => Of(q, g) /\ rotation'[q].browser = rotation[q].browser
      BY <2>1 DEF TokensShape
    <3>. QED  BY <3>1, <3>2 DEF OneBrowser
  <2>6. AnswersKept'
    BY <2>1, <2>2 DEF TokensShape, FreshKept, AnswersKept, Revokes
  <2>7. CalmKept'
    BY <2>1, <2>2 DEF TokensShape, FreshKept, CalmKept, JarsKept, Revokes
  <2>8. HeldKept'
    BY <2>1, <2>2 DEF TokensShape, FreshKept, AnswersKept, CalmKept, HeldKept, JarsKept, Revokes
  <2>9. JarsKept'
    BY <2>1, <2>2
       DEF TokensShape, FreshKept, OneBrowser, AnswersKept, CalmKept, HeldKept, JarsKept, Revokes
  <2>10. EndedKept'
    BY <2>1, <2>2 DEF TokensShape, FreshKept, AnswersKept, EndedKept, Revokes
  <2>. QED  BY <2>3, <2>4, <2>5, <2>6, <2>7, <2>8, <2>9, <2>10
<1>11. ASSUME RevokeAll PROVE TokensInv'
  <2>1. /\ \A t \in Tokens : token[t].family # NoToken => token[t].family \in ended'
        /\ ended \subseteq ended' /\ overtaken \subseteq overtaken'
        /\ UNCHANGED <<jar, rotation, uneasy>>
    BY <1>11 DEF RevokeAll, Ending, Stored
  <2>2. Revokes(Tokens)
    BY <1>11, Unlive DEF RevokeAll, Stored, Revokes, TokensShape
  <2>3. \A f \in ended' : \/ f \in ended
                          \/ /\ \E t \in Tokens : token[t].family = f /\ f # NoToken
                             /\ f \notin overtaken' => \A r \in Rotations : ~(Of(r, f) /\ At(r, "read"))
    BY <1>11 DEF RevokeAll, Ending, Stored, Rotating
  <2>4. TokensShape'
    BY <2>1, <2>2, <2>3 DEF TokensShape, Revokes
  <2>5. FreshKept'
    BY <2>1, <2>2, <2>3 DEF TokensShape, FreshKept, Revokes
  <2>6. OneBrowser'
    BY <2>1, <2>2, <2>3 DEF TokensShape, FreshKept, OneBrowser, AnswersKept, Revokes
  <2>7. AnswersKept'
    BY <2>1, <2>2, <2>3 DEF TokensShape, FreshKept, AnswersKept, Revokes
  <2>8. CalmKept'
    BY <2>1, <2>2, <2>3 DEF TokensShape, FreshKept, CalmKept, JarsKept, Revokes
  <2>9. HeldKept'
    BY <2>1, <2>2, <2>3
       DEF TokensShape, FreshKept, AnswersKept, CalmKept, HeldKept, JarsKept, Revokes
  <2>10. JarsKept'
    BY <2>1, <2>2, <2>3
       DEF TokensShape, FreshKept, OneBrowser, AnswersKept, CalmKept, HeldKept, JarsKept, Revokes
  <2>11. EndedKept'
    BY <2>1, <2>2, <2>3 DEF TokensShape, FreshKept, AnswersKept, EndedKept, Revokes
  <2>. QED  BY <2>4, <2>5, <2>6, <2>7, <2>8, <2>9, <2>10, <2>11
<1>12. ASSUME ChangePassword \/ ChangeDies PROVE TokensInv'
  <2>1. UNCHANGED <<token, jar, rotation, uneasy, ended, overtaken>>
    BY <1>12 DEF ChangePassword, ChangeDies
  <2>2. TokensShape'
    BY <2>1 DEF TokensShape
  <2>3. FreshKept'
    BY <2>1 DEF TokensShape, FreshKept
  <2>4. OneBrowser'
    BY <2>1 DEF TokensShape, FreshKept, OneBrowser, AnswersKept
  <2>5. AnswersKept'
    BY <2>1 DEF TokensShape, FreshKept, AnswersKept
  <2>6. CalmKept'
    BY <2>1 DEF TokensShape, FreshKept, CalmKept, JarsKept
  <2>7. HeldKept'
    BY <2>1 DEF TokensShape, FreshKept, AnswersKept, CalmKept, HeldKept, JarsKept
  <2>8. JarsKept'
    BY <2>1 DEF TokensShape, FreshKept, OneBrowser, AnswersKept, CalmKept, HeldKept, JarsKept
  <2>9. EndedKept'
    BY <2>1 DEF TokensShape, FreshKept, AnswersKept, EndedKept
  <2>. QED  BY <2>2, <2>3, <2>4, <2>5, <2>6, <2>7, <2>8, <2>9
<1>13. ASSUME NEW t \in Tokens, GrowOld(t) PROVE TokensInv'
  <2>1. /\ token[t].family # NoToken /\ token[t].age # "stale"
        /\ \A r \in Rotations : ~At(r, "idle") => t \notin {rotation[r].token, rotation[r].next}
        /\ token' = [token EXCEPT ![t].age = IF @ = "valid" THEN "expired" ELSE "stale"]
        /\ UNCHANGED <<jar, rotation, change, uneasy, ended, overtaken>>
    BY <1>13 DEF GrowOld, Stored
  <2>2. TokensShape'
    BY <2>1 DEF TokensShape, TokenRow, Ages
  <2>3. FreshKept'
    BY <2>1 DEF TokensShape, FreshKept, TokenRow, Ages
  <2>4. OneBrowser'
    BY <2>1 DEF TokensShape, FreshKept, OneBrowser, AnswersKept, TokenRow, Ages
  <2>5. AnswersKept'
    BY <2>1 DEF TokensShape, FreshKept, AnswersKept, TokenRow, Ages
  <2>6. CalmKept'
    BY <2>1 DEF TokensShape, FreshKept, CalmKept, JarsKept, TokenRow, Ages
  <2>7. HeldKept'
    BY <2>1
       DEF TokensShape, FreshKept, AnswersKept, CalmKept, HeldKept, JarsKept, TokenRow, Ages
  <2>8. JarsKept'
    BY <2>1
       DEF TokensShape, FreshKept, OneBrowser, AnswersKept, CalmKept, HeldKept, JarsKept, TokenRow, Ages
  <2>9. EndedKept'
    BY <2>1 DEF TokensShape, FreshKept, AnswersKept, EndedKept, TokenRow, Ages
  <2>. QED  BY <2>2, <2>3, <2>4, <2>5, <2>6, <2>7, <2>8, <2>9
<1>14. ASSUME CleanUp PROVE TokensInv'
  <2>1. /\ token' \in [Tokens -> TokenRow]
        /\ \A t \in Tokens : \/ token'[t] = token[t]
                            \/ /\ token[t].family # NoToken /\ token[t].age = "stale"
                               /\ token'[t].family = NoToken /\ ~token'[t].live
                               /\ token'[t].age = "stale"
        /\ UNCHANGED <<jar, rotation, change, uneasy, ended, overtaken>>
    BY <1>14 DEF CleanUp, Gone, Stored, Deleted, Unused, TokensShape, TokenRow, Ages
  <2>2. TokensShape'
    BY <2>1 DEF TokensShape
  <2>3. FreshKept'
    BY <2>1 DEF TokensShape, FreshKept
  <2>4. OneBrowser'
    BY <2>1 DEF TokensShape, FreshKept, OneBrowser, AnswersKept
  <2>5. AnswersKept'
    BY <2>1 DEF TokensShape, FreshKept, AnswersKept
  <2>6. CalmKept'
    BY <2>1 DEF TokensShape, FreshKept, CalmKept, JarsKept
  <2>7. HeldKept'
    BY <2>1 DEF TokensShape, FreshKept, AnswersKept, CalmKept, HeldKept, JarsKept
  <2>8. JarsKept'
    BY <2>1 DEF TokensShape, FreshKept, OneBrowser, AnswersKept, CalmKept, HeldKept, JarsKept
  <2>9. EndedKept'
    BY <2>1 DEF TokensShape, FreshKept, AnswersKept, EndedKept
  <2>. QED  BY <2>2, <2>3, <2>4, <2>5, <2>6, <2>7, <2>8, <2>9
<1>. QED
  BY <1>1, <1>2, <1>3, <1>4, <1>5, <1>6, <1>7, <1>8, <1>9, <1>10, <1>11, <1>12, <1>13, <1>14 DEF TokensNext

(* A browser whose rotations never overlap and never lose an answer keeps   *)
(* one live token, and a family that was ended with none in progress has no *)
(* live token again (rotate_refresh_token and the revocations of            *)
(* core/refresh_tokens.py).                                                 *)
THEOREM SessionsKept == TokensSpec => []SessionKept
<1>1. TokensSpec => []TokensInv
  BY TokensInvInit, TokensInvNext, PTL DEF TokensSpec
<1>2. TokensInv => SessionKept
  <2>. SUFFICES ASSUME TokensInv PROVE SessionKept
    OBVIOUS
  <2>1. ASSUME NEW b \in Browsers, NEW f \in Tokens, f = token[jar[b]].family,
               jar[b] \in Stored, f \notin uneasy \cup ended
        PROVE  Live(f) = IF Answers(f) = {} THEN {jar[b]} ELSE {rotation[r].next : r \in Answers(f)}
    <3>. USE DEF IsLive, InJar, Of, At
    <3>1. Live(f) = {t \in Tokens : IsLive(t, f)}
      BY TokensAssumption DEF Live, Family, Stored
    <3>2. InJar(b, f)
      BY <2>1 DEF Stored
    <3>3. CASE Answers(f) = {}
      <4>1. \A r \in Rotations : Of(r, f) => ~At(r, "answer")
        BY <3>3 DEF Answers
      <4>. QED  BY <2>1, <3>1, <3>2, <3>3, <4>1 DEF TokensInv, JarsKept
    <3>4. ASSUME NEW q \in Answers(f)
          PROVE  Live(f) = {rotation[r].next : r \in Answers(f)}
      <4>1. q \in Rotations /\ Of(q, f) /\ At(q, "answer") /\ rotation[q].next \in Tokens
        BY DEF Answers, TokensInv, AnswersKept
      <4>2. \A r \in Answers(f) : r = q
        BY <2>1, <4>1 DEF Answers, TokensInv, CalmKept
      <4>3. \A t \in Tokens : IsLive(t, f) <=> t = rotation[q].next
        BY <2>1, <4>1 DEF TokensInv, HeldKept
      <4>. QED  BY <3>1, <4>1, <4>2, <4>3
    <3>. QED  BY <3>3, <3>4
  <2>2. \A f \in ended \ overtaken : Live(f) = {}
    BY TokensAssumption DEF TokensInv, TokensShape, EndedKept, IsLive, Live, Family, Stored, TokenRow
  <2>. QED  BY <2>1, <2>2 DEF SessionKept, Stored, TokensInv, TokensShape, TokenRow
<1>. QED  BY <1>1, <1>2, PTL

---------------------------------------------------------------------------
(* Limits *)

Clock == 0..LastMinute
Buckets == [count : Nat, reset : Nat]
CallRow == {Out, Over}
      \cup [at : {"in"}, began : Clock, limit : Nat]
      \cup [at : {"clock"}, began : Clock, limit : Nat, now : Clock, row : {<<>>}]
      \cup [at : {"minute", "day"}, began : Clock, limit : Nat, now : Clock,
            row : UNION {[S -> Buckets] : S \in SUBSET Windows}]

LimitsShape ==
  /\ minute \in Clock /\ rpm \in Nat
  /\ bucket \in [Windows -> Buckets]
  /\ call \in [Calls -> CallRow]
  /\ passed \in [Windows -> Nat] /\ strays \in [Windows -> Nat] /\ highest \in [Windows -> Nat]

(* No call has read a clock that is ahead, and no two hold the same row.   *)
ClocksPast == \A c \in Calls :
  /\ call[c].at \in {"in", "clock", "minute", "day"} => call[c].began <= minute
  /\ call[c].at \in {"clock", "minute", "day"} => call[c].now <= minute
OneHolder == \A c, d \in Calls, k \in Windows : k \in Holds(c) /\ k \in Holds(d) => c = d

(* A bucket that ends before its window does was written by a stray.  It   *)
(* counts all the calls let through but those of the earlier counts, each  *)
(* of which a stray ended.                                                  *)
Ends(k, b) == IF b.reset <= k[2] THEN 1 ELSE 0
Tallies(k, b, calls) ==
  /\ b.count <= LimitOf(k)
  /\ Ends(k, b) <= strays[k]
  /\ calls <= b.count + LimitOf(k) * (strays[k] - Ends(k, b))
  /\ strays[k] = 0 => b.count = calls
Tallied == \A k \in Windows : Tallies(k, bucket[k], passed[k] + IF Locked(k) THEN 1 ELSE 0)
Undoable == \A c \in Calls : \A k \in Holds(c) : Tallies(k, Before(c, k), passed[k])

CallsInv == LimitsShape /\ ClocksPast /\ OneHolder /\ Tallied /\ Undoable

(* Whoever counted before all the others that were there still fits. *)
MakersInv ==
  /\ pipelines \in Nat /\ raced \in Nat
  /\ maker \in [Makers -> {Out} \cup [at : {"counted"}, others : BOOLEAN]]
  /\ \A m \in Makers : maker[m].at = "counted" /\ ~maker[m].others => pipelines < Cap
  /\ pipelines <= Cap + raced

LEMMA DivMonotone ==
  ASSUME NEW a \in Nat, NEW b \in Nat, NEW d \in Nat \ {0}, a <= b
  PROVE  a \div d \in Nat /\ b \div d \in Nat /\ a \div d <= b \div d
OBVIOUS

LEMMA TimesMonotone ==
  ASSUME NEW a \in Nat, NEW b \in Nat, NEW s \in Nat, NEW t \in Nat, a <= b, s <= t
  PROVE  a * s \in Nat /\ b * t \in Nat /\ a * s <= b * t
<1>1. PICK x \in Nat : b = a + x
  BY b - a \in Nat
<1>2. PICK y \in Nat : t = s + y
  BY t - s \in Nat
<1>3. b * t = a * s + a * y + x * s + x * y
  BY <1>1, <1>2
<1>4. a * s \in Nat /\ a * y \in Nat /\ x * s \in Nat /\ x * y \in Nat
  OBVIOUS
<1>. QED  BY <1>3, <1>4

(* The window a clock shows is one of the model's, and time goes forward. *)
LEMMA TodayFacts ==
  ASSUME NEW kind \in {"rpm", "daily"}, NEW m \in Clock, NEW n \in Clock, m <= n
  PROVE  /\ Today(kind, m) \in Nat /\ Today(kind, n) \in Nat /\ Today(kind, m) <= Today(kind, n)
         /\ <<kind, Today(kind, n)>> \in Windows
<1>. USE LimitsAssumption
<1>1. CASE kind = "rpm"
  BY <1>1 DEF Today, Clock, Windows, Minutes
<1>2. CASE kind = "daily"
  <2>1. m \div MinutesPerDay <= n \div MinutesPerDay /\ n \div MinutesPerDay <= LastMinute \div MinutesPerDay
        /\ m \div MinutesPerDay \in Nat /\ n \div MinutesPerDay \in Nat /\ LastMinute \div MinutesPerDay \in Nat
    BY DivMonotone DEF Clock
  <2>. QED  BY <1>2, <2>1 DEF Today, Windows, Days
<1>. QED  BY <1>1, <1>2

LEMMA LimitIsNat ==
  ASSUME LimitsShape
  PROVE  \A k \in Windows : LimitOf(k) \in Nat
BY LimitsAssumption DEF LimitsShape, LimitOf

(* The arithmetic of one count. *)
LEMMA CountFits ==
  ASSUME NEW count \in Nat, NEW ends \in {0, 1}, NEW l \in Nat, NEW m \in Nat, l <= m,
         NEW s \in Nat, NEW t \in Nat, s <= t, NEW calls \in Nat, ends <= s,
         count <= l, calls <= count + l * (s - ends)
  PROVE  /\ calls <= count + m * (t - ends)
         /\ calls + 1 <= count + 1 + m * s
         /\ ends = 1 => calls + 1 <= 1 + m * s
<1>1. s - ends \in Nat /\ t - ends \in Nat /\ s - ends <= t - ends /\ s - ends <= s
  OBVIOUS
<1>2. l * (s - ends) \in Nat /\ m * (t - ends) \in Nat /\ l * (s - ends) <= m * (t - ends)
  BY <1>1, TimesMonotone
<1>3. m * s \in Nat /\ l * (s - ends) <= m * s
  BY <1>1, TimesMonotone
<1>4. l * s \in Nat /\ l * s <= m * s
  BY TimesMonotone
<1>5. ends = 1 => l + l * (s - 1) = l * s
  OBVIOUS
<1>. QED  BY <1>2, <1>3, <1>4, <1>5

LEMMA HoldsFacts ==
  ASSUME LimitsShape
  PROVE  \A c \in Calls : /\ Holds(c) \subseteq Windows
                          /\ \A k \in Holds(c) : Before(c, k) \in Buckets
<1>. SUFFICES ASSUME NEW c \in Calls, NEW k \in Holds(c)
              PROVE  k \in Windows /\ Before(c, k) \in Buckets
  OBVIOUS
<1>1. call[c] \in CallRow /\ call[c].at \in {"minute", "day"} /\ k \in DOMAIN call[c].row
  BY DEF LimitsShape, Holds
<1>2. call[c].row \in UNION {[S -> Buckets] : S \in SUBSET Windows}
  BY <1>1 DEF CallRow, Out, Over
<1>3. PICK S \in SUBSET Windows : call[c].row \in [S -> Buckets]
  BY <1>2
<1>. QED  BY <1>1, <1>3 DEF Before

(* A call that ends, rolled back: its rows are as they were before it. *)
LEMMA UndoKeeps ==
  ASSUME CallsInv, NEW c \in Calls, bucket' = Undo(c), call' = [call EXCEPT ![c] = Over],
         UNCHANGED <<minute, rpm, passed, strays, highest>>
  PROVE  CallsInv'
<1>. USE DEF CallsInv
<1>1. /\ Holds(c)' = {} /\ \A d \in Calls \ {c} : call'[d] = call[d] /\ Holds(d)' = Holds(d)
      /\ call'[c] = Over
  BY DEF LimitsShape, Holds, Over
<1>2. \A d \in Calls \ {c} : \A k \in Holds(d) : Before(d, k)' = Before(d, k)
  BY <1>1 DEF Before
<1>3. \A k \in Windows : bucket'[k] = IF k \in Holds(c) THEN Before(c, k) ELSE bucket[k]
  BY DEF Undo
<1>4. LimitsShape'
  <2>1. bucket' \in [Windows -> Buckets]
    BY HoldsFacts DEF Undo, LimitsShape
  <2>2. call' \in [Calls -> CallRow]
    BY DEF LimitsShape, CallRow
  <2>. QED  BY <2>1, <2>2 DEF LimitsShape
<1>5. ClocksPast' /\ OneHolder'
  BY <1>1 DEF ClocksPast, OneHolder, Over
<1>6. \A k \in Windows : /\ k \in Holds(c) => Locked(k) /\ ~Locked(k)'
                         /\ k \notin Holds(c) => (Locked(k)' <=> Locked(k))
  BY <1>1 DEF Locked, OneHolder
<1>7. \A k, b, n : Tallies(k, b, n) => /\ b.count <= LimitOf(k)' /\ Ends(k, b) <= strays'[k]
                                       /\ n <= b.count + LimitOf(k)' * (strays'[k] - Ends(k, b))
                                       /\ strays'[k] = 0 => b.count = n
  BY DEF Tallies, LimitOf
<1>8. Tallied'
  <2>. SUFFICES ASSUME NEW k \in Windows
                PROVE  Tallies(k, bucket[k], passed[k] + IF Locked(k) THEN 1 ELSE 0)'
    BY DEF Tallied
  <2>1. CASE k \in Holds(c)
    <3>1. Tallies(k, Before(c, k), passed[k])
      BY <2>1 DEF Undoable
    <3>2. bucket'[k] = Before(c, k) /\ passed'[k] + (IF Locked(k)' THEN 1 ELSE 0) = passed[k]
      BY <1>3, <1>6, <2>1 DEF LimitsShape
    <3>. QED  BY <1>7, <3>1, <3>2 DEF Tallies, Ends
  <2>2. CASE k \notin Holds(c)
    <3>1. Tallies(k, bucket[k], passed[k] + IF Locked(k) THEN 1 ELSE 0)
      BY DEF Tallied
    <3>2. bucket'[k] = bucket[k] /\ passed'[k] + (IF Locked(k)' THEN 1 ELSE 0) = passed[k] + (IF Locked(k) THEN 1 ELSE 0)
      BY <1>3, <1>6, <2>2
    <3>. QED  BY <1>7, <3>1, <3>2 DEF Tallies, Ends
  <2>. QED  BY <2>1, <2>2
<1>9. Undoable'
  <2>. SUFFICES ASSUME NEW d \in Calls, NEW k \in Holds(d)' PROVE Tallies(k, Before(d, k), passed[k])'
    BY DEF Undoable
  <2>1. d # c /\ k \in Holds(d) /\ Before(d, k)' = Before(d, k)
    BY <1>1, <1>2
  <2>2. Tallies(k, Before(d, k), passed[k])
    BY <2>1 DEF Undoable
  <2>. QED  BY <1>7, <2>1, <2>2 DEF Tallies, Ends
<1>. QED  BY <1>4, <1>5, <1>8, <1>9

(* One count: what it makes of a bucket that tallied without it, and that  *)
(* what it found still tallies when it is put back.                        *)
LEMMA CountTallies ==
  ASSUME LimitsShape, LimitsShape', NEW kind \in {"rpm", "daily"}, NEW k \in Windows, k = Now(kind),
         NEW b \in Buckets, NEW began \in Clock, NEW ticked \in Clock, began <= minute, ticked <= minute,
         NEW n \in Nat, n = IF b.reset <= Today(kind, began) THEN 1 ELSE b.count + 1,
         NEW limit \in Nat, n <= limit, kind = "daily" => limit = DailyLimit,
         Tallies(k, b, passed[k]), UNCHANGED <<minute, passed>>,
         strays' = [strays EXCEPT ![k] = @ + IF Today(kind, ticked) < k[2] THEN 1 ELSE 0],
         highest' = [highest EXCEPT ![k] = IF limit > @ THEN limit ELSE @],
         NEW after \in Buckets, after = [count |-> n, reset |-> Today(kind, ticked) + 1]
  PROVE  /\ Tallies(k, b, passed[k])'
         /\ Tallies(k, after, passed[k] + 1)'
<1>1. PICK l \in Nat, m \in Nat, s \in Nat, t \in Nat, p \in Nat :
        /\ l = LimitOf(k) /\ m = LimitOf(k)' /\ s = strays[k] /\ t = strays'[k]
        /\ p = passed[k] /\ p = passed'[k]
  BY LimitIsNat, LimitsAssumption DEF LimitsShape, LimitOf
<1>2. /\ k = <<kind, Today(kind, minute)>> /\ minute \in Clock
      /\ Today(kind, began) \in Nat /\ Today(kind, ticked) \in Nat /\ k[2] \in Nat
      /\ Today(kind, began) <= k[2] /\ Today(kind, ticked) <= k[2]
  BY TodayFacts DEF Now, LimitsShape
<1>3. l <= m /\ n <= m
  BY <1>1, <1>2 DEF LimitOf, LimitsShape
<1>4. t = s + IF Today(kind, ticked) < k[2] THEN 1 ELSE 0
  BY <1>1 DEF LimitsShape
<1>5. b.count \in Nat /\ b.reset \in Nat /\ after.count = n /\ after.reset = Today(kind, ticked) + 1
  BY DEF Buckets
<1>6. PICK e \in {0, 1} : e = Ends(k, b) /\ (e = 1 <=> b.reset <= k[2])
  BY <1>2, <1>5 DEF Ends
<1>7. Ends(k, after) = t - s
  BY <1>2, <1>4, <1>5 DEF Ends
<1>8. b.count <= l /\ e <= s /\ p <= b.count + l * (s - e) /\ (s = 0 => b.count = p)
  BY <1>1, <1>6 DEF Tallies
<1>9. s <= t /\ t \in {s, s + 1}
  BY <1>2, <1>4
<1>10. /\ p <= b.count + m * (t - e) /\ p + 1 <= b.count + 1 + m * s
       /\ e = 1 => p + 1 <= 1 + m * s
  BY <1>3, <1>5, <1>8, <1>9, CountFits
<1>11. (n = 1 /\ e = 1) \/ n = b.count + 1
  BY <1>2, <1>5, <1>6
<1>12. Tallies(k, b, p)'
  <2>1. b.count <= m /\ e <= t /\ (t = 0 => b.count = p)
    BY <1>3, <1>5, <1>8, <1>9
  <2>. QED  BY <1>1, <1>6, <1>10, <2>1 DEF Tallies, Ends
<1>13. Tallies(k, after, p + 1)'
  <2>1. t - s <= t /\ t - (t - s) = s
    BY <1>9
  <2>2. p + 1 <= n + m * s
    BY <1>10, <1>11
  <2>3. t = 0 => n = p + 1
    <3>. SUFFICES ASSUME t = 0 PROVE n = p + 1
      OBVIOUS
    <3>1. s = 0 /\ e = 0
      BY <1>8, <1>9
    <3>. QED  BY <1>8, <1>11, <3>1
  <2>4. m * (t - Ends(k, after)) = m * s
    BY <1>7, <2>1
  <2>. QED  BY <1>1, <1>3, <1>5, <1>7, <2>1, <2>2, <2>3, <2>4 DEF Tallies, Ends
<1>. QED  BY <1>1, <1>12, <1>13

LEMMA CountKeeps ==
  ASSUME CallsInv, NEW c \in Calls, call[c].at \in {"clock", "minute"}, NEW kind \in {"rpm", "daily"},
         NEW limit \in Nat, kind = "daily" => limit = DailyLimit, NEW at \in {"minute", "day"},
         Increment(c, Now(kind), limit, at)
  PROVE  CallsInv'
<1>. USE DEF CallsInv
<1>0. minute \in Clock /\ minute \in Nat /\ <<kind, Today(kind, minute)>> \in Windows
  <2>1. minute \in Clock /\ minute <= minute
    BY LimitsAssumption DEF LimitsShape, Clock
  <2>. QED  BY <2>1, TodayFacts DEF Clock
<1>1. PICK k \in Windows : k = Now(kind)
  BY <1>0 DEF Now
<1>2. PICK began \in Clock, ticked \in Clock, lim \in Nat :
        began = call[c].began /\ ticked = call[c].now /\ lim = call[c].limit
  <2>1. call[c] \in CallRow
    BY DEF LimitsShape
  <2>. QED  BY <2>1 DEF CallRow, Out, Over
<1>3. k = <<kind, Today(kind, minute)>> /\ k[1] = kind /\ Today(kind, began) \in Nat /\ Today(kind, ticked) \in Nat
  <2>1. began <= began /\ ticked <= ticked
    BY LimitsAssumption DEF Clock
  <2>. QED  BY <1>1, <2>1, TodayFacts DEF Now
<1>4. PICK b \in Buckets : b = bucket[k]
  BY DEF LimitsShape
<1>5. PICK n \in Nat : n = Counted(k, c) /\ n = IF b.reset <= Today(kind, began) THEN 1 ELSE b.count + 1
  BY <1>2, <1>3, <1>4 DEF Counted, Expired, Buckets
<1>6. CASE Exceeds(n, limit)
  BY <1>1, <1>5, <1>6, UndoKeeps DEF Increment
<1>7. CASE ~Exceeds(n, limit)
  <2>. DEFINE after == [count |-> n, reset |-> Today(kind, ticked) + 1]
              row == [w \in Holds(c) \cup {k} |-> IF w = k THEN b ELSE Before(c, w)]
              q == [call[c] EXCEPT !.at = at, !.row = row]
  <2>1. ~Locked(k) /\ n <= limit
    BY <1>1, <1>7 DEF Increment, Exceeds
  <2>2. /\ bucket' = [bucket EXCEPT ![k] = after]
        /\ call' = [call EXCEPT ![c] = q]
        /\ strays' = [strays EXCEPT ![k] = @ + IF Today(kind, ticked) < k[2] THEN 1 ELSE 0]
        /\ highest' = [highest EXCEPT ![k] = IF limit > @ THEN limit ELSE @]
        /\ UNCHANGED <<minute, rpm, passed>>
    <3>1. call' = [call EXCEPT ![c].at = at, ![c].row = row] /\ UNCHANGED <<minute, rpm, passed>>
      BY <1>1, <1>4, <1>5, <1>7 DEF Increment
    <3>. QED  BY <1>1, <1>2, <1>3, <1>5, <1>7, <3>1 DEF Increment
  <2>3. row \in [Holds(c) \cup {k} -> Buckets] /\ Holds(c) \cup {k} \in SUBSET Windows
    BY HoldsFacts
  <2>4. q \in CallRow /\ q.at = at /\ q.row = row /\ q.began = began /\ q.now = ticked
    <3>1. call[c] \in CallRow /\ row \in UNION {[S -> Buckets] : S \in SUBSET Windows}
      BY <2>3 DEF LimitsShape
    <3>. HIDE DEF row
    <3>2. call[c] \in [at : {"clock"}, began : Clock, limit : Nat, now : Clock, row : {<<>>}]
            \cup [at : {"minute", "day"}, began : Clock, limit : Nat, now : Clock,
                  row : UNION {[S -> Buckets] : S \in SUBSET Windows}]
      BY <3>1 DEF CallRow, Out, Over
    <3>3. q = [at |-> at, began |-> began, limit |-> lim, now |-> ticked, row |-> row]
      <4>1. PICK x, y : call[c] = [at |-> x, began |-> began, limit |-> lim, now |-> ticked, row |-> y]
        BY <1>2, <3>2
      <4>2. q = [[at |-> x, began |-> began, limit |-> lim, now |-> ticked, row |-> y]
                   EXCEPT !.at = at, !.row = row]
        BY <4>1
      <4>. HIDE DEF q
      <4>. QED  BY <4>2
    <3>. HIDE DEF q
    <3>. QED  BY <3>1, <3>3 DEF CallRow
  <2>5. DOMAIN row = Holds(c) \cup {k}
    OBVIOUS
  <2>6. /\ Holds(c)' = Holds(c) \cup {k} /\ call'[c] = q
        /\ \A d \in Calls \ {c} : call'[d] = call[d] /\ Holds(d)' = Holds(d)
    <3>. HIDE DEF row, q
    <3>. QED  BY <2>2, <2>4, <2>5 DEF Holds, LimitsShape
  <2>7. after \in Buckets
    BY <1>3 DEF Buckets
  <2>8. LimitsShape'
    <3>1. bucket' \in [Windows -> Buckets]
      BY <2>2, <2>7 DEF LimitsShape
    <3>2. call' \in [Calls -> CallRow]
      BY <2>2, <2>4 DEF LimitsShape
    <3>3. strays' \in [Windows -> Nat] /\ highest' \in [Windows -> Nat]
      BY <2>2 DEF LimitsShape
    <3>. QED  BY <2>2, <3>1, <3>2, <3>3 DEF LimitsShape
  <2>9. ClocksPast'
    BY <1>2, <2>2, <2>4, <2>6 DEF ClocksPast
  <2>10. \A d \in Calls : k \notin Holds(d)
    BY <2>1 DEF Locked
  <2>11. OneHolder'
    BY <2>6, <2>10 DEF OneHolder
  <2>12. \A w \in Windows : Locked(w)' <=> Locked(w) \/ w = k
    BY <2>6 DEF Locked
  <2>13. Tallies(k, b, passed[k]) /\ passed[k] \in Nat
    BY <1>4, <2>1 DEF Tallied, LimitsShape
  <2>14. began <= minute /\ ticked <= minute
    BY <1>2 DEF ClocksPast
  <2>15. Tallies(k, b, passed[k])' /\ Tallies(k, after, passed[k] + 1)'
    <3>. HIDE DEF after, row, q
    <3>1. PICK a \in Buckets : a = after
      BY <2>7
    <3>2. a = [count |-> n, reset |-> Today(kind, ticked) + 1]
      BY <3>1 DEF after
    <3>3. Tallies(k, b, passed[k])' /\ Tallies(k, a, passed[k] + 1)'
      BY <1>1, <1>5, <2>1, <2>2, <2>8, <2>13, <2>14, <3>2, CountTallies
    <3>. QED  BY <3>1, <3>3
  <2>16. \A w \in Windows \ {k} : \A x, calls : Tallies(w, x, calls) <=>
           /\ x.count <= LimitOf(w)' /\ Ends(w, x) <= strays'[w]
           /\ calls <= x.count + LimitOf(w)' * (strays'[w] - Ends(w, x))
           /\ strays'[w] = 0 => x.count = calls
    BY <2>2 DEF Tallies, LimitOf, LimitsShape
  <2>17. Tallied'
    <3>. SUFFICES ASSUME NEW w \in Windows
                  PROVE  Tallies(w, bucket[w], passed[w] + IF Locked(w) THEN 1 ELSE 0)'
      BY DEF Tallied
    <3>1. CASE w = k
      <4>1. bucket'[w] = after /\ passed'[w] + (IF Locked(w)' THEN 1 ELSE 0) = passed[w] + 1
        BY <2>2, <2>12, <3>1 DEF LimitsShape
      <4>2. Tallies(w, after, passed[w] + 1)' /\ passed' = passed
        BY <2>2, <2>15, <3>1
      <4>3. PICK a \in Buckets, y \in Int : a = after /\ y = passed[w] + 1
        BY <2>7, <2>13, <3>1
      <4>4. Tallies(w, a, y)'
        BY <4>2, <4>3 DEF Tallies, Ends
      <4>5. bucket'[w] = a /\ passed'[w] + (IF Locked(w)' THEN 1 ELSE 0) = y
        BY <4>1, <4>3
      <4>. QED  BY <4>4, <4>5 DEF Tallies, Ends
    <3>2. CASE w # k
      <4>1. Tallies(w, bucket[w], passed[w] + IF Locked(w) THEN 1 ELSE 0)
        BY DEF Tallied
      <4>2. /\ bucket'[w] = bucket[w]
            /\ passed'[w] + (IF Locked(w)' THEN 1 ELSE 0) = passed[w] + (IF Locked(w) THEN 1 ELSE 0)
        BY <2>2, <2>12, <3>2 DEF LimitsShape
      <4>3. PICK a \in Buckets, y \in Int : a = bucket[w] /\ y = passed[w] + (IF Locked(w) THEN 1 ELSE 0)
        BY DEF LimitsShape
      <4>4. Tallies(w, a, y)
        BY <4>1, <4>3
      <4>5. Tallies(w, a, y)'
        BY <2>16, <3>2, <4>4 DEF Tallies, Ends
      <4>6. bucket'[w] = a /\ passed'[w] + (IF Locked(w)' THEN 1 ELSE 0) = y
        BY <4>2, <4>3
      <4>. QED  BY <4>5, <4>6 DEF Tallies, Ends
    <3>. QED  BY <3>1, <3>2
  <2>18. Undoable'
    <3>. SUFFICES ASSUME NEW d \in Calls, NEW w \in Holds(d)' PROVE Tallies(w, Before(d, w), passed[w])'
      BY DEF Undoable
    <3>1. CASE w = k
      <4>1. d = c
        BY <2>6, <2>10, <3>1
      <4>2. Before(d, w)' = b
        BY <2>4, <2>6, <3>1, <4>1 DEF Before
      <4>. QED  BY <2>15, <3>1, <4>2 DEF Tallies, Ends
    <3>2. CASE w # k
      <4>1. w \in Holds(d) /\ w \in Windows
        BY <2>6, <3>2, HoldsFacts
      <4>2. Before(d, w)' = Before(d, w)
        <5>1. CASE d = c
          <6>1. row[w] = Before(d, w)
            BY <3>2, <4>1, <5>1
          <6>. QED  BY <2>4, <2>6, <5>1, <6>1 DEF Before
        <5>2. CASE d # c
          BY <2>6, <5>2 DEF Before
        <5>. QED  BY <5>1, <5>2
      <4>3. Tallies(w, Before(d, w), passed[w])
        BY <4>1 DEF Undoable
      <4>. QED  BY <2>2, <2>16, <3>2, <4>1, <4>2, <4>3 DEF Tallies, Ends
    <3>. QED  BY <3>1, <3>2
  <2>. QED  BY <2>8, <2>9, <2>11, <2>17, <2>18
<1>. QED  BY <1>6, <1>7

LEMMA CallsInvInit == LimitsInit => CallsInv
<1>. USE LimitsAssumption
<1>. SUFFICES ASSUME LimitsInit PROVE CallsInv
  OBVIOUS
<1>1. LimitsShape
  BY DEF LimitsInit, LimitsShape, Clock, Buckets, NoBucket, CallRow
<1>2. \A c \in Calls : call[c] = Out /\ Holds(c) = {}
  BY DEF LimitsInit, Holds, Out
<1>3. ClocksPast /\ OneHolder /\ Undoable
  BY <1>2 DEF ClocksPast, OneHolder, Undoable, Out
<1>4. Tallied
  <2>. SUFFICES ASSUME NEW k \in Windows
                PROVE  Tallies(k, bucket[k], passed[k] + IF Locked(k) THEN 1 ELSE 0)
    BY DEF Tallied
  <2>1. ~Locked(k) /\ bucket[k] = NoBucket /\ passed[k] = 0 /\ strays[k] = 0
    BY <1>2 DEF Locked, LimitsInit
  <2>2. k[2] \in Nat /\ k[2] <= LastMinute
    <3>1. LastMinute \div MinutesPerDay \in Nat /\ LastMinute \div MinutesPerDay <= LastMinute
      OBVIOUS
    <3>. QED  BY <3>1 DEF Windows, Minutes, Days
  <2>3. Ends(k, NoBucket) = 0 /\ NoBucket.count = 0
    BY <2>2 DEF Ends, NoBucket
  <2>4. LimitOf(k) \in Nat
    BY <1>1, LimitIsNat
  <2>. QED  BY <2>1, <2>3, <2>4 DEF Tallies
<1>. QED  BY <1>1, <1>3, <1>4 DEF CallsInv

(* A step of a call that takes and leaves no row. *)
LEMMA CallMoves ==
  ASSUME CallsInv, LimitsShape', ClocksPast', UNCHANGED <<bucket, passed, strays, highest>>,
         \A c \in Calls : Holds(c)' = Holds(c) /\ \A k \in Holds(c) : Before(c, k)' = Before(c, k)
  PROVE  CallsInv'
<1>. USE DEF CallsInv
<1>1. OneHolder'
  BY DEF OneHolder
<1>2. \A k \in Windows : Locked(k)' <=> Locked(k)
  BY DEF Locked
<1>3. Tallied'
  <2>. SUFFICES ASSUME NEW k \in Windows
                PROVE  Tallies(k, bucket[k], passed[k] + IF Locked(k) THEN 1 ELSE 0)'
    BY DEF Tallied
  <2>1. Tallies(k, bucket[k], passed[k] + IF Locked(k) THEN 1 ELSE 0)
    BY DEF Tallied
  <2>. QED  BY <1>2, <2>1 DEF Tallies, Ends, LimitOf
<1>4. Undoable'
  BY DEF Undoable, Tallies, Ends, LimitOf
<1>. QED  BY <1>1, <1>3, <1>4

LEMMA CallsInvNext ==
  ASSUME CallsInv, [CallNext]_callVars
  PROVE  CallsInv'
<1>. USE LimitsAssumption
<1>1. CASE UNCHANGED callVars
  <2>1. LimitsShape' /\ ClocksPast' /\ \A c \in Calls : Holds(c)' = Holds(c) /\ \A k \in Holds(c) : Before(c, k)' = Before(c, k)
    BY <1>1 DEF callVars, CallsInv, LimitsShape, ClocksPast, Holds, Before
  <2>. QED  BY <1>1, <2>1, CallMoves DEF callVars
<1>2. CASE Tick
  <2>1. LimitsShape' /\ ClocksPast' /\ \A c \in Calls : Holds(c)' = Holds(c) /\ \A k \in Holds(c) : Before(c, k)' = Before(c, k)
    <3>1. minute' = minute + 1 /\ minute' \in Clock /\ UNCHANGED <<rpm, bucket, call, passed, strays, highest>>
      BY <1>2 DEF Tick, CallsInv, LimitsShape, Clock
    <3>2. \A c \in Calls : /\ call[c].at \in {"in", "clock", "minute", "day"} => call[c].began \in Clock
                           /\ call[c].at \in {"clock", "minute", "day"} => call[c].now \in Clock
      <4>. SUFFICES ASSUME NEW c \in Calls
                    PROVE  /\ call[c].at \in {"in", "clock", "minute", "day"} => call[c].began \in Clock
                           /\ call[c].at \in {"clock", "minute", "day"} => call[c].now \in Clock
        OBVIOUS
      <4>1. call[c] \in CallRow
        BY DEF CallsInv, LimitsShape
      <4>. QED  BY <4>1 DEF CallRow, Out, Over
    <3>3. ClocksPast'
      BY <3>1, <3>2 DEF CallsInv, LimitsShape, ClocksPast, Clock
    <3>. QED  BY <3>1, <3>3 DEF CallsInv, LimitsShape, Holds, Before
  <2>. QED  BY <1>2, <2>1, CallMoves DEF Tick
<1>3. ASSUME NEW n \in RpmLimits, SetLimit(n) PROVE CallsInv'
  <2>1. LimitsShape' /\ ClocksPast' /\ \A c \in Calls : Holds(c)' = Holds(c) /\ \A k \in Holds(c) : Before(c, k)' = Before(c, k)
    BY <1>3 DEF SetLimit, CallsInv, LimitsShape, ClocksPast, Holds, Before
  <2>. QED  BY <1>3, <2>1, CallMoves DEF SetLimit
<1>4. ASSUME NEW c \in Calls, Authenticate(c) \/ ReadClock(c) PROVE CallsInv'
  <2>1. PICK q \in CallRow : /\ call' = [call EXCEPT ![c] = q] /\ q.at \in {"in", "clock"} /\ q.began <= minute
                             /\ q.at = "clock" => q.now <= minute
                             /\ call[c].at \in {"out", "in"}
    <3>1. minute \in Clock /\ rpm \in Nat /\ minute <= minute
      BY DEF CallsInv, LimitsShape, Clock
    <3>2. CASE Authenticate(c)
      <4>1. [at |-> "in", began |-> minute, limit |-> rpm] \in CallRow
        BY <3>1 DEF CallRow
      <4>. QED  BY <3>1, <3>2, <4>1 DEF Authenticate
    <3>3. CASE ReadClock(c)
      <4>1. call[c].at = "in" /\ call[c] \in CallRow /\ call[c].began <= minute
        BY <3>3 DEF ReadClock, CallsInv, LimitsShape, ClocksPast
      <4>2. call[c].began \in Clock /\ call[c].limit \in Nat
        BY <4>1 DEF CallRow, Out, Over
      <4>3. [at |-> "clock", began |-> call[c].began, limit |-> call[c].limit, now |-> minute, row |-> <<>>] \in CallRow
        BY <3>1, <4>2 DEF CallRow
      <4>. QED  BY <3>1, <3>3, <4>1, <4>3 DEF ReadClock
    <3>. QED  BY <1>4, <3>2, <3>3
  <2>2. UNCHANGED <<minute, rpm, bucket, passed, strays, highest>>
    BY <1>4 DEF Authenticate, ReadClock
  <2>3. LimitsShape'
    BY <2>1, <2>2 DEF CallsInv, LimitsShape
  <2>4. ClocksPast'
    BY <2>1, <2>2 DEF CallsInv, LimitsShape, ClocksPast
  <2>5. \A d \in Calls : Holds(d)' = Holds(d) /\ \A k \in Holds(d) : Before(d, k)' = Before(d, k)
    BY <2>1 DEF CallsInv, LimitsShape, Holds, Before
  <2>. QED  BY <2>2, <2>3, <2>4, <2>5, CallMoves
<1>5. ASSUME NEW c \in Calls, CountMinute(c) PROVE CallsInv'
  <2>1. call[c].at = "clock" /\ call[c] \in CallRow
    BY <1>5 DEF CountMinute, CallsInv, LimitsShape
  <2>2. call[c].limit \in Nat
    BY <2>1 DEF CallRow, Out, Over
  <2>. QED  BY <1>5, <2>1, <2>2, CountKeeps DEF CountMinute
<1>6. ASSUME NEW c \in Calls, CountDay(c) PROVE CallsInv'
  BY <1>6, CountKeeps DEF CountDay
<1>7. ASSUME NEW c \in Calls, CallDies(c) PROVE CallsInv'
  BY <1>7, UndoKeeps DEF CallDies
<1>8. ASSUME NEW c \in Calls, LetThrough(c) PROVE CallsInv'
  <2>1. /\ passed' = [k \in Windows |-> passed[k] + IF k \in Holds(c) THEN 1 ELSE 0]
        /\ call' = [call EXCEPT ![c] = Over] /\ UNCHANGED <<minute, rpm, bucket, strays, highest>>
    BY <1>8 DEF LetThrough
  <2>2. /\ Holds(c)' = {} /\ call'[c] = Over
        /\ \A d \in Calls \ {c} : call'[d] = call[d] /\ Holds(d)' = Holds(d)
    BY <2>1 DEF CallsInv, LimitsShape, Holds, Over
  <2>3. LimitsShape'
    BY <2>1 DEF CallsInv, LimitsShape, CallRow
  <2>4. ClocksPast' /\ OneHolder'
    BY <2>1, <2>2 DEF CallsInv, ClocksPast, OneHolder, Over
  <2>5. \A k \in Windows : passed'[k] + (IF Locked(k)' THEN 1 ELSE 0) = passed[k] + (IF Locked(k) THEN 1 ELSE 0)
    <3>1. \A k \in Windows : /\ k \in Holds(c) => Locked(k) /\ ~Locked(k)'
                             /\ k \notin Holds(c) => (Locked(k)' <=> Locked(k))
      BY <2>2 DEF Locked, CallsInv, OneHolder
    <3>. QED  BY <2>1, <3>1 DEF CallsInv, LimitsShape
  <2>6. Tallied'
    <3>. SUFFICES ASSUME NEW k \in Windows
                  PROVE  Tallies(k, bucket[k], passed[k] + IF Locked(k) THEN 1 ELSE 0)'
      BY DEF Tallied
    <3>1. PICK y \in Int : /\ y = passed[k] + (IF Locked(k) THEN 1 ELSE 0)
                           /\ y = passed'[k] + (IF Locked(k)' THEN 1 ELSE 0)
      BY <2>5 DEF CallsInv, LimitsShape
    <3>2. Tallies(k, bucket[k], y)
      BY <3>1 DEF CallsInv, Tallied
    <3>. QED  BY <2>1, <3>1, <3>2 DEF Tallies, Ends, LimitOf
  <2>7. Undoable'
    <3>. SUFFICES ASSUME NEW d \in Calls, NEW k \in Holds(d)' PROVE Tallies(k, Before(d, k), passed[k])'
      BY DEF Undoable
    <3>1. d # c /\ k \in Holds(d) /\ k \in Windows /\ Before(d, k)' = Before(d, k)
      BY <2>2, HoldsFacts DEF Before, CallsInv
    <3>2. passed'[k] = passed[k]
      BY <2>1, <3>1 DEF CallsInv, OneHolder, LimitsShape
    <3>3. Tallies(k, Before(d, k), passed[k])
      BY <3>1 DEF CallsInv, Undoable
    <3>. QED  BY <2>1, <3>1, <3>2, <3>3 DEF Tallies, Ends, LimitOf
  <2>. QED  BY <2>3, <2>4, <2>6, <2>7 DEF CallsInv
<1>. QED  BY <1>1, <1>2, <1>3, <1>4, <1>5, <1>6, <1>7, <1>8 DEF CallNext

LEMMA MakersInvNext ==
  ASSUME MakersInv, [MakerNext]_makerVars
  PROVE  MakersInv'
<1>. USE LimitsAssumption DEF MakersInv, Out
<1>1. CASE UNCHANGED makerVars
  BY <1>1 DEF makerVars
<1>2. ASSUME NEW m \in Makers, CountPipelines(m) PROVE MakersInv'
  BY <1>2 DEF CountPipelines, UnderPlan
<1>3. ASSUME NEW m \in Makers, CreatePipeline(m) PROVE MakersInv'
  <2>1. /\ pipelines' = pipelines + 1 /\ maker[m].at = "counted" /\ maker[m].others \in BOOLEAN
        /\ raced' = raced + IF maker[m].others THEN 1 ELSE 0
        /\ maker' = [o \in Makers |->
                      IF o = m THEN Out
                      ELSE IF maker[o].at = "counted" THEN [maker[o] EXCEPT !.others = TRUE] ELSE maker[o]]
    BY <1>3 DEF CreatePipeline
  <2>2. ASSUME NEW o \in Makers
        PROVE  /\ maker'[o] \in {Out} \cup [at : {"counted"}, others : BOOLEAN]
               /\ maker'[o].at = "counted" => maker'[o].others
    <3>1. CASE o # m /\ maker[o].at = "counted"
      <4>1. PICK b \in BOOLEAN : maker[o] = [at |-> "counted", others |-> b]
        BY <3>1
      <4>2. maker'[o] = [[at |-> "counted", others |-> b] EXCEPT !.others = TRUE]
        BY <2>1, <3>1, <4>1
      <4>. QED  BY <4>2
    <3>2. CASE o = m
      BY <2>1, <3>2
    <3>3. CASE o # m /\ maker[o].at # "counted"
      BY <2>1, <3>3
    <3>. QED  BY <3>1, <3>2, <3>3
  <2>3. maker' \in [Makers -> {Out} \cup [at : {"counted"}, others : BOOLEAN]]
    BY <2>1, <2>2
  <2>. QED  BY <2>1, <2>2, <2>3
<1>4. CASE DeletePipeline
  BY <1>4 DEF DeletePipeline
<1>. QED  BY <1>1, <1>2, <1>3, <1>4 DEF MakerNext

(* A window lets through no more calls than its limit allows, and again as  *)
(* many for each stray, and without strays its counter is exact; a user has *)
(* no more pipelines than the plan allows and one for each that was created *)
(* after a count (core/api_key_rate_limit.py, core/quotas.py).              *)
THEOREM LimitsHeld == LimitsSpec => []RateKept
<1>. DEFINE Inv == CallsInv /\ MakersInv
<1>1. LimitsInit => Inv
  BY CallsInvInit, LimitsAssumption DEF LimitsInit, MakersInv, Out
<1>2. Inv /\ [LimitsNext]_limitVars => Inv'
  <2>. SUFFICES ASSUME CallsInv, MakersInv, [LimitsNext]_limitVars PROVE CallsInv' /\ MakersInv'
    OBVIOUS
  <2>1. [CallNext]_callVars
    BY DEF LimitsNext, limitVars, MakerNext, CountPipelines, CreatePipeline, DeletePipeline
  <2>2. [MakerNext]_makerVars
    BY DEF LimitsNext, limitVars, CallNext, Tick, SetLimit, Authenticate, ReadClock, CountMinute, CountDay,
           Increment, LetThrough, CallDies
  <2>. QED  BY <2>1, <2>2, CallsInvNext, MakersInvNext
<1>3. Inv => RateKept
  <2>. SUFFICES ASSUME CallsInv, MakersInv PROVE RateKept
    OBVIOUS
  <2>1. ASSUME NEW k \in Windows
        PROVE  /\ passed[k] <= LimitOf(k) * (1 + strays[k])
               /\ strays[k] = 0 => bucket[k].count = passed[k] + Cardinality({c \in Calls : k \in Holds(c)})
    <3>1. PICK l \in Nat, s \in Nat, p \in Nat, n \in Nat, e \in {0, 1}, h \in {0, 1} :
            /\ l = LimitOf(k) /\ s = strays[k] /\ p = passed[k] /\ n = bucket[k].count /\ e = Ends(k, bucket[k])
            /\ h = IF Locked(k) THEN 1 ELSE 0
      BY LimitIsNat DEF CallsInv, LimitsShape, Buckets, Ends
    <3>2. n <= l /\ e <= s /\ p + h <= n + l * (s - e) /\ (s = 0 => n = p + h)
      BY <3>1 DEF CallsInv, Tallied, Tallies
    <3>3. l * (s - e) <= l * s /\ l * (s - e) \in Nat /\ l * s \in Nat /\ l * (1 + s) = l + l * s
      <4>1. s - e \in Nat /\ s - e <= s
        BY <3>2
      <4>. QED  BY <4>1, TimesMonotone
    <3>4. Cardinality({c \in Calls : k \in Holds(c)}) = h
      <4>1. CASE Locked(k)
        <5>1. PICK d \in Calls : k \in Holds(d)
          BY <4>1 DEF Locked
        <5>2. {c \in Calls : k \in Holds(c)} = {d}
          BY <5>1 DEF CallsInv, OneHolder
        <5>. QED  BY <3>1, <4>1, <5>2, FS_Singleton
      <4>2. CASE ~Locked(k)
        <5>1. {c \in Calls : k \in Holds(c)} = {}
          BY <4>2 DEF Locked
        <5>. QED  BY <3>1, <4>2, <5>1, FS_EmptySet
      <4>. QED  BY <4>1, <4>2
    <3>5. p <= l * (1 + s) /\ (s = 0 => n = p + h)
      BY <3>2, <3>3
    <3>6. passed[k] <= LimitOf(k) * (1 + strays[k])
      BY <3>1, <3>5
    <3>7. strays[k] = 0 => bucket[k].count = passed[k] + Cardinality({c \in Calls : k \in Holds(c)})
      BY <3>1, <3>4, <3>5
    <3>. QED  BY <3>6, <3>7
  <2>. QED  BY <2>1 DEF RateKept, MakersInv
<1>. QED  BY <1>1, <1>2, <1>3, PTL DEF LimitsSpec

---------------------------------------------------------------------------
(* Endpoints *)

Hours == 0..LastHour
Secrets == 0..(Latest - 1)
Rows == [there : BOOLEAN, active : BOOLEAN, secret : Nat \cup {NoSecret},
         previous : Nat \cup {NoSecret}, until : Nat]
Letter == {Unsent}
     \cup [at : {"read"}, kind : {"delivery", "test", "replay", "manual"}, row : Rows]
     \cup [at : {"signed", "queued", "arrived", "failed"},
           kind : {"delivery", "test", "replay", "manual"},
           secret : Nat \cup {NoSecret}, by : SUBSET (Nat \cup {NoSecret}), when : Hours]

EndpointsShape ==
  /\ now \in Hours
  /\ endpoint \in Rows
  /\ rotator \in [Rotators -> {Quiet} \cup [at : {"read"}, secret : Nat \cup {NoSecret}]]
  /\ letter \in [Letters -> Letter]
  /\ given \in Seq(Hours \cup {Never})
  /\ crossed \in BOOLEAN

(* All secrets but the last have been replaced, one after the other.       *)
History ==
  /\ \A n \in Secrets : Replaced(n) = Never <=> n = Latest - 1
  /\ \A m, n \in Secrets : m <= n /\ n < Latest - 1 => Replaced(m) <= Replaced(n) /\ Replaced(n) <= now

(* A row has a secret that was given, and until two rotations overlap it   *)
(* also has the one before and the end of that one's grace.                *)
RowSound(row) ==
  /\ row.secret \in Secrets
  /\ ~crossed => IF row.secret = 0 THEN row.previous = NoSecret
                 ELSE /\ row.previous = row.secret - 1
                      /\ row.until = Replaced(row.previous) + Grace

EndpointSound ==
  /\ endpoint.there => RowSound(endpoint) /\ endpoint.secret = Latest - 1
  /\ endpoint.active => endpoint.there
  /\ Latest = 0 => endpoint = NoEndpoint

SignedWithAll(a) == a.by = {n \in 0..a.secret : n = a.secret \/ a.when < Replaced(n) + Grace}
LetterSound(q) ==
  /\ q.at = "read" /\ q.kind \in {"delivery", "test"} => RowSound(q.row)
  /\ q.at \in {"signed", "queued", "arrived", "failed"} /\ q.kind \in {"delivery", "test"} =>
       /\ q.secret \in Secrets
       /\ Crowded \/ crossed \/ SignedWithAll(q)
LettersSound == \A l \in Letters : LetterSound(letter[l])

SecretsInv == EndpointsShape /\ History /\ EndpointSound /\ LettersSound

(* What was replaced keeps its hour, and an overlap is remembered.         *)
Grown ==
  /\ Len(given) <= Len(given') /\ given' \in Seq(Hours \cup {Never})
  /\ \A n \in Nat : n < Latest - 1 => given'[n + 1] = given[n + 1]
  /\ crossed => crossed'

LEMMA GrownKeeps ==
  ASSUME EndpointsShape, History, Grown
  PROVE  /\ Crowded => Crowded'
         /\ \A row \in Rows : RowSound(row) => RowSound(row)'
         /\ \A a \in Letter : a.at # "unsent" /\ a.at # "read" /\ a.secret \in Secrets /\ SignedWithAll(a)
                                => a.secret \in Secrets' /\ SignedWithAll(a)'
<1>. Len(given) \in Nat /\ Len(given') \in Nat
  BY DEF EndpointsShape, Grown
<1>1. Crowded => Crowded'
  <2>. SUFFICES ASSUME NEW n \in 0..(Len(given) - 2),
                       Replaced(n + 1) # Never /\ Replaced(n + 1) < Replaced(n) + Grace
                PROVE  Crowded'
    BY DEF Crowded
  <2>1. n + 1 \in Secrets /\ n + 1 < Latest - 1
    BY DEF History, Secrets, Latest
  <2>2. \A m \in {n, n + 1} : m \in Nat /\ m < Latest - 1
    BY <2>1 DEF Secrets, Latest
  <2>3. Replaced(n + 1)' = Replaced(n + 1) /\ Replaced(n)' = Replaced(n)
    BY <2>2 DEF Grown, Replaced
  <2>4. n \in 0..(Len(given') - 2)
    BY DEF Grown
  <2>. QED  BY <2>3, <2>4 DEF Crowded, Never
<1>2. ASSUME NEW row \in Rows, RowSound(row) PROVE RowSound(row)'
  <2>1. row.secret \in Nat /\ row.secret <= Latest - 1
    BY <1>2 DEF RowSound, Secrets, Latest
  <2>2. row.secret # 0 => Replaced(row.secret - 1)' = Replaced(row.secret - 1)
    BY <2>1 DEF Grown, Replaced, Latest
  <2>. QED  BY <1>2, <2>1, <2>2 DEF RowSound, Secrets, Latest, Grown
<1>3. ASSUME NEW a \in Letter, a.at # "unsent" /\ a.at # "read", a.secret \in Secrets, SignedWithAll(a)
      PROVE  a.secret \in Secrets' /\ SignedWithAll(a)'
  <2>1. \A n \in 0..a.secret : n # a.secret => Replaced(n)' = Replaced(n)
    BY <1>3 DEF Secrets, Latest, Grown, Replaced
  <2>2. a.secret \in Secrets'
    BY <1>3 DEF Secrets, Latest, Grown
  <2>. QED  BY <1>3, <2>1, <2>2 DEF SignedWithAll
<1>. QED  BY <1>1, <1>2, <1>3

LEMMA SameGrown ==
  ASSUME EndpointsShape, UNCHANGED <<given, crossed>>
  PROVE  Grown
BY DEF EndpointsShape, Grown

LEMMA SecretsInvInit == EndpointsInit => SecretsInv
<1>. USE EndpointsAssumption
<1>. SUFFICES ASSUME EndpointsInit PROVE SecretsInv
  OBVIOUS
<1>1. Len(given) = 0 /\ \A l \in Letters : letter[l] = Unsent
  BY DEF EndpointsInit
<1>2. EndpointsShape
  <2>1. now \in Hours /\ endpoint \in Rows
    BY DEF EndpointsInit, NoEndpoint, Rows, Hours
  <2>2. rotator \in [Rotators -> {Quiet} \cup [at : {"read"}, secret : Nat \cup {NoSecret}]]
    BY DEF EndpointsInit
  <2>3. letter \in [Letters -> Letter]
    BY DEF EndpointsInit, Letter
  <2>4. given = <<>> /\ crossed \in BOOLEAN
    BY DEF EndpointsInit
  <2>5. given \in Seq(Hours \cup {Never})
    BY <2>4
  <2>. QED  BY <2>1, <2>2, <2>3, <2>4, <2>5 DEF EndpointsShape
<1>3. History /\ EndpointSound
  BY <1>1 DEF EndpointsInit, NoEndpoint, History, EndpointSound, Secrets, Latest
<1>4. LettersSound
  <2>1. \A l \in Letters : letter[l].at = "unsent"
    BY DEF EndpointsInit, Unsent
  <2>. QED  BY <2>1 DEF LettersSound, LetterSound
<1>. QED  BY <1>2, <1>3, <1>4 DEF SecretsInv

LEMMA LetterStays ==
  ASSUME EndpointsShape, History, Grown, NEW q \in Letter, LetterSound(q)
  PROVE  LetterSound(q)'
<1>1. q.at = "read" => q.row \in Rows
  BY DEF Letter, Unsent
<1>2. q.at \in {"signed", "queued", "arrived", "failed"} => q.at # "unsent" /\ q.at # "read"
  OBVIOUS
<1>3. q.at = "read" /\ q.kind \in {"delivery", "test"} => RowSound(q.row)'
  BY <1>1, GrownKeeps DEF LetterSound
<1>4. q.at \in {"signed", "queued", "arrived", "failed"} /\ q.kind \in {"delivery", "test"} =>
        q.secret \in Secrets' /\ (Crowded' \/ crossed' \/ SignedWithAll(q)')
  <2>. SUFFICES ASSUME q.at \in {"signed", "queued", "arrived", "failed"}, q.kind \in {"delivery", "test"}
                PROVE  q.secret \in Secrets' /\ (Crowded' \/ crossed' \/ SignedWithAll(q)')
    OBVIOUS
  <2>1. q.secret \in Secrets /\ (Crowded \/ crossed \/ SignedWithAll(q))
    BY DEF LetterSound
  <2>2. q.secret \in Secrets'
    BY <2>1 DEF Secrets, Latest, Grown, EndpointsShape
  <2>. QED  BY <1>2, <2>1, <2>2, GrownKeeps DEF Grown
<1>. QED  BY <1>3, <1>4 DEF LetterSound

(* A step of a letter: the row, the secrets and the rotations stay, and    *)
(* what is written of it is sound.                                         *)
LEMMA OneLetter ==
  ASSUME SecretsInv, NEW l \in Letters, NEW q \in Letter, letter' = [letter EXCEPT ![l] = q],
         LetterSound(q), UNCHANGED <<now, endpoint, rotator, given, crossed>>
  PROVE  SecretsInv'
<1>. USE DEF SecretsInv
<1>1. EndpointsShape'
  BY DEF EndpointsShape
<1>2. History' /\ EndpointSound'
  BY DEF History, EndpointSound, RowSound, Secrets, Latest, Replaced
<1>3. ASSUME NEW k \in Letters PROVE LetterSound(letter[k])'
  <2>. DEFINE x == IF k = l THEN q ELSE letter[k]
  <2>1. x \in Letter /\ LetterSound(x) /\ letter'[k] = x
    BY DEF EndpointsShape, LettersSound
  <2>. HIDE DEF x
  <2>2. PICK y \in Letter : y = x
    BY <2>1
  <2>3. LetterSound(y)
    BY <2>1, <2>2
  <2>4. LetterSound(y)'
    BY <2>3, LetterStays, SameGrown
  <2>. QED  BY <2>1, <2>2, <2>4
<1>. QED  BY <1>1, <1>2, <1>3 DEF LettersSound

(* A step that leaves the letters as they are. *)
LEMMA NoLetter ==
  ASSUME SecretsInv, Grown, UNCHANGED letter
  PROVE  LettersSound'
<1>. SUFFICES ASSUME NEW k \in Letters PROVE LetterSound(letter[k])'
  BY DEF LettersSound
<1>1. PICK y \in Letter : y = letter[k] /\ y = letter'[k]
  BY DEF SecretsInv, EndpointsShape
<1>2. LetterSound(y)
  BY <1>1 DEF SecretsInv, LettersSound
<1>3. LetterSound(y)'
  BY <1>2, LetterStays DEF SecretsInv
<1>. QED  BY <1>1, <1>3

LEMMA RotateKeeps ==
  ASSUME SecretsInv, NEW r \in Rotators, Rotate(r)
  PROVE  SecretsInv'
<1>. USE EndpointsAssumption
<1>1. /\ rotator' = [rotator EXCEPT ![r] = Quiet] /\ rotator[r].at = "read"
      /\ UNCHANGED <<now, letter>>
      /\ crossed' = (crossed \/ (endpoint.there /\ rotator[r].secret # endpoint.secret))
  BY DEF Rotate
<1>2. /\ rotator' \in [Rotators -> {Quiet} \cup [at : {"read"}, secret : Nat \cup {NoSecret}]]
      /\ now' \in Hours /\ letter' \in [Letters -> Letter] /\ crossed' \in BOOLEAN
      /\ rotator[r].secret \in Nat \cup {NoSecret}
  BY <1>1 DEF SecretsInv, EndpointsShape, Quiet
<1>3. CASE ~endpoint.there
  <2>1. UNCHANGED <<endpoint, given, crossed>>
    BY <1>1, <1>3 DEF Rotate, SecretsInv, EndpointsShape
  <2>2. EndpointsShape' /\ History' /\ EndpointSound'
    BY <1>1, <1>2, <2>1 DEF SecretsInv, EndpointsShape, History, EndpointSound, RowSound, Secrets, Latest, Replaced
  <2>. QED  BY <1>1, <2>1, <2>2, NoLetter, SameGrown DEF SecretsInv
<1>4. CASE endpoint.there
  <2>0. PICK N \in Nat : N = Len(given)
    BY DEF SecretsInv, EndpointsShape
  <2>. DEFINE g == [given EXCEPT ![N] = now]
  <2>1. N = Len(given) /\ N \in Nat \ {0} /\ endpoint.secret = N - 1
    BY <1>4, <2>0 DEF SecretsInv, EndpointsShape, EndpointSound, RowSound, Secrets, Latest
  <2>2. /\ endpoint' = [endpoint EXCEPT !.secret = N, !.previous = rotator[r].secret, !.until = now + Grace]
        /\ given' = Append(g, Never)
    BY <1>4, <2>1 DEF Rotate, Rotated, Latest
  <2>3. g \in Seq(Hours \cup {Never}) /\ Len(g) = N /\ \A i \in 1..N : g[i] = IF i = N THEN now ELSE given[i]
    BY <2>1 DEF SecretsInv, EndpointsShape
  <2>4. /\ given' \in Seq(Hours \cup {Never}) /\ Len(given') = N + 1
        /\ \A i \in 1..(N + 1) : given'[i] = IF i = N + 1 THEN Never ELSE IF i = N THEN now ELSE given[i]
    BY <2>1, <2>2, <2>3
  <2>. HIDE DEF g
  <2>5. EndpointsShape'
    <3>1. endpoint \in Rows /\ now + Grace \in Nat
      BY DEF SecretsInv, EndpointsShape, Hours
    <3>2. endpoint' \in Rows
      BY <1>2, <2>1, <2>2, <3>1 DEF Rows
    <3>. QED  BY <1>2, <2>4, <3>2 DEF EndpointsShape, Hours
  <2>6. Grown
    <3>1. \A n \in Nat : n < N - 1 => given'[n + 1] = given[n + 1]
      BY <2>1, <2>4
    <3>2. Len(given) <= Len(given') /\ Latest = N
      BY <2>1, <2>4 DEF Latest
    <3>. QED  BY <1>1, <2>4, <3>1, <3>2 DEF Grown, Hours
  <2>7. \A n \in 0..N : Replaced(n)' = IF n = N THEN Never ELSE IF n = N - 1 THEN now ELSE Replaced(n)
    BY <2>1, <2>4 DEF Replaced
  <2>8. History'
    <3>1. now' = now /\ now \in Nat /\ now < Never
      BY <1>1 DEF SecretsInv, EndpointsShape, Hours, Never
    <3>2. \A n \in 0..(N - 1) : Replaced(n) = Never <=> n = N - 1
      BY <2>1 DEF SecretsInv, History, Secrets, Latest
    <3>3. \A m, n \in 0..(N - 1) : m <= n /\ n < N - 1 => Replaced(m) <= Replaced(n) /\ Replaced(n) <= now
      BY <2>1 DEF SecretsInv, History, Secrets, Latest
    <3>4. \A n \in 0..N : Replaced(n)' = Never <=> n = N
      BY <2>1, <2>7, <3>1, <3>2
    <3>5. \A m, n \in 0..N : m <= n /\ n < N => Replaced(m)' <= Replaced(n)' /\ Replaced(n)' <= now
      <4>. SUFFICES ASSUME NEW m \in 0..N, NEW n \in 0..N, m <= n, n < N
                    PROVE  Replaced(m)' <= Replaced(n)' /\ Replaced(n)' <= now
        OBVIOUS
      <4>1. CASE n = N - 1
        <5>1. Replaced(n)' = now
          BY <4>1, <2>1, <2>7
        <5>2. CASE m = N - 1
          BY <5>1, <5>2, <2>1, <2>7, <3>1
        <5>3. CASE m < N - 1
          <6>1. Replaced(m)' = Replaced(m) /\ Replaced(m) <= now
            BY <5>3, <2>1, <2>7, <3>3
          <6>. QED  BY <5>1, <6>1, <3>1
        <5>. QED  BY <2>1, <4>1, <5>2, <5>3
      <4>2. CASE n < N - 1
        BY <4>2, <2>1, <2>7, <3>3
      <4>. QED  BY <2>1, <4>1, <4>2
    <3>. QED  BY <2>1, <2>4, <3>1, <3>4, <3>5 DEF History, Secrets, Latest
  <2>9. EndpointSound'
    <3>1. endpoint \in Rows /\ endpoint'.secret = N /\ endpoint'.there
          /\ endpoint'.previous = rotator[r].secret /\ endpoint'.until = now + Grace
      BY <1>4, <2>2 DEF SecretsInv, EndpointsShape, Rows
    <3>2. Latest' = N + 1
      BY <2>4 DEF Latest
    <3>3. ~crossed' => rotator[r].secret = N - 1
      BY <1>1, <1>4, <2>1
    <3>4. Replaced(N - 1)' = now
      BY <2>1, <2>7
    <3>5. ~crossed' => endpoint'.previous = N - 1 /\ endpoint'.until = given'[N] + Grace
      BY <2>1, <3>1, <3>3, <3>4 DEF Replaced
    <3>. QED  BY <2>1, <3>1, <3>2, <3>5 DEF Replaced, EndpointSound, RowSound, Secrets
  <2>. QED  BY <1>1, <2>5, <2>6, <2>8, <2>9, NoLetter DEF SecretsInv
<1>. QED  BY <1>3, <1>4 DEF SecretsInv, EndpointsShape, Rows

LEMMA SignKeeps ==
  ASSUME SecretsInv, NEW l \in Letters, Sign(l)
  PROVE  SecretsInv'
<1>. USE EndpointsAssumption
<1>1. PICK q \in Letter : q = letter[l] /\ q.at = "read" /\ LetterSound(q)
  BY DEF Sign, SecretsInv, EndpointsShape, LettersSound
<1>2. PICK row \in Rows : row = q.row
  BY <1>1 DEF Letter, Unsent
<1>. DEFINE s == [at |-> "signed", kind |-> q.kind, secret |-> row.secret,
                  by |-> Signatures(q.kind, row), when |-> now]
<1>3. letter' = [letter EXCEPT ![l] = s] /\ UNCHANGED <<now, endpoint, rotator, given, crossed>>
  BY <1>1, <1>2 DEF Sign
<1>4. Signatures(q.kind, row) \in SUBSET (Nat \cup {NoSecret})
  BY <1>2 DEF Signatures, Rows
<1>5. s \in Letter
  <2>1. q.kind \in {"delivery", "test", "replay", "manual"}
    BY <1>1 DEF Letter, Unsent
  <2>2. row.secret \in Nat \cup {NoSecret} /\ now \in Hours
    BY <1>2 DEF Rows, SecretsInv, EndpointsShape
  <2>. QED  BY <1>4, <2>1, <2>2 DEF Letter
<1>6. ASSUME q.kind \in {"delivery", "test"}
      PROVE  s.secret \in Secrets /\ (Crowded \/ crossed \/ SignedWithAll(s))
  <2>1. RowSound(row)
    BY <1>1, <1>2, <1>6 DEF LetterSound
  <2>2. row.secret \in Nat /\ row.secret <= Latest - 1 /\ Latest \in Nat /\ now \in Nat /\ Latest = Len(given)
    BY <2>1 DEF RowSound, Secrets, Latest, SecretsInv, EndpointsShape, Hours
  <2>3. ASSUME ~Crowded, ~crossed, NEW n \in 0..(row.secret - 1)
        PROVE  now < Replaced(n) + Grace <=> n = row.secret - 1 /\ InGrace(row)
    <3>1. \A k \in 0..(row.secret - 1) : Replaced(k) \in Nat /\ Replaced(k) <= now
      BY <2>2 DEF SecretsInv, History, EndpointsShape, Hours, Never, Replaced, Secrets, Latest
    <3>2. row.previous = row.secret - 1 /\ row.until = Replaced(row.secret - 1) + Grace
      BY <2>1, <2>2, <2>3 DEF RowSound
    <3>3. CASE n = row.secret - 1
      BY <2>2, <3>2, <3>3 DEF InGrace
    <3>4. CASE n < row.secret - 1
      <4>1. n \in 0..(Len(given) - 2) /\ n + 1 \in 0..(row.secret - 1) /\ n + 1 \in Secrets /\ n + 1 # Latest - 1
        BY <2>2, <3>4 DEF Secrets
      <4>2. Replaced(n + 1) # Never
        BY <4>1 DEF SecretsInv, History
      <4>3. ~(Replaced(n + 1) < Replaced(n) + Grace)
        BY <2>3, <4>1, <4>2 DEF Crowded
      <4>. QED  BY <2>2, <3>1, <3>4, <4>1, <4>3
    <3>. QED  BY <2>2, <3>3, <3>4
  <2>4. ASSUME ~Crowded, ~crossed PROVE SignedWithAll(s)
    <3>1. Signatures(q.kind, row) = {row.secret} \cup IF InGrace(row) THEN {row.previous} ELSE {}
      BY <1>6 DEF Signatures
    <3>2. CASE row.secret = 0
      <4>1. row.previous = NoSecret
        BY <2>1, <2>4, <3>2 DEF RowSound
      <4>. QED  BY <2>2, <3>1, <3>2, <4>1 DEF SignedWithAll, InGrace
    <3>3. CASE row.secret # 0
      <4>1. row.previous = row.secret - 1
        BY <2>1, <2>4, <3>3 DEF RowSound
      <4>2. \A n \in 0..row.secret : n # row.secret =>
              (now < Replaced(n) + Grace <=> n = row.secret - 1 /\ InGrace(row))
        BY <2>2, <2>3, <2>4
      <4>3. {row.secret} \cup (IF InGrace(row) THEN {row.previous} ELSE {})
              = {n \in 0..row.secret : n = row.secret \/ now < Replaced(n) + Grace}
        BY <2>2, <3>3, <4>1, <4>2
      <4>. QED  BY <3>1, <4>3 DEF SignedWithAll
    <3>. QED  BY <3>2, <3>3
  <2>. QED  BY <2>1, <2>4 DEF RowSound
<1>7. LetterSound(s)
  BY <1>6 DEF LetterSound
<1>. HIDE DEF s
<1>. QED  BY <1>3, <1>5, <1>7, OneLetter

LEMMA SecretsInvNext ==
  ASSUME SecretsInv, [EndpointsNext]_endpointVars
  PROVE  SecretsInv'
<1>. USE EndpointsAssumption
<1>1. CASE UNCHANGED endpointVars
  <2>1. EndpointsShape' /\ History' /\ EndpointSound'
    BY <1>1 DEF endpointVars, SecretsInv, EndpointsShape, History, EndpointSound, RowSound, Secrets, Latest, Replaced
  <2>. QED  BY <1>1, <2>1, NoLetter, SameGrown DEF endpointVars, SecretsInv
<1>2. CASE Hour
  <2>1. EndpointsShape'
    BY <1>2 DEF Hour, SecretsInv, EndpointsShape, Hours
  <2>2. History' /\ EndpointSound'
    BY <1>2 DEF Hour, SecretsInv, EndpointsShape, Hours, History, EndpointSound, RowSound, Secrets, Latest, Replaced
  <2>. QED  BY <1>2, <2>1, <2>2, NoLetter, SameGrown DEF Hour, SecretsInv
<1>3. CASE Create
  <2>1. /\ given' = <<Never>> /\ given = <<>>
        /\ endpoint' = [there |-> TRUE, active |-> TRUE, secret |-> 0, previous |-> NoSecret, until |-> 0]
        /\ UNCHANGED <<now, rotator, letter, crossed>>
    BY <1>3 DEF Create, NoEndpoint
  <2>2. given' \in Seq(Hours \cup {Never}) /\ Len(given') = 1 /\ given'[1] = Never
    BY <2>1
  <2>3. EndpointsShape'
    BY <2>1, <2>2 DEF SecretsInv, EndpointsShape, Rows, Hours
  <2>4. History' /\ EndpointSound'
    BY <2>1, <2>2 DEF History, EndpointSound, RowSound, Secrets, Latest, Replaced
  <2>5. Grown
    BY <2>1, <2>2 DEF Grown, Latest
  <2>. QED  BY <2>1, <2>3, <2>4, <2>5, NoLetter DEF SecretsInv
<1>4. CASE SwitchActive
  <2>1. /\ endpoint' = [endpoint EXCEPT !.active = ~endpoint.active] /\ endpoint.there
        /\ UNCHANGED <<now, rotator, letter, given, crossed>>
    BY <1>4 DEF SwitchActive
  <2>2. EndpointsShape'
    BY <2>1 DEF SecretsInv, EndpointsShape, Rows
  <2>3. History'
    BY <2>1 DEF SecretsInv, History, Secrets, Latest, Replaced
  <2>4. EndpointSound'
    BY <2>1 DEF SecretsInv, EndpointsShape, Rows, EndpointSound, RowSound, Secrets, Latest, Replaced, NoEndpoint
  <2>. QED  BY <2>1, <2>2, <2>3, <2>4, NoLetter, SameGrown DEF SecretsInv
<1>5. CASE Delete
  <2>1. /\ endpoint' = NoEndpoint
        /\ letter' = [l \in Letters |-> IF letter[l].at = "queued" THEN [letter[l] EXCEPT !.at = "failed"]
                                        ELSE letter[l]]
        /\ UNCHANGED <<now, rotator, given, crossed>>
    BY <1>5 DEF Delete
  <2>2. letter' \in [Letters -> Letter]
    <3>1. ASSUME NEW q \in Letter, q.at = "queued" PROVE [q EXCEPT !.at = "failed"] \in Letter
      BY <3>1 DEF Letter, Unsent
    <3>. QED  BY <2>1, <3>1 DEF SecretsInv, EndpointsShape
  <2>3. EndpointsShape'
    BY <2>1, <2>2 DEF SecretsInv, EndpointsShape, Rows, NoEndpoint
  <2>4. History'
    BY <2>1 DEF SecretsInv, History, Secrets, Latest, Replaced
  <2>5. EndpointSound'
    BY <2>1 DEF EndpointSound, NoEndpoint
  <2>6. ASSUME NEW l \in Letters PROVE LetterSound(letter[l])'
    <3>1. PICK q \in Letter : q = letter[l] /\ LetterSound(q)
      BY DEF SecretsInv, EndpointsShape, LettersSound
    <3>2. LetterSound(q)'
      BY <2>1, <3>1, LetterStays, SameGrown DEF SecretsInv
    <3>3. CASE letter[l].at # "queued"
      BY <2>1, <3>1, <3>2, <3>3
    <3>4. CASE letter[l].at = "queued"
      <4>1. letter'[l] = [q EXCEPT !.at = "failed"]
        BY <2>1, <3>1, <3>4
      <4>2. /\ letter'[l].at = "failed" /\ letter'[l].kind = q.kind /\ letter'[l].secret = q.secret
            /\ letter'[l].by = q.by /\ letter'[l].when = q.when
        BY <3>1, <3>4, <4>1 DEF Letter, Unsent
      <4>. QED  BY <3>1, <3>2, <3>4, <4>2 DEF LetterSound, SignedWithAll
    <3>. QED  BY <3>3, <3>4
  <2>. QED  BY <2>3, <2>4, <2>5, <2>6 DEF SecretsInv, LettersSound
<1>6. ASSUME NEW r \in Rotators, ReadSecret(r) PROVE SecretsInv'
  <2>1. /\ rotator' = [rotator EXCEPT ![r] = [at |-> "read", secret |-> endpoint.secret]]
        /\ UNCHANGED <<now, endpoint, letter, given, crossed>>
    BY <1>6 DEF ReadSecret
  <2>2. EndpointsShape'
    BY <2>1 DEF SecretsInv, EndpointsShape, Rows
  <2>3. History' /\ EndpointSound'
    BY <2>1 DEF SecretsInv, History, EndpointSound, RowSound, Secrets, Latest, Replaced
  <2>. QED  BY <2>1, <2>2, <2>3, NoLetter, SameGrown DEF SecretsInv
<1>7. ASSUME NEW r \in Rotators, Rotate(r) PROVE SecretsInv'
  BY <1>7, RotateKeeps
<1>8. ASSUME NEW l \in Letters, Fire(l) \/ Test(l) \/ SendAgain(l) \/ RetryByHand(l) PROVE SecretsInv'
  <2>1. PICK kind \in {"delivery", "test", "replay", "manual"} :
          Read(l, kind) /\ (kind \in {"delivery", "test"} => RowSound(endpoint))
    BY <1>8 DEF Fire, Test, SendAgain, RetryByHand, SecretsInv, EndpointSound
  <2>. DEFINE q == [at |-> "read", kind |-> kind, row |-> endpoint]
  <2>2. letter' = [letter EXCEPT ![l] = q] /\ UNCHANGED <<now, endpoint, rotator, given, crossed>>
    BY <2>1 DEF Read
  <2>3. q \in Letter /\ LetterSound(q)
    BY <2>1 DEF SecretsInv, EndpointsShape, Letter, LetterSound
  <2>. QED  BY <2>2, <2>3, OneLetter
<1>9. ASSUME NEW l \in Letters, Sign(l) PROVE SecretsInv'
  BY <1>9, SignKeeps
<1>10. ASSUME NEW l \in Letters, Arrive(l) \/ Fail(l) PROVE SecretsInv'
  <2>1. PICK end \in {"arrived", "queued", "failed"} :
          /\ letter' = [letter EXCEPT ![l].at = end] /\ letter[l].at \in {"signed", "queued"}
          /\ UNCHANGED <<now, endpoint, rotator, given, crossed>>
    BY <1>10 DEF Arrive, Fail
  <2>. DEFINE q == [letter[l] EXCEPT !.at = end]
  <2>2. letter[l] \in Letter /\ LetterSound(letter[l])
    BY DEF SecretsInv, EndpointsShape, LettersSound
  <2>3. /\ q \in Letter /\ q.at = end /\ q.kind = letter[l].kind /\ q.secret = letter[l].secret
        /\ q.by = letter[l].by /\ q.when = letter[l].when
    BY <2>1, <2>2 DEF Letter, Unsent
  <2>4. LetterSound(q)
    BY <2>1, <2>2, <2>3 DEF LetterSound, SignedWithAll
  <2>5. letter' = [letter EXCEPT ![l] = q]
    BY <2>1
  <2>. QED  BY <2>1, <2>3, <2>4, <2>5, OneLetter
<1>. QED  BY <1>1, <1>2, <1>3, <1>4, <1>5, <1>6, <1>7, <1>8, <1>9, <1>10 DEF EndpointsNext

(* Every delivery and every test that arrives was signed with all secrets   *)
(* that counted and with no other, while rotations neither overlap nor      *)
(* follow within the grace (rotate_secret of routers/webhooks.py and        *)
(* build_signature_header of core/webhooks.py).                             *)
THEOREM SecretsSafe == EndpointsSpec => []SecretsKept
<1>1. EndpointsSpec => []SecretsInv
  BY SecretsInvInit, SecretsInvNext, PTL DEF EndpointsSpec
<1>2. SecretsInv => SecretsKept
  BY DEF SecretsInv, LettersSound, LetterSound, SignedWithAll, SecretsKept, Arrived
<1>. QED  BY <1>1, <1>2, PTL

---------------------------------------------------------------------------
(* Notices *)

DigestShape ==
  /\ day \in Nat
  /\ digest \in [Replicas -> [kind : Digests \cup {"none"}, to : SUBSET Subscribers]]
  /\ \A p \in Replicas : digest[p].kind = "none" => digest[p] = NotSending
  /\ mailed \in [Replicas -> [Digests -> Int]]
  /\ mails \in [Digests -> [Subscribers -> Nat]]
  /\ upset \in [today : Nat, ever : Nat]

(* A mail of today, or one that a replica has still to send, is of a        *)
(* replica that has sent the digest or is at it, or of one of the upsets.  *)
Took(k) == {p \in Replicas : Sent(p, k) \/ digest[p].kind = k}
Awaits(k, u) == {p \in Replicas : digest[p].kind = k /\ u \in digest[p].to}
Posted(k, u) == mails[k][u] + Cardinality(Awaits(k, u)) <= Cardinality(Took(k)) + upset.today
MailsCounted == \A k \in Digests, u \in Subscribers : Posted(k, u)

MailInv == DigestShape /\ MailsCounted

LEMMA ReplicasCounted ==
  ASSUME NEW S \in SUBSET Replicas, NEW T \in SUBSET S
  PROVE  /\ IsFiniteSet(S) /\ Cardinality(S) \in Nat /\ Cardinality(S) <= Cardinality(Replicas)
         /\ Cardinality(T) \in Nat /\ Cardinality(T) <= Cardinality(S)
<1>1. IsFiniteSet(S) /\ Cardinality(S) <= Cardinality(Replicas)
  BY NoticesAssumption, FS_Subset
<1>2. IsFiniteSet(T) /\ Cardinality(T) <= Cardinality(S)
  BY <1>1, FS_Subset
<1>. QED  BY <1>1, <1>2, FS_CardinalityType

LEMMA ReplicaOfTwo ==
  ASSUME NEW S \in SUBSET Replicas, NEW p \in Replicas
  PROVE  /\ p \notin S => Cardinality(S \cup {p}) = Cardinality(S) + 1
         /\ p \in S => Cardinality(S \ {p}) = Cardinality(S) - 1
         /\ Cardinality(S \ {p}) >= Cardinality(S) - 1
<1>1. IsFiniteSet(S) /\ Cardinality(S) \in Nat
  BY ReplicasCounted
<1>2. p \notin S => Cardinality(S \cup {p}) = Cardinality(S) + 1
  BY <1>1, FS_AddElement
<1>3. Cardinality(S \ {p}) = IF p \in S THEN Cardinality(S) - 1 ELSE Cardinality(S)
  BY <1>1, FS_RemoveElement
<1>. QED  BY <1>1, <1>2, <1>3

LEMMA TookAwaits ==
  ASSUME NEW k, NEW u
  PROVE  /\ Took(k) \in SUBSET Replicas /\ Awaits(k, u) \in SUBSET Replicas
         /\ Cardinality(Took(k)) \in Nat /\ Cardinality(Awaits(k, u)) \in Nat
<1>1. Took(k) \in SUBSET Replicas /\ Awaits(k, u) \in SUBSET Replicas
  BY DEF Took, Awaits
<1>. QED  BY <1>1, ReplicasCounted

(* The same for the state that a step leads to.                            *)
LEMMA TookAwaitsNext ==
  ASSUME NEW k, NEW u
  PROVE  /\ Took(k)' \in SUBSET Replicas /\ Awaits(k, u)' \in SUBSET Replicas
         /\ Cardinality(Took(k)') \in Nat /\ Cardinality(Awaits(k, u)') \in Nat
<1>1. Took(k)' \in SUBSET Replicas /\ Awaits(k, u)' \in SUBSET Replicas
  BY DEF Took, Awaits
<1>. QED  BY <1>1, ReplicasCounted

LEMMA MailInvInit == NoticesInit => MailInv
<1>. SUFFICES ASSUME NoticesInit PROVE MailInv
  OBVIOUS
<1>1. DigestShape
  BY DEF NoticesInit, DigestShape, NotSending, Mailless
<1>2. ASSUME NEW k \in Digests, NEW u \in Subscribers PROVE Posted(k, u)
  <2>1. Awaits(k, u) = {} /\ mails[k][u] = 0 /\ upset.today = 0
    BY DEF NoticesInit, Awaits, NotSending, Mailless
  <2>. QED  BY <2>1, TookAwaits, FS_EmptySet DEF Posted
<1>. QED  BY <1>1, <1>2 DEF MailInv, MailsCounted

LEMMA MailInvNext == MailInv /\ [NoticesNext]_noticeVars => MailInv'
<1>. SUFFICES ASSUME MailInv, [NoticesNext]_noticeVars PROVE MailInv'
  OBVIOUS
<1>. USE DEF MailInv
<1>1. ASSUME UNCHANGED <<day, digest, mailed, mails, upset>> PROVE MailInv'
  <2>1. DigestShape'
    BY <1>1 DEF DigestShape
  <2>2. \A k \in Digests, u \in Subscribers : Took(k)' = Took(k) /\ Awaits(k, u)' = Awaits(k, u)
    BY <1>1 DEF Took, Awaits, Sent
  <2>. QED  BY <1>1, <2>1, <2>2 DEF MailsCounted, Posted
<1>2. CASE Time
  <2>1. CASE day' = day
    <3>1. UNCHANGED <<day, digest, mailed, mails, upset>>
      BY <1>2, <2>1 DEF Time, Pass, DigestShape
    <3>. QED  BY <1>1, <3>1
  <2>2. CASE day' # day
    <3>1. /\ \A p \in Replicas : digest[p] = NotSending
          /\ day' = day + 1 /\ mails' = Mailless /\ upset' = [upset EXCEPT !.today = 0]
          /\ UNCHANGED <<digest, mailed>>
      BY <1>2, <2>2 DEF Time, Pass
    <3>2. DigestShape'
      BY <3>1 DEF DigestShape, Mailless
    <3>3. ASSUME NEW k \in Digests, NEW u \in Subscribers PROVE Posted(k, u)'
      <4>1. Awaits(k, u)' = {} /\ mails'[k][u] = 0 /\ upset'.today = 0
        BY <3>1 DEF Awaits, NotSending, Mailless, DigestShape
      <4>. QED  BY <4>1, TookAwaitsNext, FS_EmptySet DEF Posted
    <3>. QED  BY <3>2, <3>3 DEF MailsCounted
  <2>. QED  BY <2>1, <2>2
<1>3. ASSUME NEW k \in Digests, NEW asked \in SUBSET Subscribers, Mailed(k, asked) PROVE MailInv'
  <2>1. PICK S \in SUBSET asked :
          mails' = [mails EXCEPT ![k] = [u \in Subscribers |-> @[u] + IF u \in S THEN 1 ELSE 0]]
    BY <1>3 DEF Mailed
  <2>2. upset' = [today |-> upset.today + 1, ever |-> upset.ever + 1] /\ UNCHANGED <<day, digest, mailed>>
    BY <1>3 DEF Mailed, Upset
  <2>3. \A l \in Digests, u \in Subscribers : mails'[l][u] \in Nat /\ mails'[l][u] <= mails[l][u] + 1
    BY <2>1 DEF DigestShape
  <2>4. mails' \in [Digests -> [Subscribers -> Nat]]
    BY <2>1 DEF DigestShape
  <2>5. DigestShape'
    BY <2>2, <2>4 DEF DigestShape
  <2>6. ASSUME NEW l \in Digests, NEW u \in Subscribers PROVE Posted(l, u)'
    <3>1. Took(l)' = Took(l) /\ Awaits(l, u)' = Awaits(l, u)
      BY <2>2 DEF Took, Awaits, Sent
    <3>2. Posted(l, u) /\ mails[l][u] \in Nat /\ upset.today \in Nat /\ upset'.today = upset.today + 1
      BY <2>2 DEF MailsCounted, DigestShape
    <3>. QED  BY <2>3, <3>1, <3>2, TookAwaits DEF Posted
  <2>. QED  BY <2>5, <2>6 DEF MailsCounted
<1>4. ASSUME NEW u \in Subscribers, Receive(u) \/ \E f \in Frequencies : Prefer(u, f) PROVE MailInv'
  BY <1>1, <1>4 DEF Receive, Prefer
<1>5. ASSUME NEW p \in Replicas, NEW k \in Digests, Prepare(p, k) PROVE MailInv'
  <2>1. /\ digest[p] = NotSending /\ ~Sent(p, k)
        /\ digest' = [digest EXCEPT ![p] = [kind |-> k, to |-> Readers(k)]]
        /\ Readers(k) \in SUBSET Subscribers
        /\ UNCHANGED <<day, mailed, mails, upset>>
    BY <1>5 DEF Prepare, Readers
  <2>2. DigestShape'
    BY <2>1 DEF DigestShape, Digests
  <2>3. ASSUME NEW l \in Digests, NEW u \in Subscribers PROVE Posted(l, u)'
    <3>1. Posted(l, u) /\ mails[l][u] \in Nat /\ upset.today \in Nat
      BY DEF MailsCounted, DigestShape
    <3>2. CASE l = k
      <4>1. Took(k)' = Took(k) \cup {p} /\ p \notin Took(k)
        BY <2>1 DEF DigestShape, Took, Sent, NotSending, Digests
      <4>2. Awaits(k, u)' \in {Awaits(k, u), Awaits(k, u) \cup {p}} /\ p \notin Awaits(k, u)
        BY <2>1 DEF DigestShape, Awaits, NotSending, Digests
      <4>3. Cardinality(Took(k)') = Cardinality(Took(k)) + 1
        BY <4>1, TookAwaits, ReplicaOfTwo
      <4>4. Cardinality(Awaits(k, u)') <= Cardinality(Awaits(k, u)) + 1
        BY <4>2, TookAwaits, ReplicaOfTwo
      <4>. QED  BY <2>1, <3>1, <3>2, <4>3, <4>4, TookAwaits, TookAwaitsNext DEF Posted
    <3>3. CASE l # k
      <4>1. Took(l)' = Took(l) /\ Awaits(l, u)' = Awaits(l, u)
        BY <2>1, <3>3 DEF DigestShape, Took, Awaits, Sent, NotSending, Digests
      <4>. QED  BY <2>1, <3>1, <4>1 DEF Posted
    <3>. QED  BY <3>2, <3>3
  <2>. QED  BY <2>2, <2>3 DEF MailsCounted
<1>6. ASSUME NEW p \in Replicas, NEW u \in Subscribers, Send(p, u) PROVE MailInv'
  <2>. DEFINE k == digest[p].kind
  <2>1. /\ u \in digest[p].to
        /\ digest' = [digest EXCEPT ![p].to = @ \ {u}]
        /\ mails' \in {mails, [mails EXCEPT ![k][u] = @ + 1]}
        /\ UNCHANGED <<day, mailed, upset>>
    BY <1>6 DEF Send
  <2>2. k \in Digests
    BY <2>1 DEF DigestShape, NotSending
  <2>3. mails' \in [Digests -> [Subscribers -> Nat]] /\ mails'[k][u] <= mails[k][u] + 1
        /\ \A l \in Digests, v \in Subscribers : l # k \/ v # u => mails'[l][v] = mails[l][v]
    <3>1. CASE mails' = mails
      BY <2>2, <3>1 DEF DigestShape
    <3>2. CASE mails' = [mails EXCEPT ![k][u] = @ + 1]
      BY <2>2, <3>2 DEF DigestShape
    <3>. QED  BY <2>1, <3>1, <3>2
  <2>4. DigestShape'
    BY <2>1, <2>2, <2>3 DEF DigestShape, NotSending, Digests
  <2>5. ASSUME NEW l \in Digests, NEW v \in Subscribers PROVE Posted(l, v)'
    <3>1. Posted(l, v) /\ mails[l][v] \in Nat /\ mails'[l][v] \in Nat /\ upset.today \in Nat
      BY <2>3 DEF MailsCounted, DigestShape
    <3>2. Took(l)' = Took(l)
      BY <2>1 DEF DigestShape, Took, Sent
    <3>3. CASE l = k /\ v = u
      <4>1. Awaits(k, u)' = Awaits(k, u) \ {p} /\ p \in Awaits(k, u)
        BY <2>1 DEF DigestShape, Awaits
      <4>2. Cardinality(Awaits(k, u)') = Cardinality(Awaits(k, u)) - 1
        BY <4>1, TookAwaits, ReplicaOfTwo
      <4>. QED  BY <2>1, <2>3, <3>1, <3>2, <3>3, <4>2, TookAwaits DEF Posted
    <3>4. CASE l # k \/ v # u
      <4>1. Awaits(l, v)' = Awaits(l, v)
        BY <2>1, <3>4 DEF DigestShape, Awaits
      <4>. QED  BY <2>1, <2>3, <3>1, <3>2, <3>4, <4>1 DEF Posted
    <3>. QED  BY <3>3, <3>4
  <2>. QED  BY <2>4, <2>5 DEF MailsCounted
<1>7. ASSUME NEW p \in Replicas, Remember(p) PROVE MailInv'
  <2>. DEFINE k == digest[p].kind
  <2>1. /\ k \in Digests /\ digest[p].to = {}
        /\ mailed' = [mailed EXCEPT ![p][k] = day] /\ digest' = [digest EXCEPT ![p] = NotSending]
        /\ UNCHANGED <<day, mails, upset>>
    BY <1>7 DEF Remember, DigestShape
  <2>2. DigestShape'
    <3>1. mailed' \in [Replicas -> [Digests -> Int]]
      BY <2>1 DEF DigestShape
    <3>. QED  BY <2>1, <3>1 DEF DigestShape, NotSending
  <2>3. ASSUME NEW l \in Digests, NEW u \in Subscribers
        PROVE  Took(l)' = Took(l) /\ Awaits(l, u)' = Awaits(l, u)
    <3>1. \A o \in Replicas : (Sent(o, l) \/ digest[o].kind = l)' = (Sent(o, l) \/ digest[o].kind = l)
      BY <2>1 DEF DigestShape, Sent, NotSending, Digests
    <3>2. \A o \in Replicas : (digest[o].kind = l /\ u \in digest[o].to)' = (digest[o].kind = l /\ u \in digest[o].to)
      BY <2>1 DEF DigestShape, NotSending
    <3>. QED  BY <3>1, <3>2, Zenon DEF Took, Awaits
  <2>. QED  BY <2>1, <2>2, <2>3 DEF MailsCounted, Posted
<1>8. ASSUME NEW p \in Replicas,
             Upset, digest' = [digest EXCEPT ![p] = NotSending], UNCHANGED <<day, mails>>,
             mailed' \in {mailed, [mailed EXCEPT ![p] = [k \in Digests |-> -1]]}
      PROVE  MailInv'
  <2>1. upset' = [today |-> upset.today + 1, ever |-> upset.ever + 1]
    BY <1>8 DEF Upset
  <2>2. DigestShape'
    <3>1. mailed' \in [Replicas -> [Digests -> Int]]
      <4>1. [k \in Digests |-> -1] \in [Digests -> Int]
        OBVIOUS
      <4>. QED  BY <1>8, <4>1 DEF DigestShape
    <3>2. upset' \in [today : Nat, ever : Nat]
      BY <2>1 DEF DigestShape
    <3>3. /\ digest' \in [Replicas -> [kind : Digests \cup {"none"}, to : SUBSET Subscribers]]
          /\ \A o \in Replicas : digest'[o].kind = "none" => digest'[o] = NotSending
      BY <1>8 DEF DigestShape, NotSending
    <3>. QED  BY <1>8, <3>1, <3>2, <3>3 DEF DigestShape
  <2>3. ASSUME NEW l \in Digests, NEW u \in Subscribers PROVE Posted(l, u)'
    <3>1. Posted(l, u) /\ mails[l][u] \in Nat /\ upset.today \in Nat
      BY DEF MailsCounted, DigestShape
    <3>2. Took(l) \ {p} \in SUBSET Took(l)' /\ Awaits(l, u)' \in SUBSET Awaits(l, u)
      BY <1>8 DEF DigestShape, Took, Awaits, Sent, NotSending, Digests
    <3>3. Cardinality(Took(l)') >= Cardinality(Took(l)) - 1
      <4>1. Cardinality(Took(l) \ {p}) >= Cardinality(Took(l)) - 1
        BY TookAwaits, ReplicaOfTwo
      <4>. DEFINE rest == Took(l) \ {p}
                  later == Took(l)'
      <4>0. later \in SUBSET Replicas /\ rest \in SUBSET later
        BY <3>2, TookAwaitsNext
      <4>. HIDE DEF rest, later
      <4>2. Cardinality(rest) <= Cardinality(later) /\ Cardinality(rest) \in Nat
        BY <4>0, ReplicasCounted
      <4>3. Cardinality(later) >= Cardinality(Took(l)) - 1 /\ later = Took(l)'
        <5>1. Cardinality(rest) >= Cardinality(Took(l)) - 1
          BY <4>1 DEF rest
        <5>2. Cardinality(later) \in Nat /\ Cardinality(Took(l)) \in Nat
          BY TookAwaits, TookAwaitsNext DEF later
        <5>. QED  BY <4>2, <5>1, <5>2 DEF later
      <4>. QED  BY <4>3
    <3>4. Cardinality(Awaits(l, u)') <= Cardinality(Awaits(l, u))
      BY <3>2, TookAwaits, ReplicasCounted
    <3>5. mails'[l][u] = mails[l][u] /\ upset'.today = upset.today + 1
      BY <1>8, <2>1
    <3>. QED  BY <3>1, <3>3, <3>4, <3>5, TookAwaits, TookAwaitsNext DEF Posted
  <2>. QED  BY <2>2, <2>3 DEF MailsCounted
<1>9. CASE DigestNext
  <2>1. Mailed("weekly", Subscribers) \/ Mailed("daily", {u \in Subscribers : frequency[u] = "daily"}) => MailInv'
    BY <1>3 DEF Digests
  <2>2. ASSUME NEW p \in Replicas, DigestFails(p) PROVE MailInv'
    BY <1>8, <2>2 DEF DigestFails
  <2>. QED  BY <1>4, <1>5, <1>6, <1>7, <1>9, <2>1, <2>2 DEF DigestNext, TriggerWeekly, TriggerDaily
<1>10. ASSUME NEW p \in Replicas, Restart(p) PROVE MailInv'
  BY <1>8, <1>10 DEF Restart
<1>11. CASE WatchNext
  BY <1>1, <1>11 DEF WatchNext, digestVars, Watch, Unwatch, Reopen, ReadWatches, Alert
<1>12. CASE UNCHANGED noticeVars
  BY <1>1, <1>12 DEF noticeVars, digestVars
<1>. QED  BY <1>2, <1>9, <1>10, <1>11, <1>12 DEF NoticesNext

(* An alert is remembered by its row as long as the row is there, and what  *)
(* a sweep is to alert was not alerted since midnight, but by a sweep that  *)
(* overtook it.                                                             *)
SweepRow == [at : {"read"}, rows : SUBSET Watches, since : Nat, lost : BOOLEAN, overtaken : SUBSET Watches]
WatchInv ==
  /\ day \in Nat
  /\ watch \in [Watches -> [there : BOOLEAN, notified : Int]]
  /\ sweep \in [Replicas -> {NoSweep} \cup SweepRow]
  /\ alerted = [i \in Watches |-> watch[i].notified]
  /\ \A i \in Watches : ~watch[i].there => watch[i].notified = Long
  /\ \A p \in Replicas : sweep[p].at = "read" /\ ~sweep[p].lost =>
       /\ \A i \in sweep[p].rows \ sweep[p].overtaken : alerted[i] < sweep[p].since
       /\ \A i \in sweep[p].rows : watch[i].there
  /\ early = {}

LEMMA WatchInvInit == NoticesInit => WatchInv
BY DEF NoticesInit, WatchInv, NotWatched, NoSweep, Long

LEMMA WatchInvNext == WatchInv /\ [NoticesNext]_noticeVars => WatchInv'
<1>. SUFFICES ASSUME WatchInv, [NoticesNext]_noticeVars PROVE WatchInv'
  OBVIOUS
<1>. USE DEF WatchInv
<1>1. ASSUME UNCHANGED watchVars, day' \in Nat PROVE WatchInv'
  BY <1>1 DEF watchVars
<1>2. CASE Time
  BY <1>1, <1>2 DEF Time, Pass
<1>3. CASE DigestNext
  <2>1. UNCHANGED <<day, watchVars>>
    BY <1>3, Zenon DEF DigestNext, TriggerWeekly, TriggerDaily, Mailed, Receive, Prefer, Prepare, Send, Remember,
       DigestFails
  <2>. QED  BY <1>1, <2>1
<1>4. ASSUME NEW i \in Watches, Watch(i) PROVE WatchInv'
  <2>. DEFINE new == [there |-> TRUE, notified |-> Long]
  <2>1. watch' = [watch EXCEPT ![i] = new] /\ ~watch[i].there /\ UNCHANGED <<day, sweep, alerted, early>>
    BY <1>4 DEF Watch
  <2>2. new.there /\ new.notified = Long /\ new \in [there : BOOLEAN, notified : Int] /\ watch[i].notified = Long
    BY <2>1 DEF Long
  <2>. HIDE DEF new
  <2>3. /\ watch' \in [Watches -> [there : BOOLEAN, notified : Int]]
        /\ \A j \in Watches : watch'[j].notified = watch[j].notified /\ (watch[j].there => watch'[j].there)
        /\ \A j \in Watches : ~watch'[j].there => watch'[j].notified = Long
    BY <2>1, <2>2
  <2>4. \A p \in Replicas : sweep[p].at = "read" => sweep[p].rows \in SUBSET Watches
    BY DEF SweepRow, NoSweep
  <2>. QED  BY <2>1, <2>3, <2>4
<1>5. ASSUME NEW i \in Watches, Unwatch(i) PROVE WatchInv'
  <2>1. /\ watch' = [watch EXCEPT ![i] = NotWatched] /\ alerted' = [alerted EXCEPT ![i] = Long]
        /\ UNCHANGED <<day, early>>
    BY <1>5 DEF Unwatch
  <2>2. /\ watch' \in [Watches -> [there : BOOLEAN, notified : Int]]
        /\ alerted' = [j \in Watches |-> watch'[j].notified]
        /\ \A j \in Watches : j # i => alerted'[j] = alerted[j] /\ watch'[j] = watch[j]
        /\ \A j \in Watches : ~watch'[j].there => watch'[j].notified = Long
    BY <2>1 DEF NotWatched, Long
  <2>3. ASSUME NEW p \in Replicas
        PROVE  /\ sweep'[p] \in {NoSweep} \cup SweepRow
               /\ sweep'[p].at = "read" /\ ~sweep'[p].lost => sweep'[p] = sweep[p] /\ i \notin sweep[p].rows
    <3>1. CASE sweep[p].at = "read" /\ i \in sweep[p].rows
      <4>1. sweep[p] \in SweepRow /\ sweep'[p] = [sweep[p] EXCEPT !.lost = TRUE]
        BY <1>5, <3>1 DEF Unwatch, NoSweep
      <4>. QED  BY <4>1 DEF SweepRow
    <3>2. CASE ~(sweep[p].at = "read" /\ i \in sweep[p].rows)
      BY <1>5, <3>2 DEF Unwatch
    <3>. QED  BY <3>1, <3>2
  <2>4. sweep' \in [Replicas -> {NoSweep} \cup SweepRow]
    BY <1>5, <2>3 DEF Unwatch
  <2>5. ASSUME NEW p \in Replicas, sweep'[p].at = "read", ~sweep'[p].lost,
               NEW j \in sweep'[p].rows \ sweep'[p].overtaken
        PROVE  alerted'[j] < sweep'[p].since
    <3>1. sweep[p] \in SweepRow /\ sweep'[p] = sweep[p] /\ j # i /\ j \in Watches
      BY <2>3, <2>5 DEF NoSweep, SweepRow
    <3>. QED  BY <2>2, <2>5, <3>1
  <2>6. ASSUME NEW p \in Replicas, sweep'[p].at = "read", ~sweep'[p].lost, NEW j \in sweep'[p].rows
        PROVE  watch'[j].there
    <3>1. sweep[p] \in SweepRow /\ sweep'[p] = sweep[p] /\ j # i /\ j \in Watches
      BY <2>3, <2>6 DEF NoSweep, SweepRow
    <3>. QED  BY <2>2, <2>6, <3>1
  <2>. QED  BY <2>1, <2>2, <2>4, <2>5, <2>6
<1>6. ASSUME NEW i \in Watches, Reopen(i) PROVE WatchInv'
  BY <1>6 DEF Reopen, digestVars
<1>7. ASSUME NEW p \in Replicas, ReadWatches(p) PROVE WatchInv'
  <2>. DEFINE s == [at |-> "read", rows |-> {i \in Watches : Due(i)}, since |-> day,
                    lost |-> FALSE, overtaken |-> {}]
  <2>1. sweep' = [sweep EXCEPT ![p] = s] /\ UNCHANGED <<day, watch, alerted, early>>
    BY <1>7 DEF ReadWatches, digestVars
  <2>2. /\ s \in SweepRow /\ \A i \in s.rows \ s.overtaken : alerted[i] < s.since
        /\ \A i \in s.rows : watch[i].there
    BY DEF SweepRow, Due
  <2>. QED  BY <2>1, <2>2
<1>8. ASSUME NEW p \in Replicas, Alert(p) PROVE WatchInv'
  <2>. DEFINE s == sweep[p]
  <2>1. s \in SweepRow /\ s.at = "read" /\ UNCHANGED day
    BY <1>8 DEF Alert, NoSweep
  <2>2. ASSUME NEW o \in Replicas
        PROVE  /\ sweep'[o] \in {NoSweep} \cup SweepRow
               /\ sweep'[o].at = "read" => /\ sweep[o].at = "read" /\ sweep[o] \in SweepRow
                                           /\ sweep'[o].lost = sweep[o].lost /\ sweep'[o].rows = sweep[o].rows
                                           /\ sweep'[o].since = sweep[o].since
                                           /\ sweep'[o].overtaken = IF s.lost THEN sweep[o].overtaken
                                                                    ELSE sweep[o].overtaken \cup s.rows
    <3>1. CASE o = p
      BY <1>8, <3>1 DEF Alert, NoSweep
    <3>2. CASE o # p /\ ~s.lost /\ sweep[o].at = "read"
      <4>1. sweep[o] \in SweepRow /\ sweep'[o] = [sweep[o] EXCEPT !.overtaken = @ \cup s.rows]
        BY <1>8, <3>2 DEF Alert, NoSweep
      <4>. QED  BY <2>1, <3>2, <4>1 DEF SweepRow
    <3>3. CASE o # p /\ ~(~s.lost /\ sweep[o].at = "read")
      BY <1>8, <2>1, <3>3 DEF Alert, NoSweep, SweepRow
    <3>. QED  BY <3>1, <3>2, <3>3
  <2>3. sweep' \in [Replicas -> {NoSweep} \cup SweepRow]
    BY <1>8, <2>2 DEF Alert
  <2>4. CASE s.lost
    <3>1. UNCHANGED <<watch, alerted, early>>
      BY <1>8, <2>4 DEF Alert
    <3>2. ASSUME NEW o \in Replicas, sweep'[o].at = "read", ~sweep'[o].lost
          PROVE  /\ \A i \in sweep'[o].rows \ sweep'[o].overtaken : alerted'[i] < sweep'[o].since
                 /\ \A i \in sweep'[o].rows : watch'[i].there
      BY <2>2, <2>4, <3>1, <3>2
    <3>. QED  BY <2>1, <2>3, <3>1, <3>2
  <2>5. CASE ~s.lost
    <3>1. /\ watch' = Notified(s) /\ alerted' = [i \in Watches |-> IF i \in s.rows THEN s.since ELSE alerted[i]]
          /\ early' = early \cup {i \in s.rows \ s.overtaken : alerted[i] = s.since}
      BY <1>8, <2>5 DEF Alert
    <3>2. early' = {}
      <4>1. \A i \in s.rows \ s.overtaken : alerted[i] < s.since /\ alerted[i] # s.since
        <5>. SUFFICES ASSUME NEW i \in s.rows \ s.overtaken PROVE alerted[i] < s.since /\ alerted[i] # s.since
          OBVIOUS
        <5>1. i \in Watches /\ s.since \in Int
          BY <2>1 DEF SweepRow
        <5>2. alerted[i] < s.since
          BY <2>1, <2>5
        <5>3. alerted[i] \in Int
          BY <5>1
        <5>. QED  BY <5>1, <5>2, <5>3
      <4>. QED  BY <3>1, <4>1
    <3>3. /\ watch' \in [Watches -> [there : BOOLEAN, notified : Int]]
          /\ alerted' = [i \in Watches |-> watch'[i].notified]
          /\ \A i \in Watches : watch'[i].there = watch[i].there
          /\ \A i \in Watches : ~watch'[i].there => watch'[i].notified = Long
      <4>1. s.since \in Int /\ s.rows \in SUBSET Watches /\ \A i \in s.rows : watch[i].there
        BY <2>1, <2>5 DEF SweepRow
      <4>2. ASSUME NEW i \in Watches
            PROVE  /\ watch'[i] \in [there : BOOLEAN, notified : Int] /\ watch'[i].there = watch[i].there
                   /\ watch'[i].notified = IF i \in s.rows THEN s.since ELSE watch[i].notified
        BY <3>1, <4>1 DEF Notified
      <4>3. watch' \in [Watches -> [there : BOOLEAN, notified : Int]]
        BY <3>1, <4>2 DEF Notified
      <4>. QED  BY <3>1, <4>1, <4>2, <4>3
    <3>4. ASSUME NEW o \in Replicas, sweep'[o].at = "read", ~sweep'[o].lost,
                 NEW i \in sweep'[o].rows \ sweep'[o].overtaken
          PROVE  alerted'[i] < sweep'[o].since
      BY <2>2, <2>5, <3>1, <3>4 DEF SweepRow
    <3>5. ASSUME NEW o \in Replicas, sweep'[o].at = "read", ~sweep'[o].lost, NEW i \in sweep'[o].rows
          PROVE  watch'[i].there
      BY <2>2, <2>5, <3>3, <3>5 DEF SweepRow
    <3>. QED  BY <2>1, <2>3, <3>2, <3>3, <3>4, <3>5
  <2>. QED  BY <2>1, <2>4, <2>5 DEF SweepRow
<1>9. CASE WatchNext
  BY <1>4, <1>5, <1>6, <1>7, <1>8, <1>9 DEF WatchNext
<1>10. ASSUME NEW p \in Replicas, Restart(p) PROVE WatchInv'
  BY <1>10 DEF Restart, NoSweep
<1>11. CASE UNCHANGED noticeVars
  BY <1>1, <1>11 DEF noticeVars
<1>. QED  BY <1>2, <1>3, <1>9, <1>10, <1>11 DEF NoticesNext

(* For any replicas, users and watched tasks, with restarts, failures and   *)
(* digests ordered by an administrator: nobody is mailed more often than    *)
(* there are replicas and such upsets, and no task is alerted twice a day   *)
(* by sweeps that do not overlap.                                          *)
THEOREM NoticesSound == NoticesSpec => []NoticesKept
<1>1. NoticesInit => MailInv /\ WatchInv
  BY MailInvInit, WatchInvInit
<1>2. MailInv /\ WatchInv /\ [NoticesNext]_noticeVars => (MailInv /\ WatchInv)'
  BY MailInvNext, WatchInvNext
<1>3. MailInv /\ WatchInv => NoticesKept
  <2>. SUFFICES ASSUME MailInv, NEW k \in Digests, NEW u \in Subscribers
                PROVE  mails[k][u] <= Cardinality(Replicas) + upset.today
    BY DEF WatchInv, NoticesKept
  <2>1. /\ Posted(k, u) /\ mails[k][u] \in Nat /\ upset.today \in Nat
        /\ Cardinality(Took(k)) <= Cardinality(Replicas) /\ Cardinality(Replicas) \in Nat
    BY TookAwaits, ReplicasCounted, NoticesAssumption, FS_CardinalityType DEF MailInv, MailsCounted, DigestShape
  <2>. QED  BY <2>1, TookAwaits DEF Posted
<1>. QED  BY <1>1, <1>2, <1>3, PTL DEF NoticesSpec
============================================================================
