---------------------------- MODULE StripeEvents ----------------------------
(***************************************************************************)
(* Payments into the accounts: Stripe delivers an event until it is told   *)
(* 200, and a handler logs it under its unique id before it applies it.    *)
(* Handlers of one event meet at that insert; the second waits there for   *)
(* the first to commit.  The credits land in the accounts of OrgPool.  An  *)
(* event names the customer its checkout was made for, and two checkouts   *)
(* of a user without one each make their own.                              *)
(***************************************************************************)
EXTENDS OrgPool

CONSTANTS Events,       \* checkouts of the owner, and the event each is paid with
          Handlers,     \* deliveries in progress
          Topup,        \* credits an event buys
          MaxLosses     \* bounds handlers that die, answers that are lost, and errors

ASSUME TopupAssumption == Topup \in Nat \ {0} /\ MaxLosses \in Nat /\ IsFiniteSet(Events)

VARIABLES customer, \* the owner's users.stripe_customer_id
          checkout, \* what each checkout is about to do, and for which customer
          log,      \* stripe_event_log.processed, "none" when there is no row
          handler,  \* what each delivery is about to do
          acked,    \* events Stripe was told 200 for
          applied,  \* how often the credits of an event were added
          losses

stripeVars == <<customer, checkout, log, handler, acked, applied, losses>>
vars == <<poolVars, stripeVars>>

(* A customer is named by the checkout that made it. *)
NoCustomer == "no customer"
ASSUME CustomerAssumption == NoCustomer \notin Events
Checkout == [phase: {"none", "read", "open"}, customer: Events \cup {NoCustomer}]

NoEvent == "no event"
Free == [event |-> NoEvent, phase |-> "free"]
Handler == [event: Events \cup {NoEvent}, phase: {"free", "checked", "inserted"}]

Init == /\ PoolInit
        /\ customer = NoCustomer
        /\ checkout = [e \in Events |-> [phase |-> "none", customer |-> NoCustomer]]
        /\ log = [e \in Events |-> "none"]
        /\ handler = [h \in Handlers |-> Free]
        /\ acked = {}
        /\ applied = [e \in Events |-> 0]
        /\ losses = 0

(* create_checkout reads the user without a lock, and makes a customer when *)
(* there is none.                                                          *)
CheckoutRead(e) ==
  /\ checkout[e].phase = "none"
  /\ checkout' = [checkout EXCEPT ![e] = IF customer = NoCustomer
                    THEN [phase |-> "read", customer |-> e]
                    ELSE [phase |-> "open", customer |-> customer]]
  /\ UNCHANGED <<poolVars, customer, log, handler, acked, applied, losses>>

CheckoutCommit(e) == /\ checkout[e].phase = "read"
                     /\ customer' = checkout[e].customer
                     /\ checkout' = [checkout EXCEPT ![e].phase = "open"]
                     /\ UNCHANGED <<poolVars, log, handler, acked, applied, losses>>

OnFile(e) == checkout[e].customer = customer

Lost == losses < MaxLosses /\ losses' = losses + 1
Frees(h) == handler' = [handler EXCEPT ![h] = Free]

(* Once it is paid for, Stripe sends the event, again if need be, and the  *)
(* handler looks for a processed entry.                                    *)
Deliver(h, e) == /\ handler[h] = Free
                 /\ checkout[e].phase = "open"
                 /\ e \notin acked
                 /\ IF log[e] = "processed"
                    THEN acked' = acked \cup {e} /\ handler' = handler
                    ELSE acked' = acked /\ handler' = [handler EXCEPT ![h] = [event |-> e, phase |-> "checked"]]
                 /\ UNCHANGED <<poolVars, customer, checkout, log, applied, losses>>

Inserting(e) == {h \in Handlers : handler[h] = [event |-> e, phase |-> "inserted"]}

(* The unique id lets one handler of an event go on at a time, and none    *)
(* once there is an entry.                                                 *)
NotUnique(e) == log[e] # "processed" \* mutant
Unique(e) == Inserting(e) = {} /\ log[e] = "none"

Insert(h) == /\ handler[h].phase = "checked"
             /\ Unique(handler[h].event)
             /\ handler' = [handler EXCEPT ![h].phase = "inserted"]
             /\ UNCHANGED <<poolVars, customer, checkout, log, acked, applied, losses>>

Duplicate(h) == /\ handler[h].phase = "checked"
                /\ log[handler[h].event] # "none"
                /\ acked' = acked \cup {handler[h].event}
                /\ Frees(h)
                /\ UNCHANGED <<poolVars, customer, checkout, log, applied, losses>>

Apply(e) == /\ credits' = [credits EXCEPT ![Owner] = @ + Topup]
            /\ applied' = [applied EXCEPT ![e] = @ + 1]
Skip == UNCHANGED <<credits, applied>>
Commits(h, e, st) == /\ log' = [log EXCEPT ![e] = st]
                     /\ Frees(h)
                     /\ UNCHANGED <<alive, pool, role, invite, session, stale, taskVars, customer, checkout>>

SkippedAlways(e) == TRUE \* mutant
(* The user is looked for by the customer, then by the mail address the    *)
(* payer gave, and may not be found.                                       *)
Unmatched(e) == ~OnFile(e)

(* The answer may not get through to Stripe. *)
Heard(e) == acked' = acked \cup {e} /\ losses' = losses
Unheard == acked' = acked /\ Lost

(* The entry, its outcome and the credits are one commit; an event without *)
(* a user is logged as processed like any other.                           *)
Process(h) == LET e == handler[h].event IN
              /\ handler[h].phase = "inserted"
              /\ Apply(e) \/ (Unmatched(e) /\ Skip)
              /\ Commits(h, e, "processed")
              /\ Heard(e) \/ Unheard

(* An error is logged, answered 200 all the same, and committed with what  *)
(* was done before it.                                                     *)
ProcessErrs(h) == LET e == handler[h].event IN
                  /\ handler[h].phase = "inserted"
                  /\ acked' = acked \cup {e} /\ Lost
                  /\ Apply(e) \/ Skip
                  /\ Commits(h, e, "error")

(* The handler dies with its transaction; Stripe hears nothing. *)
HandlerDies(h) == /\ handler[h] # Free
                  /\ Lost
                  /\ Frees(h)
                  /\ UNCHANGED <<poolVars, customer, checkout, log, acked, applied>>

Handling(h) == Insert(h) \/ Duplicate(h) \/ Process(h)
Stripe == \/ \E e \in Events : CheckoutRead(e) \/ CheckoutCommit(e)
          \/ \E h \in Handlers, e \in Events : Deliver(h, e)
          \/ \E h \in Handlers : Handling(h) \/ ProcessErrs(h) \/ HandlerDies(h)

Next == \/ PoolNext /\ UNCHANGED stripeVars
        \/ Stripe

Spec == Init /\ [][Next]_vars

---------------------------------------------------------------------------
(* Properties *)

(* Every variable keeps its type. *)
TypeOK == /\ PoolTypeOK
          /\ customer \in Events \cup {NoCustomer}
          /\ checkout \in [Events -> Checkout]
          /\ log \in [Events -> {"none", "processed", "error"}]
          /\ handler \in [Handlers -> Handler]
          /\ acked \subseteq Events
          /\ applied \in [Events -> Nat]
          /\ losses \in 0..MaxLosses

Bought == Topup * MapThenSumSet(LAMBDA e : applied[e], Events)
Start == MapThenSumSet(LAMBDA u : Funds[u], Users)

(* Credits come from payments only, and go nowhere but into tasks: tasks    *)
(* created, rerun, cancelled, retried, rejected, failed or torn down with   *)
(* their organisation, and transfers in any order, keep the total, except   *)
(* for a request that wrote the pool from an outdated copy.                 *)
Conserved == stale = 0 => Total = Start + Bought

(* Members, requests, tasks, payments and the deletion of an organisation,  *)
(* in any order, lose no credits, give a task's cost back when it is lost   *)
(* and only then, and leave no task or member behind.                       *)
PoolKept == Conserved /\ RefundsFit /\ OrgSound

(* However often an event is delivered, its credits are added at most      *)
(* once; exactly once when its entry says processed, unless the customer   *)
(* it was paid by is no longer the user's, as another checkout made one at *)
(* the same time; and Stripe stops delivering it only when its entry is    *)
(* committed, as processed or as an error: a handler that dies, or meets   *)
(* another at the insert, loses none.                                      *)
AppliedOnce == \A e \in Events :
  /\ applied[e] <= 1
  /\ log[e] = "processed" /\ OnFile(e) => applied[e] = 1
  /\ e \in acked => log[e] \in {"processed", "error"}
=============================================================================
