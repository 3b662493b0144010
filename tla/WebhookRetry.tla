---------------------------- MODULE WebhookRetry ----------------------------
(***************************************************************************)
(* The delivery of webhooks: one inline attempt by the coroutine that      *)
(* fires the event, and for an attempt that failed a row in                *)
(* webhook_delivery_queue, which the retry workers of the replicas poll.   *)
(*                                                                         *)
(* A poll claims its batch in one transaction (FOR UPDATE SKIP LOCKED and  *)
(* "processing"); the posts and the updates that follow are separate, and  *)
(* the worker decides on the copy of the row it claimed.                   *)
(***************************************************************************)
EXTENDS Integers, FiniteSets

CONSTANTS Deliveries,  \* (event, receiver) pairs
          Persistent,  \* those for the user's persistent endpoint
          Pollers,     \* retry workers, one per replica
          MaxRetries,  \* max_retries: attempts in all, the inline one included
          BatchSize,   \* BATCH_SIZE
          MaxFaults    \* bound on the number of faults

ASSUME PersistentAssumption == Persistent \subseteq Deliveries
ASSUME NumbersAssumption == MaxRetries \in Nat /\ MaxRetries > 1 /\ BatchSize \in Nat /\ MaxFaults \in Nat

VARIABLES inline,    \* where each delivery's first attempt is
          row,       \* each delivery's row in the queue
          batch,     \* the items each poller claimed and has not finished
          hand,      \* the item each poller posted and has not written down
          endpoint,  \* whether the persistent endpoint still exists
          counted,   \* how often the endpoint's counters counted each delivery
          posts,     \* HTTP requests sent for each delivery
          faults     \* faults so far

vars == <<inline, row, batch, hand, endpoint, counted, posts, faults>>

Outcome == {"ok", "client", "server"}  \* below 400; 4xx; 5xx or no answer at all
Inline == {"idle", "firing", "over"} \cup Outcome
RowStatus == {"none", "pending", "processing", "completed", "dead_letter"}
Row == [status: RowStatus, attempt: Nat, due: BOOLEAN, code: Outcome \cup {"none"}]
Item == [id: Deliveries, attempt: Nat]  \* a row as the poller read it
Nothing == [outcome |-> "none"]
Hand == {Nothing} \cup [item: Item, outcome: Outcome]

Counters == [{"delivery", "failure"} -> Nat]  \* delivery_count, failure_count

NoRow == [status |-> "none", attempt |-> 0, due |-> FALSE, code |-> "none"]
MaxAttempts == MaxRetries - 1

Init == /\ inline = [d \in Deliveries |-> "idle"]
        /\ row = [d \in Deliveries |-> NoRow]
        /\ batch = [p \in Pollers |-> {}]
        /\ hand = [p \in Pollers |-> Nothing]
        /\ endpoint = TRUE
        /\ counted = [d \in Deliveries |-> [k \in {"delivery", "failure"} |-> 0]]
        /\ posts = [d \in Deliveries |-> 0]
        /\ faults = 0

(* An UPDATE of the endpoint's counters; it matches nothing without one.    *)
Count(d, counter) ==
  counted' = IF d \in Persistent /\ endpoint
               THEN [counted EXCEPT ![d][counter] = @ + 1]
               ELSE counted

Sent(d) == posts' = [posts EXCEPT ![d] = @ + 1]

Fault == faults < MaxFaults /\ faults' = faults + 1

---------------------------------------------------------------------------
(* The inline attempt *)

(* An event fires the active persistent endpoints and the task's own URL.   *)
Fire(d) == /\ inline[d] = "idle"
           /\ d \in Persistent => endpoint
           /\ inline' = [inline EXCEPT ![d] = "firing"]
           /\ UNCHANGED <<row, batch, hand, endpoint, counted, posts, faults>>

InlinePost(d, o) == /\ inline[d] = "firing"
                    /\ inline' = [inline EXCEPT ![d] = o]
                    /\ Sent(d)
                    /\ UNCHANGED <<row, batch, hand, endpoint, counted, faults>>

(* The row references the endpoint: without it the INSERT fails, and that   *)
(* failure is only logged.                                                  *)
Enqueue(d) == row' = IF d \in Persistent /\ ~endpoint THEN row
                     ELSE [row EXCEPT ![d] = [status |-> "pending", attempt |-> 1,
                                              due |-> FALSE, code |-> "none"]]

InlineSettle(d) ==
  /\ \/ inline[d] = "ok"     /\ Count(d, "delivery") /\ UNCHANGED row
     \/ inline[d] = "client" /\ Count(d, "failure")  /\ UNCHANGED row
     \/ inline[d] = "server" /\ Enqueue(d)           /\ UNCHANGED counted
  /\ inline' = [inline EXCEPT ![d] = "over"]
  /\ UNCHANGED <<batch, hand, endpoint, posts, faults>>

(* The coroutine dies with its process, or what it writes last fails.       *)
InlineLost(d) == /\ inline[d] \in {"firing"} \cup Outcome
                 /\ Fault
                 /\ inline' = [inline EXCEPT ![d] = "over"]
                 /\ UNCHANGED <<row, batch, hand, endpoint, counted, posts>>

---------------------------------------------------------------------------
(* The retry worker *)

BecomeDue(d) == /\ row[d].status = "pending" /\ ~row[d].due
                /\ row' = [row EXCEPT ![d].due = TRUE]
                /\ UNCHANGED <<inline, batch, hand, endpoint, counted, posts, faults>>

DueUnfinished == {d \in Deliveries : row[d].status \notin {"none", "completed", "dead_letter"} /\ row[d].due} \* mutant
Due == {d \in Deliveries : row[d].status = "pending" /\ row[d].due}

Poll(p, D) ==
  /\ batch[p] = {}
  /\ D \subseteq Due /\ D # {}
  /\ Cardinality(D) <= BatchSize /\ (D = Due \/ Cardinality(D) = BatchSize)
  /\ row' = [d \in Deliveries |-> IF d \in D THEN [row[d] EXCEPT !.status = "processing"]
                                            ELSE row[d]]
  /\ batch' = [batch EXCEPT ![p] = {[id |-> d, attempt |-> row[d].attempt] : d \in D}]
  /\ UNCHANGED <<inline, hand, endpoint, counted, posts, faults>>

Post(p, i, o) == /\ hand[p] = Nothing
                 /\ i \in batch[p]
                 /\ hand' = [hand EXCEPT ![p] = [item |-> i, outcome |-> o]]
                 /\ Sent(i.id)
                 /\ UNCHANGED <<inline, row, batch, endpoint, counted, faults>>

PutAllAway(p) == /\ hand[p] # Nothing \* mutant
                 /\ batch' = [batch EXCEPT ![p] = {}]
                 /\ hand' = [hand EXCEPT ![p] = Nothing]
                 /\ UNCHANGED <<inline, endpoint, posts>>
(* The poller is done with the item in its hand and turns to the next. *)
PutAway(p) == /\ hand[p] # Nothing
              /\ batch' = [batch EXCEPT ![p] = @ \ {hand[p].item}]
              /\ hand' = [hand EXCEPT ![p] = Nothing]
              /\ UNCHANGED <<inline, endpoint, posts>>

ExhaustedLate(i) == i.attempt > MaxAttempts \* mutant
Exhausted(i) == i.attempt >= MaxAttempts

(* UPDATE ... WHERE id: a row that was deleted meanwhile stays deleted.     *)
Write(d, fields) == row' = IF row[d].status = "none" THEN row ELSE [row EXCEPT ![d] = fields]

Settle(p) ==
  LET i == hand[p].item
      o == hand[p].outcome
      End(status) == Write(i.id, [row[i.id] EXCEPT !.status = status, !.code = o])
  IN  /\ PutAway(p)
      /\ \/ o = "ok" /\ End("completed") /\ Count(i.id, "delivery")
         \/ /\ o = "client" \/ (o = "server" /\ Exhausted(i))
            /\ End("dead_letter") /\ Count(i.id, "failure")
         \/ /\ o = "server" /\ ~Exhausted(i)
            /\ Write(i.id, [status |-> "pending", attempt |-> i.attempt + 1, due |-> FALSE, code |-> o])
            /\ UNCHANGED counted
      /\ UNCHANGED faults

(* A SQLAlchemyError in that transaction is logged and forgotten. *)
SettleFails(p) == PutAway(p) /\ Fault /\ UNCHANGED <<row, counted>>

(* Any other exception puts the row back to pending, as due as it was.      *)
Raise(p) == /\ PutAway(p)
            /\ Fault
            /\ Write(hand[p].item.id, [row[hand[p].item.id] EXCEPT !.status = "pending"])
            /\ UNCHANGED counted

(* The worker dies with its process, or leaves its batch because the        *)
(* database cannot be reached (an OSError, not a SQLAlchemyError).          *)
PollerLost(p) == /\ batch[p] # {}
                 /\ Fault
                 /\ batch' = [batch EXCEPT ![p] = {}]
                 /\ hand' = [hand EXCEPT ![p] = Nothing]
                 /\ UNCHANGED <<inline, row, endpoint, counted, posts>>

(* ON DELETE CASCADE takes the endpoint's rows along. *)
DeleteEndpoint == /\ endpoint
                  /\ endpoint' = FALSE
                  /\ row' = [d \in Deliveries |-> IF d \in Persistent THEN NoRow ELSE row[d]]
                  /\ UNCHANGED <<inline, batch, hand, counted, posts, faults>>

---------------------------------------------------------------------------

InlineStep(d) == (\E o \in Outcome : InlinePost(d, o)) \/ InlineSettle(d)

Work(p) == (\E i \in batch[p], o \in Outcome : Post(p, i, o)) \/ Settle(p)

Next == \/ \E d \in Deliveries : Fire(d) \/ InlineStep(d) \/ InlineLost(d) \/ BecomeDue(d)
        \/ \E p \in Pollers : \/ \E D \in SUBSET Deliveries : Poll(p, D)
                              \/ Work(p) \/ SettleFails(p) \/ Raise(p) \/ PollerLost(p)
        \/ DeleteEndpoint

Spec == Init /\ [][Next]_vars

(* Coroutines run on, time passes, and every replica's worker keeps polling *)
(* and works its batch off (run_retry_worker loops for ever).               *)
LiveSpec == /\ Spec
            /\ \A d \in Deliveries : WF_vars(InlineStep(d)) /\ WF_vars(BecomeDue(d))
            /\ \A p \in Pollers : WF_vars(\E D \in SUBSET Deliveries : Poll(p, D)) /\ WF_vars(Work(p))

---------------------------------------------------------------------------
(* Properties *)

(* Every variable holds a value of its kind. *)
TypeOK == /\ inline \in [Deliveries -> Inline]
          /\ row \in [Deliveries -> Row]
          /\ batch \in [Pollers -> SUBSET Item]
          /\ hand \in [Pollers -> Hand]
          /\ endpoint \in BOOLEAN
          /\ counted \in [Deliveries -> Counters]
          /\ posts \in [Deliveries -> Nat]
          /\ faults \in 0..MaxFaults

(* A row is in at most one poller's batch, and while it is there nobody     *)
(* else changes it: it stays "processing" on the attempt the poller read,   *)
(* unless its endpoint was deleted ("prevent duplicate processing across    *)
(* replicas").                                                              *)
HeldRowsKept ==
  \A p, q \in Pollers : \A i \in batch[p], j \in batch[q] :
    /\ i.id = j.id => p = q /\ i = j
    /\ row[i.id].status = "none" \/ (row[i.id].status = "processing" /\ row[i.id].attempt = i.attempt)

Ended == {"completed", "dead_letter"}

(* A row that is completed or dead stays as it is, until it is deleted.     *)
EndedIsFinal ==
  [][\A d \in Deliveries : row[d].status \in Ended => row'[d] \in {row[d], NoRow}]_vars

WithinBudget(d) ==
  /\ posts[d] <= MaxRetries + faults
  /\ row[d].status = "dead_letter" => row[d].code = "client" \/ posts[d] >= MaxRetries

(* No delivery is posted more often than max_retries, but for once more per *)
(* fault, and none goes to the dead letters early: only on a 4xx or with    *)
(* the whole budget spent.                                                  *)
PostsBudgeted == \A d \in Deliveries : WithinBudget(d)

Counted(d) == counted[d]["delivery"] + counted[d]["failure"]

(* The endpoint counts a delivery at most once, as what it came to.         *)
CountedOnce ==
  \A d \in Persistent :
    /\ Counted(d) <= 1
    /\ endpoint => /\ row[d].status = "completed" => counted[d]["delivery"] = 1
                   /\ row[d].status = "dead_letter" => counted[d]["failure"] = 1
                   /\ row[d].status \in {"pending", "processing"} => Counted(d) = 0

(* A delivery is posted within its budget and counted once, whatever        *)
(* replicas, faults and the deletion of the endpoint do.                    *)
PostedAndCounted == PostsBudgeted /\ CountedOnce

(* Replicas share the queue without sharing a row, and what they post is    *)
(* within the budget and counted once.                                      *)
QueueKept == HeldRowsKept /\ PostedAndCounted

(* Short of faults, a row being processed is in a living poller's batch.    *)
NotAbandoned ==
  faults = 0 => \A d \in Deliveries : row[d].status = "processing" =>
                  \E p \in Pollers : \E i \in batch[p] : i.id = d

(* Short of faults, a delivery that is queued comes to an end.              *)
Delivers ==
  \A d \in Deliveries :
    [](faults = 0) => (row[d].status = "pending" ~> row[d].status \in Ended \cup {"none"})

---------------------------------------------------------------------------
(* What the source says of itself, and the code does not do *)

(* webhooks.py: "The queue survives restarts."                              *)
QueueSurvivesRestarts ==
  \A d \in Deliveries : row[d].status = "processing" ~> row[d].status # "processing"

=============================================================================
