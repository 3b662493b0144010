------------------------------ MODULE Triggers -----------------------------
(* The triggers of pipelines (routers/triggers.py): a schedule's time      *)
(* comes, each replica's sweep fires the due ones under their locks, an    *)
(* owner or a webhook fires one by hand without a lock, and the owner      *)
(* edits, switches or deletes it.  Times are numbered; what a run does is  *)
(* the pipelines' (module Pipelines).                                      *)
EXTENDS Integers, FiniteSets

CONSTANTS
  Alarms,     \* schedules
  Hands,      \* requests that may be under way at once
  Sweeps,     \* replicas that sweep
  MaxTimes, MaxByHand, MaxBlurs

ASSUME TriggersAssumption == {MaxTimes, MaxByHand, MaxBlurs} \subseteq Nat

VARIABLES
  alarm,    \* the rows of pipeline_triggers: there, is_active, next_fire_at, run_count
  time,     \* the last time that came
  swept,    \* the triggers each sweep has locked, and of them those it fired
  hand,     \* requests and what they read
  started,  \* history: runs committed for each trigger, with the times they stand for
  blurs     \* history: writes decided on a row that had changed

triggerVars == <<alarm, time, swept, hand, started, blurs>>

NoHand == [with |-> "nothing"]
NoAlarm == [is |-> "none", active |-> FALSE, next |-> 0, runs |-> 0]
Rows == {a \in Alarms : alarm[a].is = "there"}
Locked == UNION {DOMAIN swept[s] : s \in Sweeps}
NextTime == time + 1

TriggersTypeOK ==
  /\ time \in 0..MaxTimes /\ blurs \in 0..MaxBlurs
  /\ \A a \in Rows : alarm[a].next \in 1..MaxTimes + 1
  /\ \A s \in Sweeps : DOMAIN swept[s] \subseteq Alarms

TriggersInit ==
  /\ alarm = [a \in Alarms |-> NoAlarm] /\ time = 0
  /\ swept = [s \in Sweeps |-> <<>>] /\ hand = [h \in Hands |-> NoHand]
  /\ started = [a \in Alarms |-> [swept |-> {}, hand |-> 0]] /\ blurs = 0

With(h, what) == hand[h].with = what
Raise(h, request) == hand[h] = NoHand /\ hand' = [hand EXCEPT ![h] = request]
Lower(h) == hand' = [hand EXCEPT ![h] = NoHand]
Blur(changed) == blurs' = (IF changed THEN blurs + 1 ELSE blurs) /\ blurs' <= MaxBlurs

CreateTrigger(a) ==
  /\ alarm[a].is = "none"
  /\ alarm' = [alarm EXCEPT ![a] = [is |-> "there", active |-> TRUE, next |-> NextTime, runs |-> 0]]
  /\ UNCHANGED <<time, swept, hand, started, blurs>>
TimeComes == /\ time < MaxTimes /\ time' = time + 1
             /\ UNCHANGED <<alarm, swept, hand, started, blurs>>

(* A sweep takes the due triggers that no other has locked, and fires them *)
(* in one transaction; one that cannot run only gets its next time.        *)
Due(a) == alarm[a].active /\ alarm[a].next <= time
NotTaken(a) == FALSE \* mutant
Taken(a) == a \in Locked
FindDue(s) ==
  /\ swept[s] = <<>>
  /\ LET due == {a \in Rows : Due(a) /\ ~Taken(a)} IN
       /\ due # {} /\ swept' = [swept EXCEPT ![s] = [a \in due |-> alarm[a]]]
  /\ UNCHANGED <<alarm, time, hand, started, blurs>>
Fired(row, next, runs) == [row EXCEPT !.next = next, !.runs = runs]
RunFor(from, runs) == [from |-> from, to |-> time, nr |-> Cardinality(runs)]
Ran(told, from) == [told EXCEPT !.swept = @ \cup {RunFor(from, @)}]
FireDue(s, fails) ==
  /\ swept[s] # <<>> /\ swept' = [swept EXCEPT ![s] = <<>>]
  /\ LET due == DOMAIN swept[s]
         runs(a) == IF a \in fails THEN alarm[a].runs ELSE swept[s][a].runs + 1
     IN /\ fails \subseteq due
        /\ alarm' = [a \in Alarms |-> IF a \in due THEN Fired(alarm[a], NextTime, runs(a)) ELSE alarm[a]]
        /\ started' = [a \in Alarms |-> IF a \in due \ fails THEN Ran(started[a], swept[s][a].next) ELSE started[a]]
  /\ UNCHANGED <<time, hand, blurs>>
SweepDies(s) == /\ swept[s] # <<>> /\ swept' = [swept EXCEPT ![s] = <<>>]
                /\ UNCHANGED <<alarm, time, hand, started, blurs>>

(* By hand, whether active or not; its commit waits for a sweep's lock and *)
(* fails if the row is gone.  The next time is computed anew.              *)
ReadAlarm(h, a, what) ==
  /\ a \in Rows /\ Raise(h, [with |-> what, of |-> a, seen |-> alarm[a]])
  /\ UNCHANGED <<alarm, time, swept, started, blurs>>
Ready(h, what) == With(h, what) /\ hand[h].of \notin Locked /\ Lower(h)
FireByHand(h) ==
  /\ Ready(h, "fire")
  /\ LET a == hand[h].of IN
     IF a \notin Rows THEN UNCHANGED <<alarm, started, blurs>>
     ELSE /\ started[a].hand < MaxByHand
          /\ LET next == IF NextTime = hand[h].seen.next THEN alarm[a].next ELSE NextTime IN
             alarm' = [alarm EXCEPT ![a] = Fired(@, next, hand[h].seen.runs + 1)]
          /\ started' = [started EXCEPT ![a].hand = @ + 1]
          /\ Blur(alarm[a] # hand[h].seen \/ Due(a))
  /\ UNCHANGED <<time, swept>>

(* An edit of the expression computes the next time when it reads.         *)
ReadEdit(h, a) ==
  /\ a \in Rows /\ Raise(h, [with |-> "edit", of |-> a, next |-> NextTime, seen |-> alarm[a]])
  /\ UNCHANGED <<alarm, time, swept, started, blurs>>
UpdateTrigger(h) ==
  /\ Ready(h, "edit")
  /\ LET a == hand[h].of IN
     IF a \notin Rows THEN UNCHANGED <<alarm, blurs>>
     ELSE /\ alarm' = [alarm EXCEPT ![a].next = IF hand[h].next = hand[h].seen.next THEN @ ELSE hand[h].next]
          /\ Blur(alarm[a] # hand[h].seen \/ hand[h].next <= time \/ Due(a))
  /\ UNCHANGED <<time, swept, started>>
SwitchTrigger(a) ==
  /\ a \in Rows \ Locked /\ alarm' = [alarm EXCEPT ![a].active = ~@]
  /\ UNCHANGED <<time, swept, hand, started, blurs>>
DeleteTrigger(a) ==
  /\ a \in Rows \ Locked /\ alarm' = [alarm EXCEPT ![a].is = "gone"]
  /\ UNCHANGED <<time, swept, hand, started, blurs>>
HandDies(h) == /\ hand[h] # NoHand /\ Lower(h) /\ UNCHANGED <<alarm, time, swept, started, blurs>>

TriggersNext ==
  \/ TimeComes
  \/ \E a \in Alarms : \/ CreateTrigger(a) \/ SwitchTrigger(a) \/ DeleteTrigger(a)
                       \/ \E h \in Hands : ReadAlarm(h, a, "fire") \/ ReadEdit(h, a)
  \/ \E s \in Sweeps : FindDue(s) \/ SweepDies(s) \/ \E fails \in SUBSET Alarms : FireDue(s, fails)
  \/ \E h \in Hands : FireByHand(h) \/ UpdateTrigger(h) \/ HandDies(h)
TriggersSpec == TriggersInit /\ [][TriggersNext]_triggerVars

-----------------------------------------------------------------------------
(* No time of a schedule is run for by two sweeps, whatever the owner does *)
(* meanwhile, unless an edit or a run by hand put an outdated time back.   *)
(* The row counts the runs there were, but for those that overlapped.      *)
TriggersKept ==
  /\ \A a \in Alarms : LET runs == started[a].swept IN
       blurs = 0 => \A q, r \in runs : q = r \/ q.to < r.from \/ r.to < q.from
  /\ \A a \in Rows : /\ alarm[a].runs <= Cardinality(started[a].swept) + started[a].hand
                     /\ blurs = 0 => alarm[a].runs = Cardinality(started[a].swept) + started[a].hand
=============================================================================
