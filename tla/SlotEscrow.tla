----------------------------- MODULE SlotEscrow -----------------------------
(***************************************************************************)
(* What a human task promises about money, without statuses, transactions  *)
(* or stale reads: an escrow that holds the reward of Capacity slots.  A   *)
(* slot is claimed, then paid or dropped; rejecting a paid slot gives its  *)
(* reward back to the requester and makes room for one more.               *)
(***************************************************************************)
EXTENDS Integers, FiniteSets

CONSTANTS Slots, Capacity

VARIABLES claimed, paid, refunded

slotVars == <<claimed, paid, refunded>>

Init == claimed = {} /\ paid = {} /\ refunded = {}

Room == Cardinality(claimed) + Cardinality(paid) < Capacity + Cardinality(refunded)

Claim(a) == /\ a \in Slots \ (claimed \cup paid)
            /\ Room
            /\ claimed' = claimed \cup {a}
            /\ UNCHANGED <<paid, refunded>>

Pay(a) == /\ a \in claimed
          /\ claimed' = claimed \ {a}
          /\ paid' = paid \cup {a}
          /\ UNCHANGED refunded

Drop(S) == /\ S \subseteq claimed
           /\ claimed' = claimed \ S
           /\ UNCHANGED <<paid, refunded>>

Refund(a) == /\ a \in paid \ refunded
             /\ refunded' = refunded \cup {a}
             /\ UNCHANGED <<claimed, paid>>

Next == \/ \E a \in Slots : Claim(a) \/ Pay(a) \/ Refund(a)
        \/ \E S \in SUBSET Slots : Drop(S)

Spec == Init /\ [][Next]_slotVars

=============================================================================
