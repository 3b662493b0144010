----------------------------- MODULE MCAccounts -----------------------------
(* What belongs to an account: organisation pools and payments, the limits *)
(* of API keys, signing in, endpoints' secrets, digests and alerts.  These *)
(* share no state but the credits, so each behaviour moves in one of them. *)
EXTENDS StripeEvents, Limits, RefreshTokens, Endpoints, Notices, TLC

MCFunds == [u \in Users |-> IF u = Owner THEN 1 ELSE 0]

(* As only one area moves, the same values can serve in all of them and    *)
(* be exchanged in all of them at once.                                    *)
CONSTANTS v1, v2, v3, x1, x2, k1, k2, k3
Symmetry == Permutations({v1, v2}) \cup Permutations({x1, x2})

VARIABLE area
allVars == <<vars, limitVars, tokenVars, endpointVars, noticeVars>>

(* Members come and go all the time, or before the first request and the  *)
(* first task; only the owner is there where payments come in, and where   *)
(* handlers work on a task.  There is no task beside payments, and two     *)
(* beside requests about the pool.                                         *)
Requests == {s \in Sessions : session[s] # Idle}
Made == {t \in Tasks : task[t] # NoTask}
Settled == CASE area = "members" -> TRUE
             [] area = "pools" -> (alive' /\ Requests \cup Made # {}) => UNCHANGED <<role, invite>>
             [] OTHER -> alive' => UNCHANGED <<role, invite>>
Most == [pools |-> 2, members |-> 1, work |-> 1, payments |-> 0]
(* Retries, answers, rejections and crossings of a task, together.         *)
MostPast == 3
Befallen(p) == p.retried + p.answered + p.rejected + p.crossed
Bounded == /\ Settled
           /\ Cardinality(Made') <= Most[area]
           /\ area \in {"payments", "work"} => Cardinality(Requests') <= 1
           /\ \A t \in Tasks : Befallen(past'[t]) <= MostPast
           /\ area # "work" => UNCHANGED <<runner, hand, past>> /\ \A t \in Tasks : task'[t].status # "assigned"

MCInit == /\ Init /\ LimitsInit /\ TokensInit /\ EndpointsInit /\ NoticesInit
          /\ area \in {"pools", "members", "payments", "work", "calls", "makers", "tokens", "endpoints",
                       "digests", "watches"}
          /\ area # "calls" => rpm = 1
          /\ area # "digests" => frequency = [u \in Subscribers |-> "none"]

InPools == /\ IF area = "payments" THEN Next ELSE PoolNext /\ UNCHANGED stripeVars
           /\ Bounded
           /\ UNCHANGED <<limitVars, tokenVars, endpointVars, noticeVars>>
InLimits == /\ IF area = "calls" THEN CallNext ELSE MakerNext
            /\ UNCHANGED <<vars, tokenVars, endpointVars, noticeVars>>
(* Tokens are interchangeable, so they are used in one order; one of them  *)
(* grows old at a time.                                                    *)
InOrder == (token'[k2] # Unused => token'[k1] # Unused) /\ (token'[k3] # Unused => token'[k2] # Unused)
InTokens == /\ TokensNext /\ InOrder /\ Cardinality({t \in Tokens : token'[t].age # "valid"}) <= 1
            /\ UNCHANGED <<vars, limitVars, endpointVars, noticeVars>>
InEndpoints == EndpointsNext /\ UNCHANGED <<vars, limitVars, tokenVars, noticeVars>>
InNotices == /\ \/ Time \/ \E p \in Replicas : Restart(p)
                \/ IF area = "digests" THEN DigestNext ELSE WatchNext
             /\ UNCHANGED <<vars, limitVars, tokenVars, endpointVars>>

MCNext == /\ area' = area
          /\ CASE area \in {"pools", "members", "payments", "work"} -> InPools
               [] area \in {"calls", "makers"} -> InLimits
               [] area = "tokens" -> InTokens
               [] area = "endpoints" -> InEndpoints
               [] area \in {"digests", "watches"} -> InNotices
MCSpec == MCInit /\ [][MCNext]_<<allVars, area>>
=============================================================================
