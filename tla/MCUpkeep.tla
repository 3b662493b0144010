---- MODULE MCUpkeep ----
(* A behaviour is about tasks that wait, or about two weeks of leagues.    *)
EXTENDS Deferred, League
CONSTANTS t1, t2, t3
VARIABLE part

(* With edges, t1 may wait for both other tasks or t2 for t1, and t1 may   *)
(* come due; without, two tasks may come due or age.                       *)
Graph == /\ aged' = aged
         /\ due' \in {due, [due EXCEPT ![t1] = TRUE]}
         /\ edges' \subseteq {<<t1, t2>>, <<t1, t3>>, <<t2, t1>>}
NoGraph == /\ editor' = editor /\ reopened' = reopened
           /\ stage'[t3] = stage[t3] /\ ~due'[t3] /\ ~aged'[t3]

(* Looking at the league comes before anybody has joined it. *)
OneView == \A b \in Tabs : (join[b] = NoJoin /\ join'[b].op = "view") =>
             /\ roll = {} /\ week = 0
             /\ \A o \in Tabs \ {b} : join[o].op # "view"

MCInit == /\ DeferInit /\ LeagueInit /\ part \in {"graph", "tasks", "league"}
          /\ IF part = "league" THEN stage = [t \in Jobs |-> "ready"]
             ELSE (part = "tasks" => stage[t3] = "ready") /\ tier = [u \in Players |-> 0]
MCNext ==
  /\ UNCHANGED part
  /\ IF part = "league" THEN LeagueNext /\ OneView /\ UNCHANGED deferVars
     ELSE /\ DeferNext /\ UNCHANGED leagueVars
          /\ IF part = "graph" THEN Graph ELSE NoGraph
MCSpec == /\ MCInit /\ [][MCNext]_<<deferVars, leagueVars, part>>
          /\ DeferFairness /\ LeagueFairness
====
