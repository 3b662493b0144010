------------------------------ MODULE MCTasks ------------------------------
(* Both kinds of task under the fairness that brings them to an end.  They  *)
(* share no state, so a behaviour is about one AI task, or one human task  *)
(* with a scheduled_at, two slots and the first answer as its output.      *)
EXTENDS AiTask
CONSTANTS Assignments, Workers, Answers, EmptyAnswer, Null, Requests
VARIABLES kind, task, asg, earnings, rejects, returned, open
Human == INSTANCE HumanTask WITH
           None <- Null, Required <- 2, Strategy <- "any_first", Scheduled <- TRUE,
           Sessions <- Requests, refunds <- returned, sess <- open
humanVars == <<task, asg, earnings, rejects, returned, open>>

MCInit == /\ AiInit /\ Human!Init
          /\ kind \in {"ai", "human"}
          /\ kind = "human" => status = "pending"
MCNext == /\ UNCHANGED kind
          /\ IF kind = "ai" THEN AiNext /\ UNCHANGED humanVars
             ELSE Human!Next /\ UNCHANGED aiVars

(* The task a behaviour is not about stays as it was created.              *)
MCFairness == /\ \A r \in Runners : WF_aiVars(RunnerStep(r))
              /\ WF_aiVars(kind = "ai" /\ \E r \in Runners : Activate(r))
              /\ Human!Fairness
MCSpec == MCInit /\ [][MCNext]_<<aiVars, humanVars, kind>> /\ MCFairness

(* HumanTask's ExpiredClaimEnds: a claim whose timeout has passed does not *)
(* stay active for ever, though sweeps fail and locked rows are skipped.   *)
ExpiredClaimEnds == Human!ExpiredClaimEnds
=============================================================================
