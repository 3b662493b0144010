---- MODULE MCWorkers ----
(* Two tasks, t1 of two slots to claim and t2 by application; a behaviour  *)
(* has applications to t2, or invites to t1, beside the claims.  Or it has *)
(* a team of at most two, three workers and two invitations; or a worker's *)
(* streak and freezes; or the quests of a worker who works without a gap;  *)
(* or the strikes, ratings, gold answers, skill or certificate of one.     *)
EXTENDS Hiring, Teams, Progress, Standing, Skills, TLC
CONSTANTS t1, t2, w1, w2, d1, d2, j1, j2, j3
VARIABLE ways
MCSlots == (t1 :> 2) @@ (t2 :> 1)
MCTarget == [q \in {"volume", "streak", "variety", "challenge"} |-> IF q = "volume" THEN 3 ELSE 2]
MCVolume == [l \in 2..5 |-> IF l = 5 THEN 6 ELSE l - 1]
Symmetry == Permutations({w1, w2}) \cup Permutations({d1, d2})
Streaks == /\ claim' = claim /\ work'.kinds \cap {DailyKind} = {} /\ work'.count <= 2
           /\ spent' <= 2
Rewards == passing' = passing /\ swept' = swept /\ freezes' = 0 /\ work'.count <= 3 /\ day' <= 3

MCInit == /\ HireInit /\ TeamInit /\ ProgressInit /\ StandingInit /\ SkillsInit
          /\ ways \in {"applications", "invites", "teams", "streaks", "quests",
                       "strikes", "ratings", "gold", "skills", "certificates"}
InHiring == /\ HireNext
            /\ IF ways = "applications" THEN offer' = offer
               ELSE bid' = bid /\ offer'[t2] = offer[t2]
            /\ UNCHANGED <<teamVars, progressVars, standingVars, profileVars>>
InTeams == TeamNext /\ UNCHANGED <<hireVars, progressVars, standingVars, profileVars>>
OfProgress == /\ ProgressNext /\ (IF ways = "streaks" THEN Streaks ELSE Rewards)
               /\ UNCHANGED <<hireVars, teamVars, standingVars, profileVars>>
InStanding == /\ CASE ways = "strikes" -> StrikeNext
                   [] ways = "ratings" -> RatingNext
                   [] OTHER -> GoldNext
              /\ UNCHANGED <<hireVars, teamVars, progressVars, profileVars>>
InSkills == /\ IF ways = "skills" THEN SkillNext ELSE CertNext
            /\ UNCHANGED <<hireVars, teamVars, progressVars, standingVars>>
MCNext == /\ UNCHANGED ways
          /\ CASE ways \in {"applications", "invites"} -> InHiring
               [] ways = "teams" -> InTeams
               [] ways \in {"streaks", "quests"} -> OfProgress
               [] ways \in {"strikes", "ratings", "gold"} -> InStanding
               [] OTHER -> InSkills
MCSpec == MCInit /\ [][MCNext]_<<hireVars, teamVars, progressVars, standingVars, profileVars, ways>>
====
