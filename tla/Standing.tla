------------------------------ MODULE Standing ------------------------------
(* What the platform holds about one worker and derives from other rows:   *)
(* the strike count and the reputation score (routers/reputation.py,       *)
(* core/reputation.py, routers/admin.py), the average rating               *)
(* (routers/ratings.py) and the accuracy on gold tasks                     *)
(* (routers/quality.py).  Every one is computed by a request that read its *)
(* rows earlier than it writes the result.  Strikes are of one severity;   *)
(* the part of the score that strikes and bans do not touch is constant.   *)
(* An update writes only the columns the request changed.                  *)
EXTENDS Integers, FiniteSets

CONSTANTS Strikes, NoStrike, Moderators, Rated, Raters, Golden, Evaluators

ASSUME StandingAssumption == NoStrike \notin Strikes /\ IsFiniteSet(Strikes)

VARIABLES
  strike,     \* the rows of worker_strikes
  standing,   \* the worker's row: strike_count, is_banned, reputation_score
  moderator,  \* requests on them: what each is doing and has read
  behind,     \* history: the last commit left the score out of date
  drifted,    \* history: the count has missed a strike
  rating,     \* the rows of task_ratings by task
  average,    \* the ratings the worker's average stands for; alone: history,
              \* no other commit overlapped the request that wrote it
  rater,      \* requests to rate a task
  gold,       \* the worker's answers to gold tasks
  accuracy,   \* the verdicts the worker's accuracy stands for; alone likewise
  evaluator   \* requests to evaluate a gold task

strikeVars == <<strike, standing, moderator, behind, drifted>>
ratingVars == <<rating, average, rater>>
goldVars == <<gold, accuracy, evaluator>>
standingVars == <<strikeVars, ratingVars, goldVars>>

Away == [at |-> "away"]
Full == Cardinality(Strikes) + 1
Active(S) == {s \in Strikes : S[s] = "active"}

Issues == {"issue", "adminIssue"}
Pardons == {"pardon", "adminPardon"}
Scores == {"issue", "pardon", "unban", "recalculate"}  \* those that call refresh

StandingTypeOK ==
  /\ strike \in [Strikes -> {"none", "active", "pardoned"}]
  /\ standing \in [count : Nat, banned : BOOLEAN, score : 0..Full]
  /\ behind \in BOOLEAN /\ drifted \in BOOLEAN
  /\ rating \subseteq Rated /\ average.of \subseteq Rated
  /\ gold \in [Golden -> {"submitted", "approved", "rejected"}]

StandingInit ==
  /\ strike = [s \in Strikes |-> "none"]
  /\ standing = [count |-> 0, banned |-> FALSE, score |-> Full]
  /\ moderator = [m \in Moderators |-> Away]
  /\ behind = FALSE /\ drifted = FALSE
  /\ rating = {} /\ average = [of |-> {}, alone |-> TRUE] /\ rater = [r \in Raters |-> Away]
  /\ gold = [g \in Golden |-> "submitted"]
  /\ accuracy = [of |-> {}, alone |-> TRUE] /\ evaluator = [e \in Evaluators |-> Away]

(* Another request committed while this one was under way.                 *)
Disturb(requests, me) ==
  [x \in DOMAIN requests |-> CASE x = me -> Away
                               [] requests[x].at = "away" -> Away
                               [] OTHER -> [requests[x] EXCEPT !.alone = FALSE]]

-----------------------------------------------------------------------------
(* A request reads the worker's row and, about a strike, the strike's.     *)
Moderate(m, op, s) ==
  /\ moderator[m] = Away
  /\ moderator' = [moderator EXCEPT ![m] =
       [at |-> "read", op |-> op, strike |-> s, row |-> standing, was |-> IF s = NoStrike THEN s ELSE strike[s],
        alone |-> TRUE, held |-> FALSE, score |-> standing.score]]
  /\ UNCHANGED <<strike, standing, behind, drifted, ratingVars, goldVars>>
Unclaimed(s) == /\ strike[s] = "none"
                /\ \A o \in Moderators : moderator[o].at # "away" => moderator[o].strike # s

(* routers/reputation.py: an already pardoned strike may be pardoned again, *)
(* a banned worker is not banned again.                                    *)
IssueStrike(m, s) == Unclaimed(s) /\ Moderate(m, "issue", s)
PardonStrike(m, s) == strike[s] # "none" /\ Moderate(m, "pardon", s)
BanWorker(m) == ~standing.banned /\ Moderate(m, "ban", NoStrike)
UnbanWorker(m) == standing.banned /\ Moderate(m, "unban", NoStrike)
Recalculate(m) == Moderate(m, "recalculate", NoStrike)

(* routers/admin.py: the score is left as it is.                           *)
AdminAddStrike(m, s) == Unclaimed(s) /\ Moderate(m, "adminIssue", s)
AdminPardonStrike(m, s) == strike[s] = "active" /\ Moderate(m, "adminPardon", s)
AdminBanWorker(m) == Moderate(m, "adminBan", NoStrike)
AdminUnbanWorker(m) == standing.banned /\ Moderate(m, "adminUnban", NoStrike)

NewCount(q) == CASE q.op \in Issues -> q.row.count + 1
                 [] q.op \in Pardons /\ q.row.count > 0 -> q.row.count - 1
                 [] OTHER -> q.row.count
NewBanned(q) == CASE q.op \in {"ban", "adminBan"} -> TRUE
                  [] q.op \in {"unban", "adminUnban"} -> FALSE
                  [] OTHER -> q.row.banned
NewStrike(q) == CASE q.op \in Issues -> "active" [] q.op \in Pardons -> "pardoned"
                  [] OTHER -> q.was
Unlocked(m) == {o \in Moderators : moderator[o].at # "away" /\ moderator[o].held} \subseteq {m}

(* The flush before the score is computed: the worker's row is locked from *)
(* here to the commit if the request changed it.                           *)
Flush(m) ==
  LET q == moderator[m]
      changed == NewCount(q) # q.row.count \/ NewBanned(q) # q.row.banned IN
  /\ q.at = "read" /\ q.op \in Scores
  /\ changed => Unlocked(m)
  /\ moderator' = [moderator EXCEPT ![m].at = "flushed", ![m].held = changed]
  /\ UNCHANGED <<strike, standing, behind, drifted, ratingVars, goldVars>>

(* compute_reputation: is_banned as read at first, the strikes as they are *)
(* now with the request's own.                                             *)
PenaltyUnflushed(q) == Cardinality(Active(strike)) \* mutant
Penalty(q) == Cardinality(Active(IF q.op \in Issues \cup Pardons
                                 THEN [strike EXCEPT ![q.strike] = NewStrike(q)] ELSE strike))
Score(m) ==
  LET q == moderator[m] IN
  /\ q.at = "flushed"
  /\ moderator' = [moderator EXCEPT ![m].at = "scored",
                     ![m].score = IF NewBanned(q) THEN 0 ELSE Full - Penalty(q)]
  /\ UNCHANGED <<strike, standing, behind, drifted, ratingVars, goldVars>>

NewScore(q) == IF q.op = "ban" THEN 0 ELSE q.score
Write(new, read, now) == IF new # read THEN new ELSE now
Save(m) ==
  LET q == moderator[m] IN
  /\ q.at \in {"read", "scored"} /\ ((q.at = "scored") = (q.op \in Scores))
  /\ q.held \/ Unlocked(m)
  /\ strike' = IF NewStrike(q) # q.was THEN [strike EXCEPT ![q.strike] = NewStrike(q)] ELSE strike
  /\ standing' = [count |-> Write(NewCount(q), q.row.count, standing.count),
                  banned |-> Write(NewBanned(q), q.row.banned, standing.banned),
                  score |-> Write(NewScore(q), q.row.score, standing.score)]
  /\ behind' = (q.op \notin Scores \cup {"ban"} \/ ~q.alone)
  /\ drifted' = \/ drifted
                \/ ~q.alone /\ (NewCount(q) # q.row.count \/ NewStrike(q) # q.was)
                \/ NewCount(q) # q.row.count /\ NewStrike(q) = q.was
  /\ moderator' = Disturb(moderator, m)
  /\ UNCHANGED <<ratingVars, goldVars>>

GiveUpModerating(m) ==
  /\ moderator[m].at # "away" /\ moderator' = [moderator EXCEPT ![m] = Away]
  /\ UNCHANGED <<strike, standing, behind, drifted, ratingVars, goldVars>>

-----------------------------------------------------------------------------
(* rate_task: a completed task is rated once, which the table's unique     *)
(* constraint upholds, so a second insertion waits for the first.          *)
Rate(r, t) ==
  /\ rater[r] = Away /\ t \notin rating
  /\ \A o \in Raters : rater[o].at # "away" => rater[o].task # t
  /\ rater' = [rater EXCEPT ![r] = [at |-> "inserted", task |-> t, alone |-> TRUE, seen |-> {}]]
  /\ UNCHANGED <<rating, average, strikeVars, goldVars>>

(* _refresh_worker_avg: the aggregate first, the worker's lock after it.   *)
Aggregate(r) ==
  /\ rater[r].at = "inserted"
  /\ rater' = [rater EXCEPT ![r].at = "read", ![r].seen = rating \cup {rater[r].task}]
  /\ UNCHANGED <<rating, average, strikeVars, goldVars>>

SaveRating(r) ==
  /\ rater[r].at = "read"
  /\ rating' = rating \cup {rater[r].task} /\ average' = [of |-> rater[r].seen, alone |-> rater[r].alone]
  /\ rater' = Disturb(rater, r)
  /\ UNCHANGED <<strikeVars, goldVars>>

RatingFails(r) ==
  /\ rater[r].at # "away" /\ rater' = [rater EXCEPT ![r] = Away]
  /\ UNCHANGED <<rating, average, strikeVars, goldVars>>

-----------------------------------------------------------------------------
(* evaluate_submissions: the answer is compared with the gold answer, its  *)
(* status is written whatever it is by then, every decided answer to a     *)
(* gold task is counted, and the accuracy is written.                      *)
Verdicts == {"approved", "rejected"}
Decided(a) == {<<g, a[g]>> : g \in {t \in Golden : a[t] # "submitted"}}
Evaluate(e, g, v) ==
  /\ evaluator[e] = Away /\ gold[g] = "submitted"
  /\ evaluator' = [evaluator EXCEPT ![e] = [at |-> "compared", task |-> g, verdict |-> v,
                                            alone |-> TRUE, seen |-> {}]]
  /\ UNCHANGED <<gold, accuracy, strikeVars, ratingVars>>

AnswerFree(g) == \A o \in Evaluators : evaluator[o].at \in {"flushed", "read"} =>
                                         evaluator[o].task # g
FlushVerdict(e) ==
  /\ evaluator[e].at = "compared" /\ AnswerFree(evaluator[e].task)
  /\ evaluator' = [evaluator EXCEPT ![e].at = "flushed"]
  /\ UNCHANGED <<gold, accuracy, strikeVars, ratingVars>>

Judged(q) == [gold EXCEPT ![q.task] = q.verdict]
CountDecided(e) ==
  /\ evaluator[e].at = "flushed"
  /\ evaluator' = [evaluator EXCEPT ![e].at = "read", ![e].seen = Decided(Judged(evaluator[e]))]
  /\ UNCHANGED <<gold, accuracy, strikeVars, ratingVars>>

SaveEvaluation(e) ==
  LET q == evaluator[e] IN
  /\ q.at = "read"
  /\ gold' = Judged(q) /\ accuracy' = [of |-> q.seen, alone |-> q.alone]
  /\ evaluator' = Disturb(evaluator, e)
  /\ UNCHANGED <<strikeVars, ratingVars>>

(* The requester approves or rejects the answer like any other.            *)
Review(g, v) ==
  /\ gold[g] = "submitted" /\ AnswerFree(g)
  /\ gold' = [gold EXCEPT ![g] = v] /\ accuracy' = [accuracy EXCEPT !.alone = FALSE]
  /\ evaluator' = [e \in Evaluators |-> IF evaluator[e] = Away THEN Away
                                        ELSE [evaluator[e] EXCEPT !.alone = FALSE]]
  /\ UNCHANGED <<strikeVars, ratingVars>>

StrikeNext == \E m \in Moderators :
  \/ \E s \in Strikes : \/ IssueStrike(m, s) \/ PardonStrike(m, s)
                       \/ AdminAddStrike(m, s) \/ AdminPardonStrike(m, s)
  \/ BanWorker(m) \/ UnbanWorker(m) \/ Recalculate(m) \/ AdminBanWorker(m) \/ AdminUnbanWorker(m)
  \/ Flush(m) \/ Score(m) \/ Save(m) \/ GiveUpModerating(m)
RatingNext == \E r \in Raters :
  (\E t \in Rated : Rate(r, t)) \/ Aggregate(r) \/ SaveRating(r) \/ RatingFails(r)
GoldNext ==
  \/ \E g \in Golden, v \in Verdicts : Review(g, v) \/ \E e \in Evaluators : Evaluate(e, g, v)
  \/ \E e \in Evaluators : FlushVerdict(e) \/ CountDecided(e) \/ SaveEvaluation(e)

StandingNext == StrikeNext \/ RatingNext \/ GoldNext
StandingSpec == StandingInit /\ [][StandingNext]_standingVars

-----------------------------------------------------------------------------
(* What is derived is right after any request that recomputed it and that  *)
(* no other commit overlapped, whatever came before: the score is zero for *)
(* a banned worker and has every active strike deducted for another one,   *)
(* the average covers every rating and the accuracy every verdict.  The    *)
(* count of strikes is only ever stepped, so it is right as long as no two *)
(* requests overlapped and no strike was pardoned twice.                   *)
StandingKept ==
  /\ ~behind => standing.score = IF standing.banned THEN 0
                                 ELSE Full - Cardinality(Active(strike))
  /\ ~drifted => standing.count = Cardinality(Active(strike))
  /\ average.alone => average.of = rating
  /\ accuracy.alone => accuracy.of = Decided(gold)
=============================================================================
