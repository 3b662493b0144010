----------------------------- MODULE Progress -----------------------------
(* What a worker's activity earns beside credits: the day streak and its   *)
(* freezes, the daily challenge and the week's quests (routers/worker.py,  *)
(* challenges.py, quests.py), and the sweep of core/sweeper.py that resets *)
(* streaks in every replica.  One worker; days are counted from 0, weeks   *)
(* have WeekDays of them.  The XP and credits of a quest's reward, paid    *)
(* together, count as one payment; levels, badges and the credits of other *)
(* rewards are left out.                                                   *)
EXTENDS Integers, FiniteSets

CONSTANTS Kinds, DailyKind, DailyTarget, QuestTarget, WeekDays, Milestone,
          MaxFreezes, Shoppers, Sweepers, LastDay

ASSUME ProgressAssumption ==
  /\ DailyKind \in Kinds /\ IsFiniteSet(Shoppers)
  /\ DailyTarget \in Nat \ {0} /\ WeekDays \in Nat \ {0} /\ Milestone \in Nat \ {0}
  /\ MaxFreezes \in Nat /\ LastDay \in Nat
  /\ QuestTarget \in [{"volume", "streak", "variety", "challenge"} -> Nat \ {0}]

Quests == {"volume", "streak", "variety", "challenge"}
Never == -1

VARIABLES
  day,       \* today
  streak,    \* users.worker_streak_days
  active,    \* users.worker_last_active_date, or Never
  freezes,   \* users.streak_freezes
  earned,    \* users.streak_freeze_last_earned, or Never
  daily,     \* progress on today's challenge
  quest,     \* progress on this week's quests
  types,     \* extra_data of the variety quest, as stored
  claim,       \* claims of a quest's reward between check and lock
  passing,   \* the passes of the replicas: what each read
  swept,     \* the date of its last streak sweep in each replica's memory
  work,      \* history: the worker's submissions, as <<day, kind>>, and their number
  claims,    \* history: challenges claimed this week
  paid,      \* history: how often each quest of this week was rewarded
  crowd,     \* history: the most claims of each that were under way at once
  spent      \* history: freezes used since the last activity, up to LastDay

streakVars == <<streak, active, freezes, earned, swept, spent>>
questVars == <<daily, quest, types, claim, work, claims, paid, crowd>>
progressVars == <<day, streakVars, questVars, passing>>

Unstarted == [value |-> 0, complete |-> FALSE, claimed |-> FALSE]
Fresh == [count |-> 0, claimed |-> FALSE]
NotBusy == [op |-> "none"]
Week(d) == d \div WeekDays

ProgressTypeOK ==
  /\ day \in 0..LastDay /\ active \in {Never} \cup 0..day
  /\ streak \in Nat /\ freezes \in 0..MaxFreezes /\ spent \in Nat
  /\ daily.count \in Nat /\ types \subseteq Kinds
  /\ \A q \in Quests : quest[q].value \in Nat /\ paid[q] \in Nat /\ crowd[q] \in Nat

ProgressInit ==
  /\ day = 0
  /\ streak = 0 /\ active = Never /\ freezes = 0 /\ earned = Never
  /\ daily = Fresh
  /\ quest = [q \in Quests |-> Unstarted]
  /\ types = {}
  /\ claim = [b \in Shoppers |-> NotBusy]
  /\ passing = [p \in Sweepers |-> NotBusy]
  /\ swept = [p \in Sweepers |-> Never]
  /\ work = [days |-> {}, kinds |-> {}, count |-> 0]
  /\ claims = 0 /\ spent = 0
  /\ paid = [q \in Quests |-> 0] /\ crowd = [q \in Quests |-> 0]

(* Midnight: a new day's challenge, and on Monday new quests.  A claim     *)
(* under way is of last week's quest, and ends out of sight.               *)
Midnight ==
  LET monday == Week(day + 1) > Week(day) IN
  /\ day < LastDay
  /\ day' = day + 1
  /\ daily' = Fresh
  /\ quest' = IF monday THEN [q \in Quests |-> Unstarted] ELSE quest
  /\ types' = IF monday THEN {} ELSE types
  /\ claim' = IF monday THEN [b \in Shoppers |-> NotBusy] ELSE claim
  /\ work' = IF monday THEN [work EXCEPT !.kinds = {}, !.count = 0] ELSE work
  /\ claims' = IF monday THEN 0 ELSE claims
  /\ paid' = IF monday THEN [q \in Quests |-> 0] ELSE paid
  /\ crowd' = IF monday THEN [q \in Quests |-> 0] ELSE crowd
  /\ UNCHANGED <<streakVars, passing>>

---------------------------------------------------------------------------
(* submit_task, which holds the worker's row to its commit                 *)

GapKept(s) == s + 1 \* mutant
GapBroken(s) == 1

NextStreak ==
  IF active = Never THEN 1
  ELSE IF active = day THEN streak
  ELSE IF active = day - 1 THEN streak + 1
  ELSE GapBroken(streak)

EarnsFreeze(s) ==
  /\ s >= Milestone /\ s % Milestone = 0
  /\ earned # day /\ freezes < MaxFreezes

Advance(p, q, v) ==
  IF p.complete THEN p
  ELSE [p EXCEPT !.value = v, !.complete = v >= QuestTarget[q]]

(* The list read from the row is changed in place and assigned back: the   *)
(* session sees no difference and stores nothing, but for the first kind,  *)
(* whose empty list is replaced.                                           *)
Stored(k) == IF types = {} THEN {k} ELSE types

VarietyByTask(k) == quest["variety"].value + 1 \* mutant
VarietyValue(k) == Cardinality(types \cup {k})

Work(k) ==
  LET s == NextStreak IN
  /\ streak' = s
  /\ active' = day
  /\ freezes' = IF EarnsFreeze(s) THEN freezes + 1 ELSE freezes
  /\ earned' = IF EarnsFreeze(s) THEN day ELSE earned
  /\ spent' = 0
  /\ quest' = [q \in Quests |->
       CASE q = "volume"  -> Advance(quest[q], q, quest[q].value + 1)
         [] q = "streak"  -> Advance(quest[q], q, IF s > quest[q].value THEN s ELSE quest[q].value)
         [] q = "variety" -> Advance(quest[q], q, VarietyValue(k))
         [] OTHER         -> quest[q]]
  /\ types' = IF quest["variety"].complete THEN types ELSE Stored(k)
  /\ daily' = IF k = DailyKind THEN [daily EXCEPT !.count = @ + 1] ELSE daily
  /\ work' = [days |-> work.days \cup {day}, kinds |-> work.kinds \cup {k},
              count |-> work.count + 1]
  /\ UNCHANGED <<day, claim, claims, paid, crowd, passing, swept>>

---------------------------------------------------------------------------
(* Claims *)

(* claim_daily_bonus locks the worker before it looks. *)
ClaimDaily ==
  /\ daily.count >= DailyTarget /\ ~daily.claimed
  /\ daily' = [daily EXCEPT !.claimed = TRUE]
  /\ quest' = [quest EXCEPT !["challenge"] = Advance(@, "challenge", @.value + 1)]
  /\ claims' = claims + 1
  /\ UNCHANGED <<day, types, claim, work, paid, crowd, streakVars, passing>>

ClaimableAgain(q) == quest[q].complete \* mutant
Claimable(q) == quest[q].complete /\ ~quest[q].claimed

Claiming(q) == {b \in Shoppers : claim[b].op = q}
HighMark(m, n) == IF n > m THEN n ELSE m

(* claim_quest_reward looks at the row before it locks the worker, and     *)
(* does not look again.                                                    *)
ClaimQuestRead(b, q) ==
  /\ Claimable(q)
  /\ claim[b] = NotBusy
  /\ claim' = [claim EXCEPT ![b] = [op |-> q]]
  /\ crowd' = [crowd EXCEPT ![q] = HighMark(@, Cardinality(Claiming(q) \cup {b}))]
  /\ UNCHANGED <<day, daily, quest, types, work, claims, paid, streakVars, passing>>

(* The claim is set, the worker locked and paid, in one commit. *)
ClaimQuest(b) ==
  /\ claim[b] # NotBusy
  /\ quest' = [quest EXCEPT ![claim[b].op].claimed = TRUE]
  /\ paid' = [paid EXCEPT ![claim[b].op] = @ + 1]
  /\ claim' = [claim EXCEPT ![b] = NotBusy]
  /\ UNCHANGED <<day, daily, types, work, claims, crowd, streakVars, passing>>

BuyFreeze ==
  /\ freezes < MaxFreezes
  /\ freezes' = freezes + 1
  /\ UNCHANGED <<day, streak, active, earned, swept, spent, questVars, passing>>

---------------------------------------------------------------------------
(* _sweep_stale_streaks: once a day as far as this replica remembers; the  *)
(* worker is read without a lock.                                          *)

Stale == streak > 0 /\ active # Never /\ active < day - 1

StreakRead(p) ==
  /\ passing[p] = NotBusy /\ swept[p] # day
  /\ Stale
  /\ passing' = [passing EXCEPT ![p] = [op |-> "streak", seen |-> freezes, on |-> day]]
  /\ UNCHANGED <<day, streakVars, questVars>>

StreakCommit(p) ==
  LET seen == passing[p].seen IN
  /\ passing[p].op = "streak"
  /\ IF seen > 0 THEN freezes' = seen - 1 /\ spent' = (IF spent < LastDay THEN spent + 1 ELSE spent) /\ streak' = streak
     ELSE streak' = 0 /\ UNCHANGED <<freezes, spent>>
  /\ swept' = [swept EXCEPT ![p] = passing[p].on]
  /\ passing' = [passing EXCEPT ![p] = NotBusy]
  /\ UNCHANGED <<day, active, earned, questVars>>

(* A pass that raises; a replica that starts anew forgets its last sweep.  *)
StreakFails(p) == /\ passing[p] # NotBusy
                /\ passing' = [passing EXCEPT ![p] = NotBusy]
                /\ UNCHANGED <<day, streakVars, questVars>>

Restart(p) == /\ swept[p] # Never
              /\ swept' = [swept EXCEPT ![p] = Never]
              /\ passing' = [passing EXCEPT ![p] = NotBusy]
              /\ UNCHANGED <<day, streak, active, freezes, earned, spent, questVars>>

---------------------------------------------------------------------------
ProgressNext ==
  \/ Midnight \/ ClaimDaily \/ BuyFreeze
  \/ \E k \in Kinds : Work(k)
  \/ \E b \in Shoppers : ClaimQuest(b) \/ \E q \in Quests : ClaimQuestRead(b, q)
  \/ \E p \in Sweepers : \/ StreakRead(p) \/ StreakCommit(p) \/ StreakFails(p) \/ Restart(p)

ProgressSpec == ProgressInit /\ [][ProgressNext]_progressVars

---------------------------------------------------------------------------
(* Days up to the last active one without a gap. *)
Run == IF active = Never THEN 0
       ELSE Cardinality({d \in 0..active : d..active \subseteq work.days})

(* A streak never says more than the consecutive days actually worked,     *)
(* whatever sweeps read before a submission and commit after it.           *)
StreakEarned == streak <= Run

(* A quest is complete, and its reward claimed, only for work done: so     *)
(* many tasks this week, days in a row, kinds of task, claimed challenges. *)
RewardsEarned ==
  /\ \A q \in Quests : quest[q].claimed => quest[q].complete
  /\ quest["volume"].complete => work.count >= QuestTarget["volume"]
  /\ quest["streak"].complete =>
       \E d \in work.days : (d - QuestTarget["streak"] + 1)..d \subseteq work.days
  /\ quest["variety"].complete => Cardinality(work.kinds) >= QuestTarget["variety"]
  /\ quest["challenge"].complete => claims >= QuestTarget["challenge"]

(* A quest that is claimed was paid for, and a second time only by claims  *)
(* that had all read it before the first of them committed: so exactly     *)
(* once where no two claims of it were ever under way at once.             *)
RewardedOnce ==
  \A q \in Quests : /\ quest[q].claimed <=> paid[q] > 0
                    /\ paid[q] <= crowd[q]

(* What a worker is shown and paid for was earned, and paid for once,       *)
(* whatever sweeps, claims and submissions overlap.                         *)
ProgressKept == StreakEarned /\ RewardsEarned /\ RewardedOnce

(* claim_quest_reward answers 409 'Reward already claimed' (quests.py:465). *)
(* Two claims that overlap are both paid, as the lock of the worker does   *)
(* not guard the check: this is not so.                                    *)
QuestPaidOnce == \A q \in Quests : paid[q] <= 1

(* buy_streak_freeze: "Streak freezes automatically protect your streak    *)
(* when you miss a day" (worker.py:1969): after as many freezes were used  *)
(* as days missed, the next submission does not shorten the streak.        *)
FreezeProtects ==
  [][(active' # active /\ active # Never /\ spent >= day - active - 1)
       => streak' >= streak]_progressVars

(* "Complete tasks of 3 different types this week" (quests.py:113): the    *)
(* variety quest completes once the worker has done as many kinds.         *)
VarietyCompletes ==
  Cardinality(work.kinds) >= QuestTarget["variety"] => quest["variety"].complete
============================================================================
