------------------------------- MODULE League -------------------------------
(* The weekly leagues of routers/leagues.py: workers join a group of their *)
(* tier, earn XP in it, and after the week process_season_end, called by   *)
(* the sweeper of every replica, ranks each group and moves its members    *)
(* between tiers.  Badges and notifications are left out.                  *)
EXTENDS Integers, FiniteSets

CONSTANTS Players, Tiers, LastWeek, GroupSize, PromoSlots, DemoSlots, MaxXp, Tabs, Pods

ASSUME LeagueAssumption ==
  /\ IsFiniteSet(Players) /\ Tiers \in Nat \ {0} /\ LastWeek \in Nat
  /\ GroupSize \in Nat \ {0} /\ PromoSlots \in Nat /\ DemoSlots \in Nat /\ MaxXp \in Nat

Weeks == 0..LastWeek

VARIABLES
  week,     \* the current week
  tier,     \* users.league_tier
  season,   \* league_seasons, by week
  roll,     \* league_group_members: week, player, tier and number of the group, XP
  join,     \* join_league, or get_current_league, between what it read and its commit
  pod,      \* the pass of each replica: the week whose season it has locked
  moves     \* history: how often a season's result was applied to a player

leagueVars == <<week, tier, season, roll, join, pod, moves>>

NoJoin == [op |-> "none"]
AtRest == [op |-> "none"]

LeagueTypeOK ==
  /\ week \in Weeks /\ tier \in [Players -> 0..(Tiers - 1)]
  /\ season \in [Weeks -> {"none", "active", "processing", "completed"}]
  /\ roll \subseteq [week : Weeks, who : Players, tier : 0..(Tiers - 1),
                     no : Nat \ {0}, xp : 0..MaxXp]
  /\ moves \in [Weeks -> [Players -> Nat]]

LeagueInit ==
  /\ week = 0 /\ tier \in [Players -> {0, Tiers - 1}]
  /\ season = [w \in Weeks |-> "none"]
  /\ roll = {}
  /\ join = [b \in Tabs |-> NoJoin]
  /\ pod = [p \in Pods |-> AtRest]
  /\ moves = [w \in Weeks |-> [u \in Players |-> 0]]

Monday == /\ week < LastWeek
          /\ week' = week + 1
          /\ UNCHANGED <<tier, season, roll, join, pod, moves>>

---------------------------------------------------------------------------
(* join_league *)

Group(w, t, n) == {m \in roll : m.week = w /\ m.tier = t /\ m.no = n}
MemberOf(w, u) == {m \in roll : m.week = w /\ m.who = u}

(* The first group of the tier with room, or a new one after the last. *)
GroupFor(w, t) ==
  CHOOSE n \in 1..(Cardinality(Players) + 1) :
    /\ Cardinality(Group(w, t, n)) < GroupSize
    /\ \A k \in 1..(n - 1) : Cardinality(Group(w, t, k)) >= GroupSize

JoinRead(b, u) ==
  LET n == GroupFor(week, tier[u]) IN
  /\ join[b] = NoJoin
  /\ MemberOf(week, u) = {}
  /\ join' = [join EXCEPT ![b] =
       [op |-> "join", who |-> u, week |-> week, tier |-> tier[u], no |-> n,
        opens |-> Group(week, tier[u], n) = {}, starts |-> season[week] = "none"]]
  /\ UNCHANGED <<week, tier, season, roll, pod, moves>>

(* Season, group and member are unique: what another request has inserted  *)
(* meanwhile makes the whole transaction fail.                             *)
Collides(j) ==
  \/ j.starts /\ season[j.week] # "none"
  \/ j.opens /\ Group(j.week, j.tier, j.no) # {}
  \/ \E m \in Group(j.week, j.tier, j.no) : m.who = j.who

JoinCommit(b) ==
  LET j == join[b] IN
  /\ j.op = "join"
  /\ join' = [join EXCEPT ![b] = NoJoin]
  /\ IF Collides(j) THEN UNCHANGED <<season, roll>>
     ELSE /\ season' = [season EXCEPT ![j.week] = IF @ = "none" THEN "active" ELSE @]
          /\ roll' = roll \cup {[week |-> j.week, who |-> j.who, tier |-> j.tier,
                                 no |-> j.no, xp |-> 0]}
  /\ UNCHANGED <<week, tier, pod, moves>>

(* get_current_league creates the week's season too, whoever joins it.     *)
ViewRead(b) ==
  /\ join[b] = NoJoin
  /\ season[week] = "none"
  /\ join' = [join EXCEPT ![b] = [op |-> "view", week |-> week]]
  /\ UNCHANGED <<week, tier, season, roll, pod, moves>>

ViewCommit(b) ==
  LET w == join[b].week IN
  /\ join[b].op = "view"
  /\ join' = [join EXCEPT ![b] = NoJoin]
  /\ season' = [season EXCEPT ![w] = IF @ = "none" THEN "active" ELSE @]
  /\ UNCHANGED <<week, tier, roll, pod, moves>>

(* add_league_xp fails for a player who is in two groups. *)
AddXp(u) ==
  /\ Cardinality(MemberOf(week, u)) = 1
  /\ \E m \in MemberOf(week, u) :
       /\ m.xp < MaxXp
       /\ roll' = (roll \ {m}) \cup {[m EXCEPT !.xp = @ + 1]}
  /\ UNCHANGED <<week, tier, season, join, pod, moves>>

---------------------------------------------------------------------------
(* process_season_end: only last week's season, and SKIP LOCKED *)

NotSkipped(w) == TRUE \* mutant
Unlocked(w) == \A p \in Pods : ~ (pod[p].op = "season" /\ pod[p].week = w)

SeasonRead(p) ==
  LET w == week - 1 IN
  /\ pod[p] = AtRest
  /\ w \in Weeks /\ season[w] = "active" /\ Unlocked(w)
  /\ pod' = [pod EXCEPT ![p] = [op |-> "season", week |-> w]]
  /\ UNCHANGED <<week, tier, season, roll, join, moves>>

Rankings(g) ==
  {r \in [g -> 1..Cardinality(g)] :
     \A m, n \in g : m # n => r[m] # r[n] /\ (m.xp > n.xp => r[m] < r[n])}

(* The step is taken from the tier of the group, who stays keeps his own. *)
Moved(m, rank, total) ==
  IF rank <= PromoSlots /\ m.tier < Tiers - 1 THEN m.tier + 1
  ELSE IF total > DemoSlots /\ rank > total - DemoSlots /\ m.tier > 0 THEN m.tier - 1
  ELSE tier[m.who]

NewTiers(m) ==
  LET g == Group(m.week, m.tier, m.no) IN
  {Moved(m, r[m], Cardinality(g)) : r \in Rankings(g)}

SeasonCommit(p) ==
  LET w == pod[p].week IN
  /\ pod[p].op = "season"
  /\ season' = [season EXCEPT ![w] = "completed"]
  /\ tier' \in {f \in [Players -> 0..(Tiers - 1)] : \A u \in Players :
       IF MemberOf(w, u) = {} THEN f[u] = tier[u]
       ELSE \E m \in MemberOf(w, u) : f[u] \in NewTiers(m)}
  /\ moves' = [moves EXCEPT ![w] = [u \in Players |-> @[u] + Cardinality(MemberOf(w, u))]]
  /\ pod' = [pod EXCEPT ![p] = AtRest]
  /\ UNCHANGED <<week, roll, join>>

(* "processing" is flushed, never committed: a pass that fails rolls back. *)
LeftProcessing == "processing" \* mutant
AfterFailure == "active"

SeasonFails(p) ==
  /\ pod[p].op = "season"
  /\ season' = [season EXCEPT ![pod[p].week] = IF @ = "active" THEN AfterFailure ELSE @]
  /\ pod' = [pod EXCEPT ![p] = AtRest]
  /\ UNCHANGED <<week, tier, roll, join, moves>>

---------------------------------------------------------------------------
LeagueNext ==
  \/ Monday
  \/ \E b \in Tabs : \/ JoinCommit(b) \/ \E u \in Players : JoinRead(b, u)
                   \/ ViewRead(b) \/ ViewCommit(b)
  \/ \E u \in Players : AddXp(u)
  \/ \E p \in Pods : SeasonRead(p) \/ SeasonCommit(p) \/ SeasonFails(p)

LeagueSpec == LeagueInit /\ [][LeagueNext]_leagueVars

(* run_sweeper calls process_season_end for ever, and not every call fails. *)
LeagueFairness == /\ SF_leagueVars(\E p \in Pods : SeasonRead(p))
                  /\ SF_leagueVars(\E p \in Pods : SeasonCommit(p))

---------------------------------------------------------------------------
(* However many replicas settle it, and whatever fails, a season's result  *)
(* is applied once to each membership, after its week and not before.      *)
SeasonOnce == \A w \in Weeks :
  /\ season[w] = "completed" => w < week
  /\ \A u \in Players : moves[w][u] <=
       (IF season[w] = "completed" THEN Cardinality(MemberOf(w, u)) ELSE 0)

(* Last week's league is settled at last, unless a whole week goes by in   *)
(* which no pass succeeds: process_season_end looks at last week only.     *)
SeasonEnds == \A w \in Weeks :
  (season[w] = "active" /\ week = w + 1) ~> (season[w] = "completed" \/ week > w + 1)
============================================================================
