------------------------------ MODULE Showcase -----------------------------
(* What a worker shows: pinned work (routers/portfolio.py), endorsements   *)
(* (routers/endorsements.py), badges (routers/badges.py), weekly hours and *)
(* blackouts (routers/availability.py), and the referral code with its     *)
(* bonus (routers/referrals.py).  A request reads, decides and commits;    *)
(* unique constraints refuse what another request committed in between.    *)
EXTENDS Integers, FiniteSets

CONSTANTS
  Visits,             \* requests that may be under way at once
  Works, MaxPins,     \* the worker's tasks; _MAX_PORTFOLIO
  Badges,
  Hours, MaxWeeks,    \* weekly hours, and how often they are replaced
  Friends,            \* people who may sign up with the code
  MaxCodes, MaxSpent, \* codes made for one user; what the user spends
  MaxMet              \* bounds the writes decided on what others changed

ASSUME ShowcaseAssumption ==
  /\ IsFiniteSet(Works) /\ IsFiniteSet(Friends)
  /\ {MaxPins, MaxWeeks, MaxCodes, MaxSpent, MaxMet} \subseteq Nat

VARIABLES
  piece,      \* a task: its work, the row of worker_portfolio, its endorsement
  badge,      \* a badge: whether its threshold is reached, its row, its notices
  week,       \* the rows of worker_availability, each of one replacement, and blackouts
  code,       \* users.referral_code and the codes that were shown
  friend,     \* how far each friend came, and with which code
  host,       \* the referrer's credits and credits_pending
  visit,      \* requests and what they read
  met         \* history: writes decided on what others had changed by then

showcaseVars == <<piece, badge, week, code, friend, host, visit, met>>

NoVisit == [does |-> "nothing"]
Pinned == {w \in Works : piece[w].pin = "there"}
Earned == {b \in Badges : badge[b].row}

ShowcaseTypeOK ==
  /\ \A w \in Works : piece[w].work \in {"claimed", "submitted", "rejected"} /\ piece[w].pin \in {"none", "there", "gone"}
  /\ week.rows \in [Hours -> 0..MaxWeeks] /\ week.edition \in 0..MaxWeeks
  /\ code.now \in 0..MaxCodes /\ host.pending \in Nat /\ met \in 0..MaxMet

ShowcaseInit ==
  /\ piece = [w \in Works |-> [work |-> "claimed", pin |-> "none", endorsed |-> FALSE]]
  /\ badge = [b \in Badges |-> [reached |-> FALSE, row |-> FALSE, notices |-> 0]]
  /\ week = [rows |-> [h \in Hours |-> 0], edition |-> 0, wanted |-> {}, out |-> {}]
  /\ code = [now |-> 0, shown |-> {}]
  /\ friend = [f \in Friends |-> "unknown"]
  /\ host = [credits |-> MaxSpent, pending |-> 0, spent |-> 0]
  /\ visit = [v \in Visits |-> NoVisit] /\ met = 0

Does(v, what) == visit[v].does = what
Arrive(v, request) == visit[v] = NoVisit /\ visit' = [visit EXCEPT ![v] = request]
Leave(v) == visit' = [visit EXCEPT ![v] = NoVisit]
Meeting(changed) == met' = (IF changed THEN met + 1 ELSE met) /\ met' <= MaxMet
VisitDies(v) == visit[v] # NoVisit /\ Leave(v) /\ UNCHANGED <<piece, badge, week, code, friend, host, met>>

(* Pins: the rows there are when the request begins are locked, and those  *)
(* of them that are left are counted; a row that came since is not seen.   *)
OnlyPieces == UNCHANGED <<badge, week, code, friend, host>>
SetWork(w, from, to) == /\ piece[w].work = from /\ piece' = [piece EXCEPT ![w].work = to]
                        /\ UNCHANGED <<visit, met>> /\ OnlyPieces
SubmitWork(w) == SetWork(w, "claimed", "submitted")
RejectWork(w) == SetWork(w, "submitted", "rejected")

FindPins(v, w) ==
  /\ piece[w].work # "claimed"           \* the task is completed, the row may be rejected
  /\ Arrive(v, [does |-> "pin", work |-> w, seen |-> Pinned])
  /\ UNCHANGED <<piece, met>> /\ OnlyPieces
FullAbove(seen) == Cardinality(seen) > MaxPins \* mutant
Full(seen) == Cardinality(seen) >= MaxPins
PinTask(v) ==
  /\ Does(v, "pin") /\ Leave(v) /\ OnlyPieces
  /\ LET w == visit[v].work
         seen == visit[v].seen \cap Pinned
     IN IF w \in Pinned \/ Full(seen) THEN UNCHANGED <<piece, met>>
        ELSE /\ piece[w].pin = "none"    \* a task is pinned once in a behaviour
             /\ piece' = [piece EXCEPT ![w].pin = "there"] /\ Meeting(seen # Pinned)
DeletePin(w) == /\ w \in Pinned /\ piece' = [piece EXCEPT ![w].pin = "gone"]
                /\ UNCHANGED <<visit, met>> /\ OnlyPieces

CheckWork(v, w) ==
  /\ piece[w].work = "submitted" /\ ~piece[w].endorsed
  /\ Arrive(v, [does |-> "endorse", work |-> w]) /\ UNCHANGED <<piece, met>> /\ OnlyPieces
Endorse(v) ==
  /\ Does(v, "endorse") /\ Leave(v) /\ OnlyPieces
  /\ LET w == visit[v].work IN
     IF piece[w].endorsed THEN UNCHANGED <<piece, met>>
     ELSE piece' = [piece EXCEPT ![w].endorsed = TRUE] /\ Meeting(piece[w].work # "submitted")

(* Badges: one row that another request inserted refuses all of them.      *)
OnlyBadges == UNCHANGED <<piece, week, code, friend, host>>
Reach(b) == /\ ~badge[b].reached /\ badge' = [badge EXCEPT ![b].reached = TRUE]
            /\ UNCHANGED <<visit, met>> /\ OnlyBadges
ReadBadges(v) ==
  /\ \E b \in Badges : badge[b].reached
  /\ Arrive(v, [does |-> "award", due |-> {b \in Badges : badge[b].reached}, seen |-> Earned])
  /\ UNCHANGED <<badge, met>> /\ OnlyBadges
AwardBadges(v) ==
  /\ Does(v, "award") /\ Leave(v) /\ OnlyBadges
  /\ LET new == visit[v].due \ visit[v].seen IN
     IF new \cap Earned # {} THEN badge' = badge /\ Meeting(~(new \subseteq Earned))
     ELSE /\ badge' = [b \in Badges |-> IF b \in new THEN [badge[b] EXCEPT !.row = TRUE, !.notices = @ + 1]
                                        ELSE badge[b]]
          /\ met' = met

(* Hours: the rows there are when the request begins are deleted, and a    *)
(* row that came since stays or, if its hour is asked for, refuses all.    *)
OnlyWeek == UNCHANGED <<piece, badge, code, friend, host>>
ClearWeek(v, wanted) ==
  /\ Arrive(v, [does |-> "week", wanted |-> wanted, seen |-> week.rows])
  /\ UNCHANGED <<week, met>> /\ OnlyWeek
SetAvailability(v) ==
  /\ Does(v, "week") /\ Leave(v) /\ OnlyWeek
  /\ LET wanted == visit[v].wanted
         kept == {h \in Hours : week.rows[h] # 0 /\ week.rows[h] # visit[v].seen[h]}
     IN IF kept \cap wanted # {} THEN UNCHANGED <<week, met>>
        ELSE /\ week.edition < MaxWeeks /\ Meeting(kept # {})
             /\ week' = [week EXCEPT !.edition = @ + 1, !.wanted = wanted,
                  !.rows = [h \in Hours |-> IF h \in wanted THEN week.edition + 1
                                            ELSE IF h \in kept THEN week.rows[h] ELSE 0]]
Blackout(h) == /\ week' = [week EXCEPT !.out = IF h \in @ THEN @ \ {h} ELSE @ \cup {h}]
               /\ UNCHANGED <<visit, met>> /\ OnlyWeek

(* Referrals: a code is made on the first visit that finds none; a friend  *)
(* is counted while the code is the user's; the bonus is paid by the       *)
(* friend's first submission, from the row it loaded if the task is the    *)
(* referrer's own.                                                         *)
OnlyHost == UNCHANGED <<piece, badge, week>>
FindNoCode(v) ==
  /\ code.now = 0 /\ Arrive(v, [does |-> "code"])
  /\ UNCHANGED <<code, friend, host, met>> /\ OnlyHost
MakeCode(v) ==
  /\ Does(v, "code") /\ Leave(v) /\ Cardinality(code.shown) < MaxCodes
  /\ LET new == Cardinality(code.shown) + 1 IN code' = [now |-> new, shown |-> code.shown \cup {new}]
  /\ Meeting(code.now # 0) /\ UNCHANGED <<friend, host>> /\ OnlyHost
SignUp(f, c) ==
  /\ friend[f] = "unknown" /\ c \in code.shown
  /\ IF c = code.now THEN /\ friend' = [friend EXCEPT ![f] = "referred"]
                          /\ host' = [host EXCEPT !.pending = @ + 1]
     ELSE friend' = [friend EXCEPT ![f] = "ignored"] /\ host' = host
  /\ UNCHANGED <<code, visit, met>> /\ OnlyHost
LoadHost(v, f) ==
  /\ friend[f] = "referred" /\ \A w \in Visits : ~(Does(w, "first") /\ visit[w].friend = f)
  /\ Arrive(v, [does |-> "first", friend |-> f, seen |-> host])
  /\ UNCHANGED <<code, friend, host, met>> /\ OnlyHost
PayReferral(v, fresh) ==
  /\ Does(v, "first") /\ Leave(v)
  /\ LET copy == IF fresh THEN host ELSE visit[v].seen IN
       /\ host' = [host EXCEPT !.credits = copy.credits + 1,
                               !.pending = IF copy.pending > 1 THEN copy.pending - 1 ELSE 0]
       /\ Meeting(copy # host)
  /\ friend' = [friend EXCEPT ![visit[v].friend] = "paid"]
  /\ UNCHANGED code /\ OnlyHost
Spend == /\ host.credits > 0 /\ host.spent < MaxSpent
         /\ host' = [host EXCEPT !.credits = @ - 1, !.spent = @ + 1]
         /\ UNCHANGED <<code, friend, visit, met>> /\ OnlyHost

PieceNext ==
  \/ \E w \in Works : \/ SubmitWork(w) \/ RejectWork(w) \/ DeletePin(w)
                      \/ \E v \in Visits : FindPins(v, w) \/ CheckWork(v, w)
  \/ \E v \in Visits : PinTask(v) \/ Endorse(v) \/ VisitDies(v)
BadgeNext == \/ \E b \in Badges : Reach(b)
             \/ \E v \in Visits : ReadBadges(v) \/ AwardBadges(v) \/ VisitDies(v)
WeekNext == \/ \E h \in Hours : Blackout(h)
            \/ \E v \in Visits : SetAvailability(v) \/ VisitDies(v) \/ \E wanted \in SUBSET Hours : ClearWeek(v, wanted)
HostNext == \/ \E v \in Visits : \/ FindNoCode(v) \/ MakeCode(v) \/ VisitDies(v)
                                 \/ \E fresh \in BOOLEAN : PayReferral(v, fresh)
                                 \/ \E f \in Friends : LoadHost(v, f)
            \/ \E f \in Friends : \E c \in 1..MaxCodes : SignUp(f, c)
            \/ Spend
ShowcaseNext == PieceNext \/ BadgeNext \/ WeekNext \/ HostNext
ShowcaseSpec == ShowcaseInit /\ [][ShowcaseNext]_showcaseVars

-----------------------------------------------------------------------------
(* Requests that met no other keep what each promises: no more pins than   *)
(* the cap; each code shown is the user's; the hours are the last ones     *)
(* asked for; what is pending is owed for friends not yet paid for, and    *)
(* the credits are what was received and not spent.  Where they meet, the  *)
(* cap is passed, by one pin for each that did not see another's; and a    *)
(* badge has one notice if it has a row, none else.  Of endorsements it    *)
(* says nothing: one stays when its work is rejected afterwards.           *)
ShowcaseKept ==
  /\ Cardinality(Pinned) <= MaxPins + met
  /\ \A b \in Badges : badge[b].notices = IF badge[b].row THEN 1 ELSE 0
  /\ \A b \in Badges : badge[b].row => badge[b].reached
  /\ met = 0 =>
       /\ \A c \in code.shown : c = code.now
       /\ {h \in Hours : week.rows[h] # 0} = week.wanted
       /\ host.pending = Cardinality({f \in Friends : friend[f] = "referred"})
       /\ host.credits + host.spent = MaxSpent + Cardinality({f \in Friends : friend[f] = "paid"})

(* pin_task: locking the rows "prevents two simultaneous requests from     *)
(* both passing the cap check and pushing the count above _MAX_PORTFOLIO"  *)
(* (portfolio.py:143-145), which a test describes as '400 even under       *)
(* concurrent requests' (test_race_conditions.py:693).  A row inserted     *)
(* meanwhile is not among them, and two pins break this.                   *)
PinLimit == Cardinality(Pinned) <= MaxPins
=============================================================================
