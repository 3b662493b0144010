--------------------------- MODULE FeaturesProofs ---------------------------
(* What TLAPS proves of what surrounds the work: of Welcome, ResultCache,  *)
(* Triggers, Monitors, Access, Showcase, Templates, Experiments and Talk,  *)
(* for any requests and rows.                                              *)
EXTENDS Access, Monitors, Triggers, ResultCache, Welcome, Showcase, Templates, Experiments, Talk,
        Sums, FiniteSetTheorems, TLAPS

---------------------------------------------------------------------------
(* Welcome *)

GuideRow == [there : BOOLEAN, steps : SUBSET GuideSteps,
             completed : BOOLEAN, skipped : BOOLEAN, claimed : BOOLEAN]
GuestRow == [to : {"look", "step", "hook", "skip", "reset"}, step : GuideSteps, copy : GuideRow]

WelcomeShape ==
  /\ guide \in GuideRow /\ (guide.there \/ guide = NoGuide)
  /\ guest \in [Guests -> {NoGuest} \cup GuestRow]
  /\ asked \subseteq GuideSteps
  /\ bonuses \in Nat /\ resets \in Nat /\ slips \in Nat

(* What was paid beyond the claim that stands was paid for a row that was  *)
(* reset or by an outdated copy.                                           *)
PaidFor == bonuses <= resets + slips + (IF guide.claimed THEN 1 ELSE 0)

GuideTrue == slips = 0 =>
  /\ guide.steps = asked
  /\ guide.completed = AllDone(asked) /\ guide.claimed = guide.completed
  /\ bonuses = resets + (IF guide.claimed THEN 1 ELSE 0)

WelcomeInv == WelcomeShape /\ PaidFor /\ GuideTrue

LEMMA GuestKnown ==
  ASSUME WelcomeInv, NEW g \in Guests, guest[g].to \in {"look", "step", "hook", "skip", "reset"}
  PROVE  guest[g] \in GuestRow
<1>1. guest[g] \in {NoGuest} \cup GuestRow  BY DEF WelcomeInv, WelcomeShape
<1>2. guest[g] # NoGuest  BY DEF NoGuest
<1>. QED  BY <1>1, <1>2

LEMMA WelcomeInvInit == WelcomeInit => WelcomeInv
<1>. SUFFICES ASSUME WelcomeInit PROVE WelcomeInv
  OBVIOUS
<1>1. WelcomeShape /\ PaidFor
  BY DEF WelcomeInit, WelcomeShape, PaidFor, NoGuide, GuideRow
<1>2. ~AllDone(asked)  BY WelcomeAssumption DEF WelcomeInit, AllDone
<1>3. guide.steps = asked /\ guide.completed = FALSE /\ guide.claimed = FALSE /\ bonuses = resets
  BY DEF WelcomeInit, NoGuide
<1>4. bonuses = resets + 0  BY <1>3 DEF WelcomeInit
<1>5. GuideTrue  BY <1>2, <1>3, <1>4 DEF GuideTrue, AllDone
<1>. QED  BY <1>1, <1>5 DEF WelcomeInv

LEMMA GuestGone ==
  ASSUME WelcomeInv, NEW g \in Guests, Finished(g)
  PROVE  guest' \in [Guests -> {NoGuest} \cup GuestRow]
BY DEF WelcomeInv, WelcomeShape, Finished

(* A step is marked, and the bonus claimed with the last.                  *)
LEMMA SetStepKeeps ==
  ASSUME WelcomeInv, NEW g \in Guests, SetStep(g)
  PROVE  WelcomeInv'
<1>1. guest[g] \in GuestRow  BY GuestKnown DEF SetStep
<1>2. guest' \in [Guests -> {NoGuest} \cup GuestRow]  BY GuestGone DEF SetStep
<1>. DEFINE copy == guest[g].copy
            steps == copy.steps \cup {guest[g].step}
            claims == Claims(copy, steps)
<1>3. copy \in GuideRow /\ guest[g].step \in GuideSteps  BY <1>1 DEF GuestRow
<1>4. /\ guide' = [there |-> TRUE,
                   steps |-> guide.steps \cup (steps \ copy.steps),
                   completed |-> guide.completed \/ (AllDone(steps) /\ ~copy.completed),
                   skipped |-> guide.skipped,
                   claimed |-> guide.claimed \/ claims]
      /\ bonuses' = (IF claims THEN bonuses + 1 ELSE bonuses)
      /\ asked' = asked \cup {guest[g].step}
      /\ slips' = (IF copy # guide THEN slips + 1 ELSE slips)
      /\ resets' = resets
  BY DEF SetStep, Copy, Slip
<1>5. claims \in BOOLEAN /\ claims = (AllDone(steps) /\ ~copy.claimed)  BY DEF Claims
<1>6. guide \in GuideRow /\ asked \subseteq GuideSteps /\ bonuses \in Nat /\ resets \in Nat /\ slips \in Nat
  BY DEF WelcomeInv, WelcomeShape
<1>7. guide' \in GuideRow /\ guide'.there
  BY ONLY <1>3, <1>4, <1>5, <1>6 DEF GuideRow, AllDone
<1>8. WelcomeShape'
  BY <1>2, <1>3, <1>4, <1>6, <1>7 DEF WelcomeShape
<1>9. guide'.claimed = (guide.claimed \/ claims)  BY <1>4
<1>10. PaidFor'
  <2>1. PaidFor  BY DEF WelcomeInv
  <2>2. CASE ~claims
    <3>1. bonuses' = bonuses /\ guide'.claimed = guide.claimed /\ slips' >= slips
      BY <2>2, <1>4, <1>5, <1>6, <1>9 DEF GuideRow
    <3>. QED  BY <2>1, <3>1, <1>4, <1>6, <1>8 DEF PaidFor, WelcomeShape
  <2>3. CASE claims
    <3>1. bonuses' = bonuses + 1 /\ guide'.claimed  BY <2>3, <1>4, <1>9
    <3>2. guide.claimed => slips' = slips + 1  BY <2>3, <1>4, <1>5
    <3>. QED  BY <2>1, <3>1, <3>2, <1>4, <1>6 DEF PaidFor
  <2>. QED  BY <2>2, <2>3
<1>11. GuideTrue'
  <2>. SUFFICES ASSUME slips' = 0
                PROVE  /\ guide'.steps = asked'
                       /\ guide'.completed = AllDone(asked') /\ guide'.claimed = guide'.completed
                       /\ bonuses' = resets' + (IF guide'.claimed THEN 1 ELSE 0)
    BY DEF GuideTrue, AllDone
  <2>1. slips = 0 /\ copy = guide  BY <1>4, <1>6
  <2>2. /\ guide.steps = asked
        /\ guide.completed = AllDone(asked) /\ guide.claimed = guide.completed
        /\ bonuses = resets + (IF guide.claimed THEN 1 ELSE 0)
    BY <2>1 DEF WelcomeInv, GuideTrue
  <2>3. guide'.steps = asked' /\ steps = asked'  BY <2>1, <2>2, <1>4
  <2>4. guide'.completed = AllDone(asked')
    <3>1. guide'.completed = (guide.completed \/ AllDone(asked'))  BY <2>1, <2>3, <1>4
    <3>2. AllDone(asked) => AllDone(asked')  BY <1>3, <1>4, <1>6 DEF AllDone
    <3>. QED  BY ONLY <3>1, <3>2, <2>2 DEF AllDone
  <2>5. claims = (AllDone(asked') /\ ~guide.completed)  BY <2>1, <2>2, <2>3, <1>5
  <2>6. guide'.completed = (guide.completed \/ (AllDone(asked') /\ ~guide.completed))
    BY <2>1, <2>3, <1>4
  <2>7. guide'.claimed = guide'.completed  BY <2>2, <2>5, <2>6, <1>9
  <2>8. bonuses' = resets' + (IF guide'.claimed THEN 1 ELSE 0)
    <3>1. CASE claims
      <4>1. ~guide.claimed  BY <3>1, <1>5, <2>1
      <4>2. bonuses' = bonuses + 1 /\ guide'.claimed  BY <3>1, <1>4, <1>9
      <4>3. bonuses = resets  BY <4>1, <2>2, <1>6
      <4>. QED  BY <4>2, <4>3, <1>4
    <3>2. CASE ~claims
      <4>1. guide'.claimed = guide.claimed  BY <3>2, <1>6, <1>9 DEF GuideRow
      <4>2. bonuses' = bonuses  BY <3>2, <1>4
      <4>. QED  BY <4>1, <4>2, <2>2, <1>4
    <3>. QED  BY <3>1, <3>2
  <2>. QED  BY <2>3, <2>4, <2>7, <2>8
<1>. QED  BY <1>8, <1>10, <1>11 DEF WelcomeInv

(* A reset clears what its copy holds.                                     *)
LEMMA ResetKeeps ==
  ASSUME WelcomeInv, NEW g \in Guests, ResetOnboarding(g)
  PROVE  WelcomeInv'
<1>1. guest[g] \in GuestRow  BY GuestKnown DEF ResetOnboarding
<1>2. guest' \in [Guests -> {NoGuest} \cup GuestRow]  BY GuestGone DEF ResetOnboarding
<1>. DEFINE copy == guest[g].copy
<1>3. copy \in GuideRow  BY <1>1 DEF GuestRow
<1>4. /\ guide' = [there |-> TRUE, steps |-> guide.steps \ copy.steps,
                   completed |-> guide.completed /\ ~copy.completed,
                   skipped |-> guide.skipped /\ ~copy.skipped,
                   claimed |-> guide.claimed /\ ~copy.claimed]
      /\ resets' = (IF copy.claimed THEN resets + 1 ELSE resets)
      /\ asked' = {} /\ bonuses' = bonuses
      /\ slips' = (IF copy # guide THEN slips + 1 ELSE slips)
  BY DEF ResetOnboarding, Copy, Slip
<1>5. guide \in GuideRow /\ bonuses \in Nat /\ resets \in Nat /\ slips \in Nat
  BY DEF WelcomeInv, WelcomeShape
<1>6. guide' \in GuideRow /\ guide'.there  BY ONLY <1>3, <1>4, <1>5 DEF GuideRow
<1>7. WelcomeShape'  BY <1>2, <1>4, <1>5, <1>6 DEF WelcomeShape
<1>8. PaidFor'
  <2>1. guide'.claimed = (guide.claimed /\ ~copy.claimed)  BY <1>4
  <2>. QED  BY <2>1, <1>4, <1>5 DEF WelcomeInv, PaidFor
<1>9. GuideTrue'
  <2>. SUFFICES ASSUME slips' = 0
                PROVE  /\ guide'.steps = asked'
                       /\ guide'.completed = AllDone(asked') /\ guide'.claimed = guide'.completed
                       /\ bonuses' = resets' + (IF guide'.claimed THEN 1 ELSE 0)
    BY DEF GuideTrue, AllDone
  <2>1. slips = 0 /\ copy = guide  BY <1>4, <1>5
  <2>2. bonuses = resets + (IF guide.claimed THEN 1 ELSE 0)
    BY <2>1 DEF WelcomeInv, GuideTrue
  <2>3. guide'.steps = {} /\ guide'.completed = FALSE /\ guide'.claimed = FALSE  BY <2>1, <1>4
  <2>4. ~AllDone(asked')  BY WelcomeAssumption, <1>4 DEF AllDone
  <2>5. bonuses' = resets'  BY <2>1, <2>2, <1>4, <1>5
  <2>. QED  BY <2>3, <2>4, <2>5, <1>4, <1>5 DEF AllDone
<1>. QED  BY <1>7, <1>8, <1>9 DEF WelcomeInv

LEMMA WelcomeInvNext == WelcomeInv /\ [WelcomeNext]_welcomeVars => WelcomeInv'
<1>. SUFFICES ASSUME WelcomeInv, [WelcomeNext]_welcomeVars PROVE WelcomeInv'
  OBVIOUS
<1>1. ASSUME NEW g \in Guests, NEW to \in {"look", "step", "hook", "skip", "reset"}, NEW s \in GuideSteps,
             OpenGuide(g, to, s)
      PROVE  WelcomeInv'
  <2>1. [to |-> to, step |-> s, copy |-> guide] \in GuestRow
    BY DEF WelcomeInv, WelcomeShape, GuestRow
  <2>. QED  BY <1>1, <2>1 DEF OpenGuide, Enter, WelcomeInv, WelcomeShape, PaidFor, GuideTrue, AllDone
<1>2. ASSUME NEW g \in Guests, Refuse(g) \/ GuestDies(g)
      PROVE  WelcomeInv'
  BY <1>2, GuestGone DEF Refuse, GuestDies, WelcomeInv, WelcomeShape, PaidFor, GuideTrue, AllDone
<1>3. ASSUME NEW g \in Guests, SkipOnboarding(g)
      PROVE  WelcomeInv'
  <2>1. guest' \in [Guests -> {NoGuest} \cup GuestRow]  BY <1>3, GuestGone DEF SkipOnboarding
  <2>2. guide' = guide \/ guide' = [guide EXCEPT !.there = TRUE, !.skipped = TRUE]
    BY <1>3 DEF SkipOnboarding
  <2>3. guide \in GuideRow  BY DEF WelcomeInv, WelcomeShape
  <2>4. /\ guide' \in GuideRow /\ (guide'.there \/ guide' = guide)
        /\ guide'.steps = guide.steps /\ guide'.completed = guide.completed /\ guide'.claimed = guide.claimed
    BY ONLY <2>2, <2>3 DEF GuideRow
  <2>5. slips' \in Nat /\ slips' >= slips
    BY <1>3 DEF SkipOnboarding, Slip, WelcomeInv, WelcomeShape
  <2>. QED  BY <1>3, <2>1, <2>4, <2>5 DEF SkipOnboarding, WelcomeInv, WelcomeShape, PaidFor, GuideTrue, AllDone
<1>5. ASSUME NEW g \in Guests, GetStatus(g)
      PROVE  WelcomeInv'
  <2>1. guest' \in [Guests -> {NoGuest} \cup GuestRow]  BY <1>5, GuestGone DEF GetStatus
  <2>2. guest[g] \in GuestRow  BY <1>5, GuestKnown DEF GetStatus
  <2>3. guide' = guide \/ (guide = NoGuide /\ guide' = EmptyGuide)
    BY <1>5, <2>2 DEF GetStatus, Found, Copy, WelcomeInv, WelcomeShape
  <2>4. /\ guide' \in GuideRow /\ (guide'.there \/ guide' = NoGuide)
        /\ guide'.steps = guide.steps /\ guide'.completed = guide.completed /\ guide'.claimed = guide.claimed
    BY <2>3 DEF WelcomeInv, WelcomeShape, GuideRow, NoGuide, EmptyGuide
  <2>. QED  BY <1>5, <2>1, <2>4 DEF GetStatus, WelcomeInv, WelcomeShape, PaidFor, GuideTrue, AllDone
<1>4. ASSUME UNCHANGED welcomeVars PROVE WelcomeInv'
  BY <1>4 DEF welcomeVars, WelcomeInv, WelcomeShape, PaidFor, GuideTrue, AllDone
<1>. QED  BY <1>1, <1>2, <1>3, <1>4, <1>5, SetStepKeeps, ResetKeeps DEF WelcomeNext

(* However many requests mark, skip and reset the steps at once, the bonus  *)
(* is paid once, and again only for a reset or an outdated copy; without   *)
(* one the row is what was asked (routers/requester_onboarding.py).        *)
THEOREM WelcomeSound == WelcomeSpec => []WelcomeKept
<1>1. WelcomeInv => WelcomeKept
  BY DEF WelcomeInv, WelcomeShape, PaidFor, GuideTrue, WelcomeKept
<1>. QED  BY <1>1, WelcomeInvInit, WelcomeInvNext, PTL DEF WelcomeSpec

---------------------------------------------------------------------------
(* ResultCache *)

ResultRow == [id : Nat, output : Nat, fresh : BOOLEAN, hits : Nat]
LookupRow == [for : {"result"}, seen : ResultRow]
StoreRow == [for : {"store"}, seen : ResultRow, output : Nat]
ToldRow == [output : Nat, fresh : BOOLEAN]

CacheShape ==
  /\ cached \in ResultRow /\ (cached.id = 0 => cached = NoRow)
  /\ caller \in [Callers -> {NoCaller} \cup LookupRow \cup StoreRow]
  /\ computed \in Nat /\ races \in Nat
  /\ refreshed \in [output : Nat, rows : Nat]
  /\ served \in [hits : Nat, outputs : SUBSET ToldRow, failed : Nat]

(* What was inserted once: its number is given away, its output computed,  *)
(* its hits were hits.                                                     *)
Inserted(row) ==
  row.id >= 1 /\ row.id <= refreshed.rows /\ row.output >= 1 /\ row.output <= computed /\ row.hits <= served.hits

RowStands == There(cached) =>
  /\ Inserted(cached) /\ cached.output = refreshed.output
  /\ refreshed.rows = 1 /\ races = 0 => served.failed = 0 /\ cached.hits = served.hits

CallersKnow ==
  \A c \in Callers : /\ caller[c].for = "result" => Inserted(caller[c].seen)
                     /\ caller[c].for = "store" =>
                          /\ caller[c].seen = NoRow \/ Inserted(caller[c].seen)
                          /\ caller[c].output >= 1 /\ caller[c].output <= computed

ServedFresh == \A o \in served.outputs : o.fresh /\ o.output \in 1..computed
NothingYet == refreshed.rows = 0 => served.hits = 0 /\ served.failed = 0

CacheInv == CacheShape /\ RowStands /\ CallersKnow /\ ServedFresh /\ NothingYet

LEMMA CallerKnown ==
  ASSUME CacheInv, NEW c \in Callers
  PROVE  /\ caller[c].for = "result" => caller[c] \in LookupRow
         /\ caller[c].for = "store" => caller[c] \in StoreRow
<1>1. caller[c] \in {NoCaller} \cup LookupRow \cup StoreRow  BY DEF CacheInv, CacheShape
<1>2. NoCaller.for = "nothing"  BY DEF NoCaller
<1>3. caller[c] \in LookupRow => caller[c].for = "result"  BY DEF LookupRow
<1>4. caller[c] \in StoreRow => caller[c].for = "store"  BY DEF StoreRow
<1>. QED  BY <1>1, <1>2, <1>3, <1>4

(* A caller that ends leaves the others as they are.                       *)
LEMMA HangKeeps ==
  ASSUME CacheInv, NEW c \in Callers, Hang(c), computed' = computed, refreshed'.rows >= refreshed.rows,
         refreshed' \in [output : Nat, rows : Nat], served'.hits >= served.hits, served'.hits \in Nat
  PROVE  caller' \in [Callers -> {NoCaller} \cup LookupRow \cup StoreRow] /\ CallersKnow'
<1>1. caller' \in [Callers -> {NoCaller} \cup LookupRow \cup StoreRow]
  BY DEF CacheInv, CacheShape, Hang
<1>2. ASSUME NEW d \in Callers
      PROVE  /\ caller'[d].for = "result" => Inserted(caller[d].seen)'
             /\ caller'[d].for = "store" =>
                  /\ caller'[d].seen = NoRow \/ Inserted(caller[d].seen)'
                  /\ caller'[d].output >= 1 /\ caller'[d].output <= computed'
  <2>1. CASE d = c
    <3>1. caller'[d] = NoCaller  BY <2>1 DEF CacheInv, CacheShape, Hang
    <3>. QED  BY <3>1 DEF NoCaller
  <2>2. CASE d # c
    <3>1. caller'[d] = caller[d]  BY <2>2 DEF CacheInv, CacheShape, Hang
    <3>2. CASE caller[d].for = "result"
      <4>1. Inserted(caller[d].seen) /\ caller[d].seen \in ResultRow
        BY <3>2, CallerKnown DEF CacheInv, CallersKnow, LookupRow
      <4>. QED  BY <3>1, <3>2, <4>1 DEF Inserted, ResultRow, CacheInv, CacheShape
    <3>3. CASE caller[d].for = "store"
      <4>1. /\ caller[d].seen = NoRow \/ Inserted(caller[d].seen)
            /\ caller[d].output >= 1 /\ caller[d].output <= computed /\ caller[d].seen \in ResultRow
        BY <3>3, CallerKnown DEF CacheInv, CallersKnow, StoreRow
      <4>. QED  BY <3>1, <3>3, <4>1 DEF Inserted, ResultRow, CacheInv, CacheShape
    <3>. QED  BY <3>1, <3>2, <3>3
  <2>. QED  BY <2>1, <2>2
<1>3. CallersKnow'  BY <1>2 DEF CallersKnow
<1>. QED  BY <1>1, <1>3

LEMMA CacheInvInit == CacheInit => CacheInv
BY DEF CacheInit, CacheInv, CacheShape, NoRow, NoCaller, There, RowStands, CallersKnow, ServedFresh,
       NothingYet, ResultRow, LookupRow, StoreRow

(* A caller begins with the row there is.                                  *)
LEMMA AskKeeps ==
  ASSUME CacheInv, NEW c \in Callers, Lookup(c) \/ Compute(c)
  PROVE  CacheInv'
<1>1. /\ UNCHANGED <<cached, refreshed, served, races>>
      /\ computed' \in {computed, computed + 1}
      /\ computed \in Nat
  BY DEF Lookup, Compute, CacheInv, CacheShape
<1>2. \/ caller' = [caller EXCEPT ![c] = [for |-> "result", seen |-> cached]] /\ There(cached)
      \/ /\ caller' = [caller EXCEPT ![c] = [for |-> "store", seen |-> cached, output |-> computed + 1]]
         /\ computed' = computed + 1
  BY DEF Lookup, Compute, Ask
<1>3. [for |-> "result", seen |-> cached] \in LookupRow
      /\ [for |-> "store", seen |-> cached, output |-> computed + 1] \in StoreRow
  BY <1>1 DEF CacheInv, CacheShape, LookupRow, StoreRow
<1>4. CacheShape'
  BY <1>1, <1>2, <1>3 DEF CacheInv, CacheShape
<1>5. cached = NoRow \/ Inserted(cached)  BY DEF CacheInv, RowStands, There
<1>6. ASSUME NEW d \in Callers
      PROVE  /\ caller'[d].for = "result" => Inserted(caller[d].seen)'
             /\ caller'[d].for = "store" =>
                  /\ caller'[d].seen = NoRow \/ Inserted(caller[d].seen)'
                  /\ caller'[d].output >= 1 /\ caller'[d].output <= computed'
  <2>1. CASE d = c
    <3>1. \/ caller'[d] = [for |-> "result", seen |-> cached] /\ There(cached)
          \/ /\ caller'[d] = [for |-> "store", seen |-> cached, output |-> computed + 1]
             /\ computed' = computed + 1
      BY <2>1, <1>2 DEF CacheInv, CacheShape
    <3>. QED  BY <3>1, <1>1, <1>5 DEF There, Inserted, CacheInv, CacheShape, ResultRow
  <2>2. CASE d # c
    <3>1. caller'[d] = caller[d]  BY <2>2, <1>2 DEF CacheInv, CacheShape
    <3>2. CASE caller[d].for = "result"
      <4>1. Inserted(caller[d].seen) /\ caller[d].seen \in ResultRow
        BY <3>2, CallerKnown DEF CacheInv, CallersKnow, LookupRow
      <4>. QED  BY <3>1, <3>2, <4>1, <1>1 DEF Inserted, ResultRow
    <3>3. CASE caller[d].for = "store"
      <4>1. /\ caller[d].seen = NoRow \/ Inserted(caller[d].seen)
            /\ caller[d].output >= 1 /\ caller[d].output <= computed /\ caller[d].seen \in ResultRow
            /\ caller[d].output \in Nat
        BY <3>3, CallerKnown DEF CacheInv, CallersKnow, StoreRow
      <4>. QED  BY <3>1, <3>3, <4>1, <1>1 DEF Inserted, ResultRow
    <3>. QED  BY <3>1, <3>2, <3>3
  <2>. QED  BY <2>1, <2>2
<1>7. CallersKnow'  BY <1>6 DEF CallersKnow
<1>8. RowStands' /\ NothingYet'
  BY <1>1 DEF CacheInv, CacheShape, ResultRow, RowStands, NothingYet, Inserted, There
<1>9. ServedFresh'
  <2>1. ASSUME NEW o \in served'.outputs PROVE o.fresh /\ o.output \in 1..computed'
    <3>1. o.fresh /\ o.output \in 1..computed  BY <2>1, <1>1 DEF CacheInv, ServedFresh
    <3>. QED  BY <3>1, <1>1
  <2>. QED  BY <2>1 DEF ServedFresh
<1>. QED  BY <1>4, <1>7, <1>8, <1>9 DEF CacheInv

(* A hit is counted on the row that was looked up.                         *)
LEMMA HitKeeps ==
  ASSUME CacheInv, NEW c \in Callers, Hit(c)
  PROVE  CacheInv'
<1>1. caller[c] \in LookupRow /\ Inserted(caller[c].seen)
  BY CallerKnown DEF Hit, Asks, CacheInv, CallersKnow
<1>. DEFINE seen == caller[c].seen
            given == [output |-> seen.output, fresh |-> seen.fresh]
<1>2. /\ seen \in ResultRow /\ seen.fresh /\ cached.id = seen.id
      /\ cached' = [cached EXCEPT !.hits = seen.hits + 1]
      /\ served' = [served EXCEPT !.hits = @ + 1, !.outputs = @ \cup {given}]
      /\ races' = (IF cached # seen THEN races + 1 ELSE races)
      /\ UNCHANGED <<computed, refreshed>>
  BY <1>1 DEF Hit, Same, Expired, Race, LookupRow
<1>3. /\ cached \in ResultRow /\ races \in Nat /\ computed \in Nat /\ refreshed \in [output : Nat, rows : Nat]
      /\ served \in [hits : Nat, outputs : SUBSET ToldRow, failed : Nat]
  BY DEF CacheInv, CacheShape
<1>4. /\ cached' \in ResultRow /\ cached'.id = cached.id /\ cached'.output = cached.output
      /\ cached'.hits = seen.hits + 1
  BY ONLY <1>2, <1>3 DEF ResultRow
<1>5. /\ served' \in [hits : Nat, outputs : SUBSET ToldRow, failed : Nat]
      /\ served'.hits = served.hits + 1 /\ served'.failed = served.failed
      /\ served'.outputs = served.outputs \cup {given}
  <2>1. given \in ToldRow  BY <1>2 DEF ResultRow, ToldRow
  <2>2. served' = [served EXCEPT !.hits = served.hits + 1, !.outputs = served.outputs \cup {given}]  BY <1>2
  <2>. DEFINE outputs == served.outputs \cup {given}
  <2>3. outputs \in SUBSET ToldRow /\ served.hits + 1 \in Nat  BY ONLY <2>1, <1>3
  <2>4. served' = [served EXCEPT !.hits = served.hits + 1, !.outputs = outputs]  BY <2>2
  <2>. HIDE DEF given, outputs
  <2>5. served' \in [hits : Nat, outputs : SUBSET ToldRow, failed : Nat]
    BY ONLY <2>3, <2>4, <1>3
  <2>6. /\ served'.hits = served.hits + 1 /\ served'.failed = served.failed
        /\ served'.outputs = outputs
    BY ONLY <2>4, <1>3
  <2>. QED  BY <2>5, <2>6 DEF outputs
<1>6. cached.id # 0 /\ There(cached)
  BY <1>1, <1>2, <1>3 DEF Inserted, There, NoRow, ResultRow
<1>7. caller' \in [Callers -> {NoCaller} \cup LookupRow \cup StoreRow] /\ CallersKnow'
  <2>1. refreshed' = refreshed /\ served'.hits >= served.hits /\ served'.hits \in Nat
    BY <1>2, <1>3, <1>5
  <2>. QED  BY <2>1, <1>2, <1>3, HangKeeps DEF Hit
<1>8. CacheShape'
  BY <1>2, <1>3, <1>4, <1>5, <1>6, <1>7 DEF CacheShape
<1>9. ServedFresh'
  <2>1. ASSUME NEW o \in served'.outputs PROVE o.fresh /\ o.output \in 1..computed'
    <3>1. CASE o = given  BY <3>1, <1>1, <1>2, <1>3 DEF Inserted, ResultRow
    <3>2. CASE o \in served.outputs  BY <3>2, <1>2 DEF CacheInv, ServedFresh
    <3>. QED  BY <2>1, <3>1, <3>2, <1>5
  <2>. QED  BY <2>1 DEF ServedFresh
<1>10. NothingYet'
  BY <1>1, <1>2, <1>3 DEF NothingYet, Inserted, ResultRow
<1>11. RowStands'
  <2>1. Inserted(cached) /\ cached.output = refreshed.output  BY <1>6 DEF CacheInv, RowStands
  <2>2. Inserted(cached)' /\ cached'.output = refreshed'.output
    BY <1>1, <1>2, <1>3, <1>4, <1>5, <2>1 DEF Inserted, ResultRow
  <2>3. ASSUME refreshed'.rows = 1, races' = 0 PROVE served'.failed = 0 /\ cached'.hits = served'.hits
    <3>1. races = 0 /\ cached = seen  BY <2>3, <1>2, <1>3
    <3>2. served.failed = 0 /\ cached.hits = served.hits
      BY <3>1, <2>3, <1>2, <1>6 DEF CacheInv, RowStands
    <3>. QED  BY <3>1, <3>2, <1>4, <1>5
  <2>. QED  BY <2>2, <2>3 DEF RowStands
<1>. QED  BY <1>7, <1>8, <1>9, <1>10, <1>11 DEF CacheInv

(* A store inserts a row or refreshes the one it read.                     *)
LEMMA StoreKeeps ==
  ASSUME CacheInv, NEW c \in Callers, Store(c)
  PROVE  CacheInv'
<1>1. /\ caller[c] \in StoreRow /\ (caller[c].seen = NoRow \/ Inserted(caller[c].seen))
      /\ caller[c].output >= 1 /\ caller[c].output <= computed
  BY CallerKnown DEF Store, Asks, CacheInv, CallersKnow
<1>. DEFINE seen == caller[c].seen
            out == caller[c].output
<1>2. seen \in ResultRow /\ out \in Nat /\ UNCHANGED <<computed, served, races>>
  BY <1>1 DEF StoreRow, Store
<1>3. /\ cached \in ResultRow /\ races \in Nat /\ computed \in Nat /\ refreshed \in [output : Nat, rows : Nat]
      /\ served \in [hits : Nat, outputs : SUBSET ToldRow, failed : Nat]
      /\ (cached.id = 0 => cached = NoRow)
  BY DEF CacheInv, CacheShape
<1>4. CASE cached.id # seen.id
  <2>1. UNCHANGED <<cached, refreshed>>  BY <1>4 DEF Store, Same
  <2>2. caller' \in [Callers -> {NoCaller} \cup LookupRow \cup StoreRow] /\ CallersKnow'
    <3>1. refreshed'.rows >= refreshed.rows /\ served'.hits >= served.hits /\ served'.hits \in Nat
      BY <1>2, <1>3, <2>1
    <3>. QED  BY <3>1, <1>2, <1>3, <2>1, HangKeeps DEF Store
  <2>. QED  BY <2>1, <2>2, <1>2, <1>3 DEF CacheInv, CacheShape, RowStands, Inserted, There, ServedFresh, NothingYet
<1>5. CASE cached.id = seen.id /\ seen = NoRow
  <2>1. cached = NoRow  BY <1>3, <1>5 DEF NoRow
  <2>2. /\ refreshed' = [output |-> out, rows |-> refreshed.rows + 1]
        /\ cached' = [id |-> refreshed.rows + 1, output |-> out, fresh |-> TRUE, hits |-> 0]
    BY <1>5 DEF Store, Same, There
  <2>3. refreshed' \in [output : Nat, rows : Nat] /\ cached' \in ResultRow /\ cached'.id # 0
    BY ONLY <2>2, <1>2, <1>3 DEF ResultRow
  <2>4. caller' \in [Callers -> {NoCaller} \cup LookupRow \cup StoreRow] /\ CallersKnow'
    <3>1. refreshed'.rows >= refreshed.rows /\ served'.hits >= served.hits /\ served'.hits \in Nat
      BY <1>2, <1>3, <2>2
    <3>. QED  BY <3>1, <1>2, <2>3, HangKeeps DEF Store
  <2>5. CacheShape'  BY <1>2, <1>3, <2>3, <2>4 DEF CacheShape
  <2>6. RowStands'
    <3>1. Inserted(cached)'  BY <2>2, <1>1, <1>2, <1>3 DEF Inserted
    <3>2. refreshed'.rows = 1 => served'.failed = 0 /\ cached'.hits = served'.hits
      BY <2>2, <1>2, <1>3 DEF CacheInv, NothingYet
    <3>. QED  BY <3>1, <3>2, <2>2 DEF RowStands
  <2>7. ServedFresh' /\ NothingYet'
    BY <2>2, <1>2, <1>3 DEF CacheInv, ServedFresh, NothingYet
  <2>. QED  BY <2>4, <2>5, <2>6, <2>7 DEF CacheInv
<1>6. CASE cached.id = seen.id /\ seen # NoRow
  <2>1. Inserted(seen)  BY <1>1, <1>6
  <2>2. /\ refreshed' = [output |-> out, rows |-> refreshed.rows]
        /\ cached' = [cached EXCEPT !.output = out, !.fresh = TRUE]
    BY <1>6 DEF Store, Same, There
  <2>3. refreshed' \in [output : Nat, rows : Nat] /\ refreshed'.rows = refreshed.rows /\ refreshed'.output = out
    BY ONLY <2>2, <1>2, <1>3
  <2>4. cached' \in ResultRow /\ cached'.id = cached.id /\ cached'.hits = cached.hits /\ cached'.output = out
    BY ONLY <2>2, <1>2, <1>3 DEF ResultRow
  <2>5. cached.id # 0 /\ There(cached)
    BY <2>1, <1>2, <1>6 DEF Inserted, ResultRow, There, NoRow
  <2>6. caller' \in [Callers -> {NoCaller} \cup LookupRow \cup StoreRow] /\ CallersKnow'
    <3>1. refreshed'.rows >= refreshed.rows /\ served'.hits >= served.hits /\ served'.hits \in Nat
      BY <1>2, <1>3, <2>3
    <3>. QED  BY <3>1, <1>2, <2>3, HangKeeps DEF Store
  <2>7. CacheShape'  BY <1>2, <1>3, <2>3, <2>4, <2>5, <2>6 DEF CacheShape
  <2>8. RowStands'
    <3>1. /\ Inserted(cached)
          /\ refreshed.rows = 1 /\ races = 0 => served.failed = 0 /\ cached.hits = served.hits
      BY <2>5 DEF CacheInv, RowStands
    <3>2. Inserted(cached)'  BY <3>1, <2>3, <2>4, <1>1, <1>2, <1>3 DEF Inserted
    <3>3. refreshed'.rows = 1 /\ races' = 0 => served'.failed = 0 /\ cached'.hits = served'.hits
      BY <3>1, <2>3, <2>4, <1>2
    <3>. QED  BY <3>2, <3>3, <2>3, <2>4 DEF RowStands
  <2>9. ServedFresh' /\ NothingYet'
    BY <2>3, <1>2, <1>3 DEF CacheInv, ServedFresh, NothingYet
  <2>. QED  BY <2>6, <2>7, <2>8, <2>9 DEF CacheInv
<1>. QED  BY <1>4, <1>5, <1>6

LEMMA CacheInvNext == CacheInv /\ [CacheNext]_cacheVars => CacheInv'
<1>. SUFFICES ASSUME CacheInv, [CacheNext]_cacheVars PROVE CacheInv'
  OBVIOUS
<1>1. ASSUME NEW c \in Callers, DropExpired(c) PROVE CacheInv'
  <2>1. /\ cached' \in {cached, NoRow} /\ races' \in {races, races + 1}
        /\ UNCHANGED <<computed, refreshed, served>>
    BY <1>1 DEF DropExpired, Race
  <2>2. caller' \in [Callers -> {NoCaller} \cup LookupRow \cup StoreRow] /\ CallersKnow'
    <3>1. refreshed'.rows >= refreshed.rows /\ served'.hits >= served.hits /\ served'.hits \in Nat
      BY <2>1 DEF CacheInv, CacheShape
    <3>. QED  BY <3>1, <2>1, <1>1, HangKeeps DEF DropExpired, CacheInv, CacheShape
  <2>3. CacheShape'
    <3>1. NoRow \in ResultRow  BY DEF NoRow, ResultRow
    <3>. QED  BY <3>1, <2>1, <2>2 DEF CacheInv, CacheShape
  <2>. ServedFresh' /\ NothingYet'
    BY <2>1 DEF CacheInv, ServedFresh, NothingYet
  <2>4. RowStands'
    BY <2>1 DEF CacheInv, CacheShape, RowStands, There, Inserted
  <2>. QED  BY <2>2, <2>3, <2>4 DEF CacheInv
<1>2. ASSUME NEW c \in Callers, Miscount(c) PROVE CacheInv'
  <2>1. /\ served' = [served EXCEPT !.failed = @ + 1]
        /\ UNCHANGED <<cached, computed, refreshed, races>> /\ cached.id # caller[c].seen.id
    BY <1>2 DEF Miscount, Same
  <2>2. /\ served' \in [hits : Nat, outputs : SUBSET ToldRow, failed : Nat]
        /\ served'.hits = served.hits /\ served'.outputs = served.outputs
    BY <2>1 DEF CacheInv, CacheShape
  <2>3. caller' \in [Callers -> {NoCaller} \cup LookupRow \cup StoreRow] /\ CallersKnow'
    <3>1. refreshed'.rows >= refreshed.rows /\ served'.hits >= served.hits /\ served'.hits \in Nat
      BY <2>1, <2>2 DEF CacheInv, CacheShape
    <3>. QED  BY <3>1, <2>1, <1>2, HangKeeps DEF Miscount, CacheInv, CacheShape
  <2>4. Inserted(caller[c].seen) /\ caller[c].seen \in ResultRow
    BY <1>2, CallerKnown DEF Miscount, Asks, CacheInv, CallersKnow, LookupRow
  <2>5. There(cached) => refreshed.rows # 1
    BY <2>1, <2>4 DEF CacheInv, CacheShape, RowStands, Inserted, ResultRow
  <2>6. RowStands'
    BY <2>1, <2>2, <2>5 DEF CacheInv, RowStands, There, Inserted
  <2>7. refreshed.rows # 0  BY <2>4 DEF Inserted, ResultRow, CacheInv, CacheShape
  <2>8. CacheShape' /\ ServedFresh' /\ NothingYet'
    BY <2>1, <2>2, <2>3, <2>7 DEF CacheInv, CacheShape, ServedFresh, NothingYet
  <2>. QED  BY <2>3, <2>6, <2>8 DEF CacheInv
<1>3. ASSUME NEW c \in Callers, CallerDies(c) PROVE CacheInv'
  <2>1. UNCHANGED <<cached, computed, refreshed, served, races>> /\ Hang(c)  BY <1>3 DEF CallerDies
  <2>2. caller' \in [Callers -> {NoCaller} \cup LookupRow \cup StoreRow] /\ CallersKnow'
    BY <2>1, HangKeeps DEF CacheInv, CacheShape
  <2>. QED  BY <2>1, <2>2 DEF CacheInv, CacheShape, RowStands, There, Inserted, ServedFresh, NothingYet
<1>4. ASSUME Expire \/ \E expiredOnly \in BOOLEAN : FlushCache(expiredOnly) PROVE CacheInv'
  <2>1. /\ cached' \in {[cached EXCEPT !.fresh = FALSE], NoRow}
        /\ UNCHANGED <<caller, computed, refreshed, served, races>> /\ There(cached)
    BY <1>4 DEF Expire, FlushCache
  <2>2. CASE cached' = NoRow
    BY <2>1, <2>2 DEF CacheInv, CacheShape, RowStands, There, NoRow, ResultRow, CallersKnow, Inserted,
                      ServedFresh, NothingYet
  <2>3. CASE cached' = [cached EXCEPT !.fresh = FALSE]
    <3>1. /\ cached' \in ResultRow /\ cached'.id = cached.id /\ cached'.output = cached.output
          /\ cached'.hits = cached.hits /\ cached.id # 0
      BY <2>1, <2>3 DEF CacheInv, CacheShape, ResultRow, There
    <3>. QED  BY <3>1, <2>1 DEF CacheInv, CacheShape, RowStands, CallersKnow, Inserted, ServedFresh, NothingYet
  <2>. QED  BY <2>1, <2>2, <2>3
<1>5. ASSUME UNCHANGED cacheVars PROVE CacheInv'
  BY <1>5 DEF cacheVars, CacheInv, CacheShape, RowStands, There, CallersKnow, Inserted, ServedFresh, NothingYet
<1>. QED  BY <1>1, <1>2, <1>3, <1>4, <1>5, AskKeeps, HitKeeps, StoreKeeps DEF CacheNext

(* For any lookups, stores and flushes at once: what is served was computed *)
(* and fresh when looked up, the row is the last stored, and it counts its *)
(* hits exactly until a write overlaps another (core/result_cache.py).     *)
THEOREM CacheSound == CacheSpec => []CacheKept
<1>1. CacheInv => CacheKept
  BY DEF CacheInv, CacheShape, RowStands, Inserted, ServedFresh, CacheKept
<1>. QED  BY <1>1, CacheInvInit, CacheInvNext, PTL DEF CacheSpec

---------------------------------------------------------------------------
(* Triggers *)

AlarmRow == [is : {"none", "there", "gone"}, active : BOOLEAN, next : Nat, runs : Nat]
RunRow == [from : Nat, to : Nat, nr : Nat]
StartedRow == [swept : SUBSET RunRow, hand : Nat]
FireRow == [with : {"fire"}, of : Alarms, seen : AlarmRow]
EditRow == [with : {"edit"}, of : Alarms, next : Nat, seen : AlarmRow]
Runs(a) == started[a].swept
Times(a) == Cardinality(Runs(a)) + started[a].hand

TriggersShape ==
  /\ alarm \in [Alarms -> AlarmRow] /\ time \in Nat /\ blurs \in Nat
  /\ hand \in [Hands -> {NoHand} \cup FireRow \cup EditRow]
  /\ started \in [Alarms -> StartedRow]
  /\ swept = [s \in Sweeps |-> swept[s]]

(* What a sweep has locked is due and as it was read, and is locked by no   *)
(* other.                                                                  *)
LocksHeld ==
  /\ \A s \in Sweeps : \A a \in DOMAIN swept[s] :
       a \in Rows /\ swept[s][a] = alarm[a] /\ alarm[a].next <= time
  /\ \A s, z \in Sweeps : \A a \in DOMAIN swept[s] : a \in DOMAIN swept[z] => s = z

(* The runs a row has counted; while no write was outdated its next time    *)
(* lies after all of them.                                                 *)
RunsKept(a) ==
  /\ IsFiniteSet(Runs(a)) /\ \A r \in Runs(a) : r.nr < Cardinality(Runs(a)) /\ r.to <= time
  /\ alarm[a].is = "none" => Runs(a) = {} /\ started[a].hand = 0
  /\ alarm[a].runs <= Times(a)
  /\ blurs = 0 => /\ alarm[a].runs = Times(a)
                  /\ \A r \in Runs(a) : r.to < alarm[a].next
                  /\ \A q, r \in Runs(a) : q = r \/ q.to < r.from \/ r.to < q.from

HandsKnow == \A h \in Hands : hand[h].with = "fire" => hand[h].seen.runs <= Times(hand[h].of)

TriggersInv == TriggersShape /\ LocksHeld /\ HandsKnow /\ \A a \in Alarms : RunsKept(a)

LEMMA FiredRow ==
  ASSUME NEW row, NEW n, NEW k, row \in AlarmRow, n \in Nat, k \in Nat
  PROVE  /\ Fired(row, n, k) \in AlarmRow /\ Fired(row, n, k).next = n /\ Fired(row, n, k).runs = k
         /\ Fired(row, n, k).is = row.is
<1>1. [row EXCEPT !.next = n] \in AlarmRow  BY DEF AlarmRow
<1>. QED  BY <1>1 DEF AlarmRow, Fired

LEMMA AlarmThere ==
  ASSUME TriggersShape, NEW a
  PROVE  /\ a \in Rows <=> a \in Alarms /\ alarm[a].is = "there"
         /\ a \in Locked <=> \E s \in Sweeps : a \in DOMAIN swept[s]
BY DEF Rows, Locked

LEMMA HandKnown ==
  ASSUME TriggersShape, NEW h \in Hands
  PROVE  /\ hand[h].with = "fire" => hand[h] \in FireRow
         /\ hand[h].with = "edit" => hand[h] \in EditRow
<1>1. hand[h] \in {NoHand} \cup FireRow \cup EditRow  BY DEF TriggersShape
<1>2. NoHand.with = "nothing"  BY DEF NoHand
<1>3. hand[h] \in FireRow => hand[h].with = "fire"  BY DEF FireRow
<1>4. hand[h] \in EditRow => hand[h].with = "edit"  BY DEF EditRow
<1>. QED  BY <1>1, <1>2, <1>3, <1>4

LEMMA TimesNat ==
  ASSUME TriggersInv, NEW a \in Alarms
  PROVE  Times(a) \in Nat /\ Cardinality(Runs(a)) \in Nat /\ started[a].hand \in Nat
<1>1. IsFiniteSet(Runs(a))  BY DEF TriggersInv, RunsKept
<1>2. started[a].hand \in Nat  BY DEF TriggersInv, TriggersShape, StartedRow
<1>3. Cardinality(Runs(a)) \in Nat  BY <1>1, FS_CardinalityType
<1>. QED  BY <1>2, <1>3 DEF Times

(* A trigger whose runs stay, whose row counts the same and whose next time *)
(* is put back by no write but an outdated one.                            *)
LEMMA RunsStay ==
  ASSUME TriggersInv, NEW a \in Alarms, started'[a] = started[a], time' \in Nat, time' >= time,
         blurs' \in Nat, blurs' >= blurs,
         alarm'[a] \in AlarmRow, alarm'[a].runs = alarm[a].runs,
         alarm'[a].is = "none" => alarm[a].is = "none",
         blurs' = 0 => alarm'[a].next >= alarm[a].next \/ alarm'[a].next > time
  PROVE  RunsKept(a)' /\ Times(a)' = Times(a)
<1>. DEFINE R == Runs(a)
<1>1. Runs(a)' = R /\ started'[a].hand = started[a].hand  BY DEF Runs
<1>2. R \subseteq RunRow /\ alarm[a] \in AlarmRow /\ time \in Nat /\ blurs \in Nat
  BY DEF TriggersInv, TriggersShape, StartedRow, Runs
<1>3. RunsKept(a)  BY DEF TriggersInv
<1>4. Times(a)' = Times(a)  BY <1>1 DEF Times
<1>5. IsFiniteSet(Runs(a))' /\ \A r \in Runs(a)' : r.nr < Cardinality(Runs(a)') /\ r.to <= time'
  <2>1. \A r \in R : r.nr < Cardinality(R) /\ r.to <= time /\ r.to \in Nat  BY <1>2, <1>3 DEF RunsKept, RunRow
  <2>. HIDE DEF R
  <2>2. \A r \in R : r.to <= time'  BY <2>1, <1>2
  <2>. QED  BY <2>1, <2>2, <1>1, <1>3 DEF RunsKept, R
<1>6. alarm'[a].is = "none" => Runs(a)' = {} /\ started'[a].hand = 0  BY <1>1, <1>3 DEF RunsKept
<1>7. alarm'[a].runs <= Times(a)'  BY <1>3, <1>4 DEF RunsKept
<1>8. ASSUME blurs' = 0
      PROVE  /\ alarm'[a].runs = Times(a)'
             /\ \A r \in Runs(a)' : r.to < alarm'[a].next
             /\ \A q, r \in Runs(a)' : q = r \/ q.to < r.from \/ r.to < q.from
  <2>1. blurs = 0  BY <1>2, <1>8
  <2>2. /\ alarm[a].runs = Times(a)
        /\ \A q, r \in R : q = r \/ q.to < r.from \/ r.to < q.from
    BY <2>1, <1>3 DEF RunsKept
  <2>3. ASSUME NEW r \in R PROVE r.to < alarm'[a].next
    <3>1. r.to < alarm[a].next /\ r.to <= time /\ r.to \in Nat  BY <2>1, <1>2, <1>3 DEF RunsKept, RunRow
    <3>2. alarm[a].next \in Nat /\ alarm'[a].next \in Nat  BY <1>2 DEF AlarmRow
    <3>3. alarm'[a].next >= alarm[a].next \/ alarm'[a].next > time  BY <1>8
    <3>. QED  BY ONLY <3>1, <3>2, <3>3, <1>2
  <2>. QED  BY <2>2, <2>3, <1>1, <1>4
<1>. QED  BY <1>4, <1>5, <1>6, <1>7, <1>8 DEF RunsKept

LEMMA TriggersInvInit == TriggersInit => TriggersInv
<1>. SUFFICES ASSUME TriggersInit PROVE TriggersInv
  OBVIOUS
<1>1. TriggersShape
  BY DEF TriggersInit, TriggersShape, NoAlarm, AlarmRow, StartedRow, RunRow
<1>2. LocksHeld  BY DEF TriggersInit, LocksHeld
<1>3. HandsKnow  BY DEF TriggersInit, HandsKnow, NoHand
<1>4. ASSUME NEW a \in Alarms PROVE RunsKept(a)
  <2>1. Runs(a) = {} /\ started[a].hand = 0 /\ alarm[a].runs = 0  BY DEF TriggersInit, Runs, NoAlarm
  <2>2. Times(a) = 0  BY <2>1, FS_EmptySet DEF Times
  <2>. QED  BY <2>1, <2>2, FS_EmptySet DEF RunsKept
<1>. QED  BY <1>1, <1>2, <1>3, <1>4 DEF TriggersInv

(* One row that no sweep has locked is written, or none.                   *)
LEMMA RowWritten ==
  ASSUME TriggersInv, NEW a \in Alarms, a \notin Locked, \A b \in Alarms \ {a} : alarm'[b] = alarm[b],
         alarm' \in [Alarms -> AlarmRow], swept' = swept, time' \in Nat, time' >= time
  PROVE  LocksHeld'
<1>1. ASSUME NEW s \in Sweeps, NEW b \in DOMAIN swept'[s]
      PROVE  b \in Rows' /\ swept'[s][b] = alarm'[b] /\ alarm'[b].next <= time'
  <2>1. b \in DOMAIN swept[s] /\ b \in Rows /\ swept[s][b] = alarm[b] /\ alarm[b].next <= time
    BY <1>1 DEF TriggersInv, LocksHeld
  <2>2. b \in Locked /\ b \in Alarms  BY <2>1, AlarmThere DEF TriggersInv
  <2>3. alarm'[b] = alarm[b]  BY <2>2
  <2>4. b \in Rows'  BY <2>1, <2>2, <2>3 DEF Rows
  <2>5. alarm[b].next \in Nat /\ time \in Nat  BY <2>2 DEF TriggersInv, TriggersShape, AlarmRow
  <2>6. alarm[b].next <= time'  BY ONLY <2>1, <2>5, time' \in Nat, time' >= time
  <2>. QED  BY <2>1, <2>3, <2>4, <2>6
<1>2. \A s, z \in Sweeps : \A b \in DOMAIN swept'[s] : b \in DOMAIN swept'[z] => s = z
  BY DEF TriggersInv, LocksHeld
<1>. QED  BY <1>1, <1>2 DEF LocksHeld

(* Hands that stay know as much, as runs are only added.                   *)
LEMMA HandsStay ==
  ASSUME TriggersInv, \A a \in Alarms : Times(a)' >= Times(a) /\ Times(a)' \in Nat,
         \A h \in Hands : hand'[h] = hand[h] \/ hand'[h] = NoHand
  PROVE  HandsKnow'
<1>1. ASSUME NEW h \in Hands, hand'[h].with = "fire"
      PROVE  (hand[h].seen.runs <= Times(hand[h].of))'
  <2>1. hand'[h] # NoHand  BY <1>1 DEF NoHand
  <2>2. hand'[h] = hand[h]  BY <2>1
  <2>3. hand[h] \in FireRow  BY <1>1, <2>2, HandKnown DEF TriggersInv
  <2>4. PICK a \in Alarms : a = hand[h].of  BY <2>3 DEF FireRow
  <2>5. hand[h].seen.runs \in Nat /\ hand[h].seen.runs <= Times(a)
    BY <1>1, <2>2, <2>3, <2>4 DEF TriggersInv, HandsKnow, FireRow, AlarmRow
  <2>6. Times(a) \in Nat /\ Times(a)' >= Times(a) /\ Times(a)' \in Nat
    BY TimesNat
  <2>7. hand[h].seen.runs <= Times(a)'  BY ONLY <2>5, <2>6
  <2>8. a = hand'[h].of /\ hand'[h].seen.runs <= Times(a)'  BY <2>2, <2>4, <2>7
  <2>. QED  BY <2>8
<1>. QED  BY <1>1 DEF HandsKnow

(* A write to one row that no sweep has locked, and that adds no run.       *)
LEMMA RowChanged ==
  ASSUME TriggersInv, NEW a \in Alarms, a \notin Locked, NEW row \in AlarmRow,
         alarm' = [alarm EXCEPT ![a] = row], row.runs = alarm[a].runs, row.is # "none",
         UNCHANGED <<time, swept, started>>, blurs' \in Nat, blurs' >= blurs,
         hand' \in [Hands -> {NoHand} \cup FireRow \cup EditRow],
         \A h \in Hands : hand'[h] = hand[h] \/ hand'[h] = NoHand,
         blurs' = 0 => row.next >= alarm[a].next \/ row.next > time
  PROVE  TriggersInv'
<1>1. /\ alarm' \in [Alarms -> AlarmRow] /\ alarm'[a] = row
      /\ \A b \in Alarms \ {a} : alarm'[b] = alarm[b]
  BY DEF TriggersInv, TriggersShape
<1>2. time \in Nat /\ time' >= time  BY DEF TriggersInv, TriggersShape
<1>3. TriggersShape'  BY <1>1 DEF TriggersInv, TriggersShape
<1>4. LocksHeld'  BY <1>1, <1>2, RowWritten
<1>5. ASSUME NEW b \in Alarms PROVE RunsKept(b)' /\ Times(b)' = Times(b)
  <2>1. alarm'[b] \in AlarmRow /\ alarm'[b].runs = alarm[b].runs
        /\ (alarm'[b].is = "none" => alarm[b].is = "none")
    BY <1>1
  <2>2. blurs' = 0 => alarm'[b].next >= alarm[b].next \/ alarm'[b].next > time
    <3>1. CASE b = a  BY <3>1, <1>1
    <3>2. CASE b # a
      <4>1. alarm'[b] = alarm[b] /\ alarm[b].next \in Nat
        BY <3>2, <1>1 DEF TriggersInv, TriggersShape, AlarmRow
      <4>. QED  BY <4>1
    <3>. QED  BY <3>1, <3>2
  <2>. QED  BY <1>2, <2>1, <2>2, RunsStay
<1>6. HandsKnow'
  <2>1. \A b \in Alarms : Times(b)' >= Times(b) /\ Times(b)' \in Nat
    BY <1>5, TimesNat
  <2>. QED  BY <2>1, HandsStay
<1>. QED  BY <1>3, <1>4, <1>5, <1>6 DEF TriggersInv

(* No row is written.                                                      *)
LEMMA RowsSame ==
  ASSUME TriggersInv, UNCHANGED <<alarm, started, blurs>>, time' \in Nat, time' >= time
  PROVE  \A b \in Alarms : RunsKept(b)' /\ Times(b)' = Times(b)
<1>1. ASSUME NEW b \in Alarms PROVE RunsKept(b)' /\ Times(b)' = Times(b)
  <2>1. alarm[b] \in AlarmRow /\ alarm[b].next \in Nat /\ blurs \in Nat
    BY DEF TriggersInv, TriggersShape, AlarmRow
  <2>. QED  BY <2>1, RunsStay
<1>. QED  BY <1>1

(* A sweep locks rows that are due and free, or lets go of them.           *)
LEMMA FindDueKeeps ==
  ASSUME TriggersInv, NEW s \in Sweeps, FindDue(s)
  PROVE  TriggersInv'
<1>. DEFINE due == {a \in Rows : Due(a) /\ ~Taken(a)}
<1>1. swept' = [swept EXCEPT ![s] = [a \in due |-> alarm[a]]]
      /\ UNCHANGED <<alarm, time, hand, started, blurs>> /\ swept[s] = <<>>
  BY DEF FindDue
<1>2. \A a \in due : a \in Rows /\ alarm[a].next <= time /\ a \notin Locked  BY DEF Due, Taken
<1>. HIDE DEF due
<1>3. /\ swept' = [z \in Sweeps |-> swept'[z]]
      /\ DOMAIN swept'[s] = due /\ \A a \in due : swept'[s][a] = alarm[a]
      /\ \A z \in Sweeps \ {s} : swept'[z] = swept[z]
  BY <1>1 DEF TriggersInv, TriggersShape
<1>4. TriggersShape'  BY <1>1, <1>3 DEF TriggersInv, TriggersShape
<1>5. Rows' = Rows  BY <1>1 DEF Rows
<1>6. LocksHeld'
  <2>1. ASSUME NEW z \in Sweeps, NEW a \in DOMAIN swept'[z]
        PROVE  a \in Rows' /\ swept'[z][a] = alarm'[a] /\ alarm'[a].next <= time'
    <3>1. CASE z = s  BY <3>1, <2>1, <1>1, <1>2, <1>3, <1>5
    <3>2. CASE z # s  BY <3>2, <2>1, <1>1, <1>3, <1>5 DEF TriggersInv, LocksHeld
    <3>. QED  BY <3>1, <3>2
  <2>2. ASSUME NEW y \in Sweeps, NEW z \in Sweeps, NEW a \in DOMAIN swept'[y], a \in DOMAIN swept'[z]
        PROVE  y = z
    <3>1. CASE y # s /\ z # s  BY <3>1, <2>2, <1>3 DEF TriggersInv, LocksHeld
    <3>2. CASE y = s /\ z # s
      BY <3>2, <2>2, <1>2, <1>3, AlarmThere DEF TriggersInv
    <3>3. CASE y # s /\ z = s
      BY <3>3, <2>2, <1>2, <1>3, AlarmThere DEF TriggersInv
    <3>. QED  BY <3>1, <3>2, <3>3
  <2>. QED  BY <2>1, <2>2 DEF LocksHeld
<1>7. time' \in Nat /\ time' >= time  BY <1>1 DEF TriggersInv, TriggersShape
<1>8. \A b \in Alarms : RunsKept(b)' /\ Times(b)' = Times(b)  BY <1>1, <1>7, RowsSame
<1>9. HandsKnow'
  <2>1. \A b \in Alarms : Times(b)' >= Times(b) /\ Times(b)' \in Nat  BY <1>8, TimesNat
  <2>. QED  BY <2>1, <1>1, HandsStay
<1>. QED  BY <1>4, <1>6, <1>8, <1>9 DEF TriggersInv

LEMMA SweepDiesKeeps ==
  ASSUME TriggersInv, NEW s \in Sweeps, SweepDies(s)
  PROVE  TriggersInv'
<1>1. swept' = [swept EXCEPT ![s] = <<>>] /\ UNCHANGED <<alarm, time, hand, started, blurs>>
  BY DEF SweepDies
<1>2. /\ swept' = [z \in Sweeps |-> swept'[z]]
      /\ \A z \in Sweeps : \A a \in DOMAIN swept'[z] : z # s /\ swept'[z] = swept[z]
  <2>1. swept'[s] = <<>> /\ swept' = [z \in Sweeps |-> swept'[z]]
        /\ \A z \in Sweeps \ {s} : swept'[z] = swept[z]
    BY <1>1 DEF TriggersInv, TriggersShape
  <2>2. DOMAIN swept'[s] = {}  BY <2>1
  <2>. QED  BY <2>1, <2>2
<1>3. TriggersShape'  BY <1>1, <1>2 DEF TriggersInv, TriggersShape
<1>4. Rows' = Rows  BY <1>1 DEF Rows
<1>5. LocksHeld'
  <2>1. ASSUME NEW z \in Sweeps, NEW a \in DOMAIN swept'[z]
        PROVE  a \in Rows' /\ swept'[z][a] = alarm'[a] /\ alarm'[a].next <= time'
    BY <2>1, <1>1, <1>2, <1>4 DEF TriggersInv, LocksHeld
  <2>2. ASSUME NEW y \in Sweeps, NEW z \in Sweeps, NEW a \in DOMAIN swept'[y], a \in DOMAIN swept'[z]
        PROVE  y = z
    BY <2>2, <1>2 DEF TriggersInv, LocksHeld
  <2>. QED  BY <2>1, <2>2 DEF LocksHeld
<1>6. time' \in Nat /\ time' >= time  BY <1>1 DEF TriggersInv, TriggersShape
<1>7. \A b \in Alarms : RunsKept(b)' /\ Times(b)' = Times(b)  BY <1>1, <1>6, RowsSame
<1>8. HandsKnow'
  <2>1. \A b \in Alarms : Times(b)' >= Times(b) /\ Times(b)' \in Nat  BY <1>7, TimesNat
  <2>. QED  BY <2>1, <1>1, HandsStay
<1>. QED  BY <1>3, <1>5, <1>7, <1>8 DEF TriggersInv

(* One more run of a sweep, over a time after all those before.            *)
LEMMA RunAdded ==
  ASSUME TriggersInv, NEW a \in Alarms, NEW s \in Sweeps, a \in DOMAIN swept[s], time' = time, blurs' = blurs,
         alarm'[a] = Fired(alarm[a], NextTime, swept[s][a].runs + 1),
         started'[a] = Ran(started[a], swept[s][a].next)
  PROVE  /\ RunsKept(a)' /\ Times(a)' = Times(a) + 1
         /\ alarm'[a] \in AlarmRow /\ started'[a] \in StartedRow
<1>. DEFINE R == Runs(a)
            run == RunFor(alarm[a].next, R)
<1>1. swept[s][a] = alarm[a] /\ alarm[a].next <= time /\ a \in Rows  BY DEF TriggersInv, LocksHeld
<1>2. /\ alarm[a] \in AlarmRow /\ started[a] \in StartedRow /\ time \in Nat /\ blurs \in Nat
      /\ alarm[a].is = "there"
  BY <1>1 DEF TriggersInv, TriggersShape, Rows
<1>3. /\ R \in SUBSET RunRow /\ IsFiniteSet(R) /\ Cardinality(R) \in Nat /\ started[a].hand \in Nat
      /\ \A r \in R : r.nr < Cardinality(R) /\ r.to <= time
      /\ alarm[a].runs <= Times(a)
      /\ blurs = 0 => /\ alarm[a].runs = Times(a)
                      /\ \A r \in R : r.to < alarm[a].next
                      /\ \A q, r \in R : q = r \/ q.to < r.from \/ r.to < q.from
  BY <1>2, TimesNat DEF TriggersInv, RunsKept, StartedRow, Runs
<1>4. /\ alarm[a].next \in Nat /\ alarm[a].runs \in Nat
      /\ alarm'[a] \in AlarmRow /\ alarm'[a].next = time + 1 /\ alarm'[a].runs = alarm[a].runs + 1
      /\ alarm'[a].is = "there"
  <2>1. alarm'[a] = Fired(alarm[a], time + 1, alarm[a].runs + 1)
    BY <1>1 DEF NextTime
  <2>2. alarm[a].next \in Nat /\ alarm[a].runs \in Nat  BY <1>2 DEF AlarmRow
  <2>3. time + 1 \in Nat /\ alarm[a].runs + 1 \in Nat  BY <2>2, <1>2
  <2>4. /\ alarm'[a] \in AlarmRow /\ alarm'[a].next = time + 1 /\ alarm'[a].runs = alarm[a].runs + 1
        /\ alarm'[a].is = alarm[a].is
    BY <2>1, <2>3, <1>2, FiredRow
  <2>. QED  BY <2>2, <2>4, <1>2
<1>5. /\ run \in RunRow /\ run.nr = Cardinality(R) /\ run.to = time /\ run.from = alarm[a].next
  BY <1>2, <1>3, <1>4 DEF RunRow, RunFor
<1>6. run \notin R  BY <1>3, <1>5
<1>7. started'[a] = [started[a] EXCEPT !.swept = R \cup {run}]  BY <1>1 DEF Ran, Runs
<1>. HIDE DEF R, run
<1>8. R \cup {run} \in SUBSET RunRow  BY <1>3, <1>5
<1>9. started'[a] \in StartedRow /\ started'[a].swept = R \cup {run} /\ started'[a].hand = started[a].hand
  BY ONLY <1>2, <1>7, <1>8 DEF StartedRow
<1>10. Runs(a)' = R \cup {run}  BY <1>9 DEF Runs
<1>11. IsFiniteSet(R \cup {run}) /\ Cardinality(R \cup {run}) = Cardinality(R) + 1
  BY <1>3, <1>6, FS_AddElement
<1>12. Times(a) = Cardinality(R) + started[a].hand  BY DEF Times, R
<1>13. Times(a)' = Cardinality(R \cup {run}) + started[a].hand  BY <1>9, <1>10 DEF Times
<1>14. Times(a)' = Times(a) + 1  BY ONLY <1>3, <1>11, <1>12, <1>13
<1>15. \A r \in R \cup {run} : r.nr < Cardinality(R \cup {run}) /\ r.to <= time
  <2>1. ASSUME NEW r \in R PROVE r.nr < Cardinality(R) + 1 /\ r.to <= time
    BY <1>3 DEF RunRow
  <2>. QED  BY <2>1, <1>2, <1>3, <1>5, <1>11
<1>16. alarm'[a].runs <= Times(a)'
  BY ONLY <1>3, <1>4, <1>12, <1>14
<1>17. ASSUME blurs' = 0
       PROVE  /\ alarm'[a].runs = Times(a)'
              /\ \A r \in Runs(a)' : r.to < alarm'[a].next
              /\ \A q, r \in Runs(a)' : q = r \/ q.to < r.from \/ r.to < q.from
  <2>1. blurs = 0  BY <1>17
  <2>2. \A r \in R \cup {run} : r.to < time + 1
    <3>1. ASSUME NEW r \in R PROVE r.to < time + 1  BY <1>2, <1>3 DEF RunRow
    <3>. QED  BY <3>1, <1>2, <1>5
  <2>3. \A r \in R : r.to < run.from  BY <2>1, <1>3, <1>5
  <2>. QED  BY <2>1, <2>2, <2>3, <1>3, <1>4, <1>10, <1>14
<1>. QED  BY <1>4, <1>9, <1>10, <1>11, <1>14, <1>15, <1>16, <1>17 DEF RunsKept

(* A sweep fires what it has locked, or gives it its next time only.        *)
LEMMA FireDueKeeps ==
  ASSUME TriggersInv, NEW s \in Sweeps, NEW fails \in SUBSET Alarms, FireDue(s, fails)
  PROVE  TriggersInv'
<1>. DEFINE due == DOMAIN swept[s]
            runs(a) == IF a \in fails THEN alarm[a].runs ELSE swept[s][a].runs + 1
<1>1. /\ swept' = [swept EXCEPT ![s] = <<>>] /\ UNCHANGED <<time, hand, blurs>>
      /\ alarm' = [a \in Alarms |-> IF a \in due THEN Fired(alarm[a], NextTime, runs(a)) ELSE alarm[a]]
      /\ started' = [a \in Alarms |-> IF a \in due \ fails THEN Ran(started[a], swept[s][a].next) ELSE started[a]]
  BY DEF FireDue
<1>2. /\ time \in Nat /\ blurs \in Nat /\ \A a \in Alarms : alarm[a] \in AlarmRow /\ started[a] \in StartedRow
      /\ time' \in Nat /\ time' >= time /\ blurs' >= blurs /\ blurs' \in Nat
  BY <1>1 DEF TriggersInv, TriggersShape
<1>3. ASSUME NEW a \in Alarms
      PROVE  /\ RunsKept(a)' /\ Times(a)' \in {Times(a), Times(a) + 1}
             /\ alarm'[a] \in AlarmRow /\ started'[a] \in StartedRow
  <2>1. CASE a \notin due
    <3>1. alarm'[a] = alarm[a] /\ started'[a] = started[a]  BY <2>1, <1>1
    <3>2. alarm[a].next >= alarm[a].next  BY <1>2 DEF AlarmRow
    <3>. QED  BY <3>1, <3>2, <1>2, RunsStay
  <2>2. CASE a \in due /\ a \in fails
    <3>1. started'[a] = started[a]  BY <2>2, <1>1
    <3>2. alarm'[a] = Fired(alarm[a], time + 1, alarm[a].runs)  BY <2>2, <1>1 DEF NextTime
    <3>3. /\ alarm'[a] \in AlarmRow /\ alarm'[a].runs = alarm[a].runs /\ alarm'[a].is = alarm[a].is
          /\ alarm'[a].next = time + 1 /\ time + 1 > time
      <4>1. alarm[a].runs \in Nat /\ time + 1 \in Nat /\ alarm[a] \in AlarmRow  BY <1>2 DEF AlarmRow
      <4>2. /\ alarm'[a] \in AlarmRow /\ alarm'[a].runs = alarm[a].runs /\ alarm'[a].is = alarm[a].is
            /\ alarm'[a].next = time + 1
        BY <3>2, <4>1, FiredRow
      <4>. QED  BY <4>2, <1>2
    <3>. QED  BY <3>1, <3>3, <1>2, RunsStay
  <2>3. CASE a \in due \ fails
    <3>1. alarm'[a] = Fired(alarm[a], NextTime, swept[s][a].runs + 1)  BY <2>3, <1>1
    <3>2. started'[a] = Ran(started[a], swept[s][a].next)  BY <2>3, <1>1
    <3>. QED  BY <2>3, <3>1, <3>2, <1>1, RunAdded
  <2>. QED  BY <2>1, <2>2, <2>3
<1>4. /\ swept' = [z \in Sweeps |-> swept'[z]]
      /\ \A z \in Sweeps : \A a \in DOMAIN swept'[z] : z # s /\ swept'[z] = swept[z]
  <2>1. swept'[s] = <<>> /\ swept' = [z \in Sweeps |-> swept'[z]]
        /\ \A z \in Sweeps \ {s} : swept'[z] = swept[z]
    BY <1>1 DEF TriggersInv, TriggersShape
  <2>2. DOMAIN swept'[s] = {}  BY <2>1
  <2>. QED  BY <2>1, <2>2
<1>5. TriggersShape'
  <2>1. alarm' \in [Alarms -> AlarmRow]  BY <1>1, <1>3
  <2>2. started' \in [Alarms -> StartedRow]  BY <1>1, <1>3
  <2>. QED  BY <2>1, <2>2, <1>1, <1>2, <1>4 DEF TriggersInv, TriggersShape
<1>6. LocksHeld'
  <2>1. ASSUME NEW z \in Sweeps, NEW a \in DOMAIN swept'[z]
        PROVE  a \in Rows' /\ swept'[z][a] = alarm'[a] /\ alarm'[a].next <= time'
    <3>1. /\ z # s /\ a \in DOMAIN swept[z] /\ a \in Rows /\ swept'[z][a] = alarm[a]
          /\ alarm[a].next <= time
      BY <2>1, <1>4 DEF TriggersInv, LocksHeld
    <3>2. a \notin due  BY <3>1 DEF TriggersInv, LocksHeld
    <3>3. a \in Alarms /\ alarm[a].is = "there"  BY <3>1 DEF Rows
    <3>4. alarm'[a] = alarm[a]  BY <3>2, <3>3, <1>1
    <3>5. a \in Rows'  BY <3>3, <3>4 DEF Rows
    <3>. QED  BY <3>1, <3>4, <3>5, <1>1
  <2>2. ASSUME NEW y \in Sweeps, NEW z \in Sweeps, NEW a \in DOMAIN swept'[y], a \in DOMAIN swept'[z]
        PROVE  y = z
    BY <2>2, <1>4 DEF TriggersInv, LocksHeld
  <2>. QED  BY <2>1, <2>2 DEF LocksHeld
<1>7. HandsKnow'
  <2>1. ASSUME NEW a \in Alarms PROVE Times(a)' >= Times(a) /\ Times(a)' \in Nat
    <3>1. Times(a) \in Nat /\ Times(a)' \in {Times(a), Times(a) + 1}  BY <1>3, TimesNat
    <3>. QED  BY ONLY <3>1
  <2>. QED  BY <2>1, <1>1, HandsStay
<1>. QED  BY <1>3, <1>5, <1>6, <1>7 DEF TriggersInv

(* A run by hand counts from what its request read.                        *)
LEMMA FireByHandKeeps ==
  ASSUME TriggersInv, NEW h \in Hands, FireByHand(h)
  PROVE  TriggersInv'
<1>1. hand[h] \in FireRow /\ hand[h].with = "fire"
  BY HandKnown DEF FireByHand, Ready, With, TriggersInv
<1>2. PICK a \in Alarms : a = hand[h].of  BY <1>1 DEF FireRow
<1>. DEFINE seen == hand[h].seen
<1>3. seen \in AlarmRow /\ seen.runs <= Times(a)
  BY <1>1, <1>2 DEF FireRow, TriggersInv, HandsKnow
<1>4. a \notin Locked /\ UNCHANGED <<time, swept>> /\ hand' = [hand EXCEPT ![h] = NoHand]
  BY <1>2 DEF FireByHand, Ready, Lower
<1>5. /\ hand' \in [Hands -> {NoHand} \cup FireRow \cup EditRow]
      /\ \A g \in Hands : hand'[g] = hand[g] \/ hand'[g] = NoHand
  BY <1>4 DEF TriggersInv, TriggersShape
<1>6. /\ time \in Nat /\ time' \in Nat /\ time' >= time /\ blurs \in Nat
      /\ \A b \in Alarms : alarm[b] \in AlarmRow /\ started[b] \in StartedRow
  BY <1>4 DEF TriggersInv, TriggersShape
<1>7. CASE a \notin Rows
  <2>1. UNCHANGED <<alarm, started, blurs>>  BY <1>2, <1>7 DEF FireByHand
  <2>2. \A b \in Alarms : RunsKept(b)' /\ Times(b)' = Times(b)  BY <2>1, <1>6, RowsSame
  <2>3. LocksHeld'  BY <2>1, <1>2, <1>4, <1>6, RowWritten DEF TriggersInv, TriggersShape
  <2>4. TriggersShape'  BY <2>1, <1>4, <1>5 DEF TriggersInv, TriggersShape
  <2>5. HandsKnow'
    <3>1. \A b \in Alarms : Times(b)' >= Times(b) /\ Times(b)' \in Nat  BY <2>2, TimesNat
    <3>. QED  BY <3>1, <1>5, HandsStay
  <2>. QED  BY <2>2, <2>3, <2>4, <2>5 DEF TriggersInv
<1>8. CASE a \in Rows
  <2>. DEFINE next == IF time + 1 = seen.next THEN alarm[a].next ELSE time + 1
              row == Fired(alarm[a], next, seen.runs + 1)
              some == [started[a] EXCEPT !.hand = @ + 1]
  <2>1. /\ alarm' = [alarm EXCEPT ![a] = row]
        /\ started' = [started EXCEPT ![a] = some]
        /\ blurs' = IF alarm[a] # seen \/ Due(a) THEN blurs + 1 ELSE blurs
    BY <1>2, <1>6, <1>8 DEF FireByHand, NextTime, Blur, TriggersInv, TriggersShape
  <2>2. /\ alarm[a] \in AlarmRow /\ started[a] \in StartedRow /\ alarm[a].is = "there"
        /\ alarm[a].next \in Nat /\ seen.runs \in Nat
    BY <1>3, <1>6, <1>8 DEF Rows, AlarmRow
  <2>3. next \in Nat  BY <2>2, <1>6
  <2>. HIDE DEF next
  <2>4. row \in AlarmRow /\ row.next = next /\ row.runs = seen.runs + 1 /\ row.is = "there"
    <3>1. seen.runs + 1 \in Nat  BY <2>2
    <3>2. /\ row \in AlarmRow /\ row.next = next /\ row.runs = seen.runs + 1 /\ row.is = alarm[a].is
      BY <3>1, <2>2, <2>3, FiredRow
    <3>. QED  BY <3>2, <2>2
  <2>5. some \in StartedRow /\ some.hand = started[a].hand + 1 /\ some.swept = Runs(a) /\ started[a].hand \in Nat
    BY ONLY <2>2 DEF StartedRow, Runs
  <2>. HIDE DEF row, some
  <2>6. /\ alarm' \in [Alarms -> AlarmRow] /\ alarm'[a] = row /\ \A b \in Alarms \ {a} : alarm'[b] = alarm[b]
        /\ started' \in [Alarms -> StartedRow] /\ started'[a] = some
        /\ \A b \in Alarms \ {a} : started'[b] = started[b]
        /\ blurs' \in Nat /\ blurs' >= blurs
    BY <2>1, <2>4, <2>5, <1>6 DEF TriggersInv, TriggersShape
  <2>7. ASSUME NEW b \in Alarms \ {a} PROVE RunsKept(b)' /\ Times(b)' = Times(b)
    <3>1. alarm'[b] = alarm[b] /\ started'[b] = started[b] /\ alarm[b] \in AlarmRow /\ alarm[b].next >= alarm[b].next
      BY <2>6, <1>6 DEF AlarmRow
    <3>. QED  BY <3>1, <2>6, <1>6, RunsStay
  <2>8. Runs(a)' = Runs(a) /\ Times(a)' = Times(a) + 1 /\ Times(a) \in Nat
    <3>1. Runs(a)' = Runs(a)  BY <2>5, <2>6 DEF Runs
    <3>2. Times(a)' = Cardinality(Runs(a)) + (started[a].hand + 1)  BY <3>1, <2>5, <2>6 DEF Times
    <3>3. Times(a) = Cardinality(Runs(a)) + started[a].hand /\ Times(a) \in Nat /\ Cardinality(Runs(a)) \in Nat
      BY TimesNat DEF Times
    <3>. QED  BY <3>1, <3>2, <3>3, <2>5
  <2>9. RunsKept(a)'
    <3>. DEFINE R == Runs(a)
    <3>1. /\ IsFiniteSet(R) /\ \A r \in R : r.nr < Cardinality(R) /\ r.to <= time
      BY DEF TriggersInv, RunsKept
    <3>2. alarm'[a].runs <= Times(a)'  BY <2>4, <2>6, <2>8, <1>3, <2>2
    <3>3. ASSUME blurs' = 0
          PROVE  /\ alarm'[a].runs = Times(a)'
                 /\ \A r \in R : r.to < alarm'[a].next
                 /\ \A q, r \in R : q = r \/ q.to < r.from \/ r.to < q.from
      <4>1. blurs = 0 /\ alarm[a] = seen  BY <3>3, <2>1, <1>6
      <4>2. /\ alarm[a].runs = Times(a) /\ \A r \in R : r.to < alarm[a].next
            /\ \A q, r \in R : q = r \/ q.to < r.from \/ r.to < q.from
        BY <4>1 DEF TriggersInv, RunsKept
      <4>3. R \subseteq RunRow  BY <2>2 DEF StartedRow, Runs
      <4>4. next = time + 1  BY <4>1 DEF next
      <4>5. \A r \in R : r.to < next  BY <3>1, <4>3, <4>4, <1>6 DEF RunRow
      <4>. QED  BY <4>1, <4>2, <4>5, <2>4, <2>6, <2>8
    <3>4. alarm'[a].is # "none"  BY <2>4, <2>6
    <3>. QED  BY <3>1, <3>2, <3>3, <3>4, <2>8, <1>4 DEF RunsKept
  <2>10. LocksHeld'  BY <2>6, <1>2, <1>4, <1>6, RowWritten
  <2>11. TriggersShape'  BY <2>6, <1>4, <1>5 DEF TriggersInv, TriggersShape
  <2>12. HandsKnow'
    <3>1. ASSUME NEW b \in Alarms PROVE Times(b)' >= Times(b) /\ Times(b)' \in Nat
      <4>1. Times(b) \in Nat /\ Times(b)' \in {Times(b), Times(b) + 1}  BY <2>7, <2>8, TimesNat
      <4>. QED  BY ONLY <4>1
    <3>. QED  BY <3>1, <1>5, HandsStay
  <2>. QED  BY <2>7, <2>9, <2>10, <2>11, <2>12 DEF TriggersInv
<1>. QED  BY <1>7, <1>8

(* An edit puts back the time it computed when it read.                    *)
LEMMA UpdateTriggerKeeps ==
  ASSUME TriggersInv, NEW h \in Hands, UpdateTrigger(h)
  PROVE  TriggersInv'
<1>1. hand[h] \in EditRow  BY HandKnown DEF UpdateTrigger, Ready, With, TriggersInv
<1>2. PICK a \in Alarms : a = hand[h].of  BY <1>1 DEF EditRow
<1>. DEFINE to == hand[h].next
<1>3. to \in Nat  BY <1>1 DEF EditRow
<1>4. a \notin Locked /\ UNCHANGED <<time, swept, started>> /\ hand' = [hand EXCEPT ![h] = NoHand]
  BY <1>2 DEF UpdateTrigger, Ready, Lower
<1>5. /\ hand' \in [Hands -> {NoHand} \cup FireRow \cup EditRow]
      /\ \A g \in Hands : hand'[g] = hand[g] \/ hand'[g] = NoHand
  BY <1>4 DEF TriggersInv, TriggersShape
<1>6. time \in Nat /\ blurs \in Nat /\ alarm[a] \in AlarmRow /\ alarm[a].next \in Nat
  BY DEF TriggersInv, TriggersShape, AlarmRow
<1>7. CASE a \notin Rows
  <2>1. UNCHANGED <<alarm, started, blurs>> /\ time' \in Nat /\ time' >= time
    BY <1>2, <1>4, <1>6, <1>7 DEF UpdateTrigger
  <2>2. \A b \in Alarms : RunsKept(b)' /\ Times(b)' = Times(b)  BY <2>1, RowsSame
  <2>3. LocksHeld'  BY <2>1, <1>2, <1>4, RowWritten DEF TriggersInv, TriggersShape
  <2>4. TriggersShape'  BY <2>1, <1>4, <1>5 DEF TriggersInv, TriggersShape
  <2>5. HandsKnow'
    <3>1. \A b \in Alarms : Times(b)' >= Times(b) /\ Times(b)' \in Nat  BY <2>2, TimesNat
    <3>. QED  BY <3>1, <1>5, HandsStay
  <2>. QED  BY <2>2, <2>3, <2>4, <2>5 DEF TriggersInv
<1>8. CASE a \in Rows
  <2>. DEFINE next == IF to = hand[h].seen.next THEN alarm[a].next ELSE to
              row == [alarm[a] EXCEPT !.next = next]
  <2>1. /\ alarm' = [alarm EXCEPT ![a] = row]
        /\ blurs' = IF alarm[a] # hand[h].seen \/ to <= time \/ Due(a) THEN blurs + 1 ELSE blurs
    BY <1>2, <1>8 DEF UpdateTrigger, Blur, TriggersInv, TriggersShape
  <2>2. next \in Nat  BY <1>3, <1>6
  <2>3. next = alarm[a].next \/ next = to  OBVIOUS
  <2>. HIDE DEF next
  <2>4. row \in AlarmRow /\ row.next = next /\ row.runs = alarm[a].runs /\ row.is = alarm[a].is
    BY ONLY <2>2, <1>6 DEF AlarmRow
  <2>. HIDE DEF row
  <2>5. blurs' \in Nat /\ blurs' >= blurs /\ (blurs' = 0 => to > time)
    BY <2>1, <1>3, <1>6
  <2>6. blurs' = 0 => row.next >= alarm[a].next \/ row.next > time
    BY ONLY <2>3, <2>4, <2>5, <1>3, <1>6
  <2>7. row.is # "none"  BY <2>4, <1>8 DEF Rows
  <2>. QED  BY <2>1, <2>4, <2>5, <2>6, <2>7, <1>4, <1>5, RowChanged
<1>. QED  BY <1>7, <1>8

(* A request reads; those under way know as much as before.                *)
LEMMA RaiseKeeps ==
  ASSUME TriggersInv, NEW h \in Hands, NEW a \in Alarms, ReadAlarm(h, a, "fire") \/ ReadEdit(h, a)
  PROVE  TriggersInv'
<1>. DEFINE fire == [with |-> "fire", of |-> a, seen |-> alarm[a]]
            edit == [with |-> "edit", of |-> a, next |-> NextTime, seen |-> alarm[a]]
<1>1. /\ UNCHANGED <<alarm, time, swept, started, blurs>>
      /\ \/ hand' = [hand EXCEPT ![h] = fire]
         \/ hand' = [hand EXCEPT ![h] = edit]
  BY DEF ReadAlarm, ReadEdit, Raise
<1>2. alarm[a] \in AlarmRow /\ time \in Nat /\ alarm[a].runs <= Times(a)
  BY DEF TriggersInv, TriggersShape, RunsKept
<1>3. fire \in FireRow /\ edit \in EditRow /\ fire.of = a /\ fire.seen = alarm[a] /\ edit.with = "edit"
  BY <1>2 DEF FireRow, EditRow, NextTime
<1>. HIDE DEF fire, edit
<1>4. /\ hand' \in [Hands -> {NoHand} \cup FireRow \cup EditRow]
      /\ hand'[h] \in {fire, edit} /\ \A g \in Hands \ {h} : hand'[g] = hand[g]
  BY <1>1, <1>3 DEF TriggersInv, TriggersShape
<1>5. TriggersShape'  BY <1>1, <1>4 DEF TriggersInv, TriggersShape
<1>6. LocksHeld'  BY <1>1 DEF TriggersInv, LocksHeld, Rows
<1>7. \A b \in Alarms : RunsKept(b)' /\ Times(b)' = Times(b)  BY <1>1, <1>2, RowsSame
<1>8. ASSUME NEW g \in Hands, hand'[g].with = "fire"
      PROVE  (hand[g].seen.runs <= Times(hand[g].of))'
  <2>1. CASE g = h
    <3>1. hand'[g] = fire  BY <2>1, <1>3, <1>4, <1>8
    <3>2. alarm[a].runs <= Times(a)'  BY <1>2, <1>7
    <3>3. hand'[g].of = a /\ hand'[g].seen = alarm[a]  BY <3>1, <1>3
    <3>. QED  BY <3>2, <3>3
  <2>2. CASE g # h
    <3>1. hand'[g] = hand[g]  BY <2>2, <1>4
    <3>2. PICK b \in Alarms : b = hand[g].of  BY <3>1, <1>8, HandKnown DEF FireRow, TriggersInv
    <3>3. hand[g].seen.runs <= Times(b)  BY <3>1, <3>2, <1>8 DEF TriggersInv, HandsKnow
    <3>4. hand[g].seen.runs <= Times(b)'  BY <3>3, <1>7
    <3>5. hand'[g].of = b /\ hand'[g].seen = hand[g].seen  BY <3>1, <3>2
    <3>. QED  BY <3>4, <3>5
  <2>. QED  BY <2>1, <2>2
<1>. QED  BY <1>5, <1>6, <1>7, <1>8 DEF TriggersInv, HandsKnow

LEMMA TriggersInvNext == TriggersInv /\ [TriggersNext]_triggerVars => TriggersInv'
<1>. SUFFICES ASSUME TriggersInv, [TriggersNext]_triggerVars PROVE TriggersInv'
  OBVIOUS
<1>1. /\ time \in Nat /\ blurs \in Nat /\ \A a \in Alarms : alarm[a] \in AlarmRow
      /\ hand \in [Hands -> {NoHand} \cup FireRow \cup EditRow]
  BY DEF TriggersInv, TriggersShape
<1>2. CASE TimeComes
  <2>1. UNCHANGED <<alarm, swept, hand, started, blurs>> /\ time' = time + 1  BY <1>2 DEF TimeComes
  <2>2. time' \in Nat /\ time' >= time  BY <2>1, <1>1
  <2>3. \A b \in Alarms : RunsKept(b)' /\ Times(b)' = Times(b)  BY <2>1, <2>2, RowsSame
  <2>4. TriggersShape'  BY <2>1, <2>2 DEF TriggersInv, TriggersShape
  <2>5. LocksHeld'
    <3>1. ASSUME NEW s \in Sweeps, NEW a \in DOMAIN swept'[s]
          PROVE  a \in Rows' /\ swept'[s][a] = alarm'[a] /\ alarm'[a].next <= time'
      <4>1. a \in Rows /\ swept[s][a] = alarm[a] /\ alarm[a].next <= time
        BY <3>1, <2>1 DEF TriggersInv, LocksHeld
      <4>2. a \in Rows' /\ alarm[a].next \in Nat  BY <4>1, <2>1, <1>1 DEF Rows, AlarmRow
      <4>. QED  BY <4>1, <4>2, <2>1, <1>1
    <3>2. \A s, z \in Sweeps : \A a \in DOMAIN swept'[s] : a \in DOMAIN swept'[z] => s = z
      BY <2>1 DEF TriggersInv, LocksHeld
    <3>. QED  BY <3>1, <3>2 DEF LocksHeld
  <2>6. HandsKnow'
    <3>1. \A b \in Alarms : Times(b)' >= Times(b) /\ Times(b)' \in Nat  BY <2>3, TimesNat
    <3>. QED  BY <3>1, <2>1, HandsStay
  <2>. QED  BY <2>3, <2>4, <2>5, <2>6 DEF TriggersInv
<1>3. ASSUME NEW a \in Alarms, CreateTrigger(a) PROVE TriggersInv'
  <2>. DEFINE row == [is |-> "there", active |-> TRUE, next |-> time + 1, runs |-> 0]
  <2>1. /\ alarm' = [alarm EXCEPT ![a] = row] /\ alarm[a].is = "none"
        /\ UNCHANGED <<time, swept, hand, started, blurs>>
    BY <1>3 DEF CreateTrigger, NextTime
  <2>2. row \in AlarmRow  BY <1>1 DEF AlarmRow
  <2>3. row.runs = 0 /\ row.is = "there" /\ row.next > time  BY <1>1
  <2>. HIDE DEF row
  <2>4. a \notin Locked
    <3>1. a \notin Rows  BY <2>1 DEF Rows
    <3>. QED  BY <3>1, AlarmThere DEF TriggersInv, LocksHeld
  <2>5. alarm[a].runs = 0
    <3>1. Runs(a) = {} /\ started[a].hand = 0 /\ alarm[a].runs <= Times(a)
      BY <2>1 DEF TriggersInv, RunsKept
    <3>2. Times(a) = 0  BY <3>1, FS_EmptySet DEF Times
    <3>. QED  BY <3>1, <3>2, <1>1 DEF AlarmRow
  <2>6. blurs' \in Nat /\ blurs' >= blurs  BY <2>1, <1>1
  <2>. QED  BY <2>1, <2>2, <2>3, <2>4, <2>5, <2>6, <1>1, RowChanged
<1>4. ASSUME NEW a \in Alarms, SwitchTrigger(a) \/ DeleteTrigger(a) PROVE TriggersInv'
  <2>1. PICK row : /\ row \in {[alarm[a] EXCEPT !.active = ~@], [alarm[a] EXCEPT !.is = "gone"]}
                   /\ alarm' = [alarm EXCEPT ![a] = row]
    BY <1>4, <1>1 DEF SwitchTrigger, DeleteTrigger, TriggersInv, TriggersShape
  <2>2. a \in Rows \ Locked /\ UNCHANGED <<time, swept, hand, started, blurs>>
    BY <1>4 DEF SwitchTrigger, DeleteTrigger
  <2>3. alarm[a] \in AlarmRow /\ alarm[a].is = "there"  BY <1>1, <2>2 DEF Rows
  <2>4. /\ row \in AlarmRow /\ row.runs = alarm[a].runs /\ row.next = alarm[a].next /\ row.is # "none"
    BY ONLY <2>1, <2>3 DEF AlarmRow
  <2>5. row.next >= alarm[a].next  BY <2>3, <2>4 DEF AlarmRow
  <2>6. blurs' \in Nat /\ blurs' >= blurs  BY <2>2, <1>1
  <2>. QED  BY <2>1, <2>2, <2>4, <2>5, <2>6, <1>1, RowChanged
<1>5. ASSUME NEW h \in Hands, HandDies(h) PROVE TriggersInv'
  <2>1. hand' = [hand EXCEPT ![h] = NoHand] /\ UNCHANGED <<alarm, time, swept, started, blurs>>
    BY <1>5 DEF HandDies, Lower
  <2>2. time' \in Nat /\ time' >= time  BY <2>1, <1>1
  <2>3. \A b \in Alarms : RunsKept(b)' /\ Times(b)' = Times(b)  BY <2>1, <2>2, RowsSame
  <2>4. TriggersShape' /\ LocksHeld'
    BY <2>1, <1>1 DEF TriggersInv, TriggersShape, LocksHeld, Rows
  <2>5. HandsKnow'
    <3>1. \A b \in Alarms : Times(b)' >= Times(b) /\ Times(b)' \in Nat  BY <2>3, TimesNat
    <3>2. \A g \in Hands : hand'[g] = hand[g] \/ hand'[g] = NoHand  BY <2>1, <1>1
    <3>. QED  BY <3>1, <3>2, HandsStay
  <2>. QED  BY <2>3, <2>4, <2>5 DEF TriggersInv
<1>6. CASE UNCHANGED triggerVars
  <2>1. UNCHANGED <<alarm, time, swept, hand, started, blurs>>  BY <1>6 DEF triggerVars
  <2>2. time' \in Nat /\ time' >= time  BY <2>1, <1>1
  <2>3. \A b \in Alarms : RunsKept(b)' /\ Times(b)' = Times(b)  BY <2>1, <2>2, RowsSame
  <2>4. TriggersShape' /\ LocksHeld'
    BY <2>1 DEF TriggersInv, TriggersShape, LocksHeld, Rows
  <2>5. HandsKnow'
    <3>1. \A b \in Alarms : Times(b)' >= Times(b) /\ Times(b)' \in Nat  BY <2>3, TimesNat
    <3>. QED  BY <3>1, <2>1, HandsStay
  <2>. QED  BY <2>3, <2>4, <2>5 DEF TriggersInv
<1>. QED  BY <1>2, <1>3, <1>4, <1>5, <1>6, FindDueKeeps, SweepDiesKeeps, FireDueKeeps, FireByHandKeeps,
            UpdateTriggerKeeps, RaiseKeeps DEF TriggersNext

(* However many replicas sweep and whatever the owner does meanwhile, two   *)
(* sweeps never run a trigger for one time, unless a write by hand was     *)
(* outdated, and the row counts the runs (routers/triggers.py).            *)
THEOREM TriggersSound == TriggersSpec => []TriggersKept
<1>1. TriggersInv => TriggersKept
  <2>. SUFFICES ASSUME TriggersInv PROVE TriggersKept
    OBVIOUS
  <2>1. ASSUME NEW a \in Alarms
        PROVE  LET runs == started[a].swept IN
                 blurs = 0 => \A q, r \in runs : q = r \/ q.to < r.from \/ r.to < q.from
    BY DEF TriggersInv, RunsKept, Runs
  <2>2. ASSUME NEW a \in Rows
        PROVE  /\ alarm[a].runs <= Cardinality(started[a].swept) + started[a].hand
               /\ blurs = 0 => alarm[a].runs = Cardinality(started[a].swept) + started[a].hand
    <3>1. a \in Alarms  BY DEF Rows
    <3>2. RunsKept(a)  BY <3>1 DEF TriggersInv
    <3>3. Times(a) = Cardinality(started[a].swept) + started[a].hand  BY DEF Times, Runs
    <3>. QED  BY <3>2, <3>3 DEF RunsKept
  <2>. QED  BY <2>1, <2>2 DEF TriggersKept
<1>. QED  BY <1>1, TriggersInvInit, TriggersInvNext, PTL DEF TriggersSpec

---------------------------------------------------------------------------
(* Monitors *)

SentryRow == [errors : Nat, failures : 0..Failures, cooling : SUBSET Kinds,
              pass : {"between", "swept", "stalled"}, failing : 0..Failures]
ReportRow == [kind : Kinds \cup {"none"}, cause : Nat, resolved : BOOLEAN]
ResolveRow == [doing : {"resolve"}, of : Reports]
LogRow == [doing : {"log"}]
Resolved == {r \in Raised : report[r].resolved}
Logging == {a \in Admins : admin[a].doing = "log"}

DeskShape ==
  /\ sentry \in [Sentries -> SentryRow]
  /\ report \in [Reports -> ReportRow]
  /\ admin \in [Admins -> {NoAdmin} \cup ResolveRow \cup LogRow]
  /\ logged \in [resolved : Nat, entries : Nat]
  /\ skewed \in Nat

(* No more failures are counted than happened, and an alert has a cause.    *)
CausesKept ==
  /\ \A s \in Sentries : sentry[s].failures <= sentry[s].failing
  /\ \A r \in Reports : report[r] # NoReport => report[r].kind # "none" /\ report[r].cause >= Failures

(* Every resolution but an overlapping one resolved a report, and all but   *)
(* those about to be logged are logged.                                    *)
LogKept ==
  /\ logged.entries + Cardinality(Logging) = logged.resolved
  /\ logged.resolved <= Cardinality(Resolved) + skewed
  /\ \A a \in Admins : admin[a].doing = "resolve" => admin[a].of \in Raised

WalletKept ==
  /\ wallet \in [credits : Nat, threshold : Nat, fired : BOOLEAN]
  /\ since \in [low : Nat, alerts : Nat, settings : Nat]
  /\ \A q \in Settings : setting[q].to \in Nat
  /\ since.alerts = 0 \/ (since.alerts = 1 /\ wallet.fired)
  /\ skewed = 0 => /\ since.alerts = since.low
                   /\ since.low = (IF wallet.fired THEN 1 ELSE 0)

MonitorsInv == DeskShape /\ CausesKept /\ LogKept /\ WalletKept

LEMMA RaisedSet ==
  ASSUME NEW r
  PROVE  /\ r \in Raised <=> r \in Reports /\ report[r] # NoReport
         /\ r \in Resolved <=> r \in Reports /\ report[r] # NoReport /\ report[r].resolved
BY DEF Raised, Resolved

LEMMA DeskFinite ==
  IsFiniteSet(Resolved) /\ Cardinality(Resolved) \in Nat /\ IsFiniteSet(Logging) /\ Cardinality(Logging) \in Nat
<1>1. Resolved \subseteq Reports /\ Logging \subseteq Admins  BY DEF Resolved, Logging, Raised
<1>. QED  BY <1>1, MonitorsAssumption, FS_Subset, FS_CardinalityType

LEMMA MonitorsInvInit == MonitorsInit => MonitorsInv
<1>. SUFFICES ASSUME MonitorsInit PROVE MonitorsInv
  OBVIOUS
<1>1. DeskShape
  BY DEF MonitorsInit, DeskShape, Booted, SentryRow, Failures, NoReport, ReportRow
<1>2. CausesKept  BY DEF MonitorsInit, CausesKept, Booted
<1>3. Resolved = {} /\ Logging = {}  BY DEF MonitorsInit, Resolved, Raised, Logging, NoAdmin
<1>4. LogKept
  <2>1. \A a \in Admins : admin[a].doing = "nothing"  BY DEF MonitorsInit, NoAdmin
  <2>2. Cardinality(Resolved) = 0 /\ Cardinality(Logging) = 0  BY <1>3, FS_EmptySet
  <2>. QED  BY <2>1, <2>2 DEF MonitorsInit, LogKept
<1>5. WalletKept  BY MonitorsAssumption DEF MonitorsInit, WalletKept, NoSetting
<1>. QED  BY <1>1, <1>2, <1>4, <1>5 DEF MonitorsInv

(* A step that leaves reports and admins leaves the log.                   *)
LEMMA LogStays ==
  ASSUME MonitorsInv, UNCHANGED <<report, admin, logged>>, skewed' \in Nat, skewed' >= skewed
  PROVE  LogKept' /\ Resolved' = Resolved
<1>1. Raised' = Raised  BY DEF Raised
<1>2. Resolved' = Resolved /\ Logging' = Logging  BY <1>1 DEF Resolved, Logging
<1>3. Cardinality(Resolved)' = Cardinality(Resolved) /\ Cardinality(Logging)' = Cardinality(Logging)
  BY <1>2
<1>4. skewed \in Nat /\ logged.resolved \in Nat  BY DEF MonitorsInv, DeskShape
<1>5. logged.resolved <= Cardinality(Resolved) + skewed'
  BY <1>4, DeskFinite DEF MonitorsInv, LogKept
<1>. QED  BY <1>1, <1>2, <1>3, <1>5 DEF MonitorsInv, LogKept

LEMMA SentryKeeps ==
  ASSUME MonitorsInv, NEW s \in Sentries, NEW row \in SentryRow, row.failures <= row.failing,
         SetSentry(s, row), OnlySentry
  PROVE  MonitorsInv'
<1>1. /\ sentry' = [sentry EXCEPT ![s] = row]
      /\ UNCHANGED <<report, admin, logged, skewed, wallet, setting, since>>
  BY DEF SetSentry, OnlySentry, WalletUnchanged
<1>2. skewed' \in Nat /\ skewed' >= skewed  BY <1>1 DEF MonitorsInv, DeskShape
<1>3. DeskShape' /\ CausesKept' /\ WalletKept'
  BY <1>1 DEF MonitorsInv, DeskShape, CausesKept, WalletKept
<1>. QED  BY <1>1, <1>2, <1>3, LogStays DEF MonitorsInv

LEMMA SweepKeeps ==
  ASSUME MonitorsInv, NEW s \in Sentries, NEW ends \in {"well", "caught", "raises"}, NEW long \in BOOLEAN,
         Sweep(s, ends, long)
  PROVE  MonitorsInv'
<1>1. sentry[s] \in SentryRow /\ sentry[s].failures <= sentry[s].failing
  BY DEF MonitorsInv, DeskShape, CausesKept
<1>. DEFINE n == IF ends = "raises" THEN OneMore(sentry[s].failures) ELSE 0
            m == IF ends = "well" THEN 0 ELSE OneMore(sentry[s].failing)
            pass == IF long THEN "stalled" ELSE "swept"
            row == [sentry[s] EXCEPT !.failures = n, !.failing = m, !.pass = pass]
<1>2. n \in 0..Failures /\ m \in 0..Failures /\ n <= m
  BY <1>1 DEF SentryRow, Failures, OneMore
<1>3. SetSentry(s, row) /\ OnlySentry  BY <1>1 DEF Sweep, AfterSuccess, SetSentry
<1>. HIDE DEF n, m
<1>4. pass \in {"between", "swept", "stalled"}  OBVIOUS
<1>. HIDE DEF pass
<1>5. row \in SentryRow /\ row.failing = m /\ row.failures = n
  <2>1. [sentry[s] EXCEPT !.failures = n] \in SentryRow  BY ONLY <1>1, <1>2 DEF SentryRow
  <2>. QED  BY ONLY <2>1, <1>1, <1>2, <1>4 DEF SentryRow
<1>. QED  BY <1>2, <1>3, <1>5, SentryKeeps

(* An alert is written for what was signalled, into a row that was free.    *)
LEMMA FireAlertsKeeps ==
  ASSUME MonitorsInv, NEW s \in Sentries, NEW last \in 1..3, NEW written \in SUBSET Kinds,
         FireAlerts(s, last, written)
  PROVE  MonitorsInv'
<1>. DEFINE firing == DueAlerts(s) \cap {Looks[i] : i \in 1..last}
<1>1. /\ sentry' = [sentry EXCEPT ![s] = [sentry[s] EXCEPT !.pass = "between", !.cooling = @ \cup firing]]
      /\ written \subseteq firing /\ UNCHANGED <<admin, logged, skewed, wallet, setting, since>>
  BY DEF FireAlerts, SetSentry, WalletUnchanged
<1>2. PICK rows \in [written -> Reports \ Raised] :
        report' = [r \in Reports |->
                 IF \E k \in written : rows[k] = r
                 THEN LET k == CHOOSE k \in written : rows[k] = r
                      IN [kind |-> k, resolved |-> FALSE,
                          cause |-> IF k = "sweeper_consecutive_errors" THEN sentry[s].failing ELSE Failures]
                 ELSE report[r]]
  BY DEF FireAlerts
<1>3. sentry[s] \in SentryRow /\ sentry[s].failures <= sentry[s].failing
  BY DEF MonitorsInv, DeskShape, CausesKept
<1>4. firing \subseteq Signals(s) /\ firing \subseteq Kinds  BY DEF Signals, DueAlerts
<1>. HIDE DEF firing
<1>5. \A k \in written : k = "sweeper_consecutive_errors" => sentry[s].failing >= Failures
  <2>1. \A k \in written : k = "sweeper_consecutive_errors" => sentry[s].failures >= Failures
    BY <1>1, <1>4 DEF Signals, Kinds
  <2>. QED  BY <2>1, <1>3 DEF SentryRow, Failures
<1>6. ASSUME NEW r \in Reports
      PROVE  \/ /\ r \notin Raised /\ report'[r] \in ReportRow /\ report'[r].kind \in Kinds
                /\ report'[r].cause >= Failures /\ ~report'[r].resolved
             \/ report'[r] = report[r]
  <2>1. CASE \E k \in written : rows[k] = r
    <3>1. PICK k \in written : k = CHOOSE j \in written : rows[j] = r  BY <2>1
    <3>2. rows[k] = r  BY <2>1, <3>1
    <3>3. report'[r] = [kind |-> k, resolved |-> FALSE,
            cause |-> IF k = "sweeper_consecutive_errors" THEN sentry[s].failing ELSE Failures]
      BY <2>1, <3>1, <1>2
    <3>4. k \in Kinds /\ r \notin Raised  BY <3>2, <1>2
    <3>5. sentry[s].failing \in Nat  BY <1>3 DEF SentryRow, Failures
    <3>. QED  BY <3>3, <3>4, <3>5, <1>5 DEF ReportRow, Failures
  <2>2. CASE ~ \E k \in written : rows[k] = r  BY <2>2, <1>2
  <2>. QED  BY <2>1, <2>2
<1>7. report' = [r \in Reports |-> report'[r]]  BY <1>2
<1>8. DeskShape'
  <2>1. report' \in [Reports -> ReportRow]  BY <1>6, <1>7 DEF MonitorsInv, DeskShape
  <2>2. sentry' \in [Sentries -> SentryRow]
    <3>1. [sentry[s] EXCEPT !.pass = "between", !.cooling = @ \cup firing] \in SentryRow
      <4>1. sentry[s].cooling \cup firing \subseteq Kinds  BY <1>3, <1>4 DEF SentryRow
      <4>. QED  BY ONLY <4>1, <1>3 DEF SentryRow
    <3>. QED  BY <3>1, <1>1 DEF MonitorsInv, DeskShape
  <2>. QED  BY <2>1, <2>2, <1>1 DEF MonitorsInv, DeskShape
<1>9. CausesKept'
  <2>1. \A z \in Sentries : sentry'[z].failures <= sentry'[z].failing
    <3>1. [sentry[s] EXCEPT !.pass = "between", !.cooling = @ \cup firing].failing = sentry[s].failing
          /\ [sentry[s] EXCEPT !.pass = "between", !.cooling = @ \cup firing].failures = sentry[s].failures
      BY <1>3 DEF SentryRow
    <3>. QED  BY <3>1, <1>1, <1>3 DEF MonitorsInv, DeskShape, CausesKept
  <2>2. \A r \in Reports : report'[r] # NoReport => report'[r].kind # "none" /\ report'[r].cause >= Failures
    BY <1>6 DEF MonitorsInv, CausesKept, Kinds
  <2>. QED  BY <2>1, <2>2 DEF CausesKept
<1>10. \A r \in Reports : /\ report[r] # NoReport => report'[r] # NoReport
                          /\ (report'[r] # NoReport /\ report'[r].resolved) <=>
                             (report[r] # NoReport /\ report[r].resolved)
  BY <1>6, RaisedSet DEF NoReport
<1>11. Resolved' = Resolved /\ Logging' = Logging
  <2>1. \A r : r \in Resolved' <=> r \in Reports /\ report'[r] # NoReport /\ report'[r].resolved
    BY DEF Resolved, Raised
  <2>2. \A r : r \in Resolved' <=> r \in Resolved  BY <2>1, <1>10, RaisedSet
  <2>. QED  BY <2>2, <1>1 DEF Logging
<1>12. LogKept'
  <2>1. \A a \in Admins : admin[a].doing = "resolve" => admin[a].of \in Raised'
    BY <1>10 DEF MonitorsInv, LogKept, Raised
  <2>2. Cardinality(Resolved)' = Cardinality(Resolved) /\ Cardinality(Logging)' = Cardinality(Logging)
    BY <1>11
  <2>. QED  BY <2>1, <2>2, <1>1 DEF MonitorsInv, LogKept
<1>13. WalletKept'  BY <1>1 DEF MonitorsInv, WalletKept
<1>. QED  BY <1>8, <1>9, <1>12, <1>13 DEF MonitorsInv

LEMMA AdminKnown ==
  ASSUME MonitorsInv, NEW a \in Admins
  PROVE  /\ admin[a].doing = "resolve" => admin[a] \in ResolveRow /\ admin[a].of \in Reports
         /\ NoAdmin.doing = "nothing"
<1>1. admin[a] \in {NoAdmin} \cup ResolveRow \cup LogRow  BY DEF MonitorsInv, DeskShape
<1>2. NoAdmin.doing = "nothing"  BY DEF NoAdmin
<1>3. admin[a] \in LogRow => admin[a].doing = "log"  BY DEF LogRow
<1>4. admin[a] \in ResolveRow => admin[a].of \in Reports  BY DEF ResolveRow
<1>. QED  BY <1>1, <1>2, <1>3, <1>4

LEMMA OpenReportKeeps ==
  ASSUME MonitorsInv, NEW a \in Admins, NEW r \in Reports, OpenReport(a, r)
  PROVE  MonitorsInv'
<1>. DEFINE opened == [doing |-> "resolve", of |-> r]
<1>1. /\ admin' = [admin EXCEPT ![a] = opened] /\ admin[a] = NoAdmin /\ r \in Raised
      /\ UNCHANGED <<report, logged, skewed, sentry, wallet, setting, since>>
  BY DEF OpenReport, OnlyDesk, WalletUnchanged
<1>2. opened \in ResolveRow /\ opened.doing = "resolve" /\ opened.of = r  BY DEF ResolveRow
<1>. HIDE DEF opened
<1>3. /\ admin' \in [Admins -> {NoAdmin} \cup ResolveRow \cup LogRow] /\ admin'[a] = opened
      /\ \A b \in Admins \ {a} : admin'[b] = admin[b]
  BY <1>1, <1>2 DEF MonitorsInv, DeskShape
<1>4. DeskShape' /\ CausesKept' /\ WalletKept'
  BY <1>1, <1>3 DEF MonitorsInv, DeskShape, CausesKept, WalletKept
<1>5. Raised' = Raised  BY <1>1 DEF Raised
<1>6. Resolved' = Resolved  BY <1>1, <1>5 DEF Resolved
<1>7. Logging' = Logging
  <2>1. NoAdmin.doing = "nothing"  BY DEF NoAdmin
  <2>2. \A b \in Admins : admin'[b].doing = "log" <=> admin[b].doing = "log"  BY <2>1, <1>1, <1>2, <1>3
  <2>. QED  BY <2>2 DEF Logging
<1>8. LogKept'
  <2>1. \A b \in Admins : admin'[b].doing = "resolve" => admin'[b].of \in Raised'
    BY <1>1, <1>2, <1>3, <1>5 DEF MonitorsInv, LogKept
  <2>2. Cardinality(Resolved)' = Cardinality(Resolved) /\ Cardinality(Logging)' = Cardinality(Logging)
    BY <1>6, <1>7
  <2>. QED  BY <2>1, <2>2, <1>1 DEF MonitorsInv, LogKept
<1>. QED  BY <1>4, <1>8 DEF MonitorsInv

LEMMA ResolveReportKeeps ==
  ASSUME MonitorsInv, NEW a \in Admins, ResolveReport(a)
  PROVE  MonitorsInv'
<1>1. PICK r \in Reports : r = admin[a].of  BY AdminKnown DEF ResolveReport
<1>2. /\ report' = [report EXCEPT ![r].resolved = TRUE]
      /\ admin' = [admin EXCEPT ![a] = [doing |-> "log"]]
      /\ logged' = [logged EXCEPT !.resolved = @ + 1]
      /\ skewed' = (IF report[r].resolved THEN skewed + 1 ELSE skewed)
      /\ UNCHANGED <<sentry, wallet, setting, since>> /\ admin[a].doing = "resolve"
  BY <1>1 DEF ResolveReport, Skew, OnlyDesk, WalletUnchanged
<1>3. /\ report[r] \in ReportRow /\ report[r] # NoReport /\ report[r].kind # "none"
      /\ logged \in [resolved : Nat, entries : Nat] /\ skewed \in Nat
  BY <1>1, <1>2, RaisedSet DEF MonitorsInv, LogKept, CausesKept, DeskShape
<1>. DEFINE row == [report[r] EXCEPT !.resolved = TRUE]
<1>4. row \in ReportRow /\ row.resolved /\ row # NoReport /\ row.kind = report[r].kind /\ row.cause = report[r].cause
  BY <1>3 DEF ReportRow, NoReport
<1>5. /\ report' \in [Reports -> ReportRow] /\ report'[r] = row
      /\ \A p \in Reports \ {r} : report'[p] = report[p]
  BY <1>2, <1>4 DEF MonitorsInv, DeskShape
<1>. HIDE DEF row
<1>6. /\ admin' \in [Admins -> {NoAdmin} \cup ResolveRow \cup LogRow] /\ admin'[a].doing = "log"
      /\ \A b \in Admins \ {a} : admin'[b] = admin[b]
  BY <1>2 DEF MonitorsInv, DeskShape, LogRow
<1>7. logged' \in [resolved : Nat, entries : Nat] /\ logged'.resolved = logged.resolved + 1
      /\ logged'.entries = logged.entries /\ logged.resolved \in Nat /\ logged.entries \in Nat
  BY <1>2, <1>3
<1>8. skewed' \in Nat /\ (skewed' = 0 => skewed = 0)  BY <1>2, <1>3
<1>9. DeskShape'  BY <1>2, <1>5, <1>6, <1>7, <1>8 DEF MonitorsInv, DeskShape
<1>10. CausesKept'
  <2>1. \A p \in Reports : report'[p] # NoReport => report'[p].kind # "none" /\ report'[p].cause >= Failures
    BY <1>3, <1>4, <1>5 DEF MonitorsInv, CausesKept
  <2>. QED  BY <2>1, <1>2 DEF MonitorsInv, CausesKept
<1>11. WalletKept'  BY <1>2, <1>8 DEF MonitorsInv, WalletKept
<1>12. Resolved' = Resolved \cup {r}
  <2>1. \A p : p \in Resolved' <=> p \in Reports /\ report'[p] # NoReport /\ report'[p].resolved
    BY DEF Resolved, Raised
  <2>2. \A p : p \in Resolved' <=> p \in Resolved \cup {r}
    BY <2>1, <1>4, <1>5, RaisedSet
  <2>. QED  BY <2>2
<1>13. Logging' = Logging \cup {a} /\ a \notin Logging
  <2>1. \A b \in Admins : b \in Logging' <=> b \in Logging \/ b = a
    BY <1>6 DEF Logging
  <2>2. Logging' \subseteq Admins /\ Logging \subseteq Admins  BY DEF Logging
  <2>3. a \notin Logging  BY <1>2 DEF Logging
  <2>. QED  BY <2>1, <2>2, <2>3
<1>14. Cardinality(Logging)' = Cardinality(Logging) + 1
  <2>1. Cardinality(Logging \cup {a}) = Cardinality(Logging) + 1
    BY <1>13, DeskFinite, FS_AddElement
  <2>. QED  BY <2>1, <1>13
<1>15. Cardinality(Resolved)' = (IF r \in Resolved THEN Cardinality(Resolved) ELSE Cardinality(Resolved) + 1)
  <2>1. Cardinality(Resolved \cup {r}) = (IF r \in Resolved THEN Cardinality(Resolved) ELSE Cardinality(Resolved) + 1)
    BY DeskFinite, FS_AddElement
  <2>. QED  BY <2>1, <1>12
<1>16. r \in Resolved <=> report[r].resolved  BY <1>3, RaisedSet
<1>17. Cardinality(Resolved)' + skewed' >= Cardinality(Resolved) + skewed + 1
  <2>1. Cardinality(Resolved) \in Nat  BY DeskFinite
  <2>2. CASE r \in Resolved
    BY <2>1, <2>2, <1>2, <1>3, <1>15, <1>16
  <2>3. CASE r \notin Resolved
    BY <2>1, <2>3, <1>2, <1>3, <1>15, <1>16
  <2>. QED  BY <2>2, <2>3
<1>18. LogKept'
  <2>1. \A b \in Admins : admin'[b].doing = "resolve" => admin'[b].of \in Raised'
    <3>1. ASSUME NEW b \in Admins, admin'[b].doing = "resolve" PROVE admin'[b].of \in Raised'
      <4>1. admin'[b] = admin[b] /\ admin[b].of \in Raised  BY <3>1, <1>6 DEF MonitorsInv, LogKept
      <4>2. admin[b].of \in Reports /\ report[admin[b].of] # NoReport  BY <4>1, RaisedSet
      <4>3. report'[admin[b].of] # NoReport  BY <4>2, <1>4, <1>5
      <4>. QED  BY <4>1, <4>2, <4>3 DEF Raised
    <3>. QED  BY <3>1
  <2>2. logged.entries + Cardinality(Logging) = logged.resolved /\ logged.resolved <= Cardinality(Resolved) + skewed
    BY DEF MonitorsInv, LogKept
  <2>3. Cardinality(Logging) \in Nat /\ Cardinality(Resolved) \in Nat  BY DeskFinite
  <2>4. logged'.entries + Cardinality(Logging)' = logged'.resolved  BY <2>2, <2>3, <1>7, <1>14
  <2>5. Cardinality(Resolved)' \in Nat  BY <2>3, <1>15
  <2>6. logged'.resolved <= Cardinality(Resolved)' + skewed'
    BY ONLY <2>2, <2>3, <2>5, <1>3, <1>7, <1>8, <1>17
  <2>. QED  BY <2>1, <2>4, <2>6 DEF LogKept
<1>. QED  BY <1>9, <1>10, <1>11, <1>18 DEF MonitorsInv

LEMMA LogResolutionKeeps ==
  ASSUME MonitorsInv, NEW a \in Admins, LogResolution(a)
  PROVE  MonitorsInv'
<1>1. /\ admin' = [admin EXCEPT ![a] = NoAdmin] /\ admin[a].doing = "log"
      /\ logged' = [logged EXCEPT !.entries = @ + 1]
      /\ UNCHANGED <<report, skewed, sentry, wallet, setting, since>>
  BY DEF LogResolution, OnlyDesk, WalletUnchanged
<1>2. NoAdmin.doing = "nothing"  BY DEF NoAdmin
<1>3. /\ admin' \in [Admins -> {NoAdmin} \cup ResolveRow \cup LogRow] /\ admin'[a] = NoAdmin
      /\ \A b \in Admins \ {a} : admin'[b] = admin[b]
  BY <1>1 DEF MonitorsInv, DeskShape
<1>4. logged' \in [resolved : Nat, entries : Nat] /\ logged'.resolved = logged.resolved
      /\ logged'.entries = logged.entries + 1 /\ logged.entries \in Nat /\ logged.resolved \in Nat
  BY <1>1 DEF MonitorsInv, DeskShape
<1>5. DeskShape' /\ CausesKept' /\ WalletKept'
  BY <1>1, <1>3, <1>4 DEF MonitorsInv, DeskShape, CausesKept, WalletKept
<1>6. Raised' = Raised  BY <1>1 DEF Raised
<1>7. Resolved' = Resolved  BY <1>1, <1>6 DEF Resolved
<1>8. Logging' = Logging \ {a} /\ a \in Logging
  <2>1. \A b \in Admins : b \in Logging' <=> b \in Logging /\ b # a
    BY <1>2, <1>3 DEF Logging
  <2>2. Logging' \subseteq Admins /\ Logging \subseteq Admins  BY DEF Logging
  <2>3. a \in Logging  BY <1>1 DEF Logging
  <2>. QED  BY <2>1, <2>2, <2>3
<1>9. Cardinality(Logging)' = Cardinality(Logging) - 1
  <2>1. Cardinality(Logging \ {a}) = Cardinality(Logging) - 1
    BY <1>8, DeskFinite, FS_RemoveElement
  <2>. QED  BY <2>1, <1>8
<1>10. LogKept'
  <2>1. \A b \in Admins : admin'[b].doing = "resolve" => admin'[b].of \in Raised'
    BY <1>2, <1>3, <1>6 DEF MonitorsInv, LogKept
  <2>2. Cardinality(Resolved)' = Cardinality(Resolved)  BY <1>7
  <2>3. logged'.entries + Cardinality(Logging)' = logged'.resolved
    BY <1>4, <1>9, DeskFinite DEF MonitorsInv, LogKept
  <2>. QED  BY <2>1, <2>2, <2>3, <1>1, <1>4 DEF MonitorsInv, LogKept
<1>. QED  BY <1>5, <1>10 DEF MonitorsInv

(* The balance.                                                            *)
LEMMA WalletKeeps ==
  ASSUME MonitorsInv, WalletNext
  PROVE  MonitorsInv'
<1>1. UNCHANGED <<sentry, report, admin, logged>> /\ skewed' \in {skewed, skewed + 1} /\ skewed \in Nat
  <2>1. skewed \in Nat  BY DEF MonitorsInv, DeskShape
  <2>2. CASE CreateTask \/ ChargeUntold \/ TopUp
    BY <2>1, <2>2 DEF CreateTask, ChargeUntold, TopUp, OnlyWallet
  <2>3. ASSUME NEW q \in Settings, NEW to \in Thresholds, ReadSetting(q, to)
        PROVE  UNCHANGED <<sentry, report, admin, logged, skewed>>
    BY <2>3 DEF ReadSetting, OnlyWallet
  <2>4. ASSUME NEW q \in Settings, SetThreshold(q)
        PROVE  UNCHANGED <<sentry, report, admin, logged>> /\ skewed' \in {skewed, skewed + 1}
    BY <2>4 DEF SetThreshold, OnlyWallet, Skew
  <2>. QED  BY <2>1, <2>2, <2>3, <2>4 DEF WalletNext
<1>2. skewed' \in Nat /\ skewed' >= skewed /\ (skewed' = 0 => skewed = 0)  BY <1>1
<1>3. DeskShape' /\ CausesKept' /\ LogKept'
  BY <1>1, <1>2, LogStays DEF MonitorsInv, DeskShape, CausesKept
<1>4. WalletKept'
  <2>. USE MonitorsAssumption
  <2>1. ASSUME CreateTask PROVE WalletKept'
    <3>. DEFINE low == Low(wallet.credits - 1)
    <3>1. /\ wallet' = [wallet EXCEPT !.credits = wallet.credits - 1, !.fired = @ \/ (low /\ ~wallet.fired)]
          /\ since' = [since EXCEPT !.low = IF low THEN 1 ELSE @,
                                    !.alerts = IF low /\ ~wallet.fired THEN @ + 1 ELSE @]
          /\ skewed' = skewed
      BY <2>1 DEF CreateTask, Fires
    <3>2. low \in BOOLEAN  BY DEF Low
    <3>3. wallet.credits > 0 /\ setting' = setting  BY <2>1 DEF CreateTask
    <3>. HIDE DEF low
    <3>4. /\ wallet \in [credits : Nat, threshold : Nat, fired : BOOLEAN]
          /\ since \in [low : Nat, alerts : Nat, settings : Nat]
          /\ since.alerts = 0 \/ (since.alerts = 1 /\ wallet.fired)
          /\ skewed = 0 => /\ since.alerts = since.low
                           /\ since.low = (IF wallet.fired THEN 1 ELSE 0)
      BY DEF MonitorsInv, WalletKept
    <3>5. /\ wallet'.credits = wallet.credits - 1 /\ wallet'.threshold = wallet.threshold
          /\ wallet'.fired = (wallet.fired \/ (low /\ ~wallet.fired))
          /\ wallet' = [credits |-> wallet'.credits, threshold |-> wallet'.threshold, fired |-> wallet'.fired]
      BY ONLY <3>1, <3>4
    <3>6. /\ since'.low = (IF low THEN 1 ELSE since.low) /\ since'.settings = since.settings
          /\ since'.alerts = (IF low /\ ~wallet.fired THEN since.alerts + 1 ELSE since.alerts)
          /\ since' = [low |-> since'.low, alerts |-> since'.alerts, settings |-> since'.settings]
      BY ONLY <3>1, <3>4
    <3>7. wallet.credits - 1 \in Nat  BY ONLY <3>3, <3>4
    <3>8. wallet' \in [credits : Nat, threshold : Nat, fired : BOOLEAN]  BY ONLY <3>2, <3>4, <3>5, <3>7
    <3>9. since' \in [low : Nat, alerts : Nat, settings : Nat]  BY ONLY <3>2, <3>4, <3>6
    <3>10. skewed' = 0 => /\ since'.alerts = since'.low
                          /\ since'.low = (IF wallet'.fired THEN 1 ELSE 0)
      <4>1. CASE wallet.fired
        <5>1. wallet'.fired /\ since'.alerts = since.alerts  BY ONLY <4>1, <3>5, <3>6
        <5>. QED  BY ONLY <4>1, <5>1, <3>1, <3>4, <3>6
      <4>2. CASE ~wallet.fired
        <5>1. wallet'.fired = low  BY ONLY <4>2, <3>2, <3>5
        <5>2. CASE low
          <6>1. wallet'.fired /\ since'.alerts = since.alerts + 1 /\ since'.low = 1
            BY ONLY <4>2, <5>1, <5>2, <3>6
          <6>. QED  BY ONLY <4>2, <6>1, <3>1, <3>4
        <5>3. CASE ~low
          <6>1. ~wallet'.fired /\ since'.alerts = since.alerts /\ since'.low = since.low
            BY ONLY <5>1, <5>3, <3>6
          <6>. QED  BY ONLY <4>2, <6>1, <3>1, <3>4
        <5>. QED  BY <5>2, <5>3
      <4>. QED  BY <4>1, <4>2
    <3>11. \A q \in Settings : setting'[q].to \in Nat  BY <3>3 DEF MonitorsInv, WalletKept
    <3>12. since'.alerts = 0 \/ (since'.alerts = 1 /\ wallet'.fired)
      BY ONLY <3>2, <3>4, <3>5, <3>6
    <3>. QED  BY <3>8, <3>9, <3>10, <3>11, <3>12 DEF WalletKept
  <2>2. ASSUME TopUp \/ ChargeUntold PROVE WalletKept'
    <3>1. wallet \in [credits : Nat, threshold : Nat, fired : BOOLEAN]  BY DEF MonitorsInv, WalletKept
    <3>2. PICK n \in Nat : wallet' = [wallet EXCEPT !.credits = n]
      BY <2>2, <3>1 DEF TopUp, ChargeUntold
    <3>3. UNCHANGED <<setting, since, skewed>>  BY <2>2 DEF TopUp, ChargeUntold
    <3>4. wallet' \in [credits : Nat, threshold : Nat, fired : BOOLEAN] /\ wallet'.fired = wallet.fired
      BY ONLY <3>1, <3>2
    <3>. QED  BY <3>3, <3>4 DEF MonitorsInv, WalletKept
  <2>3. ASSUME NEW q \in Settings, NEW to \in Thresholds, ReadSetting(q, to) PROVE WalletKept'
    BY <2>3 DEF ReadSetting, MonitorsInv, WalletKept
  <2>4. ASSUME NEW q \in Settings, SetThreshold(q) PROVE WalletKept'
    <3>. DEFINE seen == setting[q].seen
    <3>1. /\ wallet' = [wallet EXCEPT !.threshold = IF setting[q].to = seen.threshold THEN @ ELSE setting[q].to,
                                      !.fired = @ /\ ~seen.fired]
          /\ since' = [low |-> 0, alerts |-> 0, settings |-> since.settings + 1]
          /\ skewed' = (IF seen # [threshold |-> wallet.threshold, fired |-> wallet.fired] THEN skewed + 1 ELSE skewed)
      BY <2>4 DEF SetThreshold, Skew
    <3>2. wallet.fired \in BOOLEAN  BY DEF MonitorsInv, WalletKept
    <3>3. wallet'.fired \in BOOLEAN /\ (wallet'.fired => ~seen.fired /\ wallet.fired)
      <4>1. CASE wallet'.fired = (wallet.fired /\ ~seen.fired)  BY <4>1
      <4>2. CASE wallet'.fired = wallet.fired  BY <4>2, <3>1, <3>2
      <4>. QED  BY <3>1, <4>1, <4>2
    <3>4. skewed' = 0 => seen = [threshold |-> wallet.threshold, fired |-> wallet.fired]
      BY <3>1, <1>1
    <3>5. skewed' = 0 => wallet'.fired = FALSE  BY <3>3, <3>4
    <3>6. since'.low = 0 /\ since'.alerts = 0  BY <3>1
    <3>7. /\ wallet \in [credits : Nat, threshold : Nat, fired : BOOLEAN]
          /\ since.settings \in Nat /\ setting[q].to \in Nat
      BY DEF MonitorsInv, WalletKept
    <3>8. wallet' \in [credits : Nat, threshold : Nat, fired : BOOLEAN]
      BY ONLY <3>1, <3>3, <3>7
    <3>9. since' \in [low : Nat, alerts : Nat, settings : Nat]  BY ONLY <3>1, <3>7
    <3>10. setting' = [setting EXCEPT ![q] = NoSetting]  BY <2>4 DEF SetThreshold
    <3>11. \A p \in Settings : setting'[p].to \in Nat
      BY <3>10 DEF MonitorsInv, WalletKept, NoSetting
    <3>. QED  BY <3>5, <3>6, <3>8, <3>9, <3>11 DEF WalletKept
  <2>. QED  BY <2>1, <2>2, <2>3, <2>4 DEF WalletNext
<1>. QED  BY <1>3, <1>4 DEF MonitorsInv

LEMMA MonitorsInvNext == MonitorsInv /\ [MonitorsNext]_monitorVars => MonitorsInv'
<1>. SUFFICES ASSUME MonitorsInv, [MonitorsNext]_monitorVars PROVE MonitorsInv'
  OBVIOUS
<1>1. ASSUME NEW s \in Sentries, HttpError(s) \/ WindowPasses(s) \/ \E k \in Kinds : CooldownEnds(s, k)
      PROVE  MonitorsInv'
  <2>1. sentry[s] \in SentryRow /\ sentry[s].failures <= sentry[s].failing
    BY DEF MonitorsInv, DeskShape, CausesKept
  <2>2. PICK row : /\ \/ row = [sentry[s] EXCEPT !.errors = @ + 1]
                      \/ sentry[s].errors > 0 /\ row = [sentry[s] EXCEPT !.errors = @ - 1]
                      \/ \E k \in Kinds : row = [sentry[s] EXCEPT !.cooling = @ \ {k}]
                   /\ SetSentry(s, row) /\ OnlySentry
    BY <1>1 DEF HttpError, WindowPasses, CooldownEnds
  <2>3. row \in SentryRow /\ row.failures <= row.failing
    <3>1. sentry[s].errors \in Nat /\ sentry[s].cooling \subseteq Kinds  BY <2>1 DEF SentryRow
    <3>2. CASE row = [sentry[s] EXCEPT !.errors = @ + 1]
      BY ONLY <3>1, <3>2, <2>1 DEF SentryRow
    <3>3. CASE sentry[s].errors > 0 /\ row = [sentry[s] EXCEPT !.errors = @ - 1]
      <4>1. sentry[s].errors - 1 \in Nat  BY <3>1, <3>3
      <4>. QED  BY ONLY <4>1, <3>3, <2>1 DEF SentryRow
    <3>4. ASSUME NEW k \in Kinds, row = [sentry[s] EXCEPT !.cooling = @ \ {k}]
          PROVE  row \in SentryRow /\ row.failures <= row.failing
      <4>1. sentry[s].cooling \ {k} \in SUBSET Kinds  BY <3>1
      <4>. QED  BY ONLY <4>1, <3>4, <2>1 DEF SentryRow
    <3>. QED  BY <2>2, <3>2, <3>3, <3>4
  <2>. QED  BY <2>2, <2>3, SentryKeeps
<1>2. ASSUME NEW s \in Sentries, Reboot(s) PROVE MonitorsInv'
  <2>1. Booted \in SentryRow /\ Booted.failures <= Booted.failing  BY DEF Booted, SentryRow, Failures
  <2>. QED  BY <1>2, <2>1, SentryKeeps DEF Reboot
<1>3. CASE UNCHANGED monitorVars
  <2>1. UNCHANGED <<sentry, report, admin, logged, wallet, setting, since, skewed>>  BY <1>3 DEF monitorVars
  <2>2. skewed' \in Nat /\ skewed' >= skewed  BY <2>1 DEF MonitorsInv, DeskShape
  <2>. QED  BY <2>1, <2>2, LogStays DEF MonitorsInv, DeskShape, CausesKept, WalletKept
<1>. QED  BY <1>1, <1>2, <1>3, SweepKeeps, FireAlertsKeeps, OpenReportKeeps, ResolveReportKeeps,
            LogResolutionKeeps, WalletKeeps DEF MonitorsNext, SentryNext

(* An alert opens a cooldown of its kind in its replica, and only what      *)
(* closes one is counted as lapsed.                                        *)
AlertsCounted ==
  /\ lapsed \in [Kinds -> Nat]
  /\ \A k \in Kinds : Cardinality(AlertsOf(k)) <= Cardinality(Cooling(k)) + lapsed[k]

LEMMA AlertSetsFinite ==
  ASSUME NEW k
  PROVE  /\ IsFiniteSet(AlertsOf(k)) /\ Cardinality(AlertsOf(k)) \in Nat
         /\ IsFiniteSet(Cooling(k)) /\ Cardinality(Cooling(k)) \in Nat
<1>1. AlertsOf(k) \subseteq Reports /\ Cooling(k) \subseteq Sentries  BY DEF AlertsOf, Cooling
<1>. QED  BY <1>1, MonitorsAssumption, FS_Subset, FS_CardinalityType

LEMMA AlertsStay ==
  ASSUME AlertsCounted, UNCHANGED <<sentry, lapsed>>,
         \A r \in Reports : report'[r].kind = report[r].kind
  PROVE  AlertsCounted'
<1>1. \A k : AlertsOf(k)' = AlertsOf(k) /\ Cooling(k)' = Cooling(k)  BY DEF AlertsOf, Cooling
<1>. QED  BY <1>1 DEF AlertsCounted

(* A replica forgets some of its cooldowns, or none.                       *)
LEMMA LapseKeeps ==
  ASSUME AlertsCounted, NEW s \in Sentries, NEW over \in SUBSET Kinds, over \subseteq sentry[s].cooling,
         \A z \in Sentries : sentry'[z].cooling = IF z = s THEN sentry[s].cooling \ over ELSE sentry[z].cooling,
         Lapse(over), UNCHANGED report
  PROVE  AlertsCounted'
<1>1. lapsed' = [k \in Kinds |-> IF k \in over THEN lapsed[k] + 1 ELSE lapsed[k]]  BY DEF Lapse
<1>2. lapsed' \in [Kinds -> Nat]  BY <1>1 DEF AlertsCounted
<1>3. ASSUME NEW k \in Kinds PROVE Cardinality(AlertsOf(k)') <= Cardinality(Cooling(k)') + lapsed'[k]
  <2>1. AlertsOf(k)' = AlertsOf(k)  BY DEF AlertsOf
  <2>2. Cardinality(AlertsOf(k)) <= Cardinality(Cooling(k)) + lapsed[k] /\ lapsed[k] \in Nat
    BY DEF AlertsCounted
  <2>3. CASE k \in over
    <3>1. s \in Cooling(k) /\ Cooling(k)' = Cooling(k) \ {s}  BY <2>3 DEF Cooling
    <3>2. Cardinality(Cooling(k)') = Cardinality(Cooling(k)) - 1
      BY <3>1, AlertSetsFinite, FS_RemoveElement
    <3>. QED  BY <1>1, <2>1, <2>2, <2>3, <3>2, AlertSetsFinite
  <2>4. CASE k \notin over
    <3>1. Cooling(k)' = Cooling(k)  BY <2>4 DEF Cooling
    <3>. QED  BY <1>1, <2>1, <2>2, <2>4, <3>1
  <2>. QED  BY <2>3, <2>4
<1>. QED  BY <1>2, <1>3 DEF AlertsCounted

LEMMA AlertsFired ==
  ASSUME MonitorsInv, AlertsCounted, NEW s \in Sentries, NEW last \in 1..3, NEW written \in SUBSET Kinds,
         FireAlerts(s, last, written)
  PROVE  AlertsCounted'
<1>. DEFINE tried == DueAlerts(s) \cap {Looks[i] : i \in 1..last}
<1>1. /\ sentry' = [sentry EXCEPT ![s] = [sentry[s] EXCEPT !.pass = "between", !.cooling = @ \cup tried]]
      /\ written \subseteq tried /\ lapsed' = lapsed
  BY DEF FireAlerts, SetSentry
<1>2. PICK rows \in [written -> Reports \ Raised] :
        report' = [r \in Reports |->
                 IF \E k \in written : rows[k] = r
                 THEN LET k == CHOOSE k \in written : rows[k] = r
                      IN [kind |-> k, resolved |-> FALSE,
                          cause |-> IF k = "sweeper_consecutive_errors" THEN sentry[s].failing ELSE Failures]
                 ELSE report[r]]
  BY DEF FireAlerts
<1>3. tried \cap sentry[s].cooling = {}  BY DEF DueAlerts
<1>. HIDE DEF tried
<1>4. sentry'[s].cooling = sentry[s].cooling \cup tried /\ \A z \in Sentries \ {s} : sentry'[z] = sentry[z]
  <2>1. sentry[s] \in SentryRow  BY DEF MonitorsInv, DeskShape
  <2>. QED  BY <1>1, <2>1 DEF MonitorsInv, DeskShape, SentryRow
<1>5. ASSUME NEW r \in Reports
      PROVE  (report'[r].kind \in written /\ rows[report'[r].kind] = r) \/ report'[r] = report[r]
  <2>1. CASE \E k \in written : rows[k] = r
    <3>1. PICK k \in written : k = CHOOSE j \in written : rows[j] = r  BY <2>1
    <3>2. rows[k] = r /\ report'[r].kind = k  BY <2>1, <3>1, <1>2
    <3>. QED  BY <3>2
  <2>. QED  BY <2>1, <1>2
<1>6. ASSUME NEW k \in Kinds PROVE Cardinality(AlertsOf(k)') <= Cardinality(Cooling(k)') + lapsed'[k]
  <2>1. Cardinality(AlertsOf(k)) <= Cardinality(Cooling(k)) + lapsed[k] /\ lapsed[k] \in Nat
    BY DEF AlertsCounted
  <2>2. IsFiniteSet(AlertsOf(k)') /\ Cardinality(AlertsOf(k)') \in Nat
    <3>1. AlertsOf(k)' \subseteq Reports  BY DEF AlertsOf
    <3>. QED  BY <3>1, MonitorsAssumption, FS_Subset, FS_CardinalityType
  <2>3. CASE k \in tried
    <3>1. s \notin Cooling(k) /\ Cooling(k)' = Cooling(k) \cup {s}  BY <1>3, <1>4, <2>3 DEF Cooling
    <3>2. Cardinality(Cooling(k)') = Cardinality(Cooling(k)) + 1  BY <3>1, AlertSetsFinite, FS_AddElement
    <3>3. AlertsOf(k)' \subseteq AlertsOf(k) \cup {rows[k]}  BY <1>5 DEF AlertsOf
    <3>4. /\ IsFiniteSet(AlertsOf(k) \cup {rows[k]})
          /\ Cardinality(AlertsOf(k) \cup {rows[k]}) <= Cardinality(AlertsOf(k)) + 1
          /\ Cardinality(AlertsOf(k) \cup {rows[k]}) \in Nat
      <4>1. IsFiniteSet(AlertsOf(k)) /\ Cardinality(AlertsOf(k)) \in Nat  BY AlertSetsFinite
      <4>. DEFINE A == AlertsOf(k)
                  x == rows[k]
      <4>2. IsFiniteSet(A) /\ Cardinality(A) \in Nat  BY <4>1
      <4>. HIDE DEF A, x
      <4>3. /\ IsFiniteSet(A \cup {x})
            /\ Cardinality(A \cup {x}) = (IF x \in A THEN Cardinality(A) ELSE Cardinality(A) + 1)
        BY <4>2, FS_AddElement
      <4>4. IsFiniteSet(A \cup {x}) /\ Cardinality(A \cup {x}) <= Cardinality(A) + 1 /\ Cardinality(A \cup {x}) \in Nat
        BY <4>2, <4>3
      <4>. QED  BY <4>4 DEF A, x
    <3>5. Cardinality(AlertsOf(k)') <= Cardinality(AlertsOf(k) \cup {rows[k]})  BY <3>3, <3>4, FS_Subset
    <3>. QED  BY <1>1, <2>1, <2>2, <3>2, <3>4, <3>5, AlertSetsFinite
  <2>4. CASE k \notin tried
    <3>1. Cooling(k)' = Cooling(k)  BY <1>4, <2>4 DEF Cooling
    <3>2. AlertsOf(k)' \subseteq AlertsOf(k)  BY <1>1, <1>5, <2>4 DEF AlertsOf
    <3>3. Cardinality(AlertsOf(k)') <= Cardinality(AlertsOf(k))  BY <3>2, AlertSetsFinite, FS_Subset
    <3>. QED  BY <1>1, <2>1, <2>2, <3>1, <3>3, AlertSetsFinite
  <2>. QED  BY <2>3, <2>4
<1>. QED  BY <1>1, <1>6 DEF AlertsCounted

LEMMA AlertsInit == MonitorsInit => AlertsCounted
<1>. SUFFICES ASSUME MonitorsInit PROVE AlertsCounted
  OBVIOUS
<1>1. lapsed = [k \in Kinds |-> 0]  BY DEF MonitorsInit
<1>2. \A k \in Kinds : AlertsOf(k) = {}  BY DEF MonitorsInit, AlertsOf, NoReport, Kinds
<1>3. \A k \in Kinds : Cardinality(AlertsOf(k)) = 0  BY <1>2, FS_EmptySet
<1>. QED  BY <1>1, <1>3, AlertSetsFinite DEF AlertsCounted

LEMMA AlertsNext ==
  ASSUME MonitorsInv, AlertsCounted, [MonitorsNext]_monitorVars
  PROVE  AlertsCounted'
<1>1. \A s \in Sentries : sentry[s] \in SentryRow /\ sentry[s].cooling \in SUBSET Kinds
  BY DEF MonitorsInv, DeskShape, SentryRow
<1>2. sentry \in [Sentries -> SentryRow]  BY DEF MonitorsInv, DeskShape
<1>3. ASSUME NEW s \in Sentries, HttpError(s) \/ WindowPasses(s) PROVE AlertsCounted'
  <2>1. PICK e : sentry' = [sentry EXCEPT ![s] = [sentry[s] EXCEPT !.errors = e]]
    BY <1>3 DEF HttpError, WindowPasses, SetSentry
  <2>2. \A z \in Sentries : sentry'[z].cooling = sentry[z].cooling  BY <1>1, <1>2, <2>1 DEF SentryRow
  <2>3. Lapse({}) /\ UNCHANGED report  BY <1>3 DEF HttpError, WindowPasses, OnlySentry
  <2>. QED  BY <2>2, <2>3, LapseKeeps
<1>4. ASSUME NEW s \in Sentries, NEW ends, NEW long, Sweep(s, ends, long) PROVE AlertsCounted'
  <2>1. PICK n, m, p : sentry' = [sentry EXCEPT ![s] = [sentry[s] EXCEPT !.failures = n, !.failing = m, !.pass = p]]
    BY <1>4 DEF Sweep, SetSentry
  <2>2. \A z \in Sentries : sentry'[z].cooling = sentry[z].cooling  BY <1>1, <1>2, <2>1 DEF SentryRow
  <2>3. Lapse({}) /\ UNCHANGED report  BY <1>4 DEF Sweep, OnlySentry
  <2>. QED  BY <2>2, <2>3, LapseKeeps
<1>5. ASSUME NEW s \in Sentries, NEW k \in Kinds, CooldownEnds(s, k) PROVE AlertsCounted'
  <2>1. /\ sentry' = [sentry EXCEPT ![s] = [sentry[s] EXCEPT !.cooling = @ \ {k}]]
        /\ {k} \subseteq sentry[s].cooling /\ Lapse({k}) /\ UNCHANGED report
    BY <1>5 DEF CooldownEnds, SetSentry, OnlySentry
  <2>2. \A z \in Sentries : sentry'[z].cooling = IF z = s THEN sentry[s].cooling \ {k} ELSE sentry[z].cooling
    BY <1>1, <1>2, <2>1 DEF SentryRow
  <2>. QED  BY <2>1, <2>2, LapseKeeps
<1>6. ASSUME NEW s \in Sentries, Reboot(s) PROVE AlertsCounted'
  <2>1. /\ sentry' = [sentry EXCEPT ![s] = Booted] /\ Lapse(sentry[s].cooling) /\ UNCHANGED report
    BY <1>6 DEF Reboot, SetSentry, OnlySentry
  <2>2. Booted.cooling = {}  BY DEF Booted
  <2>3. \A z \in Sentries : sentry'[z].cooling =
          IF z = s THEN sentry[s].cooling \ sentry[s].cooling ELSE sentry[z].cooling
    BY <1>2, <2>1, <2>2
  <2>. QED  BY <1>1, <2>1, <2>3, LapseKeeps
<1>7. ASSUME NEW a \in Admins, ResolveReport(a) PROVE AlertsCounted'
  <2>1. PICK r \in Reports : r = admin[a].of  BY <1>7, AdminKnown DEF ResolveReport
  <2>2. report' = [report EXCEPT ![r].resolved = TRUE] /\ UNCHANGED <<sentry, lapsed>>
    BY <1>7, <2>1 DEF ResolveReport, OnlyDesk
  <2>3. \A z \in Reports : report'[z].kind = report[z].kind
    BY <2>2 DEF MonitorsInv, DeskShape, ReportRow
  <2>. QED  BY <2>2, <2>3, AlertsStay
<1>8. ASSUME NEW a \in Admins, LogResolution(a) \/ \E r \in Reports : OpenReport(a, r) PROVE AlertsCounted'
  BY <1>8, AlertsStay DEF LogResolution, OpenReport, OnlyDesk
<1>9. CASE WalletNext \/ UNCHANGED monitorVars
  BY <1>9, AlertsStay DEF WalletNext, CreateTask, ChargeUntold, TopUp, ReadSetting, SetThreshold, OnlyWallet, monitorVars
<1>. QED  BY <1>3, <1>4, <1>5, <1>6, <1>7, <1>8, <1>9, AlertsFired DEF MonitorsNext, SentryNext

(* For any replicas, reports and admins, with restarts and alerts that     *)
(* cannot be written: a replica gives an alert of a kind once in a         *)
(* cooldown, one of failing sweeps has three failures behind it, a         *)
(* resolution is logged once, and a low balance is told at most once per   *)
(* threshold, and once if a task created left it (core/system_alerts.py,   *)
(* routers/admin.py, core/credit_alerts.py).                               *)
THEOREM MonitorsSound == MonitorsSpec => []MonitorsKept
<1>1. MonitorsInv /\ AlertsCounted => MonitorsKept
  <2>. SUFFICES ASSUME MonitorsInv, AlertsCounted PROVE MonitorsKept
    OBVIOUS
  <2>1. \A r \in Raised : report[r].cause >= Failures  BY RaisedSet DEF MonitorsInv, CausesKept
  <2>2. logged.entries <= logged.resolved
    BY DeskFinite DEF MonitorsInv, LogKept, DeskShape
  <2>3. logged.resolved <= Cardinality({r \in Raised : report[r].resolved}) + skewed
    BY DEF MonitorsInv, LogKept, Resolved
  <2>4. since.alerts <= 1  BY DEF MonitorsInv, WalletKept
  <2>. QED  BY <2>1, <2>2, <2>3, <2>4 DEF MonitorsInv, WalletKept, AlertsCounted, MonitorsKept
<1>. QED  BY <1>1, MonitorsInvInit, MonitorsInvNext, AlertsInit, AlertsNext, PTL DEF MonitorsSpec

---------------------------------------------------------------------------
(* Access *)

AccountRow == [exists : BOOLEAN, verified : BOOLEAN, link : Nat, google : BOOLEAN, version : Nat,
               secret : Nat, enabled : BOOLEAN, codes : SUBSET BackupCodes]
AskRow == [for : Purposes \cup Resets, seen : AccountRow, after : Nat, late : BOOLEAN]

AccessShape ==
  /\ account \in AccountRow /\ (account.exists \/ account = Nobody)
  /\ request \in [Requests -> {NoRequest} \cup AskRow]
  /\ reset \in [Resets -> {"none", "sent", "used", "expired"}]
  /\ phone \in Nat /\ changes \in Nat /\ stale \in Nat
  /\ issued \in [link : Nat, secret : Nat, enabling : Nat] /\ issued.enabling <= MaxEnables
  /\ uses \in [Resets \cup BackupCodes -> Nat]
  /\ badges \subseteq [version : Nat, after : Nat]
  /\ confirmed \in BOOLEAN

(* What an open request read still holds of the account, all of it when    *)
(* nobody wrote since; a reset link it wants was then not yet taken.       *)
AskTrue(q) ==
  /\ q.seen.verified => account.verified
  /\ q.seen.exists => account.exists
  /\ q.for \notin {"register", "google"} => q.seen.exists
  /\ ~q.late => q.seen = account
  /\ \A c \in q.seen.codes : c[1] <= issued.enabling
  /\ q.for = "setup" => ~q.seen.enabled
  /\ ~q.late /\ q.for \in Resets => reset[q.for] # "used"
AsksTrue == \A r \in Requests : request[r] # NoRequest => AskTrue(request[r])

LinksTrue == \A l \in Resets : /\ reset[l] # "none" => account.exists
                               /\ reset[l] # "used" => uses[l] = 0

(* A backup code that may be taken was taken by outdated writes only.      *)
UsesTrue ==
  /\ \A t \in Resets \cup BackupCodes : uses[t] <= 1 + stale
  /\ \A c \in account.codes : uses[c] <= stale /\ c[1] <= issued.enabling
  /\ \A c \in BackupCodes : c[1] > issued.enabling => uses[c] = 0

FactorTrue ==
  stale = 0 /\ account.enabled => /\ issued.enabling > 0
                                  /\ account.secret = phone
                                  /\ account.codes = {c \in Codes(issued.enabling) : uses[c] = 0}

(* What is newest is from the last change of the password, in tokens and   *)
(* in what requests read.                                                  *)
Newest(version, after) == version <= account.version /\ (version = account.version => after = changes)
VersionsTrue ==
  stale = 0 => /\ \A b \in badges : Newest(b.version, b.after)
               /\ \A r \in Requests : request[r] # NoRequest => Newest(request[r].seen.version, request[r].after)

AccessInv ==
  /\ AccessShape /\ AsksTrue /\ LinksTrue /\ (confirmed => account.verified)
  /\ UsesTrue /\ FactorTrue /\ VersionsTrue

LEMMA FlushFields ==
  ASSUME NEW row \in AccountRow, NEW seen \in AccountRow, NEW new \in AccountRow
  PROVE  /\ Flush(row, seen, new) \in AccountRow
         /\ Flush(row, row, new) = new
         /\ Flush(row, seen, new).exists = (IF new.exists # seen.exists THEN new.exists ELSE row.exists)
         /\ Flush(row, seen, new).verified = (IF new.verified # seen.verified THEN new.verified ELSE row.verified)
         /\ Flush(row, seen, new).version = (IF new.version # seen.version THEN new.version ELSE row.version)
         /\ Flush(row, seen, new).secret = (IF new.secret # seen.secret THEN new.secret ELSE row.secret)
         /\ Flush(row, seen, new).enabled = (IF new.enabled # seen.enabled THEN new.enabled ELSE row.enabled)
         /\ Flush(row, seen, new).codes = (IF new.codes # seen.codes THEN new.codes ELSE row.codes)
<1>. DEFINE out == Flush(row, seen, new)
<1>1. /\ DOMAIN row = {"exists", "verified", "link", "google", "version", "secret", "enabled", "codes"}
      /\ DOMAIN new = DOMAIN row
  BY DEF AccountRow
<1>2. out = [c \in DOMAIN row |-> IF new[c] # seen[c] THEN new[c] ELSE row[c]]  BY DEF Flush
<1>3. /\ out.exists = (IF new.exists # seen.exists THEN new.exists ELSE row.exists)
      /\ out.verified = (IF new.verified # seen.verified THEN new.verified ELSE row.verified)
      /\ out.link = (IF new.link # seen.link THEN new.link ELSE row.link)
      /\ out.google = (IF new.google # seen.google THEN new.google ELSE row.google)
      /\ out.version = (IF new.version # seen.version THEN new.version ELSE row.version)
      /\ out.secret = (IF new.secret # seen.secret THEN new.secret ELSE row.secret)
      /\ out.enabled = (IF new.enabled # seen.enabled THEN new.enabled ELSE row.enabled)
      /\ out.codes = (IF new.codes # seen.codes THEN new.codes ELSE row.codes)
  BY <1>1, <1>2
<1>4. out = [exists |-> out.exists, verified |-> out.verified, link |-> out.link, google |-> out.google,
             version |-> out.version, secret |-> out.secret, enabled |-> out.enabled, codes |-> out.codes]
  BY <1>1, <1>2
<1>5. out \in AccountRow  BY <1>3, <1>4 DEF AccountRow
<1>6. Flush(row, row, new) = new
  <2>1. Flush(row, row, new) = [c \in DOMAIN row |-> new[c]]  BY DEF Flush
  <2>2. new = [c \in DOMAIN new |-> new[c]]  BY DEF AccountRow
  <2>. QED  BY <2>1, <2>2, <1>1
<1>. QED  BY <1>3, <1>5, <1>6

LEMMA AskKnown ==
  ASSUME AccessInv, NEW r \in Requests, request[r] # NoRequest
  PROVE  /\ request[r] \in AskRow /\ Seen(r) = request[r].seen /\ Seen(r) \in AccountRow
         /\ AskTrue(request[r]) /\ account \in AccountRow
BY DEF AccessInv, AccessShape, AsksTrue, AskRow, Seen

LEMMA CodesAre ==
  /\ \A c : c \in BackupCodes <=> \E n \in 1..MaxEnables : c \in Codes(n)
  /\ \A n : n \in Nat => \A c \in Codes(n) : c[1] = n
<1>1. \A c : c \in BackupCodes <=> \E n \in 1..MaxEnables : c \in Codes(n)  BY DEF BackupCodes
<1>2. ASSUME NEW n, n \in Nat, NEW c \in Codes(n) PROVE c[1] = n  BY DEF Codes
<1>. QED  BY <1>1, <1>2

LEMMA AccessInvInit == AccessInit => AccessInv
<1>. SUFFICES ASSUME AccessInit PROVE AccessInv
  OBVIOUS
<1>1. Nobody \in AccountRow /\ ~Nobody.exists /\ ~Nobody.verified /\ ~Nobody.enabled /\ Nobody.codes = {}
  BY DEF Nobody, AccountRow
<1>2. AccessShape
  <2>1. request \in [Requests -> {NoRequest} \cup AskRow]  BY DEF AccessInit
  <2>2. uses \in [Resets \cup BackupCodes -> Nat]  BY DEF AccessInit
  <2>3. issued \in [link : Nat, secret : Nat, enabling : Nat] /\ issued.enabling <= MaxEnables
    BY AccessAssumption DEF AccessInit
  <2>. QED  BY <1>1, <2>1, <2>2, <2>3 DEF AccessInit, AccessShape
<1>3. AsksTrue  BY DEF AccessInit, AsksTrue
<1>4. LinksTrue  BY DEF AccessInit, LinksTrue
<1>5. UsesTrue  BY <1>1 DEF AccessInit, UsesTrue
<1>6. FactorTrue  BY <1>1 DEF AccessInit, FactorTrue
<1>7. VersionsTrue  BY DEF AccessInit, VersionsTrue
<1>. QED  BY <1>2, <1>3, <1>4, <1>5, <1>6, <1>7 DEF AccessInv, AccessInit

(* The account as a write of r leaves it.                                  *)
LEMMA AfterWrite ==
  ASSUME AccessInv, NEW r \in Requests, request[r] # NoRequest, NEW new \in AccountRow, Write(r, new),
         Seen(r).exists, new.exists, Seen(r).verified => new.verified
  PROVE  /\ account' \in AccountRow /\ account'.exists
         /\ account.verified => account'.verified
         /\ new.verified => account'.verified
         /\ stale' \in Nat /\ stale' = (IF request[r].late THEN stale + 1 ELSE stale)
         /\ ~request[r].late => Seen(r) = account /\ account' = new
         /\ account'.version = (IF new.version # Seen(r).version THEN new.version ELSE account.version)
         /\ account'.secret = (IF new.secret # Seen(r).secret THEN new.secret ELSE account.secret)
         /\ account'.enabled = (IF new.enabled # Seen(r).enabled THEN new.enabled ELSE account.enabled)
         /\ account'.codes = (IF new.codes # Seen(r).codes THEN new.codes ELSE account.codes)
<1>1. /\ account' = Flush(account, Seen(r), new)
      /\ stale' = (IF request[r].late THEN stale + 1 ELSE stale)
  BY DEF Write
<1>2. /\ Seen(r) \in AccountRow /\ account \in AccountRow /\ stale \in Nat
      /\ Seen(r).verified => account.verified
      /\ Seen(r).exists => account.exists
      /\ ~request[r].late => Seen(r) = account
      /\ request[r].late \in BOOLEAN
  BY AskKnown DEF AskTrue, AskRow, AccessInv, AccessShape
<1>3. account'.exists /\ (account.verified => account'.verified) /\ (new.verified => account'.verified)
  <2>1. /\ account'.exists = (IF new.exists # Seen(r).exists THEN new.exists ELSE account.exists)
        /\ account'.verified = (IF new.verified # Seen(r).verified THEN new.verified ELSE account.verified)
    BY <1>1, <1>2, FlushFields
  <2>2. {new.exists, new.verified, Seen(r).exists, Seen(r).verified, account.exists, account.verified} \subseteq BOOLEAN
    BY <1>2 DEF AccountRow
  <2>. QED  BY <1>2, <2>1, <2>2
<1>4. ~request[r].late => Seen(r) = account /\ account' = new  BY <1>1, <1>2, FlushFields
<1>. QED  BY <1>1, <1>2, <1>3, <1>4, FlushFields

(* The requests as a write of r leaves them.                               *)
LEMMA AsksOvertaken ==
  ASSUME AccessInv, NEW r \in Requests, Overtake(r), account' \in AccountRow, account'.exists,
         account.verified => account'.verified, issued'.enabling \in Nat, issued'.enabling >= issued.enabling
  PROVE  /\ request' \in [Requests -> {NoRequest} \cup AskRow]
         /\ AsksTrue'
         /\ \A q \in Requests : request'[q] # NoRequest =>
               /\ request[q] # NoRequest
               /\ request'[q].seen = request[q].seen /\ request'[q].after = request[q].after
<1>1. request' = [q \in Requests |-> IF q = r \/ request[q] = NoRequest THEN NoRequest ELSE Late(request[q])]
  BY DEF Overtake
<1>2. ASSUME NEW q \in Requests, request[q] # NoRequest
      PROVE  /\ Late(request[q]) \in AskRow /\ Late(request[q]).late
             /\ Late(request[q]).for = request[q].for /\ Late(request[q]).seen = request[q].seen
             /\ Late(request[q]).after = request[q].after
  BY <1>2, AskKnown DEF Late, AskRow
<1>3. ASSUME NEW q \in Requests, request'[q] # NoRequest
      PROVE  /\ request[q] # NoRequest /\ request'[q] = Late(request[q])
             /\ request'[q].late /\ request'[q].for = request[q].for
             /\ request'[q].seen = request[q].seen /\ request'[q].after = request[q].after
  BY <1>1, <1>2, <1>3
<1>4. request' \in [Requests -> {NoRequest} \cup AskRow]  BY <1>1, <1>2
<1>5. AsksTrue'
  <2>. SUFFICES ASSUME NEW q \in Requests, request'[q] # NoRequest PROVE AskTrue(request[q])'
    BY DEF AsksTrue
  <2>1. AskTrue(request[q]) /\ request[q] \in AskRow  BY <1>3, AskKnown
  <2>2. \A c \in request[q].seen.codes : c[1] <= issued'.enabling
    <3>. TAKE c \in request[q].seen.codes
    <3>1. c[1] <= issued.enabling  BY <2>1 DEF AskTrue
    <3>2. c \in BackupCodes  BY <2>1 DEF AskRow, AccountRow
    <3>3. PICK n \in 1..MaxEnables : c \in Codes(n)  BY <3>2, CodesAre
    <3>4. c[1] = n  BY <3>3, CodesAre, AccessAssumption
    <3>5. issued.enabling \in Nat  BY DEF AccessInv, AccessShape
    <3>. QED  BY <3>1, <3>4, <3>5
  <2>. QED  BY <1>3, <2>1, <2>2 DEF AskTrue
<1>. QED  BY <1>3, <1>4, <1>5

(* A step that writes no row leaves what it leaves open.                   *)
LEMMA AsksStay ==
  ASSUME AccessInv, NEW r \in Requests, Respond(r) \/ request' = request, UNCHANGED account,
         issued' \in [link : Nat, secret : Nat, enabling : Nat], issued'.enabling = issued.enabling,
         \A l \in Resets : reset'[l] = "used" => reset[l] = "used"
  PROVE  /\ request' \in [Requests -> {NoRequest} \cup AskRow]
         /\ AsksTrue'
         /\ \A q \in Requests : request'[q] # NoRequest => request'[q] = request[q]
<1>1. request' = request \/ request' = [request EXCEPT ![r] = NoRequest]  BY DEF Respond
<1>2. request \in [Requests -> {NoRequest} \cup AskRow]  BY DEF AccessInv, AccessShape
<1>3. request' \in [Requests -> {NoRequest} \cup AskRow]  BY <1>1, <1>2
<1>4. \A q \in Requests : request'[q] # NoRequest => request'[q] = request[q]  BY <1>1, <1>2
<1>5. ASSUME NEW q \in Requests, request'[q] # NoRequest PROVE AskTrue(request[q])'
  <2>1. AskTrue(request[q]) /\ request'[q] = request[q]  BY <1>4, <1>5, AskKnown
  <2>. QED  BY <2>1 DEF AskTrue
<1>. QED  BY <1>3, <1>4, <1>5 DEF AsksTrue

(* Steps that change no request's row: reading, links, and answers.        *)
LEMMA QuietKeeps ==
  ASSUME AccessInv, UNCHANGED <<account, phone, changes, uses, confirmed, stale>>,
         issued' \in [link : Nat, secret : Nat, enabling : Nat], issued'.enabling = issued.enabling,
         request' \in [Requests -> {NoRequest} \cup AskRow], AsksTrue', LinksTrue',
         reset' \in [Resets -> {"none", "sent", "used", "expired"}],
         badges' \subseteq [version : Nat, after : Nat], VersionsTrue'
  PROVE  AccessInv'
<1>1. AccessShape'  BY DEF AccessInv, AccessShape
<1>2. UsesTrue'  BY DEF AccessInv, UsesTrue
<1>3. FactorTrue'  BY DEF AccessInv, FactorTrue
<1>. QED  BY <1>1, <1>2, <1>3 DEF AccessInv

LEMMA MayRead ==
  ASSUME NEW what
  PROVE  /\ what \in {"sign_in", "change"} /\ May(what) => account.exists
         /\ what = "verify" /\ May(what) => account.link # 0
         /\ what = "resend" /\ May(what) => account.exists
         /\ what = "setup" /\ May(what) => account.exists /\ ~account.enabled
         /\ what = "enable" /\ May(what) => account.secret # 0
         /\ what \in {"disable", "second_factor"} /\ May(what) => account.enabled
<1>1. CASE what = "verify"  BY <1>1 DEF May
<1>2. CASE what = "resend"  BY <1>2 DEF May
<1>3. CASE what = "setup"  BY <1>3 DEF May
<1>4. CASE what = "enable"  BY <1>4 DEF May
<1>5. CASE what \in {"sign_in", "change"}  BY <1>5 DEF May
<1>6. CASE what \in {"disable", "second_factor"}  BY <1>6 DEF May
<1>. QED  BY <1>1, <1>2, <1>3, <1>4, <1>5, <1>6

LEMMA MayTake ==
  ASSUME NEW l \in Resets, May(l)
  PROVE  reset[l] = "sent"
<1>1. l \notin Purposes  BY AccessAssumption
<1>. QED  BY <1>1 DEF May, Purposes

LEMMA ReadKeeps ==
  ASSUME AccessInv, NEW r \in Requests, NEW what \in Purposes \cup Resets, Read(r, what)
  PROVE  AccessInv'
<1>. DEFINE row == [for |-> what, seen |-> account, after |-> changes, late |-> FALSE]
<1>1. /\ request' = [request EXCEPT ![r] = row] /\ May(what)
      /\ UNCHANGED <<account, reset, phone, issued, badges, changes, uses, confirmed, stale>>
  BY DEF Read
<1>2. /\ account \in AccountRow /\ changes \in Nat /\ (account.exists \/ account = Nobody)
      /\ request \in [Requests -> {NoRequest} \cup AskRow]
  BY DEF AccessInv, AccessShape
<1>3. row \in AskRow  BY <1>2 DEF AskRow
<1>4. AskTrue(row)
  <2>1. what \notin {"register", "google"} => account.exists
    <3>1. ~account.exists => account.link = 0 /\ account.secret = 0 /\ ~account.enabled
      BY <1>2 DEF Nobody
    <3>2. CASE what \in Purposes  BY <1>1, <1>2, <3>1, <3>2, MayRead DEF Purposes
    <3>3. CASE what \in Resets
      <4>1. reset[what] = "sent"  BY <1>1, <3>3, MayTake
      <4>. QED  BY <3>3, <4>1 DEF AccessInv, LinksTrue
    <3>. QED  BY <3>2, <3>3
  <2>2. what = "setup" => ~account.enabled  BY <1>1, MayRead
  <2>3. what \in Resets => reset[what] # "used"
    BY <1>1, MayTake
  <2>4. \A c \in account.codes : c[1] <= issued.enabling  BY DEF AccessInv, UsesTrue
  <2>. QED  BY <2>1, <2>2, <2>3, <2>4 DEF AskTrue
<1>5. request' \in [Requests -> {NoRequest} \cup AskRow]  BY <1>1, <1>2, <1>3
<1>6. AsksTrue'
  <2>. SUFFICES ASSUME NEW q \in Requests, request'[q] # NoRequest PROVE AskTrue(request[q])'
    BY DEF AsksTrue
  <2>1. request'[q] = row \/ request'[q] = request[q]  BY <1>1, <1>2
  <2>2. AskTrue(request'[q])
    BY <2>1, <1>4 DEF AccessInv, AsksTrue
  <2>. HIDE DEF row
  <2>. QED  BY <1>1, <2>2 DEF AskTrue
<1>7. VersionsTrue'
  <2>. SUFFICES ASSUME stale = 0
                PROVE  /\ \A b \in badges : Newest(b.version, b.after)
                       /\ \A q \in Requests : request'[q] # NoRequest => Newest(request'[q].seen.version, request'[q].after)
    BY <1>1 DEF VersionsTrue, Newest
  <2>1. Newest(row.seen.version, row.after)  BY <1>2 DEF Newest, AccountRow
  <2>2. \A q \in Requests : request'[q] = row \/ request'[q] = request[q]  BY <1>1, <1>2
  <2>. HIDE DEF row
  <2>. QED  BY <2>1, <2>2 DEF AccessInv, VersionsTrue
<1>8. LinksTrue'  BY <1>1 DEF AccessInv, LinksTrue
<1>9. /\ issued' \in [link : Nat, secret : Nat, enabling : Nat] /\ issued'.enabling = issued.enabling
      /\ reset' \in [Resets -> {"none", "sent", "used", "expired"}]
      /\ badges' \subseteq [version : Nat, after : Nat]
  BY <1>1 DEF AccessInv, AccessShape
<1>. QED  BY <1>1, <1>5, <1>6, <1>7, <1>8, <1>9, QuietKeeps

(* Requests that end without a write, or are answered with a token.        *)
LEMMA AnswerKeeps ==
  ASSUME AccessInv, NEW r \in Requests, request[r] # NoRequest, Respond(r),
         UNCHANGED <<account, reset, phone, changes, uses, confirmed, stale>>,
         issued' \in [link : Nat, secret : Nat, enabling : Nat], issued'.enabling = issued.enabling,
         \/ badges' = badges
         \/ Admit(account.version, changes)
         \/ Admit(Seen(r).version, request[r].after)
  PROVE  AccessInv'
<1>1. /\ request' \in [Requests -> {NoRequest} \cup AskRow] /\ AsksTrue'
      /\ \A q \in Requests : request'[q] # NoRequest => request'[q] = request[q]
  BY AsksStay
<1>2. Seen(r) \in AccountRow /\ request[r].after \in Nat /\ account \in AccountRow /\ changes \in Nat
  BY AskKnown DEF AskRow, AccessInv, AccessShape
<1>3. PICK v, n \in Nat : /\ badges' \subseteq badges \cup {[version |-> v, after |-> n]}
                          /\ stale = 0 => Newest(v, n)
  <2>1. account.version \in Nat /\ Seen(r).version \in Nat  BY <1>2 DEF AccountRow
  <2>2. Newest(account.version, changes)  BY <2>1 DEF Newest
  <2>3. stale = 0 => Newest(Seen(r).version, request[r].after)
    BY AskKnown DEF AccessInv, VersionsTrue
  <2>4. \/ badges' \subseteq badges \cup {[version |-> account.version, after |-> changes]}
        \/ badges' \subseteq badges \cup {[version |-> Seen(r).version, after |-> request[r].after]}
    BY DEF Admit
  <2>. QED  BY <1>2, <2>1, <2>2, <2>3, <2>4
<1>4. badges' \subseteq [version : Nat, after : Nat]  BY <1>3 DEF AccessInv, AccessShape
<1>5. VersionsTrue'
  <2>. SUFFICES ASSUME stale = 0
                PROVE  /\ \A b \in badges' : Newest(b.version, b.after)
                       /\ \A q \in Requests : request'[q] # NoRequest => Newest(request'[q].seen.version, request'[q].after)
    BY DEF VersionsTrue, Newest
  <2>. QED  BY <1>1, <1>3 DEF AccessInv, VersionsTrue
<1>6. LinksTrue' /\ reset' \in [Resets -> {"none", "sent", "used", "expired"}]
  BY DEF AccessInv, LinksTrue, AccessShape
<1>. QED  BY <1>1, <1>4, <1>5, <1>6, QuietKeeps

(* What a write keeps besides the account, the requests and the address.   *)
LEMMA WriteKeeps ==
  ASSUME AccessInv, NEW r \in Requests, request[r] # NoRequest, NEW new \in AccountRow, Write(r, new),
         Seen(r).exists, new.exists, Seen(r).verified => new.verified,
         confirmed' \in BOOLEAN, confirmed' => confirmed \/ new.verified \/ account.verified,
         issued' \in [link : Nat, secret : Nat, enabling : Nat], issued'.enabling <= MaxEnables,
         issued'.enabling >= issued.enabling,
         reset' \in [Resets -> {"none", "sent", "used", "expired"}], phone' \in Nat, changes' \in Nat,
         uses' \in [Resets \cup BackupCodes -> Nat], badges' \subseteq [version : Nat, after : Nat],
         LinksTrue', UsesTrue', FactorTrue', VersionsTrue'
  PROVE  AccessInv'
<1>1. /\ account' \in AccountRow /\ account'.exists /\ stale' \in Nat
      /\ account.verified => account'.verified
      /\ new.verified => account'.verified
  BY AfterWrite
<1>2. Overtake(r) /\ issued'.enabling \in Nat  BY DEF Write
<1>3. request' \in [Requests -> {NoRequest} \cup AskRow] /\ AsksTrue'  BY <1>1, <1>2, AsksOvertaken
<1>4. AccessShape'  BY <1>1, <1>3 DEF AccessShape
<1>5. confirmed' => account'.verified  BY <1>1 DEF AccessInv
<1>. QED  BY <1>3, <1>4, <1>5 DEF AccessInv

LEMMA UsesStay ==
  ASSUME AccessInv, UNCHANGED uses, issued'.enabling = issued.enabling,
         account'.codes \subseteq account.codes, stale' \in Nat, stale' >= stale
  PROVE  UsesTrue'
<1>1. stale \in Nat /\ uses \in [Resets \cup BackupCodes -> Nat] /\ account.codes \subseteq BackupCodes
  BY DEF AccessInv, AccessShape, AccountRow
<1>2. \A t \in Resets \cup BackupCodes : uses[t] <= 1 + stale'
  <2>. TAKE t \in Resets \cup BackupCodes
  <2>1. uses[t] \in Nat /\ uses[t] <= 1 + stale  BY <1>1 DEF AccessInv, UsesTrue
  <2>. QED  BY <1>1, <2>1
<1>3. \A c \in account'.codes : uses[c] <= stale' /\ c[1] <= issued.enabling
  <2>. TAKE c \in account'.codes
  <2>1. uses[c] \in Nat /\ uses[c] <= stale /\ c[1] <= issued.enabling  BY <1>1 DEF AccessInv, UsesTrue
  <2>. QED  BY <1>1, <2>1
<1>. QED  BY <1>2, <1>3 DEF AccessInv, UsesTrue

LEMMA LinksStay ==
  ASSUME AccessInv, UNCHANGED reset, account.exists => account'.exists,
         \A l \in Resets : uses'[l] = uses[l]
  PROVE  LinksTrue'
BY DEF AccessInv, LinksTrue

(* A write that leaves the password leaves the versions, and may admit.    *)
LEMMA VersionsStay ==
  ASSUME AccessInv, NEW r \in Requests, request[r] # NoRequest, UNCHANGED changes,
         account'.version = account.version, stale' = 0 => stale = 0,
         \/ badges' = badges
         \/ Admit(account.version, changes)
         \/ Admit(Seen(r).version, request[r].after),
         \A q \in Requests : request'[q] # NoRequest =>
           /\ request[q] # NoRequest
           /\ request'[q].seen = request[q].seen /\ request'[q].after = request[q].after
  PROVE  VersionsTrue' /\ badges' \subseteq [version : Nat, after : Nat]
<1>1. Seen(r) \in AccountRow /\ request[r].after \in Nat /\ account \in AccountRow /\ changes \in Nat
  BY AskKnown DEF AskRow, AccessInv, AccessShape
<1>2. PICK v, n \in Nat : /\ badges' \subseteq badges \cup {[version |-> v, after |-> n]}
                          /\ stale = 0 => Newest(v, n)
  <2>1. account.version \in Nat /\ Seen(r).version \in Nat  BY <1>1 DEF AccountRow
  <2>2. Newest(account.version, changes)  BY <2>1 DEF Newest
  <2>3. stale = 0 => Newest(Seen(r).version, request[r].after)
    BY AskKnown DEF AccessInv, VersionsTrue
  <2>4. \/ badges' \subseteq badges \cup {[version |-> account.version, after |-> changes]}
        \/ badges' \subseteq badges \cup {[version |-> Seen(r).version, after |-> request[r].after]}
    BY DEF Admit
  <2>. QED  BY <1>1, <2>1, <2>2, <2>3, <2>4
<1>3. badges' \subseteq [version : Nat, after : Nat]  BY <1>2 DEF AccessInv, AccessShape
<1>4. ASSUME stale' = 0
      PROVE  /\ \A b \in badges' : Newest(b.version, b.after)
             /\ \A q \in Requests : request'[q] # NoRequest => Newest(request'[q].seen.version, request'[q].after)
  BY <1>2, <1>4 DEF AccessInv, VersionsTrue
<1>. QED  BY <1>3, <1>4 DEF VersionsTrue, Newest

(* A new password makes what was read or issued before it old.             *)
LEMMA VersionsRaised ==
  ASSUME AccessInv, UNCHANGED badges, stale' = 0 => stale = 0 /\ account'.version = account.version + 1,
         \A q \in Requests : request'[q] # NoRequest =>
           /\ request[q] # NoRequest
           /\ request'[q].seen = request[q].seen /\ request'[q].after = request[q].after
  PROVE  VersionsTrue'
<1>1. account.version \in Nat /\ badges \subseteq [version : Nat, after : Nat]
  BY DEF AccessInv, AccessShape, AccountRow
<1>2. ASSUME stale' = 0, NEW b \in badges PROVE Newest(b.version, b.after)'
  <2>1. b.version \in Nat /\ b.version <= account.version
    BY <1>1, <1>2 DEF AccessInv, VersionsTrue, Newest
  <2>. QED  BY <1>1, <1>2, <2>1 DEF Newest
<1>3. ASSUME stale' = 0, NEW q \in Requests, request'[q] # NoRequest
      PROVE  Newest(request[q].seen.version, request[q].after)'
  <2>1. request[q] # NoRequest /\ request'[q].seen = request[q].seen  BY <1>3
  <2>2. request[q].seen.version \in Nat  BY <2>1, AskKnown DEF AskRow, AccountRow
  <2>3. request[q].seen.version <= account.version
    BY <1>3, <2>1 DEF AccessInv, VersionsTrue, Newest
  <2>. QED  BY <1>1, <1>3, <2>1, <2>2, <2>3 DEF Newest
<1>. QED  BY <1>2, <1>3 DEF VersionsTrue

LEMMA FactorStays ==
  ASSUME AccessInv, UNCHANGED <<phone, uses>>, issued'.enabling = issued.enabling, stale' = 0 => stale = 0,
         account'.secret = account.secret, account'.enabled = account.enabled, account'.codes = account.codes
  PROVE  FactorTrue'
BY DEF AccessInv, FactorTrue

(* Writes of the address and of Google's id.                               *)
LEMMA PlainWriteKeeps ==
  ASSUME AccessInv, NEW r \in Requests, request[r] # NoRequest, NEW new \in AccountRow, Write(r, new),
         Seen(r).exists, new.exists, Seen(r).verified => new.verified,
         new.version = Seen(r).version, new.secret = Seen(r).secret,
         new.enabled = Seen(r).enabled, new.codes = Seen(r).codes,
         confirmed' \in BOOLEAN, confirmed' => confirmed \/ new.verified \/ account.verified,
         issued' \in [link : Nat, secret : Nat, enabling : Nat], issued'.enabling = issued.enabling,
         UNCHANGED <<reset, phone, changes, uses>>,
         \/ badges' = badges
         \/ Admit(account.version, changes)
         \/ Admit(Seen(r).version, request[r].after)
  PROVE  AccessInv'
<1>1. /\ account' \in AccountRow /\ account'.exists /\ stale' \in Nat
      /\ account.verified => account'.verified
      /\ stale' = (IF request[r].late THEN stale + 1 ELSE stale)
      /\ account'.version = account.version /\ account'.secret = account.secret
      /\ account'.enabled = account.enabled /\ account'.codes = account.codes
  BY AfterWrite
<1>2. stale' >= stale /\ (stale' = 0 => stale = 0)  BY <1>1 DEF AccessInv, AccessShape
<1>3. issued'.enabling \in Nat /\ issued'.enabling >= issued.enabling /\ issued'.enabling <= MaxEnables
  BY DEF AccessInv, AccessShape
<1>4. \A q \in Requests : request'[q] # NoRequest =>
        /\ request[q] # NoRequest
        /\ request'[q].seen = request[q].seen /\ request'[q].after = request[q].after
  BY <1>1, <1>3, AsksOvertaken DEF Write
<1>5. VersionsTrue' /\ badges' \subseteq [version : Nat, after : Nat]  BY <1>1, <1>2, <1>4, VersionsStay
<1>6. UsesTrue'  BY <1>1, <1>2, UsesStay
<1>7. FactorTrue'  BY <1>1, <1>2, FactorStays
<1>8. LinksTrue'  BY <1>1, LinksStay
<1>9. /\ reset' \in [Resets -> {"none", "sent", "used", "expired"}] /\ phone' \in Nat /\ changes' \in Nat
      /\ uses' \in [Resets \cup BackupCodes -> Nat]
  BY DEF AccessInv, AccessShape
<1>. QED  BY <1>3, <1>5, <1>6, <1>7, <1>8, <1>9, WriteKeeps

(* An account is inserted where none was.                                  *)
LEMMA InsertKeeps ==
  ASSUME AccessInv, NEW r \in Requests, request[r] # NoRequest, NEW row \in AccountRow,
         row.exists, row.version = 0, ~row.enabled, row.codes = {}, ~account.exists,
         Overtake(r), account' = row, Admit(0, changes), UNCHANGED <<reset, phone, changes, uses, stale>>,
         issued' \in [link : Nat, secret : Nat, enabling : Nat], issued'.enabling = issued.enabling,
         confirmed' \in BOOLEAN, confirmed' => confirmed \/ row.verified
  PROVE  AccessInv'
<1>1. account = Nobody  BY DEF AccessInv, AccessShape
<1>2. account.version = 0 /\ ~account.verified  BY <1>1 DEF Nobody
<1>3. issued'.enabling \in Nat /\ issued'.enabling >= issued.enabling /\ issued'.enabling <= MaxEnables
  BY DEF AccessInv, AccessShape
<1>4. /\ request' \in [Requests -> {NoRequest} \cup AskRow] /\ AsksTrue'
      /\ \A q \in Requests : request'[q] # NoRequest =>
           /\ request[q] # NoRequest
           /\ request'[q].seen = request[q].seen /\ request'[q].after = request[q].after
  BY <1>2, <1>3, AsksOvertaken
<1>5. Admit(account.version, changes)  BY <1>2
<1>6. VersionsTrue' /\ badges' \subseteq [version : Nat, after : Nat]
  BY <1>2, <1>4, <1>5, VersionsStay
<1>7. UsesTrue'
  <2>1. stale' \in Nat /\ stale' >= stale  BY DEF AccessInv, AccessShape
  <2>2. account'.codes \subseteq account.codes  OBVIOUS
  <2>. QED  BY <2>1, <2>2, UsesStay
<1>8. FactorTrue'  BY DEF FactorTrue
<1>9. LinksTrue'  BY LinksStay
<1>10. AccessShape'  BY <1>3, <1>4, <1>6 DEF AccessInv, AccessShape
<1>11. confirmed' => account'.verified  BY <1>2 DEF AccessInv
<1>. QED  BY <1>4, <1>6, <1>7, <1>8, <1>9, <1>10, <1>11 DEF AccessInv

LEMMA Wanted ==
  ASSUME NEW r, NEW what, Wants(r, what), what # "nothing"
  PROVE  request[r] # NoRequest /\ request[r].for = what
BY DEF Wants, NoRequest

LEMMA IssuedMore ==
  ASSUME AccessInv
  PROVE  /\ [issued EXCEPT !.link = Fresh("link")] \in [link : Nat, secret : Nat, enabling : Nat]
         /\ [issued EXCEPT !.link = Fresh("link")].enabling = issued.enabling
         /\ [issued EXCEPT !.secret = Fresh("secret")] \in [link : Nat, secret : Nat, enabling : Nat]
         /\ [issued EXCEPT !.secret = Fresh("secret")].enabling = issued.enabling
         /\ [issued EXCEPT !.enabling = Fresh("enabling")] \in [link : Nat, secret : Nat, enabling : Nat]
         /\ [issued EXCEPT !.enabling = Fresh("enabling")].enabling = issued.enabling + 1
         /\ issued \in [link : Nat, secret : Nat, enabling : Nat]
         /\ Fresh("link") \in Nat /\ Fresh("secret") \in Nat /\ Fresh("enabling") = issued.enabling + 1
<1>1. issued \in [link : Nat, secret : Nat, enabling : Nat]  BY DEF AccessInv, AccessShape
<1>2. /\ Fresh("link") = issued.link + 1 /\ Fresh("secret") = issued.secret + 1
      /\ Fresh("enabling") = issued.enabling + 1
  BY DEF Fresh
<1>. QED  BY <1>1, <1>2

LEMMA RegisterKeeps ==
  ASSUME AccessInv, NEW r \in Requests, Register(r)
  PROVE  AccessInv'
<1>. DEFINE row == [Nobody EXCEPT !.exists = TRUE, !.link = Fresh("link")]
<1>1. /\ Wants(r, "register") /\ NewAccount(r, row)
      /\ issued' = [issued EXCEPT !.link = Fresh("link")]
      /\ UNCHANGED <<reset, phone, changes, uses, confirmed>>
  BY DEF Register
<1>2. request[r] # NoRequest  BY <1>1, Wanted
<1>3. /\ issued' \in [link : Nat, secret : Nat, enabling : Nat] /\ issued'.enabling = issued.enabling
      /\ Fresh("link") \in Nat
  BY <1>1, IssuedMore
<1>4. row \in AccountRow /\ row.exists /\ row.version = 0 /\ ~row.enabled /\ row.codes = {}
  BY <1>3 DEF Nobody, AccountRow
<1>5. confirmed' \in BOOLEAN /\ (confirmed' => confirmed \/ row.verified)
  BY <1>1 DEF AccessInv, AccessShape
<1>. HIDE DEF row
<1>6. CASE account.exists
  <2>1. Respond(r) /\ UNCHANGED <<account, badges, stale>>  BY <1>1, <1>6 DEF NewAccount
  <2>. QED  BY <1>1, <1>2, <1>3, <2>1, AnswerKeeps
<1>7. CASE ~account.exists
  <2>1. Overtake(r) /\ account' = row /\ Admit(0, changes) /\ stale' = stale
    BY <1>1, <1>7 DEF NewAccount
  <2>. QED  BY <1>1, <1>2, <1>3, <1>4, <1>5, <1>7, <2>1, InsertKeeps
<1>. QED  BY <1>6, <1>7

LEMMA WantsExisting ==
  ASSUME AccessInv, NEW r \in Requests, NEW what, Wants(r, what),
         what \in (Purposes \cup Resets) \ {"register", "google"}
  PROVE  request[r] # NoRequest /\ Seen(r) \in AccountRow /\ Seen(r).exists /\ request[r].for = what
<1>1. what # "nothing"  BY AccessAssumption DEF Purposes
<1>2. request[r] # NoRequest /\ request[r].for = what  BY <1>1, Wanted
<1>. QED  BY <1>2, AskKnown DEF AskTrue

LEMMA GoogleKeeps ==
  ASSUME AccessInv, NEW r \in Requests, NEW sure \in BOOLEAN, GoogleCallback(r, sure)
  PROVE  AccessInv'
<1>1. /\ Wants(r, "google") /\ UNCHANGED <<reset, phone, issued, changes, uses>>
      /\ confirmed' = (confirmed \/ (account' # account /\ account'.verified))
  BY DEF GoogleCallback
<1>2. request[r] # NoRequest /\ Seen(r) \in AccountRow  BY <1>1, Wanted, AskKnown
<1>3. issued' \in [link : Nat, secret : Nat, enabling : Nat] /\ issued'.enabling = issued.enabling
  BY <1>1, IssuedMore
<1>4. confirmed \in BOOLEAN  BY DEF AccessInv, AccessShape
<1>5. CASE ~Seen(r).exists
  <2>. DEFINE row == [Nobody EXCEPT !.exists = TRUE, !.google = TRUE, !.verified = sure]
  <2>1. NewAccount(r, row)  BY <1>5 DEF GoogleCallback
  <2>2. row \in AccountRow /\ row.exists /\ row.version = 0 /\ ~row.enabled /\ row.codes = {}
    BY DEF Nobody, AccountRow
  <2>. HIDE DEF row
  <2>3. CASE account.exists
    <3>1. Respond(r) /\ UNCHANGED <<account, badges, stale>>  BY <2>1, <2>3 DEF NewAccount
    <3>2. confirmed' = confirmed  BY <1>1, <1>4, <3>1
    <3>. QED  BY <1>1, <1>2, <1>3, <3>1, <3>2, AnswerKeeps
  <2>4. CASE ~account.exists
    <3>1. Overtake(r) /\ account' = row /\ Admit(0, changes) /\ stale' = stale
      BY <2>1, <2>4 DEF NewAccount
    <3>2. confirmed' \in BOOLEAN /\ (confirmed' => confirmed \/ row.verified)
      BY <1>1, <1>4, <2>2, <3>1 DEF AccountRow
    <3>. QED  BY <1>1, <1>2, <1>3, <2>2, <2>4, <3>1, <3>2, InsertKeeps
  <2>. QED  BY <2>3, <2>4
<1>6. CASE Seen(r).exists /\ Seen(r).google
  <2>1. Respond(r) /\ UNCHANGED <<account, stale>> /\ Admit(account.version, changes)
    BY <1>6 DEF GoogleCallback
  <2>2. confirmed' = confirmed  BY <1>1, <1>4, <2>1
  <2>. QED  BY <1>1, <1>2, <1>3, <2>1, <2>2, AnswerKeeps
<1>7. CASE Seen(r).exists /\ ~Seen(r).google
  <2>. DEFINE new == Linked(Seen(r), sure)
  <2>1. Write(r, new) /\ Admit(account.version, changes)  BY <1>7 DEF GoogleCallback
  <2>2. /\ new \in AccountRow /\ new.exists = Seen(r).exists /\ (Seen(r).verified => new.verified)
        /\ new.version = Seen(r).version /\ new.secret = Seen(r).secret
        /\ new.enabled = Seen(r).enabled /\ new.codes = Seen(r).codes
    BY <1>2 DEF Linked, Verified, AccountRow
  <2>. HIDE DEF new
  <2>3. account'.verified => new.verified \/ account.verified
    <3>1. account'.verified = (IF new.verified # Seen(r).verified THEN new.verified ELSE account.verified)
      BY <2>1, <1>2, <2>2, FlushFields DEF Write, AccessInv, AccessShape
    <3>. QED  BY <3>1
  <2>4. confirmed' => confirmed \/ new.verified \/ account.verified  BY <1>1, <2>3
  <2>5. new.exists /\ confirmed' \in BOOLEAN  BY <1>1, <1>4, <1>7, <2>2 DEF AccountRow
  <2>. QED  BY <1>1, <1>2, <1>3, <1>7, <2>1, <2>2, <2>4, <2>5, PlainWriteKeeps
<1>. QED  BY <1>5, <1>6, <1>7

LEMMA AddressKeeps ==
  ASSUME AccessInv, NEW r \in Requests, VerifyEmail(r) \/ ResendVerification(r)
  PROVE  AccessInv'
<1>1. CASE VerifyEmail(r)
  <2>. DEFINE new == Verified(Seen(r))
  <2>1. /\ Wants(r, "verify") /\ Write(r, new) /\ confirmed' = TRUE
        /\ UNCHANGED <<reset, phone, issued, badges, changes, uses>>
    BY <1>1 DEF VerifyEmail
  <2>2. request[r] # NoRequest /\ Seen(r) \in AccountRow /\ Seen(r).exists
    BY <2>1, WantsExisting DEF Purposes
  <2>3. /\ new \in AccountRow /\ new.exists = Seen(r).exists /\ new.verified
        /\ new.version = Seen(r).version /\ new.secret = Seen(r).secret
        /\ new.enabled = Seen(r).enabled /\ new.codes = Seen(r).codes
    BY <2>2 DEF Verified, AccountRow
  <2>4. issued' \in [link : Nat, secret : Nat, enabling : Nat] /\ issued'.enabling = issued.enabling
    BY <2>1, IssuedMore
  <2>. HIDE DEF new
  <2>. QED  BY <2>1, <2>2, <2>3, <2>4, PlainWriteKeeps
<1>2. CASE ResendVerification(r)
  <2>. DEFINE new == [Seen(r) EXCEPT !.link = Fresh("link")]
  <2>1. /\ Wants(r, "resend") /\ Write(r, new)
        /\ issued' = [issued EXCEPT !.link = Fresh("link")]
        /\ UNCHANGED <<reset, phone, badges, changes, uses, confirmed>>
    BY <1>2 DEF ResendVerification
  <2>2. request[r] # NoRequest /\ Seen(r) \in AccountRow /\ Seen(r).exists
    BY <2>1, WantsExisting DEF Purposes
  <2>3. /\ issued' \in [link : Nat, secret : Nat, enabling : Nat] /\ issued'.enabling = issued.enabling
        /\ Fresh("link") \in Nat
    BY <2>1, IssuedMore
  <2>4. /\ new \in AccountRow /\ new.exists = Seen(r).exists /\ new.verified = Seen(r).verified
        /\ new.version = Seen(r).version /\ new.secret = Seen(r).secret
        /\ new.enabled = Seen(r).enabled /\ new.codes = Seen(r).codes
    BY <2>2, <2>3 DEF AccountRow
  <2>5. confirmed' \in BOOLEAN /\ (confirmed' => confirmed)  BY <2>1 DEF AccessInv, AccessShape
  <2>. HIDE DEF new
  <2>6. new.exists /\ (Seen(r).verified => new.verified)  BY <2>2, <2>4
  <2>7. issued'.enabling = issued.enabling  BY <2>3
  <2>. QED  BY <2>1, <2>2, <2>3, <2>4, <2>5, <2>6, <2>7, PlainWriteKeeps
<1>. QED  BY <1>1, <1>2

LEMMA NextVersionIs ==
  ASSUME NEW row \in AccountRow
  PROVE  /\ NextVersion(row) \in AccountRow /\ NextVersion(row).exists = row.exists
         /\ NextVersion(row).verified = row.verified /\ NextVersion(row).version = row.version + 1
         /\ NextVersion(row).secret = row.secret /\ NextVersion(row).enabled = row.enabled
         /\ NextVersion(row).codes = row.codes
BY DEF NextVersion, AccountRow

(* A new password, changed or reset.                                       *)
LEMMA PasswordKeeps ==
  ASSUME AccessInv, NEW r \in Requests, request[r] # NoRequest, Seen(r).exists,
         Write(r, NextVersion(Seen(r))), changes' = changes + 1,
         UNCHANGED <<phone, issued, badges, confirmed>>,
         reset' \in [Resets -> {"none", "sent", "used", "expired"}],
         uses' \in [Resets \cup BackupCodes -> Nat], LinksTrue', UsesTrue', FactorTrue'
  PROVE  AccessInv'
<1>. DEFINE new == NextVersion(Seen(r))
<1>1. Seen(r) \in AccountRow  BY AskKnown
<1>2. new \in AccountRow /\ new.exists /\ (Seen(r).verified => new.verified) /\ new.version = Seen(r).version + 1
  BY <1>1, NextVersionIs
<1>3. Write(r, new)  OBVIOUS
<1>. HIDE DEF new
<1>4. /\ account' \in AccountRow /\ account'.exists /\ (account.verified => account'.verified)
      /\ stale' = (IF request[r].late THEN stale + 1 ELSE stale)
      /\ ~request[r].late => Seen(r) = account /\ account' = new
  BY <1>2, <1>3, AfterWrite
<1>5. issued' \in [link : Nat, secret : Nat, enabling : Nat] /\ issued'.enabling = issued.enabling
      /\ issued'.enabling \in Nat /\ issued'.enabling >= issued.enabling /\ issued'.enabling <= MaxEnables
  BY DEF AccessInv, AccessShape
<1>6. \A q \in Requests : request'[q] # NoRequest =>
        /\ request[q] # NoRequest
        /\ request'[q].seen = request[q].seen /\ request'[q].after = request[q].after
  BY <1>3, <1>4, <1>5, AsksOvertaken DEF Write
<1>7. stale' = 0 => stale = 0 /\ account'.version = account.version + 1
  <2>1. stale \in Nat  BY DEF AccessInv, AccessShape
  <2>. QED  BY <1>2, <1>4, <2>1
<1>8. VersionsTrue'  BY <1>6, <1>7, VersionsRaised
<1>9. /\ confirmed' \in BOOLEAN /\ phone' \in Nat /\ changes' \in Nat
      /\ badges' \subseteq [version : Nat, after : Nat]
  BY DEF AccessInv, AccessShape
<1>. QED  BY <1>2, <1>3, <1>5, <1>8, <1>9, WriteKeeps

LEMMA ChangeKeeps ==
  ASSUME AccessInv, NEW r \in Requests, ChangePassword(r)
  PROVE  AccessInv'
<1>. DEFINE new == NextVersion(Seen(r))
<1>1. /\ Wants(r, "change") /\ Write(r, new) /\ changes' = changes + 1
      /\ UNCHANGED <<reset, phone, issued, badges, uses, confirmed>>
  BY DEF ChangePassword
<1>2. request[r] # NoRequest /\ Seen(r) \in AccountRow /\ Seen(r).exists
  BY <1>1, WantsExisting DEF Purposes
<1>3. /\ new \in AccountRow /\ new.exists /\ (Seen(r).verified => new.verified)
      /\ new.secret = Seen(r).secret /\ new.enabled = Seen(r).enabled /\ new.codes = Seen(r).codes
  BY <1>2, NextVersionIs
<1>. HIDE DEF new
<1>4. /\ account'.exists /\ stale' \in Nat /\ stale' = (IF request[r].late THEN stale + 1 ELSE stale)
      /\ account'.secret = account.secret /\ account'.enabled = account.enabled
      /\ account'.codes = account.codes
  BY <1>1, <1>2, <1>3, AfterWrite
<1>5. stale' >= stale /\ (stale' = 0 => stale = 0)  BY <1>4 DEF AccessInv, AccessShape
<1>6. issued'.enabling = issued.enabling  BY <1>1
<1>7. UsesTrue' /\ FactorTrue' /\ LinksTrue'
  BY <1>1, <1>4, <1>5, <1>6, UsesStay, FactorStays, LinksStay
<1>8. /\ reset' \in [Resets -> {"none", "sent", "used", "expired"}]
      /\ uses' \in [Resets \cup BackupCodes -> Nat]
  BY <1>1 DEF AccessInv, AccessShape
<1>. USE DEF new
<1>. QED  BY <1>1, <1>2, <1>7, <1>8, PasswordKeeps

LEMMA ResetLinkKeeps ==
  ASSUME AccessInv, NEW r \in Requests, NEW l \in Resets, ResetPassword(r, l)
  PROVE  AccessInv'
<1>. DEFINE new == NextVersion(Seen(r))
<1>1. /\ Wants(r, l) /\ Write(r, new) /\ changes' = changes + 1
      /\ reset' = [reset EXCEPT ![l] = "used"] /\ uses' = [uses EXCEPT ![l] = @ + 1]
      /\ UNCHANGED <<phone, issued, badges, confirmed>>
  BY DEF ResetPassword, Take
<1>2. l \notin Purposes /\ l \notin BackupCodes  BY AccessAssumption
<1>3. request[r] # NoRequest /\ Seen(r) \in AccountRow /\ Seen(r).exists /\ request[r].for = l
  BY <1>1, <1>2, WantsExisting DEF Purposes
<1>4. /\ new \in AccountRow /\ new.exists /\ (Seen(r).verified => new.verified)
      /\ new.secret = Seen(r).secret /\ new.enabled = Seen(r).enabled /\ new.codes = Seen(r).codes
  BY <1>3, NextVersionIs
<1>. HIDE DEF new
<1>5. /\ account'.exists /\ stale' \in Nat /\ stale' = (IF request[r].late THEN stale + 1 ELSE stale)
      /\ account'.secret = account.secret /\ account'.enabled = account.enabled
      /\ account'.codes = account.codes
  BY <1>1, <1>3, <1>4, AfterWrite
<1>6. stale \in Nat /\ uses \in [Resets \cup BackupCodes -> Nat] /\ account.codes \subseteq BackupCodes
      /\ reset \in [Resets -> {"none", "sent", "used", "expired"}]
  BY DEF AccessInv, AccessShape, AccountRow
<1>7. stale' >= stale /\ (stale' = 0 => stale = 0)  BY <1>5, <1>6
<1>8. uses' \in [Resets \cup BackupCodes -> Nat] /\ uses'[l] = uses[l] + 1
      /\ \A t \in Resets \cup BackupCodes : t # l => uses'[t] = uses[t]
  BY <1>1, <1>6
<1>9. reset' \in [Resets -> {"none", "sent", "used", "expired"}] /\ reset'[l] = "used"
      /\ \A k \in Resets : k # l => reset'[k] = reset[k]
  BY <1>1, <1>6
<1>10. LinksTrue'  BY <1>5, <1>8, <1>9 DEF AccessInv, LinksTrue
<1>11. UsesTrue'
  <2>1. \A t \in Resets \cup BackupCodes : uses'[t] <= 1 + stale'
    <3>1. uses'[l] <= 1 + stale'
      <4>1. CASE request[r].late
        <5>1. uses[l] <= 1 + stale /\ uses[l] \in Nat  BY <1>6 DEF AccessInv, UsesTrue
        <5>. QED  BY <4>1, <5>1, <1>5, <1>6, <1>8
      <4>2. CASE ~request[r].late
        <5>1. uses[l] = 0  BY <4>2, <1>3, AskKnown DEF AskTrue, AccessInv, LinksTrue
        <5>. QED  BY <5>1, <1>5, <1>6, <1>7, <1>8
      <4>. QED  BY <4>1, <4>2
    <3>2. ASSUME NEW t \in Resets \cup BackupCodes, t # l PROVE uses'[t] <= 1 + stale'
      <4>1. uses[t] <= 1 + stale /\ uses[t] \in Nat  BY <1>6 DEF AccessInv, UsesTrue
      <4>. QED  BY <3>2, <4>1, <1>5, <1>6, <1>7, <1>8
    <3>. QED  BY <3>1, <3>2
  <2>2. ASSUME NEW c \in account'.codes PROVE uses'[c] <= stale' /\ c[1] <= issued'.enabling
    <3>1. c \in BackupCodes /\ c # l /\ c \in account.codes  BY <1>2, <1>5, <1>6
    <3>2. uses'[c] = uses[c] /\ uses[c] \in Nat /\ uses[c] <= stale /\ c[1] <= issued.enabling
      BY <3>1, <1>6, <1>8 DEF AccessInv, UsesTrue
    <3>. QED  BY <3>2, <1>1, <1>5, <1>6, <1>7
  <2>3. ASSUME NEW c \in BackupCodes, c[1] > issued'.enabling PROVE uses'[c] = 0
    <3>1. c # l /\ c[1] > issued.enabling  BY <1>1, <1>2, <2>3
    <3>. QED  BY <3>1, <1>8 DEF AccessInv, UsesTrue
  <2>. QED  BY <2>1, <2>2, <2>3 DEF UsesTrue
<1>12. FactorTrue'
  <2>. SUFFICES ASSUME stale' = 0, account'.enabled
                PROVE  /\ issued'.enabling > 0 /\ account'.secret = phone'
                       /\ account'.codes = {c \in Codes(issued'.enabling) : uses'[c] = 0}
    BY DEF FactorTrue
  <2>1. stale = 0 /\ account.enabled  BY <1>5, <1>7
  <2>2. /\ issued.enabling > 0 /\ account.secret = phone
        /\ account.codes = {c \in Codes(issued.enabling) : uses[c] = 0}
    BY <2>1 DEF AccessInv, FactorTrue
  <2>3. issued.enabling \in 1..MaxEnables  BY <2>2, AccessAssumption DEF AccessInv, AccessShape
  <2>4. \A c \in Codes(issued.enabling) : uses'[c] = uses[c]  BY <2>3, <1>2, <1>8, CodesAre
  <2>. QED  BY <2>2, <2>4, <1>1, <1>5
<1>. USE DEF new
<1>. QED  BY <1>1, <1>3, <1>8, <1>9, <1>10, <1>11, <1>12, PasswordKeeps

(* The second factor.                                                      *)
LEMMA SetupKeeps ==
  ASSUME AccessInv, NEW r \in Requests, Setup(r)
  PROVE  AccessInv'
<1>. DEFINE new == [Seen(r) EXCEPT !.secret = Fresh("secret")]
<1>1. /\ Wants(r, "setup") /\ Write(r, new)
      /\ issued' = [issued EXCEPT !.secret = Fresh("secret")] /\ phone' \in {phone, Fresh("secret")}
      /\ UNCHANGED <<reset, badges, changes, uses, confirmed>>
  BY DEF Setup
<1>2. /\ request[r] # NoRequest /\ Seen(r) \in AccountRow /\ Seen(r).exists /\ request[r].for = "setup"
      /\ ~Seen(r).enabled
  BY <1>1, WantsExisting, AskKnown DEF Purposes, AskTrue
<1>3. /\ issued' \in [link : Nat, secret : Nat, enabling : Nat] /\ issued'.enabling = issued.enabling
      /\ Fresh("secret") \in Nat
  BY <1>1, IssuedMore
<1>4. /\ new \in AccountRow /\ new.exists /\ (Seen(r).verified => new.verified)
      /\ new.version = Seen(r).version /\ ~new.enabled /\ new.codes = Seen(r).codes
  BY <1>2, <1>3 DEF AccountRow
<1>. HIDE DEF new
<1>5. /\ account' \in AccountRow /\ account'.exists /\ stale' \in Nat
      /\ account.verified => account'.verified
      /\ stale' = (IF request[r].late THEN stale + 1 ELSE stale)
      /\ ~request[r].late => account' = new
      /\ account'.version = account.version /\ account'.codes = account.codes
  BY <1>1, <1>2, <1>4, AfterWrite
<1>6. stale' >= stale /\ (stale' = 0 => stale = 0 /\ ~request[r].late)
  BY <1>5 DEF AccessInv, AccessShape
<1>7. issued'.enabling \in Nat /\ issued'.enabling >= issued.enabling /\ issued'.enabling <= MaxEnables
  BY <1>3 DEF AccessInv, AccessShape
<1>8. \A q \in Requests : request'[q] # NoRequest =>
        /\ request[q] # NoRequest
        /\ request'[q].seen = request[q].seen /\ request'[q].after = request[q].after
  BY <1>1, <1>5, <1>7, AsksOvertaken DEF Write
<1>9. VersionsTrue' /\ badges' \subseteq [version : Nat, after : Nat]
  BY <1>1, <1>2, <1>5, <1>6, <1>8, VersionsStay
<1>10. UsesTrue' /\ LinksTrue'  BY <1>1, <1>3, <1>5, <1>6, UsesStay, LinksStay
<1>11. FactorTrue'  BY <1>4, <1>5, <1>6 DEF FactorTrue
<1>12. /\ reset' \in [Resets -> {"none", "sent", "used", "expired"}] /\ phone' \in Nat /\ changes' \in Nat
       /\ uses' \in [Resets \cup BackupCodes -> Nat] /\ confirmed' \in BOOLEAN /\ (confirmed' => confirmed)
  BY <1>1, <1>3 DEF AccessInv, AccessShape
<1>. QED  BY <1>1, <1>2, <1>3, <1>4, <1>7, <1>9, <1>10, <1>11, <1>12, WriteKeeps

LEMMA EnableKeeps ==
  ASSUME AccessInv, NEW r \in Requests, Enable(r)
  PROVE  AccessInv'
<1>. DEFINE n == Fresh("enabling")
            new == [Seen(r) EXCEPT !.enabled = TRUE, !.codes = Codes(n)]
<1>1. /\ Wants(r, "enable") /\ phone = Seen(r).secret /\ n <= MaxEnables /\ Write(r, new)
      /\ issued' = [issued EXCEPT !.enabling = n]
      /\ UNCHANGED <<reset, phone, badges, changes, uses, confirmed>>
  BY DEF Enable
<1>2. request[r] # NoRequest /\ Seen(r) \in AccountRow /\ Seen(r).exists
  BY <1>1, WantsExisting DEF Purposes
<1>3. /\ issued' \in [link : Nat, secret : Nat, enabling : Nat] /\ issued'.enabling = n
      /\ n = issued.enabling + 1 /\ issued.enabling \in Nat
  BY <1>1, IssuedMore
<1>4. n \in 1..MaxEnables /\ n \in Nat  BY <1>1, <1>3, AccessAssumption
<1>5. Codes(n) \subseteq BackupCodes /\ \A c \in Codes(n) : c[1] = n  BY <1>4, CodesAre
<1>. HIDE DEF n
<1>6. /\ new \in AccountRow /\ new.exists /\ (Seen(r).verified => new.verified)
      /\ new.version = Seen(r).version /\ new.enabled /\ new.codes = Codes(n)
      /\ new.secret = Seen(r).secret
  BY <1>2, <1>5 DEF AccountRow
<1>. HIDE DEF new
<1>7. /\ account' \in AccountRow /\ account'.exists /\ stale' \in Nat
      /\ account.verified => account'.verified
      /\ stale' = (IF request[r].late THEN stale + 1 ELSE stale)
      /\ ~request[r].late => account' = new
      /\ account'.version = account.version /\ account'.codes \in {Codes(n), account.codes}
  BY <1>1, <1>2, <1>6, AfterWrite
<1>8. /\ stale \in Nat /\ uses \in [Resets \cup BackupCodes -> Nat] /\ account.codes \subseteq BackupCodes
  BY DEF AccessInv, AccessShape, AccountRow
<1>9. stale' >= stale /\ (stale' = 0 => stale = 0 /\ ~request[r].late)  BY <1>7, <1>8
<1>10. issued'.enabling \in Nat /\ issued'.enabling >= issued.enabling /\ issued'.enabling <= MaxEnables
  BY <1>1, <1>3
<1>11. \A q \in Requests : request'[q] # NoRequest =>
        /\ request[q] # NoRequest
        /\ request'[q].seen = request[q].seen /\ request'[q].after = request[q].after
  BY <1>1, <1>7, <1>10, AsksOvertaken DEF Write
<1>12. VersionsTrue' /\ badges' \subseteq [version : Nat, after : Nat]
  BY <1>1, <1>2, <1>7, <1>9, <1>11, VersionsStay
<1>13. \A c \in Codes(n) : uses[c] = 0
  BY <1>3, <1>5 DEF AccessInv, UsesTrue
<1>14. UsesTrue'
  <2>1. ASSUME NEW t \in Resets \cup BackupCodes PROVE uses'[t] <= 1 + stale'
    <3>1. uses[t] \in Nat /\ uses[t] <= 1 + stale  BY <1>8 DEF AccessInv, UsesTrue
    <3>. QED  BY <3>1, <1>1, <1>7, <1>8, <1>9
  <2>2. ASSUME NEW c \in account'.codes PROVE uses'[c] <= stale' /\ c[1] <= issued'.enabling
    <3>1. CASE c \in Codes(n)  BY <3>1, <1>1, <1>3, <1>4, <1>5, <1>7, <1>13
    <3>2. CASE c \in account.codes
      <4>1. uses[c] \in Nat /\ uses[c] <= stale /\ c[1] <= issued.enabling
        BY <3>2, <1>8 DEF AccessInv, UsesTrue
      <4>2. PICK m \in 1..MaxEnables : c \in Codes(m)  BY <3>2, <1>8, CodesAre
      <4>3. c[1] = m /\ m \in Nat  BY <4>2, CodesAre, AccessAssumption
      <4>. QED  BY <4>1, <4>3, <1>1, <1>3, <1>7, <1>8, <1>9
    <3>. QED  BY <2>2, <3>1, <3>2, <1>7
  <2>3. ASSUME NEW c \in BackupCodes, c[1] > issued'.enabling PROVE uses'[c] = 0
    <3>1. PICK m \in 1..MaxEnables : c \in Codes(m)  BY CodesAre
    <3>2. c[1] = m /\ m \in Nat  BY <3>1, CodesAre, AccessAssumption
    <3>3. c[1] > issued.enabling  BY <2>3, <3>2, <1>3
    <3>. QED  BY <3>3, <1>1 DEF AccessInv, UsesTrue
  <2>. QED  BY <2>1, <2>2, <2>3 DEF UsesTrue
<1>15. FactorTrue'
  <2>. SUFFICES ASSUME stale' = 0
                PROVE  /\ issued'.enabling > 0 /\ account'.secret = phone'
                       /\ account'.codes = {c \in Codes(issued'.enabling) : uses'[c] = 0}
    BY DEF FactorTrue
  <2>1. account' = new  BY <1>7, <1>9
  <2>2. account'.codes = Codes(n) /\ account'.secret = phone'  BY <2>1, <1>1, <1>6
  <2>. QED  BY <2>2, <1>1, <1>3, <1>4, <1>13
<1>16. LinksTrue'  BY <1>1, <1>7, LinksStay
<1>17. /\ reset' \in [Resets -> {"none", "sent", "used", "expired"}] /\ phone' \in Nat /\ changes' \in Nat
       /\ uses' \in [Resets \cup BackupCodes -> Nat] /\ confirmed' \in BOOLEAN /\ (confirmed' => confirmed)
  BY <1>1 DEF AccessInv, AccessShape
<1>. QED  BY <1>1, <1>2, <1>3, <1>6, <1>10, <1>12, <1>14, <1>15, <1>16, <1>17, WriteKeeps

(* A backup code is taken by a write that removes the codes or this one.   *)
LEMMA CodeTaken ==
  ASSUME AccessInv, NEW r \in Requests, request[r] # NoRequest, NEW c \in Seen(r).codes, Take(c),
         NEW new \in AccountRow, Write(r, new), Seen(r).exists, new.exists, Seen(r).verified => new.verified,
         new.codes \subseteq Seen(r).codes \ {c}, UNCHANGED <<reset, issued>>
  PROVE  /\ uses' \in [Resets \cup BackupCodes -> Nat] /\ UsesTrue' /\ LinksTrue'
         /\ c \in BackupCodes /\ uses'[c] > 0
         /\ \A t \in Resets \cup BackupCodes : t # c => uses'[t] = uses[t]
<1>1. /\ account' \in AccountRow /\ account'.exists /\ stale' \in Nat
      /\ stale' = (IF request[r].late THEN stale + 1 ELSE stale)
      /\ ~request[r].late => Seen(r) = account
      /\ account'.codes = (IF new.codes # Seen(r).codes THEN new.codes ELSE account.codes)
  BY AfterWrite
<1>2. /\ stale \in Nat /\ uses \in [Resets \cup BackupCodes -> Nat]
      /\ issued.enabling \in Nat
      /\ Seen(r) \in AccountRow /\ Seen(r).codes \subseteq BackupCodes
      /\ \A d \in Seen(r).codes : d[1] <= issued.enabling
      /\ request[r].late \in BOOLEAN
  BY AskKnown DEF AskTrue, AskRow, AccessInv, AccessShape, AccountRow
<1>3. c \in BackupCodes /\ c \notin Resets  BY <1>2, AccessAssumption
<1>4. /\ uses' \in [Resets \cup BackupCodes -> Nat] /\ uses'[c] = uses[c] + 1
      /\ \A t \in Resets \cup BackupCodes : t # c => uses'[t] = uses[t]
  BY <1>2, <1>3 DEF Take
<1>5. account'.codes \subseteq Seen(r).codes \ {c}  BY <1>1
<1>6. \A t \in Resets \cup BackupCodes : uses[t] \in Nat /\ uses[t] <= 1 + stale
  BY <1>2 DEF AccessInv, UsesTrue
<1>7. ASSUME NEW t \in Resets \cup BackupCodes PROVE uses'[t] <= 1 + stale'
  <2>1. CASE request[r].late  BY <2>1, <1>1, <1>2, <1>4, <1>6
  <2>2. CASE ~request[r].late
    <3>1. uses[c] <= stale  BY <2>2, <1>1 DEF AccessInv, UsesTrue
    <3>. QED  BY <2>2, <3>1, <1>1, <1>2, <1>3, <1>4, <1>6
  <2>. QED  BY <2>1, <2>2
<1>8. ASSUME NEW d \in account'.codes PROVE uses'[d] <= stale' /\ d[1] <= issued'.enabling
  <2>1. d # c /\ d \in Seen(r).codes /\ d \in BackupCodes  BY <1>2, <1>5
  <2>2. d[1] <= issued'.enabling  BY <2>1, <1>2
  <2>3. uses'[d] = uses[d] /\ uses[d] \in Nat /\ uses[d] <= 1 + stale  BY <2>1, <1>4, <1>6
  <2>4. CASE request[r].late  BY <2>2, <2>3, <2>4, <1>1, <1>2
  <2>5. CASE ~request[r].late
    <3>1. uses[d] <= stale  BY <2>1, <2>5, <1>1 DEF AccessInv, UsesTrue
    <3>. QED  BY <2>2, <2>3, <2>5, <3>1, <1>1
  <2>. QED  BY <2>4, <2>5
<1>9. ASSUME NEW d \in BackupCodes, d[1] > issued'.enabling PROVE uses'[d] = 0
  <2>1. PICK m \in 1..MaxEnables : c \in Codes(m)  BY <1>3, CodesAre
  <2>2. c[1] = m /\ m \in Nat  BY <2>1, CodesAre, AccessAssumption
  <2>3. c[1] <= issued.enabling  BY <1>2
  <2>4. ~(c[1] > issued.enabling)  BY <2>2, <2>3, <1>2
  <2>5. d # c  BY <2>4, <1>9
  <2>. QED  BY <2>5, <1>4, <1>9 DEF AccessInv, UsesTrue
<1>10. UsesTrue'  BY <1>7, <1>8, <1>9 DEF UsesTrue
<1>11. LinksTrue'
  <2>1. \A l \in Resets : uses'[l] = uses[l]  BY <1>3, <1>4
  <2>. QED  BY <2>1, <1>1, LinksStay
<1>. QED  BY <1>2, <1>3, <1>4, <1>10, <1>11

LEMMA VerifyKeeps ==
  ASSUME AccessInv, NEW r \in Requests, Verify(r)
  PROVE  AccessInv'
<1>1. /\ Wants(r, "second_factor") /\ Admit(Seen(r).version, request[r].after)
      /\ UNCHANGED <<reset, phone, issued, changes, confirmed>>
  BY DEF Verify
<1>2. request[r] # NoRequest /\ Seen(r) \in AccountRow /\ Seen(r).exists
  BY <1>1, WantsExisting DEF Purposes
<1>3. /\ issued' \in [link : Nat, secret : Nat, enabling : Nat] /\ issued'.enabling = issued.enabling
      /\ issued'.enabling \in Nat /\ issued'.enabling >= issued.enabling /\ issued'.enabling <= MaxEnables
  BY <1>1 DEF AccessInv, AccessShape
<1>4. CASE Respond(r) /\ UNCHANGED <<account, uses, stale>>
  BY <1>1, <1>2, <1>3, <1>4, AnswerKeeps
<1>5. ASSUME NEW c \in Seen(r).codes, Write(r, Without(Seen(r), c)), Take(c)
      PROVE  AccessInv'
  <2>. DEFINE new == Without(Seen(r), c)
  <2>1. /\ new \in AccountRow /\ new.exists /\ (Seen(r).verified => new.verified)
        /\ new.version = Seen(r).version /\ new.secret = Seen(r).secret
        /\ new.enabled = Seen(r).enabled /\ new.codes = Seen(r).codes \ {c}
    BY <1>2 DEF Without, AccountRow
  <2>2. Write(r, new)  BY <1>5
  <2>. HIDE DEF new
  <2>3. /\ account' \in AccountRow /\ account'.exists /\ stale' \in Nat
        /\ account.verified => account'.verified
        /\ stale' = (IF request[r].late THEN stale + 1 ELSE stale)
        /\ ~request[r].late => Seen(r) = account
        /\ account'.version = account.version /\ account'.secret = account.secret
        /\ account'.enabled = account.enabled
        /\ account'.codes = (IF new.codes # Seen(r).codes THEN new.codes ELSE account.codes)
    BY <1>2, <2>1, <2>2, AfterWrite
  <2>4. stale' = 0 => stale = 0 /\ ~request[r].late  BY <2>3 DEF AccessInv, AccessShape
  <2>5. /\ uses' \in [Resets \cup BackupCodes -> Nat] /\ UsesTrue' /\ LinksTrue'
        /\ c \in BackupCodes /\ uses'[c] > 0
        /\ \A t \in Resets \cup BackupCodes : t # c => uses'[t] = uses[t]
    <3>1. new.codes \subseteq Seen(r).codes \ {c} /\ UNCHANGED <<reset, issued>>  BY <1>1, <2>1
    <3>. QED  BY <1>2, <1>5, <2>1, <2>2, <3>1, CodeTaken
  <2>6. \A q \in Requests : request'[q] # NoRequest =>
          /\ request[q] # NoRequest
          /\ request'[q].seen = request[q].seen /\ request'[q].after = request[q].after
    BY <1>3, <2>2, <2>3, AsksOvertaken DEF Write
  <2>7. VersionsTrue' /\ badges' \subseteq [version : Nat, after : Nat]
    BY <1>1, <1>2, <2>3, <2>4, <2>6, VersionsStay
  <2>8. FactorTrue'
    <3>. SUFFICES ASSUME stale' = 0, account'.enabled
                  PROVE  /\ issued'.enabling > 0 /\ account'.secret = phone'
                         /\ account'.codes = {d \in Codes(issued'.enabling) : uses'[d] = 0}
      BY DEF FactorTrue
    <3>1. /\ issued.enabling > 0 /\ account.secret = phone
          /\ account.codes = {d \in Codes(issued.enabling) : uses[d] = 0}
      BY <2>3, <2>4 DEF AccessInv, FactorTrue
    <3>2. issued.enabling \in 1..MaxEnables  BY <3>1, <1>1, <1>3, AccessAssumption
    <3>3. Codes(issued.enabling) \subseteq BackupCodes  BY <3>2, CodesAre
    <3>4. account'.codes = account.codes \ {c}  BY <2>1, <2>3, <2>4
    <3>5. uses'[c] # 0  BY <2>5
    <3>6. {d \in Codes(issued.enabling) : uses'[d] = 0} = {d \in Codes(issued.enabling) : uses[d] = 0} \ {c}
      BY <3>3, <3>5, <2>5
    <3>. QED  BY <3>1, <3>4, <3>6, <1>1, <2>3
  <2>9. /\ reset' \in [Resets -> {"none", "sent", "used", "expired"}] /\ phone' \in Nat /\ changes' \in Nat
        /\ confirmed' \in BOOLEAN /\ (confirmed' => confirmed)
    BY <1>1 DEF AccessInv, AccessShape
  <2>. QED  BY <1>2, <1>3, <2>1, <2>2, <2>5, <2>7, <2>8, <2>9, WriteKeeps
<1>. QED  BY <1>4, <1>5 DEF Verify

LEMMA DisableKeeps ==
  ASSUME AccessInv, NEW r \in Requests, Disable(r)
  PROVE  AccessInv'
<1>. DEFINE new == [Seen(r) EXCEPT !.secret = 0, !.enabled = FALSE, !.codes = {}]
<1>1. /\ Wants(r, "disable") /\ Write(r, new)
      /\ uses' = uses \/ \E c \in Seen(r).codes : Take(c)
      /\ UNCHANGED <<reset, phone, issued, badges, changes, confirmed>>
  BY DEF Disable
<1>2. request[r] # NoRequest /\ Seen(r) \in AccountRow /\ Seen(r).exists
  BY <1>1, WantsExisting DEF Purposes
<1>3. /\ issued' \in [link : Nat, secret : Nat, enabling : Nat] /\ issued'.enabling = issued.enabling
      /\ issued'.enabling \in Nat /\ issued'.enabling >= issued.enabling /\ issued'.enabling <= MaxEnables
  BY <1>1 DEF AccessInv, AccessShape
<1>4. /\ new \in AccountRow /\ new.exists /\ (Seen(r).verified => new.verified)
      /\ new.version = Seen(r).version /\ ~new.enabled /\ new.codes = {}
  BY <1>2 DEF AccountRow
<1>. HIDE DEF new
<1>5. /\ account' \in AccountRow /\ account'.exists /\ stale' \in Nat
      /\ account.verified => account'.verified
      /\ stale' = (IF request[r].late THEN stale + 1 ELSE stale)
      /\ ~request[r].late => account' = new
      /\ account'.version = account.version
      /\ account'.codes = (IF new.codes # Seen(r).codes THEN new.codes ELSE account.codes)
  BY <1>1, <1>2, <1>4, AfterWrite
<1>6. stale' >= stale /\ (stale' = 0 => stale = 0 /\ ~request[r].late)
  BY <1>5 DEF AccessInv, AccessShape
<1>7. \A q \in Requests : request'[q] # NoRequest =>
        /\ request[q] # NoRequest
        /\ request'[q].seen = request[q].seen /\ request'[q].after = request[q].after
  BY <1>1, <1>3, <1>5, AsksOvertaken DEF Write
<1>8. VersionsTrue' /\ badges' \subseteq [version : Nat, after : Nat]
  BY <1>1, <1>2, <1>5, <1>6, <1>7, VersionsStay
<1>9. FactorTrue'  BY <1>4, <1>5, <1>6 DEF FactorTrue
<1>10. uses' \in [Resets \cup BackupCodes -> Nat] /\ UsesTrue' /\ LinksTrue'
  <2>1. CASE uses' = uses
    <3>1. account'.codes \subseteq account.codes  BY <1>4, <1>5
    <3>. QED  BY <2>1, <3>1, <1>1, <1>3, <1>5, <1>6, UsesStay, LinksStay DEF AccessInv, AccessShape
  <2>2. ASSUME NEW c \in Seen(r).codes, Take(c)
        PROVE  uses' \in [Resets \cup BackupCodes -> Nat] /\ UsesTrue' /\ LinksTrue'
    <3>1. new.codes \subseteq Seen(r).codes \ {c} /\ UNCHANGED <<reset, issued>>  BY <1>1, <1>4
    <3>. QED  BY <1>1, <1>2, <1>4, <2>2, <3>1, CodeTaken
  <2>. QED  BY <1>1, <2>1, <2>2
<1>11. /\ reset' \in [Resets -> {"none", "sent", "used", "expired"}] /\ phone' \in Nat /\ changes' \in Nat
       /\ confirmed' \in BOOLEAN /\ (confirmed' => confirmed)
  BY <1>1 DEF AccessInv, AccessShape
<1>. QED  BY <1>1, <1>2, <1>3, <1>4, <1>8, <1>9, <1>10, <1>11, WriteKeeps

LEMMA LinkKeeps ==
  ASSUME AccessInv, NEW l \in Resets, ForgotPassword(l) \/ LinkExpires(l)
  PROVE  AccessInv'
<1>1. /\ UNCHANGED <<account, request, phone, issued, badges, changes, uses, confirmed, stale>>
      /\ \/ reset' = [reset EXCEPT ![l] = "sent"] /\ account.exists /\ reset[l] = "none"
         \/ reset' = [reset EXCEPT ![l] = "expired"] /\ reset[l] = "sent"
  BY DEF ForgotPassword, LinkExpires
<1>2. reset \in [Resets -> {"none", "sent", "used", "expired"}]  BY DEF AccessInv, AccessShape
<1>3. /\ reset' \in [Resets -> {"none", "sent", "used", "expired"}]
      /\ \A k \in Resets : reset'[k] = "used" => reset[k] = "used"
      /\ \A k \in Resets : k # l => reset'[k] = reset[k]
      /\ reset[l] \in {"none", "sent"}
  BY <1>1, <1>2
<1>4. LinksTrue'  BY <1>1, <1>3 DEF AccessInv, LinksTrue
<1>5. issued' \in [link : Nat, secret : Nat, enabling : Nat] /\ issued'.enabling = issued.enabling
  BY <1>1, IssuedMore
<1>6. request' \in [Requests -> {NoRequest} \cup AskRow] /\ AsksTrue'
  <2>1. ASSUME NEW q \in Requests, request'[q] # NoRequest PROVE AskTrue(request[q])'
    <3>1. AskTrue(request[q]) /\ request'[q] = request[q]  BY <1>1, <2>1, AskKnown
    <3>. QED  BY <3>1, <1>1, <1>3 DEF AskTrue
  <2>. QED  BY <1>1, <2>1 DEF AsksTrue, AccessInv, AccessShape
<1>7. VersionsTrue' /\ badges' \subseteq [version : Nat, after : Nat]
  BY <1>1 DEF AccessInv, AccessShape, VersionsTrue, Newest
<1>. QED  BY <1>1, <1>3, <1>4, <1>5, <1>6, <1>7, QuietKeeps

LEMMA LoginKeeps ==
  ASSUME AccessInv, NEW r \in Requests, Login(r) \/ RequestDies(r)
  PROVE  AccessInv'
<1>1. /\ request[r] # NoRequest /\ Respond(r)
      /\ UNCHANGED <<account, reset, phone, issued, changes, uses, confirmed, stale>>
      /\ badges' = badges \/ Admit(Seen(r).version, request[r].after)
  <2>1. CASE Login(r)
    <3>1. request[r] # NoRequest  BY <2>1, Wanted DEF Login
    <3>. QED  BY <2>1, <3>1 DEF Login
  <2>2. CASE RequestDies(r)  BY <2>2 DEF RequestDies
  <2>. QED  BY <2>1, <2>2
<1>2. issued' \in [link : Nat, secret : Nat, enabling : Nat] /\ issued'.enabling = issued.enabling
  BY <1>1, IssuedMore
<1>. QED  BY <1>1, <1>2, AnswerKeeps

LEMMA AccessInvNext == AccessInv /\ [AccessNext]_accessVars => AccessInv'
<1>. SUFFICES ASSUME AccessInv, [AccessNext]_accessVars PROVE AccessInv'
  OBVIOUS
<1>1. CASE EnterNext
  <2>1. ASSUME NEW r \in Requests, NEW what \in {"register", "google", "verify", "resend", "sign_in", "change"} \cup Resets,
               Read(r, what)
        PROVE  AccessInv'
    <3>1. what \in Purposes \cup Resets  BY DEF Purposes
    <3>. QED  BY <2>1, <3>1, ReadKeeps
  <2>. QED  BY <1>1, <2>1, RegisterKeeps, AddressKeeps, LoginKeeps, ChangeKeeps, GoogleKeeps,
               ResetLinkKeeps, LinkKeeps DEF EnterNext
<1>2. CASE FactorNext
  <2>1. ASSUME NEW r \in Requests, NEW what \in {"setup", "enable", "disable", "second_factor"}, Read(r, what)
        PROVE  AccessInv'
    <3>1. what \in Purposes \cup Resets  BY DEF Purposes
    <3>. QED  BY <2>1, <3>1, ReadKeeps
  <2>. QED  BY <1>2, <2>1, SetupKeeps, EnableKeeps, VerifyKeeps, DisableKeeps DEF FactorNext
<1>3. CASE UNCHANGED accessVars
  <2>1. UNCHANGED <<account, request, reset, phone, issued, badges, changes, uses, confirmed, stale>>
    BY <1>3 DEF accessVars
  <2>. QED  BY <2>1 DEF AccessInv, AccessShape, AsksTrue, AskTrue, LinksTrue, UsesTrue, FactorTrue,
                        VersionsTrue, Newest
<1>. QED  BY <1>1, <1>2, <1>3 DEF AccessNext

(* For any requests, links and numbers of changes: a verified address       *)
(* stays so, links and backup codes are taken once but for outdated        *)
(* writes, and without those the second factor is the user's and old       *)
(* access tokens are void (routers/auth.py, oauth.py, two_factor.py).      *)
THEOREM AccessSound == AccessSpec => []AccessKept
<1>1. AccessInv => AccessKept
  <2>. SUFFICES ASSUME AccessInv PROVE AccessKept
    OBVIOUS
  <2>1. \A t \in DOMAIN uses : uses[t] <= 1 + stale  BY DEF AccessInv, AccessShape, UsesTrue
  <2>2. stale = 0 => \A b \in badges : b.version = account.version => b.after = changes
    BY DEF AccessInv, VersionsTrue, Newest
  <2>. QED  BY <2>1, <2>2 DEF AccessInv, FactorTrue, AccessKept
<1>. QED  BY <1>1, AccessInvInit, AccessInvNext, PTL DEF AccessSpec

---------------------------------------------------------------------------
(* Showcase *)

PieceRow == [work : {"claimed", "submitted", "rejected"}, pin : {"none", "there", "gone"}, endorsed : BOOLEAN]
BadgeRow == [reached : BOOLEAN, row : BOOLEAN, notices : Nat]
HostRow == [credits : Int, pending : Nat, spent : Nat]
PinVisit == [does : {"pin"}, work : Works, seen : SUBSET Works]
EndorseVisit == [does : {"endorse"}, work : Works]
AwardVisit == [does : {"award"}, due : SUBSET Badges, seen : SUBSET Badges]
WeekVisit == [does : {"week"}, wanted : SUBSET Hours, seen : [Hours -> Nat]]
CodeVisit == [does : {"code"}]
FirstVisit == [does : {"first"}, friend : Friends, seen : HostRow]
VisitRows == PinVisit \cup EndorseVisit \cup AwardVisit \cup WeekVisit \cup CodeVisit \cup FirstVisit

ShowcaseShape ==
  /\ met \in Nat /\ visit \in [Visits -> {NoVisit} \cup VisitRows]
  /\ piece \in [Works -> PieceRow]
  /\ badge \in [Badges -> BadgeRow]
  /\ week \in [rows : [Hours -> Nat], edition : Nat, wanted : SUBSET Hours, out : SUBSET Hours]
  /\ code \in [now : Nat, shown : SUBSET (Nat \ {0})] /\ IsFiniteSet(code.shown)
  /\ friend \in [Friends -> {"unknown", "referred", "ignored", "paid"}]
  /\ host \in HostRow

PinsKept == Cardinality(Pinned) <= MaxPins + met

BadgesKept ==
  /\ \A b \in Badges : /\ badge[b].notices = IF badge[b].row THEN 1 ELSE 0
                       /\ badge[b].row => badge[b].reached
  /\ \A v \in Visits : Does(v, "award") => \A b \in visit[v].due : badge[b].reached

WeekKept == met = 0 => {h \in Hours : week.rows[h] # 0} = week.wanted

(* A friend's first submission is under way once, and not paid for yet.     *)
Came(what) == {f \in Friends : friend[f] = what}
HostKept ==
  /\ \A v \in Visits : Does(v, "first") => friend[visit[v].friend] = "referred"
  /\ \A v, w \in Visits : Does(v, "first") /\ Does(w, "first") /\ visit[v].friend = visit[w].friend => v = w
  /\ code.now = 0 => code.shown = {}
  /\ met = 0 => /\ \A c \in code.shown : c = code.now
                /\ host.pending = Cardinality(Came("referred"))
                /\ host.credits + host.spent = MaxSpent + Cardinality(Came("paid"))

ShowcaseInv == ShowcaseShape /\ PinsKept /\ BadgesKept /\ WeekKept /\ HostKept

(* What a step must leave alone for each of the four to stay.              *)
SameVisits(what) == \A v \in Visits : Does(v, what)' => visit'[v] = visit[v]
Later == met' \in Nat /\ met' >= met

LEMMA ShowcaseStays ==
  ASSUME ShowcaseInv, Later
  PROVE  /\ UNCHANGED piece => PinsKept'
         /\ UNCHANGED badge /\ SameVisits("award") => BadgesKept'
         /\ UNCHANGED week => WeekKept'
         /\ UNCHANGED <<code, friend, host>> /\ SameVisits("first") => HostKept'
<1>. USE DEF ShowcaseInv, Later
<1>1. Cardinality(Pinned) \in Nat /\ MaxPins \in Nat
  <2>1. Pinned \in SUBSET Works
    BY DEF Pinned
  <2>. QED  BY <2>1, ShowcaseAssumption, FS_Subset, FS_CardinalityType
<1>2. ASSUME UNCHANGED piece PROVE PinsKept'
  <2>1. Pinned' = Pinned
    BY <1>2 DEF Pinned
  <2>. QED  BY <1>1, <2>1 DEF PinsKept, ShowcaseShape
<1>3. ASSUME UNCHANGED badge, SameVisits("award") PROVE BadgesKept'
  BY <1>3 DEF BadgesKept, SameVisits, Does
<1>4. ASSUME UNCHANGED week PROVE WeekKept'
  BY <1>4 DEF WeekKept, ShowcaseShape
<1>5. ASSUME UNCHANGED <<code, friend, host>>, SameVisits("first") PROVE HostKept'
  <2>1. met' = 0 => met = 0
    BY DEF ShowcaseShape
  <2>2. Came("referred")' = Came("referred") /\ Came("paid")' = Came("paid")
    BY <1>5 DEF Came
  <2>3. /\ \A v \in Visits : Does(v, "first")' => friend'[visit'[v].friend] = "referred"
        /\ \A v, w \in Visits : Does(v, "first")' /\ Does(w, "first")' /\ visit'[v].friend = visit'[w].friend => v = w
    BY <1>5 DEF HostKept, SameVisits, Does
  <2>. QED  BY <1>5, <2>1, <2>2, <2>3 DEF HostKept
<1>. QED  BY <1>2, <1>3, <1>4, <1>5

(* A request that arrives is the only new one, and one that leaves is gone. *)
LEMMA VisitArrives ==
  ASSUME ShowcaseShape, NEW v \in Visits, NEW r \in VisitRows, Arrive(v, r)
  PROVE  /\ visit' \in [Visits -> {NoVisit} \cup VisitRows]
         /\ visit'[v] = r /\ \A w \in Visits : w # v => visit'[w] = visit[w]
         /\ \A what : what # r.does => SameVisits(what)
BY DEF ShowcaseShape, Arrive, SameVisits, Does

LEMMA VisitLeaves ==
  ASSUME ShowcaseShape, NEW v \in Visits, Leave(v)
  PROVE  /\ visit' \in [Visits -> {NoVisit} \cup VisitRows]
         /\ \A w \in Visits : w # v => visit'[w] = visit[w]
         /\ \A what : ~Does(v, what)' \/ what = "nothing"
         /\ SameVisits("award") /\ SameVisits("first")
BY DEF ShowcaseShape, Leave, NoVisit, SameVisits, Does

LEMMA ShowcaseInvInit == ShowcaseInit => ShowcaseInv
<1>. SUFFICES ASSUME ShowcaseInit PROVE ShowcaseInv
  OBVIOUS
<1>1. ShowcaseShape
  <2>1. IsFiniteSet(code.shown) /\ MaxSpent \in Nat
    BY ShowcaseAssumption, FS_EmptySet DEF ShowcaseInit
  <2>. QED  BY <2>1 DEF ShowcaseInit, ShowcaseShape, HostRow, PieceRow, BadgeRow
<1>2. Pinned = {} /\ Came("referred") = {} /\ Came("paid") = {} /\ {h \in Hours : week.rows[h] # 0} = {}
  BY DEF ShowcaseInit, Pinned, Came
<1>3. \A v \in Visits, what \in {"award", "first"} : ~Does(v, what)
  BY DEF ShowcaseInit, Does, NoVisit
<1>4. PinsKept /\ WeekKept
  BY <1>2, ShowcaseAssumption, FS_EmptySet DEF ShowcaseInit, PinsKept, WeekKept
<1>5. BadgesKept
  BY <1>3 DEF ShowcaseInit, BadgesKept
<1>6. HostKept
  BY <1>2, <1>3, ShowcaseAssumption, FS_EmptySet DEF ShowcaseInit, HostKept
<1>. QED  BY <1>1, <1>4, <1>5, <1>6 DEF ShowcaseInv

LEMMA VisitDiesKept ==
  ASSUME ShowcaseInv, NEW v \in Visits, VisitDies(v)
  PROVE  ShowcaseInv'
<1>. USE DEF ShowcaseInv
<1>1. Leave(v) /\ UNCHANGED <<piece, badge, week, code, friend, host, met>>
  BY DEF VisitDies
<1>2. visit' \in [Visits -> {NoVisit} \cup VisitRows] /\ SameVisits("award") /\ SameVisits("first")
  BY <1>1, VisitLeaves
<1>3. ShowcaseShape' /\ Later
  BY <1>1, <1>2 DEF ShowcaseShape, Later
<1>. QED  BY <1>1, <1>2, <1>3, ShowcaseStays

LEMMA AwardTyped ==
  ASSUME ShowcaseShape, NEW v \in Visits, Does(v, "award")
  PROVE  visit[v].due \in SUBSET Badges
BY DEF ShowcaseShape, Does, NoVisit, VisitRows, PinVisit, EndorseVisit, AwardVisit, WeekVisit, CodeVisit,
       FirstVisit

(* A change of one row.                                                    *)
LEMMA OnePiece ==
  ASSUME ShowcaseShape, NEW w \in Works, NEW p \in PieceRow, piece' = [piece EXCEPT ![w] = p]
  PROVE  /\ piece' \in [Works -> PieceRow]
         /\ Pinned' = IF p.pin = "there" THEN Pinned \cup {w} ELSE Pinned \ {w}
BY DEF Pinned, ShowcaseShape

LEMMA PieceInvNext ==
  ASSUME ShowcaseInv, PieceNext
  PROVE  ShowcaseInv'
<1>. USE DEF ShowcaseInv
<1>0. Pinned \in SUBSET Works /\ IsFiniteSet(Pinned) /\ Cardinality(Pinned) \in Nat /\ MaxPins \in Nat
  <2>1. Pinned \in SUBSET Works
    BY DEF Pinned
  <2>. QED  BY <2>1, ShowcaseAssumption, FS_Subset, FS_CardinalityType
<1>1. ASSUME NEW w \in Works, SubmitWork(w) \/ RejectWork(w) PROVE ShowcaseInv'
  <2>1. PICK to \in {"submitted", "rejected"} : piece' = [piece EXCEPT ![w].work = to]
    BY <1>1 DEF SubmitWork, RejectWork, SetWork
  <2>2. UNCHANGED <<visit, met, badge, week, code, friend, host>>
    BY <1>1 DEF SubmitWork, RejectWork, SetWork, OnlyPieces
  <2>. DEFINE p == [piece[w] EXCEPT !.work = to]
  <2>0. p \in PieceRow /\ p.pin = piece[w].pin /\ piece' = [piece EXCEPT ![w] = p]
    BY <2>1 DEF ShowcaseShape, PieceRow
  <2>. HIDE DEF p
  <2>4. piece' \in [Works -> PieceRow] /\ Pinned' = Pinned
    BY <2>0, OnePiece DEF Pinned
  <2>3. ShowcaseShape'
    BY <2>2, <2>4 DEF ShowcaseShape
  <2>5. PinsKept'
    BY <2>2, <2>4 DEF PinsKept
  <2>6. Later /\ SameVisits("award") /\ SameVisits("first")
    BY <2>2 DEF Later, SameVisits, ShowcaseShape
  <2>. QED  BY <2>2, <2>3, <2>5, <2>6, ShowcaseStays
<1>2. ASSUME NEW w \in Works, DeletePin(w) PROVE ShowcaseInv'
  <2>1. /\ w \in Pinned /\ piece' = [piece EXCEPT ![w].pin = "gone"]
        /\ UNCHANGED <<visit, met, badge, week, code, friend, host>>
    BY <1>2 DEF DeletePin, OnlyPieces
  <2>. DEFINE p == [piece[w] EXCEPT !.pin = "gone"]
  <2>0. p \in PieceRow /\ p.pin = "gone" /\ piece' = [piece EXCEPT ![w] = p]
    BY <2>1 DEF ShowcaseShape, PieceRow
  <2>. HIDE DEF p
  <2>3. piece' \in [Works -> PieceRow] /\ Pinned' = Pinned \ {w}
    BY <2>0, OnePiece
  <2>2. ShowcaseShape'
    BY <2>1, <2>3 DEF ShowcaseShape
  <2>4. PinsKept'
    <3>1. Cardinality(Pinned') = Cardinality(Pinned) - 1
      BY <1>0, <2>1, <2>3, FS_RemoveElement
    <3>. QED  BY <1>0, <2>1, <3>1 DEF PinsKept, ShowcaseShape
  <2>5. Later /\ SameVisits("award") /\ SameVisits("first")
    BY <2>1 DEF Later, SameVisits, ShowcaseShape
  <2>. QED  BY <2>1, <2>2, <2>4, <2>5, ShowcaseStays
<1>3. ASSUME NEW w \in Works, NEW v \in Visits, FindPins(v, w) \/ CheckWork(v, w) PROVE ShowcaseInv'
  <2>1. PICK r \in VisitRows : Arrive(v, r) /\ r.does \in {"pin", "endorse"}
    <3>1. [does |-> "pin", work |-> w, seen |-> Pinned] \in VisitRows /\ [does |-> "endorse", work |-> w] \in VisitRows
      BY <1>0 DEF VisitRows, PinVisit, EndorseVisit
    <3>. QED  BY <1>3, <3>1 DEF FindPins, CheckWork
  <2>2. UNCHANGED <<piece, met, badge, week, code, friend, host>>
    BY <1>3 DEF FindPins, CheckWork, OnlyPieces
  <2>3. visit' \in [Visits -> {NoVisit} \cup VisitRows] /\ SameVisits("award") /\ SameVisits("first")
    BY <2>1, VisitArrives
  <2>4. ShowcaseShape' /\ Later
    BY <2>2, <2>3 DEF ShowcaseShape, Later
  <2>. QED  BY <2>2, <2>3, <2>4, ShowcaseStays
<1>4. ASSUME NEW v \in Visits, PinTask(v) PROVE ShowcaseInv'
  <2>. DEFINE w == visit[v].work
              seen == visit[v].seen \cap Pinned
  <2>1. /\ Does(v, "pin") /\ Leave(v) /\ UNCHANGED <<badge, week, code, friend, host>>
        /\ \/ UNCHANGED <<piece, met>>
           \/ /\ w \notin Pinned /\ ~Full(seen) /\ piece' = [piece EXCEPT ![w].pin = "there"]
              /\ Meeting(seen # Pinned)
    BY <1>4 DEF PinTask, OnlyPieces
  <2>2. visit[v] \in PinVisit
    BY <2>1 DEF ShowcaseShape, Does, NoVisit, VisitRows, EndorseVisit, AwardVisit, WeekVisit, CodeVisit, FirstVisit
  <2>3. w \in Works
    BY <2>2 DEF PinVisit
  <2>4. Later /\ met' \in Nat
    BY <2>1 DEF Meeting, Later, ShowcaseShape
  <2>5. visit' \in [Visits -> {NoVisit} \cup VisitRows] /\ SameVisits("award") /\ SameVisits("first")
    BY <2>1, VisitLeaves
  <2>. DEFINE p == [piece[w] EXCEPT !.pin = "there"]
  <2>0. p \in PieceRow /\ p.pin = "there" /\ (~UNCHANGED piece => piece' = [piece EXCEPT ![w] = p])
    BY <2>1, <2>3 DEF ShowcaseShape, PieceRow
  <2>. HIDE DEF p
  <2>6. piece' \in [Works -> PieceRow] /\ (~UNCHANGED piece => Pinned' = Pinned \cup {w})
    BY <2>3, <2>0, OnePiece DEF ShowcaseShape
  <2>7. ShowcaseShape'
    BY <2>1, <2>4, <2>5, <2>6 DEF ShowcaseShape
  <2>8. CASE UNCHANGED piece
    BY <2>1, <2>4, <2>5, <2>7, <2>8, ShowcaseStays
  <2>9. CASE ~UNCHANGED piece
    <3>1. Pinned' = Pinned \cup {w} /\ w \notin Pinned
      BY <2>1, <2>6, <2>9
    <3>2. Cardinality(Pinned') = Cardinality(Pinned) + 1
      BY <1>0, <3>1, FS_AddElement
    <3>3. CASE seen = Pinned
      <4>1. Cardinality(Pinned) < MaxPins
        BY <1>0, <2>1, <2>9, <3>3 DEF Full
      <4>. QED  BY <1>0, <2>1, <2>4, <2>5, <2>7, <3>2, <4>1, ShowcaseStays DEF PinsKept
    <3>4. CASE seen # Pinned
      <4>1. met' = met + 1 /\ met \in Nat
        BY <2>1, <2>9, <3>4 DEF Meeting, ShowcaseShape
      <4>2. PinsKept'
        BY <1>0, <3>2, <4>1 DEF PinsKept
      <4>. QED  BY <2>1, <2>4, <2>5, <2>7, <4>2, ShowcaseStays
    <3>. QED  BY <3>3, <3>4
  <2>. QED  BY <2>8, <2>9
<1>5. ASSUME NEW v \in Visits, Endorse(v) PROVE ShowcaseInv'
  <2>. DEFINE w == visit[v].work
  <2>1. /\ Does(v, "endorse") /\ Leave(v) /\ UNCHANGED <<badge, week, code, friend, host>>
        /\ \/ UNCHANGED <<piece, met>>
           \/ piece' = [piece EXCEPT ![w].endorsed = TRUE] /\ Meeting(piece[w].work # "submitted")
    BY <1>5 DEF Endorse, OnlyPieces
  <2>2. visit[v] \in EndorseVisit
    BY <2>1 DEF ShowcaseShape, Does, NoVisit, VisitRows, PinVisit, AwardVisit, WeekVisit, CodeVisit, FirstVisit
  <2>3. w \in Works
    BY <2>2 DEF EndorseVisit
  <2>4. Later /\ met' \in Nat
    BY <2>1 DEF Meeting, Later, ShowcaseShape
  <2>5. visit' \in [Visits -> {NoVisit} \cup VisitRows] /\ SameVisits("award") /\ SameVisits("first")
    BY <2>1, VisitLeaves
  <2>. DEFINE p == [piece[w] EXCEPT !.endorsed = TRUE]
  <2>0. p \in PieceRow /\ p.pin = piece[w].pin /\ (UNCHANGED piece \/ piece' = [piece EXCEPT ![w] = p])
    <3>1. UNCHANGED piece \/ piece' = [piece EXCEPT ![w] = p]
      BY <2>1, Zenon
    <3>2. piece[w] \in PieceRow
      BY <2>3 DEF ShowcaseShape
    <3>. QED  BY <3>1, <3>2 DEF PieceRow
  <2>. HIDE DEF p
  <2>6. piece' \in [Works -> PieceRow] /\ Pinned' = Pinned
    BY <2>3, <2>0, OnePiece DEF Pinned, ShowcaseShape
  <2>7. ShowcaseShape'
    BY <2>1, <2>4, <2>5, <2>6 DEF ShowcaseShape
  <2>8. PinsKept'
    BY <1>0, <2>4, <2>6 DEF PinsKept, Later, ShowcaseShape
  <2>. QED  BY <2>1, <2>4, <2>5, <2>7, <2>8, ShowcaseStays
<1>. QED  BY <1>1, <1>2, <1>3, <1>4, <1>5, VisitDiesKept DEF PieceNext

LEMMA BadgeInvNext ==
  ASSUME ShowcaseInv, BadgeNext
  PROVE  ShowcaseInv'
<1>. USE DEF ShowcaseInv
<1>1. ASSUME NEW b \in Badges, Reach(b) PROVE ShowcaseInv'
  <2>1. badge' = [badge EXCEPT ![b].reached = TRUE] /\ UNCHANGED <<visit, met, piece, week, code, friend, host>>
    BY <1>1 DEF Reach, OnlyBadges
  <2>3. \A c \in Badges : /\ badge'[c] \in BadgeRow
                          /\ badge'[c].row = badge[c].row /\ badge'[c].notices = badge[c].notices
                          /\ badge[c].reached => badge'[c].reached
    <3>1. badge[b] \in BadgeRow
      BY DEF ShowcaseShape
    <3>2. \A c \in Badges : badge'[c] = IF c = b THEN [badge[b] EXCEPT !.reached = TRUE] ELSE badge[c]
      BY <2>1 DEF ShowcaseShape
    <3>. DEFINE r == [badge[b] EXCEPT !.reached = TRUE]
    <3>3. r \in BadgeRow /\ r.row = badge[b].row /\ r.notices = badge[b].notices /\ r.reached
      BY <3>1 DEF BadgeRow
    <3>. HIDE DEF r
    <3>4. \A c \in Badges : badge'[c] = IF c = b THEN r ELSE badge[c]
      BY <3>2 DEF r
    <3>. QED  BY <3>3, <3>4 DEF ShowcaseShape
  <2>2. ShowcaseShape' /\ Later /\ SameVisits("first")
    <3>1. badge' \in [Badges -> BadgeRow]
      BY <2>1, <2>3 DEF ShowcaseShape
    <3>. QED  BY <2>1, <3>1 DEF ShowcaseShape, Later, SameVisits
  <2>4. \A v \in Visits : Does(v, "award") => visit[v].due \in SUBSET Badges
    BY AwardTyped
  <2>5. BadgesKept'
    BY <2>1, <2>3, <2>4 DEF BadgesKept, Does
  <2>. QED  BY <2>1, <2>2, <2>5, ShowcaseStays
<1>2. ASSUME NEW v \in Visits, ReadBadges(v) PROVE ShowcaseInv'
  <2>. DEFINE r == [does |-> "award", due |-> {b \in Badges : badge[b].reached}, seen |-> Earned]
  <2>1. r \in VisitRows /\ r.does = "award" /\ \A b \in r.due : badge[b].reached
    BY DEF VisitRows, AwardVisit, Earned
  <2>2. Arrive(v, r) /\ UNCHANGED <<badge, met, piece, week, code, friend, host>>
    BY <1>2 DEF ReadBadges, OnlyBadges
  <2>. HIDE DEF r
  <2>3. /\ visit' \in [Visits -> {NoVisit} \cup VisitRows] /\ SameVisits("first")
        /\ visit'[v] = r /\ \A w \in Visits : w # v => visit'[w] = visit[w]
    BY <2>1, <2>2, VisitArrives
  <2>4. ShowcaseShape' /\ Later
    BY <2>2, <2>3 DEF ShowcaseShape, Later
  <2>5. BadgesKept'
    BY <2>1, <2>2, <2>3 DEF BadgesKept, Does
  <2>. QED  BY <2>2, <2>3, <2>4, <2>5, ShowcaseStays
<1>3. ASSUME NEW v \in Visits, AwardBadges(v) PROVE ShowcaseInv'
  <2>. DEFINE new == visit[v].due \ visit[v].seen
  <2>1. /\ Does(v, "award") /\ Leave(v) /\ UNCHANGED <<piece, week, code, friend, host>>
        /\ \/ badge' = badge /\ Meeting(~(new \subseteq Earned))
           \/ /\ new \cap Earned = {} /\ met' = met
              /\ badge' = [b \in Badges |-> IF b \in new THEN [badge[b] EXCEPT !.row = TRUE, !.notices = @ + 1]
                                            ELSE badge[b]]
    BY <1>3 DEF AwardBadges, OnlyBadges
  <2>2. new \in SUBSET Badges /\ \A b \in new : badge[b].reached
    BY <2>1, AwardTyped DEF BadgesKept
  <2>3. Later /\ met' \in Nat
    <3>1. met' = met \/ met' = met + 1
      BY <2>1, Zenon DEF Meeting
    <3>. QED  BY <3>1 DEF Later, ShowcaseShape
  <2>4. visit' \in [Visits -> {NoVisit} \cup VisitRows] /\ SameVisits("award") /\ SameVisits("first")
    BY <2>1, VisitLeaves
  <2>5. CASE badge' = badge
    <3>1. ShowcaseShape'
      BY <2>1, <2>3, <2>4, <2>5 DEF ShowcaseShape
    <3>. QED  BY <2>1, <2>3, <2>4, <2>5, <3>1, ShowcaseStays
  <2>6. CASE badge' # badge
    <3>1. ASSUME NEW b \in Badges
          PROVE  /\ badge'[b] \in BadgeRow
                 /\ badge'[b].reached = badge[b].reached
                 /\ badge'[b].notices = IF badge'[b].row THEN 1 ELSE 0
                 /\ badge'[b].row => badge'[b].reached
      <4>1. badge[b] \in BadgeRow
        BY DEF ShowcaseShape
      <4>2. CASE b \in new
        <5>1. badge'[b] = [badge[b] EXCEPT !.row = TRUE, !.notices = @ + 1] /\ ~badge[b].row
          BY <2>1, <2>6, <4>2 DEF Earned
        <5>2. badge[b].notices = 0
          BY <5>1 DEF BadgesKept
        <5>3. badge'[b] \in BadgeRow /\ badge'[b].reached = badge[b].reached /\ badge'[b].row /\ badge'[b].notices = 1
          <6>. DEFINE r == [badge[b] EXCEPT !.row = TRUE, !.notices = @ + 1]
          <6>0. badge[b].notices + 1 \in Nat
            BY <5>2
          <6>1. r \in BadgeRow
            BY <4>1, <6>0, Zenon DEF BadgeRow
          <6>2. r.reached = badge[b].reached /\ r.row /\ r.notices = badge[b].notices + 1
            BY <4>1 DEF BadgeRow
          <6>. QED  BY <5>1, <5>2, <6>1, <6>2
        <5>. QED  BY <2>2, <4>2, <5>3
      <4>3. CASE b \notin new
        <5>1. badge'[b] = badge[b]
          BY <2>1, <2>6, <4>3
        <5>. QED  BY <4>1, <5>1 DEF BadgesKept
      <4>. QED  BY <4>2, <4>3
    <3>2. badge' \in [Badges -> BadgeRow]
      BY <2>1, <2>6, <3>1
    <3>3. ShowcaseShape'
      BY <2>1, <2>3, <2>4, <3>2 DEF ShowcaseShape
    <3>4. BadgesKept'
      <4>1. \A w \in Visits : Does(w, "award")' => Does(w, "award") /\ visit'[w] = visit[w]
        BY <2>4 DEF SameVisits, Does
      <4>2. \A w \in Visits : Does(w, "award") => visit[w].due \in SUBSET Badges
        BY AwardTyped
      <4>. QED  BY <3>1, <4>1, <4>2 DEF BadgesKept
    <3>. QED  BY <2>1, <2>3, <2>4, <3>3, <3>4, ShowcaseStays
  <2>. QED  BY <2>5, <2>6
<1>. QED  BY <1>1, <1>2, <1>3, VisitDiesKept DEF BadgeNext

LEMMA WeekInvNext ==
  ASSUME ShowcaseInv, WeekNext
  PROVE  ShowcaseInv'
<1>. USE DEF ShowcaseInv
<1>1. ASSUME NEW h \in Hours, Blackout(h) PROVE ShowcaseInv'
  <2>. DEFINE o == IF h \in week.out THEN week.out \ {h} ELSE week.out \cup {h}
  <2>1. week' = [week EXCEPT !.out = o] /\ UNCHANGED <<visit, met, piece, badge, code, friend, host>>
    BY <1>1 DEF Blackout, OnlyWeek
  <2>2. o \in SUBSET Hours
    BY DEF ShowcaseShape
  <2>. HIDE DEF o
  <2>3. /\ week' \in [rows : [Hours -> Nat], edition : Nat, wanted : SUBSET Hours, out : SUBSET Hours]
        /\ week'.rows = week.rows /\ week'.wanted = week.wanted
    BY <2>1, <2>2 DEF ShowcaseShape
  <2>4. ShowcaseShape' /\ Later /\ SameVisits("award") /\ SameVisits("first")
    BY <2>1, <2>3 DEF ShowcaseShape, Later, SameVisits
  <2>5. WeekKept'
    BY <2>1, <2>3 DEF WeekKept
  <2>. QED  BY <2>1, <2>4, <2>5, ShowcaseStays
<1>2. ASSUME NEW v \in Visits, NEW wanted \in SUBSET Hours, ClearWeek(v, wanted) PROVE ShowcaseInv'
  <2>. DEFINE r == [does |-> "week", wanted |-> wanted, seen |-> week.rows]
  <2>1. r \in VisitRows /\ r.does = "week"
    BY DEF VisitRows, WeekVisit, ShowcaseShape
  <2>2. Arrive(v, r) /\ UNCHANGED <<week, met, piece, badge, code, friend, host>>
    BY <1>2 DEF ClearWeek, OnlyWeek
  <2>. HIDE DEF r
  <2>3. visit' \in [Visits -> {NoVisit} \cup VisitRows] /\ SameVisits("award") /\ SameVisits("first")
    BY <2>1, <2>2, VisitArrives
  <2>4. ShowcaseShape' /\ Later
    BY <2>2, <2>3 DEF ShowcaseShape, Later
  <2>. QED  BY <2>2, <2>3, <2>4, ShowcaseStays
<1>3. ASSUME NEW v \in Visits, SetAvailability(v) PROVE ShowcaseInv'
  <2>. DEFINE wanted == visit[v].wanted
              kept == {h \in Hours : week.rows[h] # 0 /\ week.rows[h] # visit[v].seen[h]}
              rows == [h \in Hours |-> IF h \in wanted THEN week.edition + 1
                                      ELSE IF h \in kept THEN week.rows[h] ELSE 0]
  <2>1. /\ Does(v, "week") /\ Leave(v) /\ UNCHANGED <<piece, badge, code, friend, host>>
        /\ \/ UNCHANGED <<week, met>>
           \/ /\ Meeting(kept # {})
              /\ week' = [week EXCEPT !.edition = @ + 1, !.wanted = wanted, !.rows = rows]
    BY <1>3 DEF SetAvailability, OnlyWeek
  <2>2. wanted \in SUBSET Hours
    BY <2>1 DEF ShowcaseShape, Does, NoVisit, VisitRows, PinVisit, EndorseVisit, AwardVisit, WeekVisit, CodeVisit,
       FirstVisit
  <2>3. visit' \in [Visits -> {NoVisit} \cup VisitRows] /\ SameVisits("award") /\ SameVisits("first")
    BY <2>1, VisitLeaves
  <2>4. CASE UNCHANGED <<week, met>>
    <3>1. ShowcaseShape' /\ Later
      BY <2>1, <2>3, <2>4 DEF ShowcaseShape, Later
    <3>. QED  BY <2>1, <2>3, <2>4, <3>1, ShowcaseStays
  <2>5. CASE ~UNCHANGED <<week, met>>
    <3>1. Meeting(kept # {}) /\ week' = [week EXCEPT !.edition = @ + 1, !.wanted = wanted, !.rows = rows]
      BY <2>1, <2>5
    <3>2. week.edition + 1 \in Nat \ {0} /\ rows \in [Hours -> Nat]
      BY DEF ShowcaseShape
    <3>3. /\ week' \in [rows : [Hours -> Nat], edition : Nat, wanted : SUBSET Hours, out : SUBSET Hours]
          /\ week'.rows = rows /\ week'.wanted = wanted
      <4>. HIDE DEF rows, wanted
      <4>. QED  BY <2>2, <3>1, <3>2 DEF ShowcaseShape
    <3>4. met' = (IF kept # {} THEN met + 1 ELSE met) /\ met \in Nat
      BY <3>1 DEF Meeting, ShowcaseShape
    <3>5. met' \in Nat /\ met' >= met /\ (met' = 0 => kept = {})
      BY <3>4
    <3>6. ShowcaseShape' /\ Later
      BY <2>1, <2>3, <3>3, <3>5 DEF ShowcaseShape, Later
    <3>7. WeekKept'
      <4>. SUFFICES ASSUME met' = 0 PROVE {h \in Hours : rows[h] # 0} = wanted
        BY <3>3 DEF WeekKept
      <4>1. \A h \in Hours : rows[h] = IF h \in wanted THEN week.edition + 1 ELSE 0
        BY <3>5
      <4>. HIDE DEF rows, wanted
      <4>. QED  BY <2>2, <3>2, <4>1
    <3>. QED  BY <2>1, <2>3, <3>6, <3>7, ShowcaseStays
  <2>. QED  BY <2>4, <2>5
<1>. QED  BY <1>1, <1>2, <1>3, VisitDiesKept DEF WeekNext

(* A friend who comes to another stand is one more there and one less where *)
(* they were.                                                               *)
LEMMA FriendsCounted ==
  ASSUME NEW what
  PROVE  Came(what) \in SUBSET Friends /\ IsFiniteSet(Came(what)) /\ Cardinality(Came(what)) \in Nat
<1>1. Came(what) \in SUBSET Friends
  BY DEF Came
<1>. QED  BY <1>1, ShowcaseAssumption, FS_Subset, FS_CardinalityType

LEMMA FriendMoves ==
  ASSUME ShowcaseShape, NEW f \in Friends, NEW to \in {"referred", "ignored", "paid"}, friend[f] # to,
         friend' = [friend EXCEPT ![f] = to]
  PROVE  /\ friend' \in [Friends -> {"unknown", "referred", "ignored", "paid"}]
         /\ Cardinality(Came("referred")') = Cardinality(Came("referred")) + (IF to = "referred" THEN 1 ELSE 0)
                                              - (IF friend[f] = "referred" THEN 1 ELSE 0)
         /\ Cardinality(Came("paid")') = Cardinality(Came("paid")) + (IF to = "paid" THEN 1 ELSE 0)
                                          - (IF friend[f] = "paid" THEN 1 ELSE 0)
<1>1. friend' \in [Friends -> {"unknown", "referred", "ignored", "paid"}]
  BY DEF ShowcaseShape
<1>. SUFFICES ASSUME NEW what \in {"referred", "paid"}
              PROVE  Cardinality(Came(what)') = Cardinality(Came(what)) + (IF to = what THEN 1 ELSE 0)
                                           - (IF friend[f] = what THEN 1 ELSE 0)
  BY <1>1
<1>2. CASE to = what
  <2>1. Came(what)' = Came(what) \cup {f} /\ f \notin Came(what)
    BY <1>2 DEF Came, ShowcaseShape
  <2>. QED  BY <1>2, <2>1, FriendsCounted, FS_AddElement
<1>3. CASE to # what /\ friend[f] = what
  <2>1. Came(what)' = Came(what) \ {f} /\ f \in Came(what)
    BY <1>3 DEF Came, ShowcaseShape
  <2>2. Cardinality(Came(what)') = Cardinality(Came(what)) - 1
    BY <2>1, FriendsCounted, FS_RemoveElement
  <2>. QED  BY <1>3, <2>2, FriendsCounted
<1>4. CASE to # what /\ friend[f] # what
  <2>1. Came(what)' = Came(what)
    BY <1>4 DEF Came, ShowcaseShape
  <2>. QED  BY <1>4, <2>1, FriendsCounted
<1>. QED  BY <1>2, <1>3, <1>4

LEMMA FirstTyped ==
  ASSUME ShowcaseShape, NEW v \in Visits, Does(v, "first")
  PROVE  visit[v] \in FirstVisit
BY DEF ShowcaseShape, Does, NoVisit, VisitRows, PinVisit, EndorseVisit, AwardVisit, WeekVisit, CodeVisit,
       FirstVisit

LEMMA HostInvNext ==
  ASSUME ShowcaseInv, HostNext
  PROVE  ShowcaseInv'
<1>. USE DEF ShowcaseInv
<1>1. ASSUME NEW v \in Visits, FindNoCode(v) PROVE ShowcaseInv'
  <2>. DEFINE r == [does |-> "code"]
  <2>1. r \in VisitRows /\ r.does = "code"
    BY DEF VisitRows, CodeVisit
  <2>2. Arrive(v, r) /\ UNCHANGED <<week, met, piece, badge, code, friend, host>>
    BY <1>1 DEF FindNoCode, OnlyHost
  <2>. HIDE DEF r
  <2>3. visit' \in [Visits -> {NoVisit} \cup VisitRows] /\ SameVisits("award") /\ SameVisits("first")
    BY <2>1, <2>2, VisitArrives
  <2>4. ShowcaseShape' /\ Later
    BY <2>2, <2>3 DEF ShowcaseShape, Later
  <2>. QED  BY <2>2, <2>3, <2>4, ShowcaseStays
<1>2. ASSUME NEW v \in Visits, MakeCode(v) PROVE ShowcaseInv'
  <2>. DEFINE new == Cardinality(code.shown) + 1
  <2>1. /\ Leave(v) /\ code' = [now |-> new, shown |-> code.shown \cup {new}]
        /\ Meeting(code.now # 0) /\ UNCHANGED <<piece, badge, week, friend, host>>
    BY <1>2 DEF MakeCode, OnlyHost
  <2>2. new \in Nat \ {0}
    BY FS_CardinalityType DEF ShowcaseShape
  <2>. HIDE DEF new
  <2>3. /\ code' \in [now : Nat, shown : SUBSET (Nat \ {0})] /\ IsFiniteSet(code'.shown)
    BY <2>1, <2>2, FS_AddElement DEF ShowcaseShape
  <2>4. met' = (IF code.now # 0 THEN met + 1 ELSE met) /\ met \in Nat
    BY <2>1 DEF Meeting, ShowcaseShape
  <2>5. met' \in Nat /\ met' >= met /\ (met' = 0 => met = 0 /\ code.now = 0)
    BY <2>4
  <2>6. visit' \in [Visits -> {NoVisit} \cup VisitRows] /\ SameVisits("award") /\ SameVisits("first")
    BY <2>1, VisitLeaves
  <2>7. ShowcaseShape' /\ Later
    BY <2>1, <2>3, <2>5, <2>6 DEF ShowcaseShape, Later
  <2>8. HostKept'
    <3>1. /\ \A w \in Visits : Does(w, "first")' => friend'[visit'[w].friend] = "referred"
          /\ \A w, z \in Visits : Does(w, "first")' /\ Does(z, "first")' /\ visit'[w].friend = visit'[z].friend => w = z
      BY <2>1, <2>6 DEF HostKept, SameVisits, Does
    <3>2. code'.now # 0 /\ (met' = 0 => \A c \in code'.shown : c = code'.now)
      BY <2>1, <2>2, <2>5 DEF HostKept
    <3>3. Came("referred")' = Came("referred") /\ Came("paid")' = Came("paid")
      BY <2>1 DEF Came
    <3>. QED  BY <2>1, <2>5, <3>1, <3>2, <3>3 DEF HostKept
  <2>. QED  BY <2>1, <2>6, <2>7, <2>8, ShowcaseStays
<1>3. ASSUME NEW f \in Friends, NEW c \in 1..MaxCodes, SignUp(f, c) PROVE ShowcaseInv'
  <2>1. PICK to \in {"referred", "ignored"} :
          /\ friend[f] = "unknown" /\ friend' = [friend EXCEPT ![f] = to]
          /\ host' = IF to = "referred" THEN [host EXCEPT !.pending = @ + 1] ELSE host
    BY <1>3 DEF SignUp
  <2>2. UNCHANGED <<code, visit, met, piece, badge, week>>
    BY <1>3 DEF SignUp, OnlyHost
  <2>3. /\ host' \in HostRow /\ host'.credits = host.credits /\ host'.spent = host.spent
        /\ host'.pending = host.pending + (IF to = "referred" THEN 1 ELSE 0)
    <3>1. host \in HostRow
      BY DEF ShowcaseShape
    <3>2. CASE to = "referred"
      BY <2>1, <3>1, <3>2 DEF HostRow
    <3>3. CASE to = "ignored"
      BY <2>1, <3>1, <3>3 DEF HostRow
    <3>. QED  BY <3>2, <3>3
  <2>4. friend' \in [Friends -> {"unknown", "referred", "ignored", "paid"}]
        /\ Cardinality(Came("referred")') = Cardinality(Came("referred")) + (IF to = "referred" THEN 1 ELSE 0)
        /\ Cardinality(Came("paid")') = Cardinality(Came("paid"))
    <3>1. Cardinality(Came("referred")) \in Nat /\ Cardinality(Came("paid")) \in Nat
      BY FriendsCounted
    <3>2. ShowcaseShape /\ to \in {"referred", "ignored", "paid"} /\ friend[f] # to
      BY <2>1
    <3>3. /\ friend' \in [Friends -> {"unknown", "referred", "ignored", "paid"}]
          /\ Cardinality(Came("referred")') = Cardinality(Came("referred")) + (IF to = "referred" THEN 1 ELSE 0)
                                               - (IF friend[f] = "referred" THEN 1 ELSE 0)
          /\ Cardinality(Came("paid")') = Cardinality(Came("paid")) + (IF to = "paid" THEN 1 ELSE 0)
                                           - (IF friend[f] = "paid" THEN 1 ELSE 0)
      BY <2>1, <3>2, FriendMoves, Zenon
    <3>. QED  BY <2>1, <3>1, <3>3
  <2>5. ShowcaseShape' /\ Later /\ SameVisits("award") /\ SameVisits("first")
    BY <2>2, <2>3, <2>4 DEF ShowcaseShape, Later, SameVisits
  <2>6. HostKept'
    <3>1. \A w \in Visits : Does(w, "first") => friend'[visit[w].friend] = "referred"
      BY <2>1, FirstTyped DEF HostKept, ShowcaseShape, FirstVisit
    <3>. QED  BY <2>2, <2>3, <2>4, <3>1 DEF HostKept, Does
  <2>. QED  BY <2>2, <2>5, <2>6, ShowcaseStays
<1>4. ASSUME NEW v \in Visits, NEW f \in Friends, LoadHost(v, f) PROVE ShowcaseInv'
  <2>. DEFINE r == [does |-> "first", friend |-> f, seen |-> host]
  <2>1. r \in VisitRows /\ r.does = "first" /\ r.friend = f
    BY DEF VisitRows, FirstVisit, ShowcaseShape
  <2>2. /\ friend[f] = "referred" /\ \A w \in Visits : ~(Does(w, "first") /\ visit[w].friend = f)
        /\ Arrive(v, r) /\ UNCHANGED <<week, met, piece, badge, code, friend, host>>
    BY <1>4 DEF LoadHost, OnlyHost
  <2>. HIDE DEF r
  <2>3. /\ visit' \in [Visits -> {NoVisit} \cup VisitRows] /\ SameVisits("award")
        /\ visit'[v] = r /\ \A w \in Visits : w # v => visit'[w] = visit[w]
    BY <2>1, <2>2, VisitArrives
  <2>4. ShowcaseShape' /\ Later
    BY <2>2, <2>3 DEF ShowcaseShape, Later
  <2>5. /\ \A w \in Visits : Does(w, "first")' => friend'[visit'[w].friend] = "referred"
        /\ \A w, z \in Visits : Does(w, "first")' /\ Does(z, "first")' /\ visit'[w].friend = visit'[z].friend => w = z
    BY <2>1, <2>2, <2>3 DEF HostKept, Does
  <2>6. Came("referred")' = Came("referred") /\ Came("paid")' = Came("paid")
    BY <2>2 DEF Came
  <2>7. HostKept'
    BY <2>2, <2>5, <2>6 DEF HostKept
  <2>. QED  BY <2>2, <2>3, <2>4, <2>7, ShowcaseStays
<1>5. ASSUME NEW v \in Visits, NEW fresh \in BOOLEAN, PayReferral(v, fresh) PROVE ShowcaseInv'
  <2>. DEFINE f == visit[v].friend
              copy == IF fresh THEN host ELSE visit[v].seen
              left == IF copy.pending > 1 THEN copy.pending - 1 ELSE 0
  <2>1. /\ Does(v, "first") /\ Leave(v)
        /\ host' = [host EXCEPT !.credits = copy.credits + 1, !.pending = left]
        /\ Meeting(copy # host) /\ friend' = [friend EXCEPT ![f] = "paid"]
        /\ UNCHANGED <<code, piece, badge, week>>
    BY <1>5 DEF PayReferral, OnlyHost
  <2>2. f \in Friends /\ copy \in HostRow /\ friend[f] = "referred"
    BY <2>1, FirstTyped DEF HostKept, ShowcaseShape, FirstVisit
  <2>3. left \in Nat /\ copy.credits + 1 \in Int
    BY <2>2 DEF HostRow
  <2>4. /\ host' \in HostRow /\ host'.credits = copy.credits + 1 /\ host'.pending = left
        /\ host'.spent = host.spent
    <3>. HIDE DEF copy, left
    <3>1. host \in HostRow
      BY DEF ShowcaseShape
    <3>. QED  BY <2>1, <2>3, <3>1 DEF HostRow
  <2>5. met' = (IF copy # host THEN met + 1 ELSE met) /\ met \in Nat
    BY <2>1 DEF Meeting, ShowcaseShape
  <2>6. met' \in Nat /\ met' >= met /\ (met' = 0 => met = 0 /\ copy = host)
    BY <2>5
  <2>7. /\ friend' \in [Friends -> {"unknown", "referred", "ignored", "paid"}]
        /\ Cardinality(Came("referred")') = Cardinality(Came("referred")) - 1
        /\ Cardinality(Came("paid")') = Cardinality(Came("paid")) + 1
    <3>1. Cardinality(Came("referred")) \in Nat /\ Cardinality(Came("paid")) \in Nat
      BY FriendsCounted
    <3>2. ShowcaseShape /\ friend[f] # "paid" /\ "paid" \in {"referred", "ignored", "paid"}
      BY <2>2
    <3>3. /\ friend' \in [Friends -> {"unknown", "referred", "ignored", "paid"}]
          /\ Cardinality(Came("referred")') = Cardinality(Came("referred")) + (IF "paid" = "referred" THEN 1 ELSE 0)
                                               - (IF friend[f] = "referred" THEN 1 ELSE 0)
          /\ Cardinality(Came("paid")') = Cardinality(Came("paid")) + (IF "paid" = "paid" THEN 1 ELSE 0)
                                           - (IF friend[f] = "paid" THEN 1 ELSE 0)
      BY <2>1, <2>2, <3>2, FriendMoves, Zenon
    <3>. QED  BY <2>2, <3>1, <3>3
  <2>8. visit' \in [Visits -> {NoVisit} \cup VisitRows] /\ SameVisits("award") /\ SameVisits("first")
        /\ ~Does(v, "first")'
    BY <2>1, VisitLeaves
  <2>9. ShowcaseShape' /\ Later
    BY <2>1, <2>4, <2>6, <2>7, <2>8 DEF ShowcaseShape, Later
  <2>10. \A w \in Visits : Does(w, "first")' => /\ w # v /\ Does(w, "first") /\ visit'[w] = visit[w]
                                               /\ visit[w].friend # f /\ visit[w].friend \in Friends
    <3>. SUFFICES ASSUME NEW w \in Visits, Does(w, "first")'
                  PROVE  /\ w # v /\ Does(w, "first") /\ visit'[w] = visit[w]
                         /\ visit[w].friend # f /\ visit[w].friend \in Friends
      OBVIOUS
    <3>1. w # v /\ visit'[w] = visit[w] /\ Does(w, "first")
      BY <2>8 DEF SameVisits, Does
    <3>. QED  BY <2>1, <3>1, FirstTyped DEF HostKept, FirstVisit
  <2>11. /\ \A w \in Visits : Does(w, "first")' => friend'[visit'[w].friend] = "referred"
         /\ \A w, z \in Visits : Does(w, "first")' /\ Does(z, "first")' /\ visit'[w].friend = visit'[z].friend => w = z
    BY <2>1, <2>2, <2>10 DEF HostKept, ShowcaseShape
  <2>12. ASSUME met' = 0
         PROVE  /\ \A c \in code'.shown : c = code'.now
                /\ host'.pending = Cardinality(Came("referred")')
                /\ host'.credits + host'.spent = MaxSpent + Cardinality(Came("paid")')
    <3>1. /\ copy = host /\ \A c \in code.shown : c = code.now
          /\ host.pending = Cardinality(Came("referred"))
          /\ host.credits + host.spent = MaxSpent + Cardinality(Came("paid"))
      BY <2>6, <2>12 DEF HostKept
    <3>2. f \in Came("referred")
      BY <2>2 DEF Came
    <3>3. Cardinality(Came("referred")) # 0
      BY <3>2, FriendsCounted, FS_EmptySet
    <3>4. host.pending \in Nat \ {0} /\ host.credits \in Int /\ host.spent \in Nat /\ MaxSpent \in Nat
          /\ Cardinality(Came("paid")) \in Nat
      BY <3>1, <3>3, FriendsCounted, ShowcaseAssumption DEF ShowcaseShape, HostRow
    <3>5. left = host.pending - 1
      BY <3>1, <3>4
    <3>. HIDE DEF left, copy
    <3>. QED  BY <2>1, <2>4, <2>7, <3>1, <3>4, <3>5
  <2>13. HostKept'
    BY <2>1, <2>11, <2>12 DEF HostKept
  <2>. QED  BY <2>1, <2>8, <2>9, <2>13, ShowcaseStays
<1>6. CASE Spend
  <2>1. /\ host' = [host EXCEPT !.credits = @ - 1, !.spent = @ + 1]
        /\ UNCHANGED <<code, friend, visit, met, piece, badge, week>>
    BY <1>6 DEF Spend, OnlyHost
  <2>2. /\ host' \in HostRow /\ host'.pending = host.pending /\ host'.credits + host'.spent = host.credits + host.spent
    <3>1. host \in HostRow /\ host.credits - 1 \in Int /\ host.spent + 1 \in Nat
      BY DEF ShowcaseShape, HostRow
    <3>2. host' \in HostRow
      BY <2>1, <3>1, Zenon DEF HostRow
    <3>3. host'.pending = host.pending /\ host'.credits = host.credits - 1 /\ host'.spent = host.spent + 1
      BY <2>1, <3>1 DEF HostRow
    <3>. QED  BY <3>1, <3>2, <3>3 DEF HostRow
  <2>3. ShowcaseShape' /\ Later /\ SameVisits("award") /\ SameVisits("first")
    BY <2>1, <2>2 DEF ShowcaseShape, Later, SameVisits
  <2>4. Came("referred")' = Came("referred") /\ Came("paid")' = Came("paid")
    BY <2>1 DEF Came
  <2>5. HostKept'
    BY <2>1, <2>2, <2>4 DEF HostKept, Does
  <2>. QED  BY <2>1, <2>3, <2>5, ShowcaseStays
<1>. QED  BY <1>1, <1>2, <1>3, <1>4, <1>5, <1>6, VisitDiesKept DEF HostNext

LEMMA ShowcaseInvNext == ShowcaseInv /\ [ShowcaseNext]_showcaseVars => ShowcaseInv'
<1>. SUFFICES ASSUME ShowcaseInv, [ShowcaseNext]_showcaseVars PROVE ShowcaseInv'
  OBVIOUS
<1>1. CASE UNCHANGED showcaseVars
  <2>1. ShowcaseShape' /\ Later /\ SameVisits("award") /\ SameVisits("first")
    BY <1>1 DEF showcaseVars, ShowcaseInv, ShowcaseShape, Later, SameVisits
  <2>. QED  BY <1>1, <2>1, ShowcaseStays DEF showcaseVars, ShowcaseInv
<1>. QED  BY <1>1, PieceInvNext, BadgeInvNext, WeekInvNext, HostInvNext DEF ShowcaseNext

(* For any work, badges, hours and friends, and any requests at once: what  *)
(* a worker shows was earned, the pins pass their cap by no more than the  *)
(* requests that met, and where none met the hours are the last asked for, *)
(* every code shown is the user's and each friend is paid for once.        *)
THEOREM ShowcaseSound == ShowcaseSpec => []ShowcaseKept
<1>1. ShowcaseInv => ShowcaseKept
  BY Zenon DEF ShowcaseInv, PinsKept, BadgesKept, WeekKept, HostKept, Came, ShowcaseKept
<1>. QED  BY <1>1, ShowcaseInvInit, ShowcaseInvNext, PTL DEF ShowcaseSpec

---------------------------------------------------------------------------
(* Templates *)

DesignRow == [public : BOOLEAN, sum : Int, count : Int, uses : Nat]
ItemRow == [owner : Authors, public : BOOLEAN, imports : Nat, uses : Nat]
ClientRows ==
  {NoClient} \cup [for : {"rate"}, of : Designs, who : Raters, seen : DesignRow]
  \cup [for : {"use"}, of : Designs, seen : Nat] \cup [for : {"seed"}]
  \cup [for : {"create"}, who : Authors, seen : SUBSET Items]
  \cup [for : {"own"}, of : Items, seen : Nat]
  \cup [for : {"import"}, of : Items, who : Authors, seen : [imports : Nat, library : SUBSET Items]]

TemplatesShape ==
  /\ design \in [Designs -> DesignRow \cup {Absent}]
  /\ rating \in [Designs -> [Raters -> Stars \cup {0}]]
  /\ item \in [Items -> ItemRow \cup {Absent}]
  /\ systems \in Nat /\ clashes \in Nat
  /\ client \in [Clients -> ClientRows]
  /\ used \in [Designs \cup Items -> Nat] /\ taken \in [Items -> Nat]

(* Whoever rates a template has it to himself, as he read it.              *)
LockKept ==
  /\ \A v \in Clients : Browsing(v, "rate") => design[client[v].of] # Absent /\ design[client[v].of] = client[v].seen
  /\ \A v, w \in Clients : Browsing(v, "rate") /\ Browsing(w, "rate") /\ client[v].of = client[w].of => v = w

(* What a request read lags behind what was counted since, and left room   *)
(* in the library.                                                         *)
Lagging(v) ==
  /\ Browsing(v, "use") \/ Browsing(v, "own") => client[v].seen <= used[client[v].of]
  /\ Browsing(v, "import") => /\ client[v].seen.imports <= taken[client[v].of]
                              /\ Cardinality(client[v].seen.library) < MaxItems
  /\ Browsing(v, "create") => Cardinality(client[v].seen) < MaxItems

Unrated(d) == design[d] = Absent => \A u \in Raters : rating[d][u] = 0
DesignTrue(d) == design[d] # Absent =>
  /\ design[d].sum = SumOf(rating[d], Raters)
  /\ design[d].count = Cardinality({u \in Raters : rating[d][u] # 0})
  /\ Counted(design[d].uses, used[d])
ItemTrue(i) == item[i] # Absent =>
  Counted(item[i].uses, used[i]) /\ Counted(item[i].imports, taken[i])
LibrariesFit == \A a \in Authors : Cardinality(Library(a)) <= MaxItems + clashes

TemplatesInv ==
  /\ TemplatesShape /\ LockKept
  /\ \A v \in Clients : Lagging(v)
  /\ \A d \in Designs : DesignTrue(d) /\ Unrated(d)
  /\ \A i \in Items : ItemTrue(i)
  /\ LibrariesFit
  /\ systems <= 1 + clashes

LEMMA RatingsKept == ASSUME TemplatesInv PROVE TemplatesKept
<1>1. ASSUME NEW d \in Designs, design[d] # Absent
      PROVE  /\ design[d].sum = MapThenSumSet(LAMBDA u : rating[d][u], Raters)
             /\ design[d].count = Cardinality({u \in Raters : rating[d][u] # 0})
             /\ Counted(design[d].uses, used[d])
  <2>1. SumOf(rating[d], Raters) = MapThenSumSet(LAMBDA u : rating[d][u], Raters)
    BY DEF SumOf
  <2>. QED  BY <1>1, <2>1 DEF TemplatesInv, DesignTrue
<1>. QED  BY <1>1 DEF TemplatesInv, ItemTrue, LibrariesFit, TemplatesKept

LEMMA TemplatesInvInit == TemplatesInit => TemplatesInv
<1>. SUFFICES ASSUME TemplatesInit PROVE TemplatesInv
  OBVIOUS
<1>. USE DEF TemplatesInit
<1>1. TemplatesShape
  BY DEF TemplatesShape, ClientRows
<1>2. LockKept /\ \A v \in Clients : Lagging(v)
  BY DEF LockKept, Lagging, Browsing, NoClient
<1>3. LibrariesFit
  <2>1. ASSUME NEW a \in Authors PROVE Cardinality(Library(a)) = 0
    <3>1. Library(a) = {}
      BY DEF Library
    <3>. QED  BY <3>1, FS_EmptySet
  <2>. QED  BY <2>1, TemplatesAssumption DEF LibrariesFit
<1>. QED  BY <1>1, <1>2, <1>3 DEF TemplatesInv, DesignTrue, Unrated, ItemTrue

---------------------------------------------------------------------------
(* What a request read. *)

LEMMA ClientKnown ==
  ASSUME TemplatesShape, NEW v \in Clients
  PROVE  /\ Browsing(v, "rate") => client[v] \in [for : {"rate"}, of : Designs, who : Raters, seen : DesignRow]
         /\ Browsing(v, "use") => client[v] \in [for : {"use"}, of : Designs, seen : Nat]
         /\ Browsing(v, "create") => client[v] \in [for : {"create"}, who : Authors, seen : SUBSET Items]
         /\ Browsing(v, "own") => client[v] \in [for : {"own"}, of : Items, seen : Nat]
         /\ Browsing(v, "import") => client[v] \in [for : {"import"}, of : Items, who : Authors,
                                                    seen : [imports : Nat, library : SUBSET Items]]
<1>1. client[v] \in ClientRows
  BY DEF TemplatesShape
<1>. QED  BY <1>1 DEF ClientRows, Browsing, NoClient

LEMMA ClientCloses ==
  ASSUME TemplatesShape, NEW v \in Clients, Closed(v)
  PROVE  /\ client' \in [Clients -> ClientRows]
         /\ \A w \in Clients : client'[w] = IF w = v THEN NoClient ELSE client[w]
BY DEF TemplatesShape, Closed, ClientRows

LEMMA SystemsFit ==
  ASSUME TemplatesInv, systems' = systems, clashes' \in Nat, clashes' >= clashes
  PROVE  systems' <= 1 + clashes'
<1>1. systems <= 1 + clashes /\ systems \in Nat /\ clashes \in Nat
  BY DEF TemplatesInv, TemplatesShape
<1>2. \A s, m, n \in Nat : s <= 1 + m /\ n >= m => s <= 1 + n
  OBVIOUS
<1>. QED  BY <1>1, <1>2

LEMMA LaggingStays ==
  ASSUME TemplatesShape, NEW v \in Clients, Lagging(v), client'[v] \in {client[v], NoClient},
         \A t \in Designs \cup Items : used'[t] >= used[t] /\ used'[t] \in Nat,
         \A i \in Items : taken'[i] >= taken[i] /\ taken'[i] \in Nat
  PROVE  Lagging(v)'
<1>1. CASE client'[v] = NoClient
  BY <1>1 DEF Lagging, Browsing, NoClient
<1>2. CASE client'[v] = client[v]
  <2>1. Browsing(v, "use")' \/ Browsing(v, "own")' => client'[v].seen <= used'[client'[v].of]
    <3>1. \A m, n, k \in Nat : m <= n /\ k >= n => m <= k
      OBVIOUS
    <3>. QED  BY <1>2, <3>1, ClientKnown DEF Lagging, Browsing, TemplatesShape
  <2>2. Browsing(v, "import")' => client'[v].seen.imports <= taken'[client'[v].of]
    <3>1. \A m, n, k \in Nat : m <= n /\ k >= n => m <= k
      OBVIOUS
    <3>. QED  BY <1>2, <3>1, ClientKnown DEF Lagging, Browsing, TemplatesShape
  <2>. QED  BY <1>2, <2>1, <2>2 DEF Lagging, Browsing
<1>. QED  BY <1>1, <1>2

LEMMA LockStays ==
  ASSUME TemplatesShape, LockKept, \A w \in Clients : client'[w] \in {client[w], NoClient},
         \A w \in Clients : Browsing(w, "rate") /\ client'[w] = client[w] => design'[client[w].of] = design[client[w].of]
  PROVE  LockKept'
<1>1. ASSUME NEW w \in Clients, Browsing(w, "rate")' PROVE Browsing(w, "rate") /\ client'[w] = client[w]
  BY <1>1 DEF Browsing, NoClient
<1>. QED  BY <1>1 DEF LockKept

LEMMA DesignStays ==
  ASSUME NEW d \in Designs, DesignTrue(d), rating'[d] = rating[d], used'[d] = used[d],
         clashes \in Nat, clashes' \in Nat, clashes' >= clashes,
         design'[d] # Absent => /\ design[d] # Absent /\ design'[d].sum = design[d].sum
                                /\ design'[d].count = design[d].count /\ design'[d].uses = design[d].uses
  PROVE  DesignTrue(d)'
BY DEF DesignTrue, Counted

LEMMA ItemStays ==
  ASSUME NEW i \in Items, ItemTrue(i), used'[i] = used[i], taken'[i] = taken[i],
         clashes \in Nat, clashes' \in Nat, clashes' >= clashes,
         item'[i] # Absent => item[i] # Absent /\ item'[i].uses = item[i].uses /\ item'[i].imports = item[i].imports
  PROVE  ItemTrue(i)'
BY DEF ItemTrue, Counted

LEMMA LibraryFinite == \A a : IsFiniteSet(Library(a)) /\ Cardinality(Library(a)) \in Nat
<1>. SUFFICES ASSUME NEW a PROVE IsFiniteSet(Library(a)) /\ Cardinality(Library(a)) \in Nat
  OBVIOUS
<1>1. Library(a) \in SUBSET Items
  BY DEF Library
<1>. QED  BY <1>1, TemplatesAssumption, FS_Subset, FS_CardinalityType

(* No library gains a template.                                            *)
LEMMA LibrariesStay ==
  ASSUME TemplatesShape, LibrariesFit, clashes' \in Nat, clashes' >= clashes,
         \A i \in Items : item'[i] # Absent => item[i] # Absent /\ item'[i].owner = item[i].owner
  PROVE  LibrariesFit'
<1>. SUFFICES ASSUME NEW a \in Authors PROVE Cardinality(Library(a)') <= MaxItems + clashes'
  BY DEF LibrariesFit
<1>1. Library(a)' \in SUBSET Library(a)
  BY DEF Library
<1>2. Cardinality(Library(a)') <= Cardinality(Library(a)) /\ Cardinality(Library(a)') \in Nat
  BY <1>1, LibraryFinite, FS_Subset, FS_CardinalityType
<1>3. Cardinality(Library(a)) <= MaxItems + clashes /\ Cardinality(Library(a)) \in Nat
  BY LibraryFinite DEF LibrariesFit
<1>. QED  BY <1>2, <1>3, TemplatesAssumption DEF TemplatesShape

(* One template j comes into the library of a, which it may overfill only  *)
(* if the library is not what was read.                                    *)
LEMMA LibrariesGrow ==
  ASSUME TemplatesShape, LibrariesFit, NEW a \in Authors, NEW j \in Items, NEW read,
         clashes' \in Nat, clashes' >= clashes, Cardinality(read) < MaxItems, Library(a) # read => clashes' = clashes + 1,
         item'[j] # Absent => item'[j].owner = a,
         \A i \in Items \ {j} : item'[i] # Absent => item[i] # Absent /\ item'[i].owner = item[i].owner
  PROVE  LibrariesFit'
<1>. SUFFICES ASSUME NEW b \in Authors PROVE Cardinality(Library(b)') <= MaxItems + clashes'
  BY DEF LibrariesFit
<1>0. MaxItems \in Nat /\ clashes \in Nat
  BY TemplatesAssumption DEF TemplatesShape
<1>1. Library(b)' \in SUBSET (IF b = a THEN Library(b) \cup {j} ELSE Library(b))
  BY DEF Library
<1>2. Cardinality(Library(b)) <= MaxItems + clashes /\ Cardinality(Library(b)) \in Nat
  BY LibraryFinite DEF LibrariesFit
<1>3. CASE b # a
  <2>1. Cardinality(Library(b)') <= Cardinality(Library(b)) /\ Cardinality(Library(b)') \in Nat
    BY <1>1, <1>3, LibraryFinite, FS_Subset, FS_CardinalityType
  <2>. QED  BY <1>0, <1>2, <2>1
<1>4. CASE b = a
  <2>. DEFINE L == Library(b) \cup {j}
  <2>1. IsFiniteSet(L) /\ Cardinality(L) <= Cardinality(Library(b)) + 1 /\ Cardinality(L) \in Nat
    <3>1. IsFiniteSet(L) /\ Cardinality(L) = IF j \in Library(b) THEN Cardinality(Library(b)) ELSE Cardinality(Library(b)) + 1
      BY LibraryFinite, FS_AddElement
    <3>. QED  BY <1>2, <3>1
  <2>2. Library(b)' \in SUBSET L
    BY <1>1, <1>4
  <2>. HIDE DEF L
  <2>3. Cardinality(Library(b)') <= Cardinality(L) /\ Cardinality(Library(b)') \in Nat
    BY <2>1, <2>2, FS_Subset, FS_CardinalityType
  <2>4. CASE Library(b) = read
    BY <1>0, <1>2, <2>1, <2>3, <2>4
  <2>5. CASE Library(b) # read
    BY <1>0, <1>2, <1>4, <2>1, <2>3, <2>5
  <2>. QED  BY <2>4, <2>5
<1>. QED  BY <1>3, <1>4

---------------------------------------------------------------------------
(* Steps that change what a request holds, and nothing that is counted.    *)

LEMMA ArrivesKeeps ==
  ASSUME TemplatesInv, NEW v \in Clients, NEW r, Idle(v), client' = [client EXCEPT ![v] = r],
         r \in ClientRows, r.for # "rate",
         UNCHANGED <<design, rating, item, systems, used, taken, clashes>>,
         Lagging(v)'
  PROVE  TemplatesInv'
<1>. USE DEF TemplatesInv
<1>1. /\ client' \in [Clients -> ClientRows] /\ client'[v] = r
      /\ \A w \in Clients \ {v} : client'[w] = client[w]
  BY DEF TemplatesShape
<1>2. TemplatesShape'
  BY <1>1 DEF TemplatesShape
<1>3. LockKept'
  BY <1>1 DEF LockKept, Browsing
<1>4. \A w \in Clients : Lagging(w)'
  BY <1>1 DEF Lagging, Browsing
<1>5. /\ \A d \in Designs : DesignTrue(d)' /\ Unrated(d)'
      /\ \A i \in Items : ItemTrue(i)'
      /\ LibrariesFit' /\ systems' <= 1 + clashes'
  BY DEF DesignTrue, Unrated, ItemTrue, LibrariesFit, Library, Counted
<1>. QED  BY <1>2, <1>3, <1>4, <1>5

LEMMA BrowseKeeps ==
  ASSUME TemplatesInv, NEW v \in Clients,
         \/ \E d \in Designs : ReadDesign(v, d)
         \/ CountSystem(v)
         \/ \E a \in Authors : CountLibrary(v, a)
         \/ \E i \in Items : ReadOwn(v, i) \/ \E a \in Authors : ReadPublished(v, i, a)
  PROVE  TemplatesInv'
<1>. USE DEF TemplatesInv
<1>1. ASSUME NEW d \in Designs, ReadDesign(v, d) PROVE TemplatesInv'
  <2>. DEFINE r == [for |-> "use", of |-> d, seen |-> design[d].uses]
  <2>1. design[d] \in DesignRow /\ design[d].uses <= used[d]
    BY <1>1 DEF ReadDesign, TemplatesShape, DesignTrue, Counted
  <2>2. r \in ClientRows /\ r.for = "use" /\ r.of = d /\ r.seen = design[d].uses
    BY <2>1 DEF ClientRows, DesignRow
  <2>3. /\ Idle(v) /\ client' = [client EXCEPT ![v] = r]
        /\ UNCHANGED <<design, rating, item, systems, used, taken, clashes>>
    BY <1>1 DEF ReadDesign
  <2>. HIDE DEF r
  <2>4. Lagging(v)'
    BY <2>1, <2>2, <2>3 DEF Lagging, Browsing, TemplatesShape
  <2>. QED  BY <2>2, <2>3, <2>4, ArrivesKeeps
<1>2. CASE CountSystem(v)
  <2>. DEFINE r == [for |-> "seed"]
  <2>1. r \in ClientRows /\ r.for = "seed"
    BY DEF ClientRows
  <2>2. /\ Idle(v) /\ client' = [client EXCEPT ![v] = r]
        /\ UNCHANGED <<design, rating, item, systems, used, taken, clashes>>
    BY <1>2 DEF CountSystem
  <2>. HIDE DEF r
  <2>3. Lagging(v)'
    BY <2>1, <2>2 DEF Lagging, Browsing, TemplatesShape
  <2>. QED  BY <2>1, <2>2, <2>3, ArrivesKeeps
<1>3. ASSUME NEW a \in Authors, CountLibrary(v, a) PROVE TemplatesInv'
  <2>. DEFINE r == [for |-> "create", who |-> a, seen |-> Library(a)]
  <2>1. Library(a) \in SUBSET Items /\ Cardinality(Library(a)) < MaxItems
    BY <1>3 DEF CountLibrary, UnderLimit, Library
  <2>2. r \in ClientRows /\ r.for = "create" /\ r.seen = Library(a)
    BY <2>1 DEF ClientRows
  <2>3. /\ Idle(v) /\ client' = [client EXCEPT ![v] = r]
        /\ UNCHANGED <<design, rating, item, systems, used, taken, clashes>>
    BY <1>3 DEF CountLibrary
  <2>. HIDE DEF r
  <2>4. Lagging(v)'
    BY <2>1, <2>2, <2>3 DEF Lagging, Browsing, TemplatesShape
  <2>. QED  BY <2>2, <2>3, <2>4, ArrivesKeeps
<1>4. ASSUME NEW i \in Items, ReadOwn(v, i) PROVE TemplatesInv'
  <2>. DEFINE r == [for |-> "own", of |-> i, seen |-> item[i].uses]
  <2>1. item[i] \in ItemRow /\ item[i].uses <= used[i]
    BY <1>4 DEF ReadOwn, TemplatesShape, ItemTrue, Counted
  <2>2. r \in ClientRows /\ r.for = "own" /\ r.of = i /\ r.seen = item[i].uses
    BY <2>1 DEF ClientRows, ItemRow
  <2>3. /\ Idle(v) /\ client' = [client EXCEPT ![v] = r]
        /\ UNCHANGED <<design, rating, item, systems, used, taken, clashes>>
    BY <1>4 DEF ReadOwn
  <2>. HIDE DEF r
  <2>4. Lagging(v)'
    BY <2>1, <2>2, <2>3 DEF Lagging, Browsing, TemplatesShape
  <2>. QED  BY <2>2, <2>3, <2>4, ArrivesKeeps
<1>5. ASSUME NEW i \in Items, NEW a \in Authors, ReadPublished(v, i, a) PROVE TemplatesInv'
  <2>. DEFINE r == [for |-> "import", of |-> i, who |-> a, seen |-> [imports |-> item[i].imports, library |-> Library(a)]]
  <2>1. /\ item[i] \in ItemRow /\ item[i].imports <= taken[i]
        /\ Library(a) \in SUBSET Items /\ Cardinality(Library(a)) < MaxItems
    BY <1>5 DEF ReadPublished, TemplatesShape, ItemTrue, Counted, UnderLimit, Library
  <2>2. /\ r \in ClientRows /\ r.for = "import" /\ r.of = i
        /\ r.seen.imports = item[i].imports /\ r.seen.library = Library(a)
    BY <2>1 DEF ClientRows, ItemRow
  <2>3. /\ Idle(v) /\ client' = [client EXCEPT ![v] = r]
        /\ UNCHANGED <<design, rating, item, systems, used, taken, clashes>>
    BY <1>5 DEF ReadPublished
  <2>. HIDE DEF r
  <2>4. Lagging(v)'
    BY <2>1, <2>2, <2>3 DEF Lagging, Browsing, TemplatesShape
  <2>. QED  BY <2>2, <2>3, <2>4, ArrivesKeeps
<1>. QED  BY <1>1, <1>2, <1>3, <1>4, <1>5

LEMMA LockDesignKeeps ==
  ASSUME TemplatesInv, NEW v \in Clients, NEW d \in Designs, NEW u \in Raters, LockDesign(v, d, u)
  PROVE  TemplatesInv'
<1>. USE DEF TemplatesInv
<1>. DEFINE r == [for |-> "rate", of |-> d, who |-> u, seen |-> design[d]]
<1>1. design[d] \in DesignRow /\ design[d] # Absent /\ Free(d)
  BY DEF LockDesign, TemplatesShape
<1>2. r \in ClientRows /\ r.for = "rate" /\ r.of = d /\ r.seen = design[d]
  BY <1>1 DEF ClientRows
<1>3. /\ client' = [client EXCEPT ![v] = r]
      /\ UNCHANGED <<design, rating, item, systems, used, taken, clashes>>
  BY DEF LockDesign
<1>. HIDE DEF r
<1>4. /\ client' \in [Clients -> ClientRows] /\ client'[v] = r
      /\ \A w \in Clients \ {v} : client'[w] = client[w]
  BY <1>2, <1>3 DEF TemplatesShape
<1>5. TemplatesShape'
  BY <1>3, <1>4 DEF TemplatesShape
<1>6. LockKept'
  BY <1>1, <1>2, <1>3, <1>4 DEF LockKept, Browsing, Free
<1>7. \A w \in Clients : Lagging(w)'
  BY <1>2, <1>3, <1>4 DEF Lagging, Browsing
<1>8. /\ \A e \in Designs : DesignTrue(e)' /\ Unrated(e)'
      /\ \A i \in Items : ItemTrue(i)'
      /\ LibrariesFit' /\ systems' <= 1 + clashes'
  BY <1>3 DEF DesignTrue, Unrated, ItemTrue, LibrariesFit, Library, Counted
<1>. QED  BY <1>5, <1>6, <1>7, <1>8

---------------------------------------------------------------------------
(* The marketplace. *)

(* A step that leaves the library alone.                                   *)
LEMMA MarketKeeps ==
  ASSUME TemplatesInv, TemplatesShape', \A w \in Clients : client'[w] \in {client[w], NoClient},
         item' = item, taken' = taken, \A i \in Items : used'[i] = used[i],
         \A d \in Designs : used'[d] >= used[d],
         clashes' >= clashes, systems' <= 1 + clashes',
         \A w \in Clients : Browsing(w, "rate") /\ client'[w] = client[w] => design'[client[w].of] = design[client[w].of],
         \A d \in Designs : DesignTrue(d)' /\ Unrated(d)'
  PROVE  TemplatesInv'
<1>. USE DEF TemplatesInv
<1>1. LockKept'
  BY LockStays
<1>2. \A w \in Clients : Lagging(w)'
  <2>1. /\ \A t \in Designs \cup Items : used'[t] >= used[t] /\ used'[t] \in Nat
        /\ \A i \in Items : taken'[i] >= taken[i] /\ taken'[i] \in Nat
    BY DEF TemplatesShape
  <2>. QED  BY <2>1, LaggingStays
<1>3. \A i \in Items : ItemTrue(i)'
  BY ItemStays DEF TemplatesShape
<1>4. LibrariesFit'
  BY LibrariesStay DEF TemplatesShape
<1>. QED  BY <1>1, <1>2, <1>3, <1>4

(* The templates that the step does not name stay as they are.             *)
LEMMA DesignsStay ==
  ASSUME TemplatesInv, NEW d \in Designs, clashes' \in Nat, clashes' >= clashes,
         \A e \in Designs \ {d} : design'[e] = design[e] /\ rating'[e] = rating[e] /\ used'[e] = used[e],
         DesignTrue(d)' /\ Unrated(d)'
  PROVE  \A e \in Designs : DesignTrue(e)' /\ Unrated(e)'
<1>. SUFFICES ASSUME NEW e \in Designs \ {d} PROVE DesignTrue(e)' /\ Unrated(e)'
  OBVIOUS
<1>. QED  BY DesignStays DEF TemplatesInv, Unrated, TemplatesShape

LEMMA Unrate ==
  ASSUME NEW f, \A u \in Raters : f[u] = 0
  PROVE  SumOf(f, Raters) = 0 /\ Cardinality({u \in Raters : f[u] # 0}) = 0
<1>1. {u \in Raters : f[u] = 1} = {} /\ {u \in Raters : f[u] # 0} = {}
  OBVIOUS
<1>2. SumOf(f, Raters) = Cardinality({u \in Raters : f[u] = 1})
  BY TemplatesAssumption, SumCounts
<1>. QED  BY <1>1, <1>2, FS_EmptySet

LEMMA CreateDesignKeeps ==
  ASSUME TemplatesInv, NEW d \in Designs, CreateDesign(d)
  PROVE  TemplatesInv'
<1>. USE DEF TemplatesInv
<1>1. PICK public \in BOOLEAN : design' = [design EXCEPT ![d] = [public |-> public, sum |-> 0, count |-> 0, uses |-> 0]]
  BY DEF CreateDesign
<1>. DEFINE row == [public |-> public, sum |-> 0, count |-> 0, uses |-> 0]
<1>2. row \in DesignRow /\ row # Absent /\ row.sum = 0 /\ row.count = 0 /\ row.uses = 0
  BY TemplatesAssumption DEF DesignRow
<1>3. design' = [design EXCEPT ![d] = row]
  BY <1>1
<1>4. /\ design[d] = Absent /\ used[d] = 0
      /\ rating' = rating /\ item' = item /\ systems' = systems /\ client' = client /\ used' = used
      /\ taken' = taken /\ clashes' = clashes
  BY DEF CreateDesign
<1>. HIDE DEF row
<1>5. TemplatesShape'
  BY <1>2, <1>3, <1>4 DEF TemplatesShape
<1>6. DesignTrue(d)' /\ Unrated(d)'
  <2>1. \A u \in Raters : rating[d][u] = 0
    BY <1>4 DEF Unrated
  <2>2. SumOf(rating[d], Raters) = 0 /\ Cardinality({u \in Raters : rating[d][u] # 0}) = 0
    BY <2>1, Unrate
  <2>3. design'[d] = row
    BY <1>3 DEF TemplatesShape
  <2>. QED  BY <1>2, <1>4, <2>2, <2>3 DEF DesignTrue, Unrated, Counted
<1>7. \A e \in Designs : DesignTrue(e)' /\ Unrated(e)'
  BY <1>3, <1>4, <1>6, DesignsStay DEF TemplatesShape
<1>8. \A w \in Clients : Browsing(w, "rate") => design'[client[w].of] = design[client[w].of]
  BY <1>3, <1>4, ClientKnown DEF LockKept, TemplatesShape
<1>. QED  BY <1>4, <1>5, <1>7, <1>8, MarketKeeps DEF TemplatesShape

(* An update and a deletion wait for the lock.                             *)
LEMMA ChangeDesignKeeps ==
  ASSUME TemplatesInv, NEW d \in Designs, UpdateDesign(d) \/ DeleteDesign(d)
  PROVE  TemplatesInv'
<1>. USE DEF TemplatesInv
<1>1. /\ design[d] \in DesignRow /\ Free(d)
      /\ item' = item /\ systems' = systems /\ client' = client /\ used' = used /\ taken' = taken /\ clashes' = clashes
  BY DEF UpdateDesign, DeleteDesign, TemplatesShape
<1>2. \A w \in Clients : Browsing(w, "rate") => client[w].of \in Designs /\ client[w].of # d
  BY <1>1, ClientKnown DEF Free
<1>3. CASE UpdateDesign(d)
  <2>1. PICK public \in BOOLEAN : design' = [design EXCEPT ![d].public = public] /\ rating' = rating
    BY <1>3 DEF UpdateDesign
  <2>2. TemplatesShape'
    BY <1>1, <2>1 DEF TemplatesShape, DesignRow
  <2>3. /\ design'[d] \in DesignRow /\ design'[d].sum = design[d].sum
        /\ design'[d].count = design[d].count /\ design'[d].uses = design[d].uses
    BY <1>1, <2>1 DEF TemplatesShape, DesignRow
  <2>4. DesignTrue(d)' /\ Unrated(d)'
    <3>1. design[d] # Absent /\ design'[d] # Absent
      BY <1>1, <2>3, TemplatesAssumption DEF DesignRow
    <3>2. rating'[d] = rating[d] /\ used'[d] = used[d] /\ clashes \in Nat /\ clashes' = clashes
      BY <1>1, <2>1 DEF TemplatesShape
    <3>3. DesignTrue(d)'
      BY <2>3, <3>1, <3>2, DesignStays
    <3>. QED  BY <3>1, <3>3 DEF Unrated
  <2>5. \A e \in Designs : DesignTrue(e)' /\ Unrated(e)'
    BY <1>1, <2>1, <2>4, DesignsStay DEF TemplatesShape
  <2>6. \A w \in Clients : Browsing(w, "rate") => design'[client[w].of] = design[client[w].of]
    BY <1>2, <2>1 DEF TemplatesShape
  <2>. QED  BY <1>1, <2>2, <2>5, <2>6, MarketKeeps DEF TemplatesShape
<1>4. CASE DeleteDesign(d)
  <2>1. /\ design' = [design EXCEPT ![d] = Absent]
        /\ rating' = [rating EXCEPT ![d] = [u \in Raters |-> 0]]
    BY <1>4 DEF DeleteDesign
  <2>2. TemplatesShape'
    BY <1>1, <2>1 DEF TemplatesShape
  <2>3. DesignTrue(d)' /\ Unrated(d)'
    BY <2>1 DEF DesignTrue, Unrated, TemplatesShape
  <2>4. \A e \in Designs : DesignTrue(e)' /\ Unrated(e)'
    BY <1>1, <2>1, <2>3, DesignsStay DEF TemplatesShape
  <2>5. \A w \in Clients : Browsing(w, "rate") => design'[client[w].of] = design[client[w].of]
    BY <1>2, <2>1 DEF TemplatesShape
  <2>. QED  BY <1>1, <2>2, <2>4, <2>5, MarketKeeps DEF TemplatesShape
<1>. QED  BY <1>3, <1>4

LEMMA RateKeeps ==
  ASSUME TemplatesInv, NEW v \in Clients, NEW stars \in Stars, Rate(v, stars)
  PROVE  TemplatesInv'
<1>. USE DEF TemplatesInv
<1>0. PICK d \in Designs, u \in Raters : client[v].of = d /\ client[v].who = u
  BY ClientKnown DEF Rate
<1>. DEFINE old == rating[d][u]
<1>1. /\ Browsing(v, "rate") /\ Closed(v)
      /\ design[d] = client[v].seen /\ design[d] # Absent /\ design[d] \in DesignRow
  BY <1>0, ClientKnown DEF Rate, LockKept, TemplatesShape
<1>2. /\ design' = [design EXCEPT ![d].sum = Rated(client[v].seen, old, stars).sum,
                                ![d].count = Rated(client[v].seen, old, stars).count]
      /\ rating' = [rating EXCEPT ![d][u] = stars]
      /\ item' = item /\ systems' = systems /\ used' = used /\ taken' = taken /\ clashes' = clashes
  BY <1>0 DEF Rate
<1>. DEFINE f == rating[d]  h == rating'[d]
<1>3. /\ old \in Nat /\ stars \in Nat \ {0}
      /\ \A w \in Raters : f[w] \in Int
      /\ h[u] = stars /\ h[u] \in Int /\ \A w \in Raters \ {u} : h[w] = f[w]
      /\ \A e \in Designs \ {d} : rating'[e] = rating[e]
      /\ rating' \in [Designs -> [Raters -> Stars \cup {0}]]
  BY <1>1, <1>2, TemplatesAssumption DEF TemplatesShape
<1>4. /\ design' \in [Designs -> DesignRow \cup {Absent}] /\ design'[d] \in DesignRow
      /\ design'[d].sum = design[d].sum + stars - old
      /\ design'[d].count = IF old = 0 THEN design[d].count + 1 ELSE design[d].count
      /\ design'[d].uses = design[d].uses
      /\ \A e \in Designs \ {d} : design'[e] = design[e]
  <2>1. /\ Rated(client[v].seen, old, stars).sum = design[d].sum + stars - old
        /\ Rated(client[v].seen, old, stars).count = IF old = 0 THEN design[d].count + 1 ELSE design[d].count
    BY <1>1 DEF Rated, DesignRow
  <2>. DEFINE s == design[d].sum + stars - old
              c == IF old = 0 THEN design[d].count + 1 ELSE design[d].count
  <2>2. s \in Int /\ c \in Int
    BY <1>1, <1>3 DEF DesignRow
  <2>3. design' = [design EXCEPT ![d] = [@ EXCEPT !.sum = s, !.count = c]]
    BY <1>2, <2>1 DEF TemplatesShape
  <2>. HIDE DEF s, c, old
  <2>4. PICK new : new = [design[d] EXCEPT !.sum = s, !.count = c]
    OBVIOUS
  <2>5. new \in DesignRow /\ new.sum = s /\ new.count = c /\ new.uses = design[d].uses
    BY <1>1, <2>2, <2>4 DEF DesignRow
  <2>6. design' = [design EXCEPT ![d] = new]
    BY <2>3, <2>4
  <2>7. design' \in [Designs -> DesignRow \cup {Absent}] /\ design'[d] \in DesignRow /\ design'[d].sum = s
        /\ design'[d].count = c /\ design'[d].uses = design[d].uses /\ \A e \in Designs \ {d} : design'[e] = design[e]
    BY <2>5, <2>6 DEF TemplatesShape
  <2>. QED  BY <2>7 DEF s, c
<1>5. TemplatesShape' /\ \A w \in Clients : client'[w] = IF w = v THEN NoClient ELSE client[w]
  BY <1>1, <1>2, <1>3, <1>4, ClientCloses DEF TemplatesShape
<1>6. \A w \in Clients : Browsing(w, "rate") /\ client'[w] = client[w] => design'[client[w].of] = design[client[w].of]
  <2>. SUFFICES ASSUME NEW w \in Clients, Browsing(w, "rate"), client'[w] = client[w]
       PROVE design'[client[w].of] = design[client[w].of]
    OBVIOUS
  <2>1. w # v
    BY <1>1, <1>5 DEF Browsing, NoClient
  <2>2. client[w].of # d /\ client[w].of \in Designs
    BY <1>0, <1>1, <2>1, ClientKnown DEF LockKept
  <2>. QED  BY <1>4, <2>2
<1>. HIDE DEF old, f, h
<1>7. SumOf(h, Raters) = design'[d].sum
  <2>1. SumOf(h, Raters) = SumOf(f, Raters) - f[u] + h[u]
    <3>1. \A w \in Raters : f[w] \in Int
      BY <1>3
    <3>. QED  BY <1>1, <1>3, <3>1, TemplatesAssumption, SumMoves
  <2>2. design[d].sum = SumOf(f, Raters) /\ f[u] = old /\ design[d].sum \in Int
    BY <1>1 DEF DesignTrue, DesignRow, f, old
  <2>. QED  BY <1>3, <1>4, <2>1, <2>2
<1>8. Cardinality({w \in Raters : h[w] # 0}) = design'[d].count
  <2>. DEFINE S == {w \in Raters : f[w] # 0}  T == {w \in Raters : h[w] # 0}
  <2>1. T = S \cup {u} /\ (u \in S <=> old # 0)
    BY <1>1, <1>3 DEF f, old
  <2>2. IsFiniteSet(S)
    BY TemplatesAssumption, FS_Subset
  <2>3. design[d].count = Cardinality(S)
    BY <1>1 DEF DesignTrue, f
  <2>. HIDE DEF S
  <2>4. Cardinality(S \cup {u}) = IF u \in S THEN Cardinality(S) ELSE Cardinality(S) + 1
    BY <2>2, FS_AddElement
  <2>5. Cardinality(T) = design'[d].count
    BY <1>4, <2>1, <2>3, <2>4
  <2>. QED  BY <2>5
<1>9. DesignTrue(d)' /\ Unrated(d)'
  <2>1. design'[d] # Absent
    BY <1>4, TemplatesAssumption DEF DesignRow
  <2>2. Counted(design[d].uses, used[d])
    BY <1>1 DEF DesignTrue
  <2>. QED  BY <1>2, <1>4, <1>7, <1>8, <2>1, <2>2 DEF DesignTrue, Unrated, Counted, h
<1>10. \A e \in Designs : DesignTrue(e)' /\ Unrated(e)'
  BY <1>1, <1>2, <1>3, <1>4, <1>9, DesignsStay DEF TemplatesShape
<1>11. /\ \A e \in Designs : used'[e] >= used[e]
       /\ clashes' >= clashes /\ systems' <= 1 + clashes'
  BY <1>2, SystemsFit DEF TemplatesShape
<1>. QED  BY <1>2, <1>5, <1>6, <1>10, <1>11, MarketKeeps

LEMMA UseDesignKeeps ==
  ASSUME TemplatesInv, NEW v \in Clients, UseDesign(v)
  PROVE  TemplatesInv'
<1>. USE DEF TemplatesInv
<1>0. PICK d \in Designs, n \in Nat : client[v].of = d /\ client[v].seen = n
  BY ClientKnown DEF UseDesign
<1>1. /\ n <= used[d] /\ used[d] \in Nat /\ Closed(v)
      /\ rating' = rating /\ item' = item /\ systems' = systems /\ taken' = taken
  BY <1>0, ClientKnown DEF UseDesign, Lagging, TemplatesShape
<1>2. client' \in [Clients -> ClientRows] /\ \A w \in Clients : client'[w] = IF w = v THEN NoClient ELSE client[w]
  BY <1>1, ClientCloses
<1>3. CASE design[d] = Absent
  <2>1. design' = design /\ used' = used /\ clashes' = clashes
    BY <1>0, <1>3 DEF UseDesign
  <2>2. TemplatesShape' /\ DesignTrue(d)' /\ Unrated(d)'
    BY <1>1, <1>2, <1>3, <2>1 DEF TemplatesShape, DesignTrue, Unrated
  <2>3. \A e \in Designs : DesignTrue(e)' /\ Unrated(e)'
    BY <1>1, <2>1, <2>2, DesignsStay DEF TemplatesShape
  <2>4. /\ \A e \in Designs : used'[e] >= used[e]
        /\ clashes' >= clashes /\ systems' <= 1 + clashes'
    BY <1>1, <2>1 DEF TemplatesShape
  <2>. QED  BY <1>1, <1>2, <2>1, <2>2, <2>3, <2>4, MarketKeeps
<1>4. CASE design[d] # Absent
  <2>1. /\ Free(d) /\ design[d] \in DesignRow
        /\ design' = [design EXCEPT ![d].uses = n + 1]
        /\ used' = [used EXCEPT ![d] = @ + 1]
        /\ clashes' = IF design[d].uses # n THEN clashes + 1 ELSE clashes
    BY <1>0, <1>1, <1>4 DEF UseDesign, Clashing, TemplatesShape
  <2>2. /\ design' \in [Designs -> DesignRow \cup {Absent}] /\ design'[d] \in DesignRow
        /\ design'[d].sum = design[d].sum /\ design'[d].count = design[d].count /\ design'[d].uses = n + 1
        /\ \A e \in Designs \ {d} : design'[e] = design[e]
    BY <1>1, <2>1 DEF TemplatesShape, DesignRow
  <2>3. /\ used' \in [Designs \cup Items -> Nat] /\ used'[d] = used[d] + 1
        /\ \A t \in (Designs \cup Items) \ {d} : used'[t] = used[t]
    BY <1>1, <2>1 DEF TemplatesShape
  <2>4. clashes' \in Nat /\ clashes' >= clashes /\ (clashes' = 0 => clashes = 0 /\ design[d].uses = n)
    BY <2>1 DEF TemplatesShape
  <2>5. TemplatesShape'
    BY <1>1, <1>2, <2>2, <2>3, <2>4 DEF TemplatesShape
  <2>6. DesignTrue(d)' /\ Unrated(d)'
    <3>1. design'[d] # Absent
      BY <2>2, TemplatesAssumption DEF DesignRow
    <3>2. /\ design[d].sum = SumOf(rating[d], Raters)
          /\ design[d].count = Cardinality({u \in Raters : rating[d][u] # 0})
          /\ clashes = 0 => design[d].uses = used[d]
      BY <1>1, <1>4 DEF DesignTrue, Counted
    <3>3. Counted(design[d].uses, used[d])'
      BY <1>1, <2>2, <2>3, <2>4, <3>2 DEF Counted, TemplatesShape
    <3>4. /\ design'[d].sum = SumOf(rating'[d], Raters)
          /\ design'[d].count = Cardinality({u \in Raters : rating'[d][u] # 0})
      BY <1>1, <2>2, <3>2
    <3>. QED  BY <3>1, <3>3, <3>4 DEF DesignTrue, Unrated
  <2>7. \A e \in Designs : DesignTrue(e)' /\ Unrated(e)'
    BY <1>1, <2>2, <2>3, <2>4, <2>6, DesignsStay DEF TemplatesShape
  <2>8. \A w \in Clients : Browsing(w, "rate") => design'[client[w].of] = design[client[w].of]
    BY <2>1, <2>2, ClientKnown DEF Free
  <2>9. /\ \A i \in Items : used'[i] = used[i]
        /\ \A e \in Designs : used'[e] >= used[e]
        /\ systems' <= 1 + clashes'
    <3>1. \A i \in Items : used'[i] = used[i]
      BY <2>3, TemplatesAssumption
    <3>2. \A e \in Designs : used'[e] >= used[e]
      BY <2>3 DEF TemplatesShape
    <3>3. systems' <= 1 + clashes'
      BY <1>1, <2>4, SystemsFit
    <3>. QED  BY <3>1, <3>2, <3>3
  <2>. QED  BY <1>1, <1>2, <2>4, <2>5, <2>7, <2>8, <2>9, MarketKeeps
<1>. QED  BY <1>3, <1>4

LEMMA SeedSystemKeeps ==
  ASSUME TemplatesInv, NEW v \in Clients, SeedSystem(v)
  PROVE  TemplatesInv'
<1>. USE DEF TemplatesInv
<1>1. /\ Closed(v) /\ systems' = systems + 1
      /\ clashes' = IF systems # 0 THEN clashes + 1 ELSE clashes
      /\ design' = design /\ rating' = rating /\ item' = item /\ used' = used /\ taken' = taken
  BY DEF SeedSystem, Clashing
<1>2. client' \in [Clients -> ClientRows] /\ \A w \in Clients : client'[w] = IF w = v THEN NoClient ELSE client[w]
  BY <1>1, ClientCloses
<1>3. clashes' \in Nat /\ clashes' >= clashes /\ systems' <= 1 + clashes' /\ clashes \in Nat
  BY <1>1 DEF TemplatesShape
<1>4. TemplatesShape'
  BY <1>1, <1>2, <1>3 DEF TemplatesShape
<1>5. \A e \in Designs : DesignTrue(e)' /\ Unrated(e)'
  BY <1>1, <1>3, DesignStays DEF Unrated
<1>. QED  BY <1>1, <1>2, <1>3, <1>4, <1>5, MarketKeeps DEF TemplatesShape

---------------------------------------------------------------------------
(* The library. *)

(* A step that leaves the marketplace alone.                               *)
LEMMA LibraryKeeps ==
  ASSUME TemplatesInv, TemplatesShape', \A w \in Clients : client'[w] \in {client[w], NoClient},
         design' = design, rating' = rating, systems' = systems, \A d \in Designs : used'[d] = used[d],
         \A i \in Items : used'[i] >= used[i] /\ taken'[i] >= taken[i],
         clashes' >= clashes, LibrariesFit',
         \A i \in Items : ItemTrue(i)'
  PROVE  TemplatesInv'
<1>. USE DEF TemplatesInv
<1>1. LockKept'
  BY LockStays
<1>2. \A w \in Clients : Lagging(w)'
  <2>1. /\ \A t \in Designs \cup Items : used'[t] >= used[t] /\ used'[t] \in Nat
        /\ \A i \in Items : taken'[i] >= taken[i] /\ taken'[i] \in Nat
    BY DEF TemplatesShape
  <2>. QED  BY <2>1, LaggingStays
<1>3. \A d \in Designs : DesignTrue(d)' /\ Unrated(d)'
  <2>1. clashes \in Nat /\ clashes' \in Nat
    BY DEF TemplatesShape
  <2>. QED  BY <2>1, DesignStays DEF Unrated
<1>4. systems' <= 1 + clashes'
  BY SystemsFit DEF TemplatesShape
<1>. QED  BY <1>1, <1>2, <1>3, <1>4

LEMMA NewItemIs ==
  ASSUME NEW a \in Authors
  PROVE  NewItem(a) \in ItemRow /\ NewItem(a).owner = a /\ NewItem(a).imports = 0 /\ NewItem(a).uses = 0
BY DEF NewItem, ItemRow

LEMMA CreateItemKeeps ==
  ASSUME TemplatesInv, NEW v \in Clients, NEW i \in Items, CreateItem(v, i)
  PROVE  TemplatesInv'
<1>. USE DEF TemplatesInv
<1>1. PICK a \in Authors, read \in SUBSET Items : client[v].who = a /\ client[v].seen = read
  BY ClientKnown DEF CreateItem
<1>2. /\ Closed(v) /\ used[i] = 0 /\ taken[i] = 0
      /\ item' = [item EXCEPT ![i] = NewItem(a)]
      /\ clashes' = IF Library(a) # read THEN clashes + 1 ELSE clashes
      /\ design' = design /\ rating' = rating /\ systems' = systems /\ used' = used /\ taken' = taken
      /\ Cardinality(read) < MaxItems
  BY <1>1 DEF CreateItem, Clashing, Lagging
<1>3. client' \in [Clients -> ClientRows] /\ \A w \in Clients : client'[w] = IF w = v THEN NoClient ELSE client[w]
  BY <1>2, ClientCloses
<1>4. clashes' \in Nat /\ clashes' >= clashes /\ (Library(a) # read => clashes' = clashes + 1)
  BY <1>2 DEF TemplatesShape
<1>5. item' \in [Items -> ItemRow \cup {Absent}] /\ item'[i] = NewItem(a) /\ \A k \in Items \ {i} : item'[k] = item[k]
  BY <1>2, NewItemIs DEF TemplatesShape
<1>6. TemplatesShape'
  BY <1>2, <1>3, <1>4, <1>5 DEF TemplatesShape
<1>7. LibrariesFit'
  BY <1>2, <1>4, <1>5, NewItemIs, LibrariesGrow
<1>8. \A k \in Items : ItemTrue(k)'
  <2>1. ItemTrue(i)'
    BY <1>2, <1>5, NewItemIs DEF ItemTrue, Counted
  <2>2. \A k \in Items \ {i} : ItemTrue(k)'
    BY <1>2, <1>4, <1>5, ItemStays DEF TemplatesShape
  <2>. QED  BY <2>1, <2>2
<1>9. \A k \in Items : used'[k] >= used[k] /\ taken'[k] >= taken[k]
  BY <1>2 DEF TemplatesShape
<1>. QED  BY <1>2, <1>3, <1>4, <1>6, <1>7, <1>8, <1>9, LibraryKeeps

(* Publishing, unpublishing and deleting.                                  *)
LEMMA ChangeItemKeeps ==
  ASSUME TemplatesInv, NEW i \in Items, DeleteItem(i) \/ Publish(i) \/ Unpublish(i)
  PROVE  TemplatesInv'
<1>. USE DEF TemplatesInv
<1>1. /\ item[i] \in ItemRow
      /\ design' = design /\ rating' = rating /\ systems' = systems /\ used' = used /\ taken' = taken
      /\ client' = client /\ clashes' = clashes
  BY DEF DeleteItem, Publish, Unpublish, TemplatesShape
<1>2. \/ item' = [item EXCEPT ![i] = Absent]
      \/ \E public \in BOOLEAN : item' = [item EXCEPT ![i].public = public]
  BY DEF DeleteItem, Publish, Unpublish
<1>3. /\ item' \in [Items -> ItemRow \cup {Absent}] /\ \A k \in Items \ {i} : item'[k] = item[k]
      /\ \/ item'[i] = Absent
         \/ item[i] # Absent /\ item'[i].owner = item[i].owner /\ item'[i].uses = item[i].uses /\ item'[i].imports = item[i].imports
  <2>0. item[i] # Absent
    BY DEF DeleteItem, Publish, Unpublish
  <2>. QED  BY <1>1, <1>2, <2>0 DEF TemplatesShape, ItemRow
<1>4. TemplatesShape'
  BY <1>1, <1>3 DEF TemplatesShape
<1>5. \A k \in Items : item'[k] # Absent => /\ item[k] # Absent /\ item'[k].owner = item[k].owner
                                            /\ item'[k].uses = item[k].uses /\ item'[k].imports = item[k].imports
  BY <1>3
<1>6. clashes \in Nat /\ clashes' \in Nat /\ clashes' >= clashes
  BY <1>1 DEF TemplatesShape
<1>7. LibrariesFit'
  BY <1>5, <1>6, LibrariesStay
<1>8. \A k \in Items : ItemTrue(k)'
  BY <1>1, <1>5, <1>6, ItemStays
<1>9. \A k \in Items : used'[k] >= used[k] /\ taken'[k] >= taken[k]
  BY <1>1 DEF TemplatesShape
<1>. QED  BY <1>1, <1>4, <1>6, <1>7, <1>8, <1>9, LibraryKeeps

LEMMA UseItemKeeps ==
  ASSUME TemplatesInv, NEW v \in Clients, UseItem(v)
  PROVE  TemplatesInv'
<1>. USE DEF TemplatesInv
<1>1. PICK i \in Items, n \in Nat : client[v].of = i /\ client[v].seen = n
  BY ClientKnown DEF UseItem
<1>2. /\ Closed(v) /\ n <= used[i] /\ used[i] \in Nat
      /\ design' = design /\ rating' = rating /\ systems' = systems /\ taken' = taken
  BY <1>1 DEF UseItem, Lagging, TemplatesShape
<1>3. client' \in [Clients -> ClientRows] /\ \A w \in Clients : client'[w] = IF w = v THEN NoClient ELSE client[w]
  BY <1>2, ClientCloses
<1>4. CASE item[i] = Absent
  <2>1. item' = item /\ used' = used /\ clashes' = clashes
    BY <1>1, <1>4 DEF UseItem
  <2>2. TemplatesShape' /\ LibrariesFit' /\ \A k \in Items : ItemTrue(k)'
    BY <1>2, <1>3, <2>1 DEF TemplatesShape, LibrariesFit, Library, ItemTrue, Counted
  <2>3. clashes' >= clashes /\ \A k \in Items : used'[k] >= used[k] /\ taken'[k] >= taken[k]
    BY <1>2, <2>1 DEF TemplatesShape
  <2>. QED  BY <1>2, <1>3, <2>1, <2>2, <2>3, LibraryKeeps
<1>5. CASE item[i] # Absent
  <2>1. /\ item[i] \in ItemRow
        /\ item' = [item EXCEPT ![i].uses = n + 1]
        /\ used' = [used EXCEPT ![i] = @ + 1]
        /\ clashes' = IF item[i].uses # n THEN clashes + 1 ELSE clashes
    BY <1>1, <1>5 DEF UseItem, Clashing, TemplatesShape
  <2>2. /\ item' \in [Items -> ItemRow \cup {Absent}]
        /\ item'[i].owner = item[i].owner /\ item'[i].imports = item[i].imports /\ item'[i].uses = n + 1
        /\ \A k \in Items \ {i} : item'[k] = item[k]
    BY <2>1 DEF TemplatesShape, ItemRow
  <2>3. /\ used' \in [Designs \cup Items -> Nat] /\ used'[i] = used[i] + 1
        /\ \A t \in (Designs \cup Items) \ {i} : used'[t] = used[t]
    BY <2>1 DEF TemplatesShape
  <2>4. clashes \in Nat /\ clashes' \in Nat /\ clashes' >= clashes /\ (clashes' = 0 => clashes = 0 /\ item[i].uses = n)
    BY <2>1 DEF TemplatesShape
  <2>5. TemplatesShape'
    BY <1>2, <1>3, <2>2, <2>3, <2>4 DEF TemplatesShape
  <2>6. ItemTrue(i)'
    <3>1. /\ clashes = 0 => item[i].uses = used[i] /\ item[i].imports = taken[i]
          /\ item[i].imports <= taken[i]
      BY <1>5 DEF ItemTrue, Counted
    <3>2. Counted(item[i].uses, used[i])'
      BY <1>2, <2>2, <2>3, <2>4, <3>1 DEF Counted
    <3>3. Counted(item[i].imports, taken[i])'
      BY <1>2, <2>2, <2>4, <3>1 DEF Counted
    <3>. QED  BY <3>2, <3>3 DEF ItemTrue
  <2>7. \A k \in Items : ItemTrue(k)'
    <3>1. \A k \in Items \ {i} : ItemTrue(k)'
      BY <1>2, <2>2, <2>3, <2>4, ItemStays
    <3>. QED  BY <2>6, <3>1
  <2>8. LibrariesFit'
    BY <1>5, <2>2, <2>4, LibrariesStay
  <2>9. \A d \in Designs : used'[d] = used[d]
    BY <2>3, TemplatesAssumption
  <2>10. \A k \in Items : used'[k] >= used[k] /\ taken'[k] >= taken[k]
    BY <1>2, <2>3 DEF TemplatesShape
  <2>. QED  BY <1>2, <1>3, <2>4, <2>5, <2>7, <2>8, <2>9, <2>10, LibraryKeeps
<1>. QED  BY <1>4, <1>5

(* The copy is a template of the importer, and the import is counted in    *)
(* the row it was copied from.                                             *)
LEMMA ImportKeeps ==
  ASSUME TemplatesInv, NEW v \in Clients, NEW j \in Items, Import(v, j)
  PROVE  TemplatesInv'
<1>. USE DEF TemplatesInv
<1>1. PICK i \in Items, a \in Authors, n \in Nat, read \in SUBSET Items :
         client[v].of = i /\ client[v].who = a /\ client[v].seen.imports = n /\ client[v].seen.library = read
  BY ClientKnown DEF Import
<1>2. /\ Closed(v) /\ n <= taken[i] /\ taken[i] \in Nat /\ Cardinality(read) < MaxItems
      /\ design' = design /\ rating' = rating /\ systems' = systems /\ used' = used
  BY <1>1 DEF Import, Lagging, TemplatesShape
<1>3. client' \in [Clients -> ClientRows] /\ \A w \in Clients : client'[w] = IF w = v THEN NoClient ELSE client[w]
  BY <1>2, ClientCloses
<1>4. CASE item[i] = Absent
  <2>1. item' = item /\ taken' = taken /\ clashes' = clashes
    BY <1>1, <1>4 DEF Import
  <2>2. TemplatesShape' /\ LibrariesFit' /\ \A k \in Items : ItemTrue(k)'
    BY <1>2, <1>3, <2>1 DEF TemplatesShape, LibrariesFit, Library, ItemTrue, Counted
  <2>3. clashes' >= clashes /\ \A k \in Items : used'[k] >= used[k] /\ taken'[k] >= taken[k]
    BY <1>2, <2>1 DEF TemplatesShape
  <2>. QED  BY <1>2, <1>3, <2>1, <2>2, <2>3, LibraryKeeps
<1>5. CASE item[i] # Absent
  <2>1. /\ item[i] \in ItemRow /\ item[j] = Absent /\ i # j /\ used[j] = 0 /\ taken[j] = 0
        /\ item' = [item EXCEPT ![j] = NewItem(a), ![i].imports = n + 1]
        /\ taken' = [taken EXCEPT ![i] = @ + 1]
        /\ clashes' = IF item[i].imports # n \/ Library(a) # read THEN clashes + 1 ELSE clashes
    BY <1>1, <1>5 DEF Import, Clashing, TemplatesShape
  <2>2. /\ item' \in [Items -> ItemRow \cup {Absent}] /\ item'[j] = NewItem(a)
        /\ item'[i].owner = item[i].owner /\ item'[i].uses = item[i].uses /\ item'[i].imports = n + 1
        /\ \A k \in Items \ {i, j} : item'[k] = item[k]
    BY <2>1, NewItemIs DEF TemplatesShape, ItemRow
  <2>3. /\ taken' \in [Items -> Nat] /\ taken'[i] = taken[i] + 1
        /\ \A k \in Items \ {i} : taken'[k] = taken[k]
    BY <2>1 DEF TemplatesShape
  <2>4. /\ clashes \in Nat /\ clashes' \in Nat /\ clashes' >= clashes /\ (clashes' = 0 => clashes = 0 /\ item[i].imports = n)
        /\ Library(a) # read => clashes' = clashes + 1
    BY <2>1 DEF TemplatesShape
  <2>5. TemplatesShape'
    BY <1>2, <1>3, <2>2, <2>3, <2>4 DEF TemplatesShape
  <2>6. ItemTrue(i)'
    <3>1. /\ clashes = 0 => item[i].uses = used[i] /\ item[i].imports = taken[i]
          /\ item[i].uses <= used[i]
      BY <1>5 DEF ItemTrue, Counted
    <3>2. Counted(item[i].uses, used[i])'
      BY <1>2, <2>2, <2>4, <3>1 DEF Counted
    <3>3. Counted(item[i].imports, taken[i])'
      BY <1>2, <2>2, <2>3, <2>4, <3>1 DEF Counted
    <3>. QED  BY <3>2, <3>3 DEF ItemTrue
  <2>7. \A k \in Items : ItemTrue(k)'
    <3>1. \A k \in Items \ {i, j} : ItemTrue(k)'
      BY <1>2, <2>2, <2>3, <2>4, ItemStays
    <3>2. ItemTrue(j)'
      BY <1>2, <2>1, <2>2, <2>3, NewItemIs DEF ItemTrue, Counted
    <3>. QED  BY <2>6, <3>1, <3>2
  <2>8. LibrariesFit'
    <3>1. item'[j] # Absent => item'[j].owner = a
      BY <2>2, NewItemIs
    <3>2. \A k \in Items \ {j} : item'[k] # Absent => item[k] # Absent /\ item'[k].owner = item[k].owner
      BY <1>5, <2>2
    <3>. QED  BY <1>2, <2>4, <3>1, <3>2, LibrariesGrow
  <2>9. \A k \in Items : used'[k] >= used[k] /\ taken'[k] >= taken[k]
    BY <1>2, <2>3 DEF TemplatesShape
  <2>. QED  BY <1>2, <1>3, <2>4, <2>5, <2>7, <2>8, <2>9, LibraryKeeps
<1>. QED  BY <1>4, <1>5

LEMMA TemplatesInvNext ==
  ASSUME TemplatesInv, [TemplatesNext]_templateVars
  PROVE  TemplatesInv'
<1>1. CASE UNCHANGED templateVars
  BY <1>1 DEF templateVars, TemplatesInv, TemplatesShape, LockKept, Lagging, Browsing, DesignTrue, Unrated,
              ItemTrue, Counted, LibrariesFit, Library
<1>2. CASE MarketNext
  <2>1. ASSUME NEW d \in Designs, CreateDesign(d) \/ UpdateDesign(d) \/ DeleteDesign(d) PROVE TemplatesInv'
    BY <2>1, CreateDesignKeeps, ChangeDesignKeeps
  <2>2. ASSUME NEW d \in Designs, NEW v \in Clients, ReadDesign(v, d) \/ \E u \in Raters : LockDesign(v, d, u)
        PROVE  TemplatesInv'
    BY <2>2, BrowseKeeps, LockDesignKeeps
  <2>3. ASSUME NEW v \in Clients, UseDesign(v) \/ CountSystem(v) \/ SeedSystem(v) \/ \E stars \in Stars : Rate(v, stars)
        PROVE  TemplatesInv'
    BY <2>3, UseDesignKeeps, BrowseKeeps, SeedSystemKeeps, RateKeeps
  <2>. QED  BY <1>2, <2>1, <2>2, <2>3 DEF MarketNext
<1>3. CASE LibraryNext
  <2>1. ASSUME NEW i \in Items, DeleteItem(i) \/ Publish(i) \/ Unpublish(i) PROVE TemplatesInv'
    BY <2>1, ChangeItemKeeps
  <2>2. ASSUME NEW i \in Items, NEW v \in Clients, CreateItem(v, i) \/ Import(v, i) PROVE TemplatesInv'
    BY <2>2, CreateItemKeeps, ImportKeeps
  <2>3. ASSUME NEW i \in Items, NEW v \in Clients, ReadOwn(v, i) \/ \E a \in Authors : ReadPublished(v, i, a)
        PROVE  TemplatesInv'
    BY <2>3, BrowseKeeps
  <2>4. ASSUME NEW v \in Clients, UseItem(v) \/ \E a \in Authors : CountLibrary(v, a) PROVE TemplatesInv'
    BY <2>4, UseItemKeeps, BrowseKeeps
  <2>. QED  BY <1>3, <2>1, <2>2, <2>3, <2>4 DEF LibraryNext
<1>. QED  BY <1>1, <1>2, <1>3 DEF TemplatesNext

(* However requests overlap, a template's rating is the sum and number of  *)
(* its rows, its counters never run ahead, and counters, the limit of a    *)
(* library and the one set of the system's templates are out by no more    *)
(* than the requests that crossed (routers/marketplace.py,                 *)
(* routers/requester_templates.py).                                        *)
THEOREM TemplatesSound == TemplatesSpec => []TemplatesKept
<1>1. TemplatesInv /\ [TemplatesNext]_templateVars => TemplatesInv'
  BY TemplatesInvNext
<1>2. TemplatesInv => TemplatesKept
  BY RatingsKept
<1>. QED  BY TemplatesInvInit, <1>1, <1>2, PTL DEF TemplatesSpec

---------------------------------------------------------------------------
(* Experiments *)

TrialRow == [arm : Variants, outcome : Outcomes \cup {"none"}]
EnrollRow == [for : {"enroll"}, task : Trials, arm : Variants, seen : [Counters -> Nat]]
RecordRow == [for : {"record"}, task : Trials, outcome : Outcomes, arm : Variants, seen : [Counters -> Nat]]

ExperimentsShape ==
  /\ experiment \in [status : {"none", "draft", "running", "paused", "completed", "gone"},
                     started : BOOLEAN, ended : BOOLEAN]
  /\ arm \in [Variants -> [Counters -> Nat]]
  /\ trial \in [Trials -> TrialRow \cup {NotEnrolled}]
  /\ recorder \in [Recorders -> {NoRecorder} \cup EnrollRow \cup RecordRow]
  /\ recorded \in [Trials -> Seq(Outcomes)]

(* What a counter counts, and that it counts no more.                      *)
Told(a, c) == IF c = "participants" THEN Cardinality(Enrolled(a)) ELSE Recordings(a, c)
CountsTrue == \A a \in Variants, c \in Counters :
  arm[a][c] <= Told(a, c) /\ (<<a, c>> \notin overlaps => arm[a][c] = Told(a, c))

(* What a request read was counted by then.                                *)
ReadsBehind == \A r \in Recorders, c \in Counters, a \in Variants :
  recorder[r].for \in {"enroll", "record"} /\ recorder[r].arm = a => recorder[r].seen[c] <= Told(a, c)

(* The last outcome recorded of a task is the one its row has.             *)
LastTold == \A t \in Trials :
  IF trial[t] = NotEnrolled THEN recorded[t] = <<>>
  ELSE trial[t].outcome = IF recorded[t] = <<>> THEN "none" ELSE recorded[t][Len(recorded[t])]

(* Whose outcome is being recorded is enrolled where the request read.     *)
Enrolment == \A t \in Trials : trial[t] # NotEnrolled => Alive
RecordsEnrolled == \A r \in Recorders : recorder[r].for = "record" =>
  /\ trial[recorder[r].task] # NotEnrolled /\ trial[recorder[r].task].arm = recorder[r].arm

ExperimentInv ==
  /\ ExperimentsShape /\ Enrolment /\ RecordsEnrolled
  /\ experiment.status # "gone" => CountsTrue /\ ReadsBehind /\ LastTold

LEMMA EnrolledFinite == \A a : Enrolled(a) \in SUBSET Trials /\ IsFiniteSet(Enrolled(a)) /\ Cardinality(Enrolled(a)) \in Nat
<1>. SUFFICES ASSUME NEW a PROVE Enrolled(a) \in SUBSET Trials /\ IsFiniteSet(Enrolled(a)) /\ Cardinality(Enrolled(a)) \in Nat
  OBVIOUS
<1>1. Enrolled(a) \in SUBSET Trials
  BY DEF Enrolled
<1>. QED  BY <1>1, ExperimentsAssumption, FS_Subset, FS_CardinalityType

LEMMA RecordingsSum == \A a, c : Recordings(a, c) = SumOf(TimesRecorded(c), Enrolled(a))
BY DEF Recordings, SumOf

LEMMA RecordingsNext == \A a, c : Recordings(a, c)' = SumOf(TimesRecorded(c)', Enrolled(a)')
<1>1. (\A a, c : Recordings(a, c) = SumOf(TimesRecorded(c), Enrolled(a)))'
  BY RecordingsSum, PTL
<1>. QED  BY <1>1

Places(s, c) == {n \in DOMAIN s : s[n] = c}

LEMMA PlacesFinite ==
  ASSUME NEW s \in Seq(Outcomes), NEW c
  PROVE  IsFiniteSet(Places(s, c)) /\ Cardinality(Places(s, c)) \in Nat
<1>1. DOMAIN s = 1..Len(s) /\ IsFiniteSet(1..Len(s))
  BY FS_Interval
<1>. QED  BY <1>1, FS_Subset, FS_CardinalityType DEF Places

LEMMA TimesIs == ASSUME NEW c, NEW t \in Trials PROVE TimesRecorded(c)[t] = Cardinality(Places(recorded[t], c))
BY DEF TimesRecorded, Places

LEMMA TallyNat == ExperimentsShape => \A c : \A t \in Trials : TimesRecorded(c)[t] \in Nat
<1>. SUFFICES ASSUME ExperimentsShape, NEW c, NEW t \in Trials PROVE TimesRecorded(c)[t] \in Nat
  OBVIOUS
<1>1. recorded[t] \in Seq(Outcomes)
  BY DEF ExperimentsShape
<1>2. TimesRecorded(c)[t] = Cardinality(Places(recorded[t], c))
  BY TimesIs
<1>. QED  BY <1>1, <1>2, PlacesFinite

LEMMA ToldInt == ExperimentsShape => \A a, c : Told(a, c) \in Int /\ Recordings(a, c) \in Int
<1>. SUFFICES ASSUME ExperimentsShape, NEW a, NEW c PROVE Told(a, c) \in Int /\ Recordings(a, c) \in Int
  OBVIOUS
<1>1. \A t \in Enrolled(a) : TimesRecorded(c)[t] \in Int
  BY TallyNat, EnrolledFinite
<1>2. SumOf(TimesRecorded(c), Enrolled(a)) \in Int
  BY <1>1, EnrolledFinite, SumIsInt
<1>. QED  BY <1>2, EnrolledFinite, RecordingsSum DEF Told

(* Where no outcome is recorded twice the rows tell what the history does. *)
LEMMA RowsTell ==
  ASSUME ExperimentsShape, LastTold, NEW a \in Variants, NEW c \in Counters, c # "participants",
         \A t \in Enrolled(a) : Len(recorded[t]) <= 1
  PROVE  Recordings(a, c) = Cardinality({t \in Enrolled(a) : trial[t].outcome = c})
<1>. DEFINE f == TimesRecorded(c)
<1>1. ASSUME NEW t \in Enrolled(a) PROVE f[t] = IF trial[t].outcome = c THEN 1 ELSE 0
  <2>1. /\ t \in Trials /\ trial[t] # NotEnrolled /\ recorded[t] \in Seq(Outcomes) /\ Len(recorded[t]) <= 1
        /\ trial[t].outcome = IF recorded[t] = <<>> THEN "none" ELSE recorded[t][Len(recorded[t])]
    BY DEF Enrolled, ExperimentsShape, LastTold
  <2>. DEFINE S == Places(recorded[t], c)
  <2>2. f[t] = Cardinality(S)
    BY <2>1, TimesIs
  <2>3. CASE recorded[t] = <<>>
    <3>1. S = {} /\ trial[t].outcome # c
      BY <2>1, <2>3 DEF Counters, Places
    <3>. QED  BY <2>2, <3>1, FS_EmptySet
  <2>4. CASE recorded[t] # <<>>
    <3>1. Len(recorded[t]) = 1 /\ DOMAIN recorded[t] = {1} /\ trial[t].outcome = recorded[t][1]
      <4>1. Len(recorded[t]) \in Nat /\ Len(recorded[t]) # 0
        BY <2>1, <2>4
      <4>2. Len(recorded[t]) = 1
        <5>1. \A n \in Nat : n <= 1 /\ n # 0 => n = 1
          OBVIOUS
        <5>. QED  BY <2>1, <4>1, <5>1
      <4>3. DOMAIN recorded[t] = 1..1
        BY <2>1, <4>2
      <4>. QED  BY <2>1, <2>4, <4>2, <4>3
    <3>2. CASE trial[t].outcome = c
      <4>1. S = {1}
        BY <3>1, <3>2 DEF Places
      <4>. QED  BY <2>2, <3>2, <4>1, FS_Singleton
    <3>3. CASE trial[t].outcome # c
      <4>1. S = {}
        BY <3>1, <3>3 DEF Places
      <4>. QED  BY <2>2, <3>3, <4>1, FS_EmptySet
    <3>. QED  BY <3>2, <3>3
  <2>. QED  BY <2>3, <2>4
<1>. HIDE DEF f
<1>2. SumOf(f, Enrolled(a)) = Cardinality({t \in Enrolled(a) : f[t] = 1})
  <2>1. \A t \in Enrolled(a) : f[t] \in {0, 1}
    BY <1>1
  <2>. QED  BY <2>1, EnrolledFinite, SumCounts
<1>3. {t \in Enrolled(a) : f[t] = 1} = {t \in Enrolled(a) : trial[t].outcome = c}
  BY <1>1
<1>4. Recordings(a, c) = SumOf(f, Enrolled(a))
  BY RecordingsSum DEF f
<1>. QED  BY <1>2, <1>3, <1>4

LEMMA CountersTell == ASSUME ExperimentInv PROVE ExperimentKept
<1>. SUFFICES ASSUME Alive, NEW a \in Variants, NEW c \in Counters
     PROVE  /\ arm[a][c] <= Told(a, c)
            /\ <<a, c>> \notin overlaps => arm[a][c] = Told(a, c)
            /\ (c # "participants" /\ \A t \in Enrolled(a) : Len(recorded[t]) <= 1) =>
                 Told(a, c) = Cardinality({t \in Enrolled(a) : trial[t].outcome = c})
  BY DEF ExperimentKept, Told
<1>. QED  BY RowsTell DEF ExperimentInv, CountsTrue, Told, Alive

LEMMA ExperimentInvInit == ExperimentsInit => ExperimentInv
<1>. SUFFICES ASSUME ExperimentsInit PROVE ExperimentInv
  OBVIOUS
<1>. USE DEF ExperimentsInit
<1>1. ExperimentsShape /\ RecordsEnrolled /\ ReadsBehind /\ LastTold
  BY DEF ExperimentsShape, RecordsEnrolled, ReadsBehind, LastTold, NoRecorder
<1>2. CountsTrue
  <2>1. ASSUME NEW a \in Variants, NEW c \in Counters PROVE arm[a][c] = 0 /\ Told(a, c) = 0
    <3>1. Enrolled(a) = {}
      BY DEF Enrolled
    <3>2. Recordings(a, c) = 0
      BY <3>1, RecordingsSum, SumOfNone
    <3>. QED  BY <3>1, <3>2, FS_EmptySet DEF Told
  <2>. QED  BY <2>1 DEF CountsTrue
<1>. QED  BY <1>1, <1>2 DEF ExperimentInv, Enrolment

---------------------------------------------------------------------------
LEMMA RecorderKnown ==
  ASSUME ExperimentsShape, NEW r \in Recorders
  PROVE  /\ recorder[r].for = "enroll" => recorder[r] \in EnrollRow
         /\ recorder[r].for = "record" => recorder[r] \in RecordRow
BY DEF ExperimentsShape, EnrollRow, RecordRow, NoRecorder

LEMMA RecorderEnds ==
  ASSUME ExperimentsShape, NEW r \in Recorders, EndRecorder(r)
  PROVE  /\ recorder' \in [Recorders -> {NoRecorder} \cup EnrollRow \cup RecordRow]
         /\ recorder'[r] = NoRecorder /\ \A q \in Recorders \ {r} : recorder'[q] = recorder[q]
BY DEF ExperimentsShape, EndRecorder

(* Nothing that is counted moves.                                          *)
LEMMA ToldStays ==
  ASSUME trial' = trial, recorded' = recorded, NEW a, NEW c
  PROVE  Told(a, c)' = Told(a, c)
<1>1. Enrolled(a)' = Enrolled(a) /\ TimesRecorded(c)' = TimesRecorded(c)
  BY DEF Enrolled, TimesRecorded
<1>2. Recordings(a, c)' = SumOf(TimesRecorded(c)', Enrolled(a)')
  BY RecordingsNext
<1>. QED  BY <1>1, <1>2, RecordingsSum DEF Told

LEMMA StatusKeeps ==
  ASSUME ExperimentInv, CreateExperiment \/ \E status \in {"running", "paused", "completed"} : UpdateStatus(status)
  PROVE  ExperimentInv'
<1>. USE DEF ExperimentInv
<1>1. /\ arm' = arm /\ trial' = trial /\ recorder' = recorder /\ recorded' = recorded /\ overlaps' = overlaps
      /\ experiment.status # "gone" /\ Alive'
      /\ experiment' \in [status : {"none", "draft", "running", "paused", "completed", "gone"},
                           started : BOOLEAN, ended : BOOLEAN]
  BY DEF CreateExperiment, UpdateStatus, Alive, ExperimentsShape
<1>2. ExperimentsShape' /\ Enrolment' /\ RecordsEnrolled' /\ (experiment.status # "gone" => LastTold')
  BY <1>1 DEF ExperimentsShape, Enrolment, RecordsEnrolled, LastTold
<1>3. CountsTrue' /\ ReadsBehind'
  BY <1>1, ToldStays DEF CountsTrue, ReadsBehind
<1>. QED  BY <1>1, <1>2, <1>3

LEMMA DeleteKeeps ==
  ASSUME ExperimentInv, DeleteExperiment
  PROVE  ExperimentInv'
<1>1. /\ arm' = arm /\ recorder' = recorder /\ recorded' = recorded /\ overlaps' = overlaps
      /\ trial' = [t \in Trials |-> NotEnrolled]
      /\ experiment' = [experiment EXCEPT !.status = "gone"]
      /\ \A r \in Recorders : recorder[r].for # "record"
  BY DEF DeleteExperiment
<1>2. ExperimentsShape' /\ Enrolment' /\ RecordsEnrolled'
  BY <1>1 DEF ExperimentInv, ExperimentsShape, Enrolment, RecordsEnrolled
<1>3. experiment'.status = "gone"
  BY <1>1 DEF ExperimentInv, ExperimentsShape
<1>. QED  BY <1>2, <1>3 DEF ExperimentInv

(* A request reads: what it read is what is counted by then at most.       *)
LEMMA ReadKept ==
  ASSUME ExperimentInv, NEW r \in Recorders, NEW row \in EnrollRow \cup RecordRow,
         recorder' = [recorder EXCEPT ![r] = row], row.seen = arm[row.arm],
         UNCHANGED <<experiment, arm, trial, recorded, overlaps>>,
         row.for = "record" => trial[row.task] # NotEnrolled /\ trial[row.task].arm = row.arm
  PROVE  ExperimentInv'
<1>. USE DEF ExperimentInv
<1>1. /\ recorder' \in [Recorders -> {NoRecorder} \cup EnrollRow \cup RecordRow]
      /\ recorder'[r] = row /\ \A q \in Recorders \ {r} : recorder'[q] = recorder[q]
  BY DEF ExperimentsShape
<1>2. ExperimentsShape'
  BY <1>1 DEF ExperimentsShape
<1>3. RecordsEnrolled' /\ Enrolment'
  BY <1>1 DEF RecordsEnrolled, Enrolment, Alive
<1>4. ASSUME experiment.status # "gone" PROVE CountsTrue' /\ ReadsBehind' /\ LastTold'
  <2>1. CountsTrue' /\ LastTold'
    BY <1>4, ToldStays DEF CountsTrue, LastTold
  <2>2. row.arm \in Variants
    BY DEF EnrollRow, RecordRow
  <2>3. \A c \in Counters : row.seen[c] <= Told(row.arm, c)
    BY <1>4, <2>2 DEF CountsTrue
  <2>4. ReadsBehind'
    <3>. SUFFICES ASSUME NEW q \in Recorders, NEW c \in Counters, NEW a \in Variants,
                         recorder'[q].for \in {"enroll", "record"}, recorder'[q].arm = a
         PROVE  recorder'[q].seen[c] <= Told(a, c)'
      BY DEF ReadsBehind
    <3>1. Told(a, c)' = Told(a, c)
      BY ToldStays
    <3>2. CASE q = r
      BY <1>1, <2>3, <3>1, <3>2
    <3>3. CASE q # r
      BY <1>1, <1>4, <3>1, <3>3 DEF ReadsBehind
    <3>. QED  BY <3>2, <3>3
  <2>. QED  BY <2>1, <2>4
<1>. QED  BY <1>2, <1>3, <1>4

LEMMA ReadArmsKeeps ==
  ASSUME ExperimentInv, NEW r \in Recorders, NEW t \in Trials, ReadArms(r, t)
  PROVE  ExperimentInv'
<1>1. PICK a \in Variants : recorder' = [recorder EXCEPT ![r] = [for |-> "enroll", task |-> t, arm |-> a, seen |-> arm[a]]]
  BY DEF ReadArms
<1>. DEFINE row == [for |-> "enroll", task |-> t, arm |-> a, seen |-> arm[a]]
<1>2. row \in EnrollRow /\ row.seen = arm[row.arm] /\ row.for # "record"
  BY DEF EnrollRow, ExperimentInv, ExperimentsShape
<1>3. recorder' = [recorder EXCEPT ![r] = row] /\ UNCHANGED <<experiment, arm, trial, recorded, overlaps>>
  BY <1>1 DEF ReadArms
<1>. HIDE DEF row
<1>. QED  BY <1>2, <1>3, ReadKept

LEMMA BeginRecordKeeps ==
  ASSUME ExperimentInv, NEW r \in Recorders, NEW t \in Trials, NEW o \in Outcomes, BeginRecord(r, t, o)
  PROVE  ExperimentInv'
<1>. DEFINE row == [for |-> "record", task |-> t, outcome |-> o, arm |-> trial[t].arm, seen |-> arm[trial[t].arm]]
<1>1. trial[t] # NotEnrolled /\ trial[t] \in TrialRow
  BY DEF BeginRecord, ExperimentInv, ExperimentsShape
<1>2. row \in RecordRow /\ row.seen = arm[row.arm] /\ row.task = t /\ row.arm = trial[t].arm
  BY <1>1 DEF RecordRow, TrialRow, ExperimentInv, ExperimentsShape
<1>3. recorder' = [recorder EXCEPT ![r] = row] /\ UNCHANGED <<experiment, arm, trial, recorded, overlaps>>
  BY DEF BeginRecord
<1>. HIDE DEF row
<1>. QED  BY <1>1, <1>2, <1>3, ReadKept

(* What a counter counts grows by one, and the counter is written one      *)
(* above what was read: as it should, unless another wrote it since.       *)
LEMMA CountKeepsTrue ==
  ASSUME ExperimentsShape, CountsTrue, NEW a \in Variants, NEW c \in Counters, NEW seen \in Nat,
         seen <= Told(a, c), Count(a, c, seen), Told(a, c)' = Told(a, c) + 1,
         \A b \in Variants, d \in Counters : <<b, d>> # <<a, c>> => Told(b, d)' = Told(b, d)
  PROVE  arm' \in [Variants -> [Counters -> Nat]] /\ CountsTrue'
<1>1. /\ arm' \in [Variants -> [Counters -> Nat]] /\ arm'[a][c] = seen + 1
      /\ \A b \in Variants, d \in Counters : <<b, d>> # <<a, c>> => arm'[b][d] = arm[b][d]
  BY DEF Count, ExperimentsShape
<1>2. overlaps' = IF arm[a][c] = seen THEN overlaps ELSE overlaps \cup {<<a, c>>}
  BY DEF Count
<1>3. Told(a, c) \in Int /\ arm[a][c] \in Nat
  BY ToldInt DEF ExperimentsShape
<1>4. ASSUME NEW b \in Variants, NEW d \in Counters
      PROVE  arm'[b][d] <= Told(b, d)' /\ (<<b, d>> \notin overlaps' => arm'[b][d] = Told(b, d)')
  <2>1. CASE <<b, d>> # <<a, c>>
    BY <1>1, <1>2, <2>1 DEF CountsTrue
  <2>2. CASE <<b, d>> = <<a, c>>
    <3>1. b = a /\ d = c
      BY <2>2
    <3>2. arm'[a][c] <= Told(a, c)'
      BY <1>1, <1>3
    <3>3. <<a, c>> \notin overlaps' => arm[a][c] = seen /\ arm[a][c] = Told(a, c)
      BY <1>2 DEF CountsTrue
    <3>. QED  BY <1>1, <3>1, <3>2, <3>3
  <2>. QED  BY <2>1, <2>2
<1>. QED  BY <1>1, <1>4 DEF CountsTrue

LEMMA ReadsStayBehind ==
  ASSUME ExperimentsShape, ReadsBehind, NEW r \in Recorders, EndRecorder(r),
         \A a \in Variants, c \in Counters : Told(a, c)' \in {Told(a, c), Told(a, c) + 1}
  PROVE  ReadsBehind'
<1>. SUFFICES ASSUME NEW q \in Recorders, NEW c \in Counters, NEW a \in Variants,
                     recorder'[q].for \in {"enroll", "record"}, recorder'[q].arm = a
     PROVE  recorder'[q].seen[c] <= Told(a, c)'
  BY DEF ReadsBehind
<1>1. q # r /\ recorder'[q] = recorder[q]
  BY RecorderEnds DEF NoRecorder
<1>2. recorder[q].seen[c] <= Told(a, c)
  BY <1>1 DEF ReadsBehind
<1>3. recorder[q].seen[c] \in Nat
  BY <1>1, RecorderKnown DEF EnrollRow, RecordRow
<1>4. Told(a, c) \in Int /\ Told(a, c)' \in {Told(a, c), Told(a, c) + 1}
  BY ToldInt
<1>. QED  BY <1>1, <1>2, <1>3, <1>4

LEMMA RecordersStay ==
  ASSUME RecordsEnrolled, NEW r \in Recorders, EndRecorder(r), ExperimentsShape,
         \A t \in Trials : trial[t] # NotEnrolled => trial'[t] # NotEnrolled /\ trial'[t].arm = trial[t].arm
  PROVE  RecordsEnrolled'
<1>. SUFFICES ASSUME NEW q \in Recorders, recorder'[q].for = "record"
     PROVE  trial'[recorder'[q].task] # NotEnrolled /\ trial'[recorder'[q].task].arm = recorder'[q].arm
  BY DEF RecordsEnrolled
<1>1. recorder'[q] = recorder[q]
  BY RecorderEnds DEF NoRecorder
<1>2. recorder[q].task \in Trials
  BY <1>1, RecorderKnown DEF RecordRow
<1>. QED  BY <1>1, <1>2 DEF RecordsEnrolled

LEMMA EndsKeep ==
  ASSUME ExperimentInv, NEW r \in Recorders, EndRecorder(r), UNCHANGED <<experiment, arm, trial, recorded, overlaps>>
  PROVE  ExperimentInv'
<1>. USE DEF ExperimentInv
<1>1. ExperimentsShape' /\ Enrolment'
  BY RecorderEnds DEF ExperimentsShape, Enrolment, Alive
<1>2. RecordsEnrolled'
  BY RecordersStay
<1>3. ASSUME experiment.status # "gone" PROVE CountsTrue' /\ ReadsBehind' /\ LastTold'
  <2>1. \A a, c : Told(a, c)' = Told(a, c)
    BY ToldStays
  <2>. QED  BY <1>3, <2>1, ReadsStayBehind DEF CountsTrue, LastTold
<1>. QED  BY <1>1, <1>2, <1>3

LEMMA EnrollKeeps ==
  ASSUME ExperimentInv, NEW r \in Recorders, EnrollTask(r)
  PROVE  ExperimentInv'
<1>. USE DEF ExperimentInv
<1>1. PICK t \in Trials, a \in Variants, seen \in [Counters -> Nat] :
        recorder[r].task = t /\ recorder[r].arm = a /\ recorder[r].seen = seen
  BY RecorderKnown DEF EnrollTask, EnrollRow
<1>2. EndRecorder(r) /\ recorder[r].for = "enroll" /\ experiment' = experiment /\ recorded' = recorded
  BY DEF EnrollTask
<1>3. CASE ~(Alive /\ Unique(t))
  <2>1. UNCHANGED <<arm, trial, overlaps>>
    BY <1>1, <1>3 DEF EnrollTask
  <2>. QED  BY <1>2, <2>1, EndsKeep
<1>4. CASE Alive /\ Unique(t)
  <2>. DEFINE row == [arm |-> a, outcome |-> "none"]  p == "participants"
  <2>1. /\ trial[t] = NotEnrolled /\ experiment.status # "gone"
        /\ trial' = [trial EXCEPT ![t] = row]
        /\ Count(a, p, seen[p])
    BY <1>1, <1>4 DEF EnrollTask, Unique, Alive
  <2>2. row \in TrialRow /\ row # NotEnrolled /\ row.arm = a /\ row.outcome = "none"
    BY ExperimentsAssumption DEF TrialRow
  <2>. HIDE DEF row
  <2>3. /\ trial' \in [Trials -> TrialRow \cup {NotEnrolled}] /\ trial'[t] = row
        /\ \A k \in Trials \ {t} : trial'[k] = trial[k]
    BY <2>1, <2>2 DEF ExperimentsShape
  <2>4. ASSUME NEW b PROVE Enrolled(b)' = IF b = a THEN Enrolled(b) \cup {t} ELSE Enrolled(b)
    <3>1. \A k \in Trials : k \in Enrolled(b)' <=> k \in Enrolled(b) \/ (b = a /\ k = t)
      BY <2>1, <2>2, <2>3 DEF Enrolled
    <3>2. Enrolled(b)' \in SUBSET Trials /\ Enrolled(b) \in SUBSET Trials
      BY DEF Enrolled
    <3>. QED  BY <3>1, <3>2
  <2>5. t \notin Enrolled(a)
    BY <2>1 DEF Enrolled
  <2>6. recorded[t] = <<>>
    BY <2>1 DEF LastTold
  <2>7. Told(a, p)' = Told(a, p) + 1
    <3>1. Cardinality(Enrolled(a) \cup {t}) = Cardinality(Enrolled(a)) + 1
      BY <2>5, EnrolledFinite, FS_AddElement
    <3>. QED  BY <2>4, <3>1 DEF Told
  <2>8. ASSUME NEW b \in Variants, NEW c \in Counters, <<b, c>> # <<a, p>> PROVE Told(b, c)' = Told(b, c)
    <3>1. TimesRecorded(c)' = TimesRecorded(c)
      BY <1>2 DEF TimesRecorded
    <3>2. Recordings(b, c)' = SumOf(TimesRecorded(c), Enrolled(b)')
      BY <3>1, RecordingsNext
    <3>3. TimesRecorded(c)[t] = 0
      <4>1. Places(recorded[t], c) = {}
        BY <2>6 DEF Places
      <4>. QED  BY <4>1, FS_EmptySet, TimesIs
    <3>4. CASE b = a
      <4>1. \A k \in Enrolled(a) \cup {t} : TimesRecorded(c)[k] \in Int
        BY TallyNat, EnrolledFinite
      <4>2. SumOf(TimesRecorded(c), Enrolled(a) \cup {t}) = SumOf(TimesRecorded(c), Enrolled(a)) + TimesRecorded(c)[t]
        BY <2>5, <4>1, EnrolledFinite, SumGrows
      <4>3. Recordings(a, c) = SumOf(TimesRecorded(c), Enrolled(a)) /\ Recordings(a, c) \in Int
        BY RecordingsSum, ToldInt
      <4>4. c # p
        BY <2>8, <3>4
      <4>5. Recordings(a, c)' = Recordings(a, c)
        <5>1. Recordings(a, c)' = SumOf(TimesRecorded(c), Enrolled(a) \cup {t})
          BY <2>4, <3>2, <3>4
        <5>2. Recordings(a, c) = Recordings(a, c) + 0
          BY <4>3
        <5>. QED  BY <3>3, <4>2, <4>3, <5>1, <5>2
      <4>. QED  BY <3>4, <4>4, <4>5 DEF Told
    <3>5. CASE b # a
      <4>1. Enrolled(b)' = Enrolled(b)
        BY <2>4, <3>5
      <4>. QED  BY <3>2, <4>1, RecordingsSum DEF Told
    <3>. QED  BY <3>4, <3>5
  <2>9. seen[p] \in Nat /\ p \in Counters /\ seen[p] <= Told(a, p)
    BY <1>1, <1>2, <2>1 DEF Counters, ReadsBehind
  <2>10. arm' \in [Variants -> [Counters -> Nat]] /\ CountsTrue'
    BY <2>1, <2>7, <2>8, <2>9, CountKeepsTrue
  <2>11. ReadsBehind'
    <3>1. \A b \in Variants, c \in Counters : Told(b, c)' \in {Told(b, c), Told(b, c) + 1}
      BY <2>7, <2>8
    <3>. QED  BY <1>2, <2>1, <3>1, ReadsStayBehind
  <2>12. LastTold'
    BY <1>2, <2>1, <2>2, <2>3, <2>6 DEF LastTold
  <2>13. RecordsEnrolled'
    BY <1>2, <2>1, <2>3, RecordersStay
  <2>14. Enrolment'
    BY <1>2, <1>4 DEF Enrolment, Alive
  <2>15. ExperimentsShape'
    BY <1>2, <2>3, <2>10, RecorderEnds DEF ExperimentsShape
  <2>. QED  BY <2>10, <2>11, <2>12, <2>13, <2>14, <2>15
<1>. QED  BY <1>3, <1>4

LEMMA AppendTells ==
  ASSUME NEW s \in Seq(Outcomes), NEW o \in Outcomes, NEW c
  PROVE  Cardinality(Places(Append(s, o), c)) = Cardinality(Places(s, c)) + (IF c = o THEN 1 ELSE 0)
<1>. DEFINE S == Places(s, c)  T == Places(Append(s, o), c)
<1>1. DOMAIN s = 1..Len(s) /\ Len(s) \in Nat
      /\ DOMAIN Append(s, o) = 1..(Len(s) + 1) /\ Append(s, o)[Len(s) + 1] = o
      /\ \A n \in 1..Len(s) : Append(s, o)[n] = s[n]
  OBVIOUS
<1>2. T = IF c = o THEN S \cup {Len(s) + 1} ELSE S
  BY <1>1 DEF Places
<1>3. Len(s) + 1 \notin S
  BY <1>1 DEF Places
<1>4. IsFiniteSet(S) /\ Cardinality(S) \in Nat
  BY PlacesFinite
<1>. HIDE DEF S, T
<1>5. Cardinality(T) = Cardinality(S) + (IF c = o THEN 1 ELSE 0)
  <2>1. Cardinality(S \cup {Len(s) + 1}) = Cardinality(S) + 1
    BY <1>3, <1>4, FS_AddElement
  <2>2. Cardinality(S) = Cardinality(S) + 0
    BY <1>4
  <2>. QED  BY <1>2, <2>1, <2>2
<1>. QED  BY <1>5 DEF S, T

LEMMA RecordKeeps ==
  ASSUME ExperimentInv, NEW r \in Recorders, RecordOutcome(r)
  PROVE  ExperimentInv'
<1>. USE DEF ExperimentInv
<1>1. PICK t \in Trials, a \in Variants, o \in Outcomes, seen \in [Counters -> Nat] :
        recorder[r].task = t /\ recorder[r].arm = a /\ recorder[r].outcome = o /\ recorder[r].seen = seen
  BY RecorderKnown DEF RecordOutcome, RecordRow
<1>2. /\ EndRecorder(r) /\ recorder[r].for = "record" /\ experiment' = experiment
      /\ trial' = [trial EXCEPT ![t].outcome = o]
      /\ recorded' = [recorded EXCEPT ![t] = Append(@, o)]
      /\ IF o \in Counters THEN Count(a, o, seen[o]) ELSE UNCHANGED <<arm, overlaps>>
  BY <1>1 DEF RecordOutcome
<1>3. trial[t] # NotEnrolled /\ trial[t].arm = a /\ trial[t] \in TrialRow /\ experiment.status # "gone"
  BY <1>1, <1>2 DEF RecordsEnrolled, ExperimentsShape, Enrolment, Alive
<1>4. /\ trial' \in [Trials -> TrialRow \cup {NotEnrolled}]
      /\ trial'[t] \in TrialRow /\ trial'[t].arm = a /\ trial'[t].outcome = o
      /\ \A k \in Trials \ {t} : trial'[k] = trial[k]
  BY <1>2, <1>3 DEF ExperimentsShape, TrialRow
<1>5. trial'[t] # NotEnrolled
  BY <1>4, ExperimentsAssumption DEF TrialRow
<1>6. /\ recorded' \in [Trials -> Seq(Outcomes)] /\ recorded'[t] = Append(recorded[t], o)
      /\ recorded[t] \in Seq(Outcomes)
      /\ \A k \in Trials \ {t} : recorded'[k] = recorded[k]
  BY <1>2 DEF ExperimentsShape
<1>7. \A b : Enrolled(b)' = Enrolled(b)
  BY <1>3, <1>4, <1>5 DEF Enrolled
<1>8. ASSUME NEW c
      PROVE  TimesRecorded(c)'[t] = TimesRecorded(c)[t] + (IF c = o THEN 1 ELSE 0) /\ \A k \in Trials \ {t} : TimesRecorded(c)'[k] = TimesRecorded(c)[k]
  <2>1. \A k \in Trials : TimesRecorded(c)[k] = Cardinality(Places(recorded[k], c)) /\ TimesRecorded(c)'[k] = Cardinality(Places(recorded'[k], c))
    BY DEF TimesRecorded, Places
  <2>2. Cardinality(Places(Append(recorded[t], o), c)) = Cardinality(Places(recorded[t], c)) + (IF c = o THEN 1 ELSE 0)
    BY <1>6, AppendTells
  <2>. QED  BY <1>6, <2>1, <2>2
<1>9. ASSUME NEW b \in Variants, NEW c \in Counters
      PROVE  Told(b, c)' = IF b = a /\ c = o THEN Told(b, c) + 1 ELSE Told(b, c)
  <2>. DEFINE f == TimesRecorded(c)  h == TimesRecorded(c)'
  <2>1. Recordings(b, c) = SumOf(f, Enrolled(b)) /\ Recordings(b, c)' = SumOf(h, Enrolled(b)) /\ Recordings(b, c) \in Int
    BY <1>7, RecordingsSum, RecordingsNext, ToldInt
  <2>2. /\ \A k \in Trials : f[k] \in Int
        /\ h[t] = f[t] + (IF c = o THEN 1 ELSE 0) /\ \A k \in Trials \ {t} : h[k] = f[k]
    BY <1>8, TallyNat
  <2>. HIDE DEF f, h
  <2>3. CASE b = a
    <3>1. t \in Enrolled(a) /\ Enrolled(a) \in SUBSET Trials
      BY <1>3, EnrolledFinite DEF Enrolled
    <3>2. /\ \A k \in Enrolled(a) : f[k] \in Int
          /\ h[t] \in Int /\ \A k \in Enrolled(a) \ {t} : h[k] = f[k]
      BY <2>2, <3>1
    <3>3. SumOf(h, Enrolled(a)) = SumOf(f, Enrolled(a)) - f[t] + h[t]
      BY <3>1, <3>2, EnrolledFinite, SumMoves
    <3>4. Recordings(b, c)' = IF c = o THEN Recordings(b, c) + 1 ELSE Recordings(b, c)
      BY <2>1, <2>2, <2>3, <3>3
    <3>5. o # "participants"
      BY DEF Outcomes
    <3>. QED  BY <1>7, <2>3, <3>4, <3>5 DEF Told
  <2>4. CASE b # a
    <3>1. t \notin Enrolled(b) /\ Enrolled(b) \in SUBSET Trials
      BY <1>3, <2>4, EnrolledFinite DEF Enrolled
    <3>2. \A k \in Enrolled(b) : f[k] = h[k]
      BY <2>2, <3>1
    <3>3. SumOf(f, Enrolled(b)) = SumOf(h, Enrolled(b))
      BY <3>2, EnrolledFinite, SumAgrees
    <3>. QED  BY <1>7, <2>1, <2>4, <3>3 DEF Told
  <2>. QED  BY <2>3, <2>4
<1>10. arm' \in [Variants -> [Counters -> Nat]] /\ CountsTrue'
  <2>1. CASE o \in Counters
    <3>1. seen[o] \in Nat /\ seen[o] <= Told(a, o)
      BY <1>1, <1>2, <1>3, <2>1 DEF ReadsBehind
    <3>2. Told(a, o)' = Told(a, o) + 1
      BY <1>9, <2>1
    <3>3. \A b \in Variants, d \in Counters : <<b, d>> # <<a, o>> => Told(b, d)' = Told(b, d)
      BY <1>9
    <3>. QED  BY <1>2, <1>3, <2>1, <3>1, <3>2, <3>3, CountKeepsTrue
  <2>2. CASE o \notin Counters
    <3>1. \A b \in Variants, d \in Counters : Told(b, d)' = Told(b, d)
      BY <1>9, <2>2
    <3>. QED  BY <1>2, <1>3, <2>2, <3>1 DEF CountsTrue, ExperimentsShape
  <2>. QED  BY <2>1, <2>2
<1>11. ReadsBehind'
  <2>1. \A b \in Variants, c \in Counters : Told(b, c)' \in {Told(b, c), Told(b, c) + 1}
    BY <1>9
  <2>. QED  BY <1>2, <1>3, <2>1, ReadsStayBehind
<1>12. LastTold'
  <2>1. recorded'[t] # <<>> /\ recorded'[t][Len(recorded'[t])] = o
    BY <1>6
  <2>2. \A k \in Trials \ {t} : trial'[k] = trial[k] /\ recorded'[k] = recorded[k]
    BY <1>4, <1>6
  <2>. QED  BY <1>3, <1>4, <1>5, <2>1, <2>2 DEF LastTold
<1>13. RecordsEnrolled'
  BY <1>2, <1>3, <1>4, <1>5, RecordersStay
<1>14. Enrolment'
  BY <1>2, <1>3, <1>4 DEF Enrolment, Alive
<1>15. ExperimentsShape'
  BY <1>2, <1>4, <1>6, <1>10, RecorderEnds DEF ExperimentsShape
<1>. QED  BY <1>10, <1>11, <1>12, <1>13, <1>14, <1>15

LEMMA ExperimentInvNext ==
  ASSUME ExperimentInv, [ExperimentsNext]_experimentVars
  PROVE  ExperimentInv'
<1>1. CASE UNCHANGED experimentVars
  <2>1. /\ experiment' = experiment /\ arm' = arm /\ trial' = trial /\ recorder' = recorder
        /\ recorded' = recorded /\ overlaps' = overlaps
    BY <1>1 DEF experimentVars
  <2>2. \A a, c : Told(a, c)' = Told(a, c)
    BY <2>1, ToldStays
  <2>. QED  BY <2>1, <2>2 DEF ExperimentInv, ExperimentsShape, Enrolment, RecordsEnrolled, Alive,
                              CountsTrue, ReadsBehind, LastTold
<1>2. ASSUME NEW r \in Recorders, RecorderDies(r) PROVE ExperimentInv'
  BY <1>2, EndsKeep DEF RecorderDies
<1>. QED  BY <1>1, <1>2, StatusKeeps, DeleteKeeps, ReadArmsKeeps, BeginRecordKeeps, EnrollKeeps, RecordKeeps
          DEF ExperimentsNext

(* While an experiment exists its counters never exceed the participants   *)
(* and recorded outcomes, and fall behind only where two requests wrote the *)
(* same counter; they equal the participants' rows where no outcome was    *)
(* recorded twice (enroll_task and record_outcome of                       *)
(* routers/experiments.py).                                                *)
THEOREM ExperimentsSound == ExperimentsSpec => []ExperimentKept
<1>1. ExperimentInv /\ [ExperimentsNext]_experimentVars => ExperimentInv'
  BY ExperimentInvNext
<1>2. ExperimentInv => ExperimentKept
  BY CountersTell
<1>. QED  BY ExperimentInvInit, <1>1, <1>2, PTL DEF ExperimentsSpec

---------------------------------------------------------------------------
(* Talk *)

CommentRow == [is : {"none", "there", "gone"}, parent : Comments \cup {Nil}, fresh : BOOLEAN, edited : BOOLEAN]
MessageRow == [to : Parties, read : BOOLEAN, notice : {"unread", "read", "gone"}]
SearchRow == [is : {"none", "there", "gone"}, user : Seekers \cup {Nil}, instant : BOOLEAN, matches : Nat]

(* A request to comment has left room for its comment.                     *)
CommentsInv ==
  /\ comment \in [Comments -> CommentRow]
  /\ \A c \in Thread : comment[c].parent = Nil \/ comment[c].parent \in Thread
  /\ Cardinality(Thread) <= MaxComments + crossed
  /\ \A c \in Comments : comment[c].is = "gone" =>
       \E r \in removed : r.of = c \/ (crossed > 0 /\ c \in r.late)
  /\ \A p \in Posts : For(p, "comment") =>
       post[p].parent \in Comments \cup {Nil} /\ Cardinality(post[p].seen) < MaxComments
  /\ \A p \in Posts : For(p, "delete") => post[p].of \in Comments

(* What an answer holds has been sent.                                     *)
MessagesInv ==
  /\ message \in [Messages -> MessageRow \cup {Nil}]
  /\ \A m \in Messages : message[m] # Nil /\ message[m].read => m \in answered
  /\ \A p \in Posts : For(p, "read") => \A m \in post[p].seen : m \in Messages /\ message[m] # Nil

(* Whoever is about to alert about a task is alone in it, has found nobody *)
(* alerted and one search of each user, and read what was counted by then. *)
Alerting(p) ==
  /\ post[p].task \in Created /\ DOMAIN post[p].seen \subseteq Searches
  /\ \A u \in Seekers : /\ alerted[post[p].task][u] = 0
                        /\ Cardinality({s \in DOMAIN post[p].seen : post[p].seen[s].user = u}) \in {0, 1}
  /\ \A s \in DOMAIN post[p].seen : post[p].seen[s].matches \in 0..matched[s]
SearchesInv ==
  /\ search \in [Searches -> SearchRow]
  /\ matched \in [Searches -> Nat] /\ alerted \in [Created -> [Seekers -> {0, 1}]]
  /\ \A s \in Searches : search[s].is = "none" => matched[s] = 0
  /\ \A s \in Searches : Saved(s) =>
       search[s].matches <= matched[s] /\ (crossed = 0 => search[s].matches = matched[s])
  /\ \A u \in Seekers : Cardinality(SearchesOf(u)) <= MaxSearches + crossed
  /\ \A p \in Posts : For(p, "save") => post[p].who \in Seekers /\ Cardinality(post[p].seen) < MaxSearches
  /\ \A p \in Posts : For(p, "alert") => Alerting(p)
  /\ \A p, q \in Posts : For(p, "alert") /\ For(q, "alert") /\ post[p].task = post[q].task => p = q

(* Notices to be written are due and not written.                          *)
Noticing == {p \in Posts : For(p, "notice")}
DisputesInv ==
  /\ dispute \in [open : BOOLEAN, mediated : Nat, evidence : Nat, events : Nat]
  /\ dispute.events = dispute.evidence + dispute.mediated
  /\ told \in [due : Nat, written : Nat] /\ told.written + Cardinality(Noticing) <= told.due

TalkInv == DOMAIN post = Posts /\ crossed \in Nat /\ CommentsInv /\ MessagesInv /\ SearchesInv /\ DisputesInv

(* What the steps have in common: what a request is for changes one at a   *)
(* time, and no write in ignorance of another is taken back.               *)
Turns(kinds) == DOMAIN post' = Posts /\ \A p \in Posts : post'[p] = post[p] \/ post'[p].for \notin kinds
Onward == crossed' \in Nat /\ crossed' >= crossed

LEMMA PostTurns ==
  ASSUME DOMAIN post = Posts, NEW p \in Posts, NEW r, post' = [post EXCEPT ![p] = r],
         NEW kinds, r.for \notin kinds
  PROVE  Turns(kinds)
BY DEF Turns

LEMMA PostStays == ASSUME DOMAIN post = Posts, post' = post, NEW kinds PROVE Turns(kinds)
BY DEF Turns

LEMMA Crossed ==
  ASSUME crossed \in Nat, NEW changed \in BOOLEAN, Crossing(changed)
  PROVE  Onward /\ (changed => crossed' = crossed + 1) /\ (~changed => crossed' = crossed)
BY DEF Crossing, Onward

LEMMA OneMember ==
  ASSUME NEW S, IsFiniteSet(S), NEW c
  PROVE  /\ Cardinality(S) \in Nat /\ Cardinality(S \cup {c}) \in Nat
         /\ Cardinality(S \cup {c}) <= Cardinality(S) + 1
<1>1. IsFiniteSet(S \cup {c})
  BY FS_AddElement
<1>2. Cardinality(S) \in Nat /\ Cardinality(S \cup {c}) \in Nat
  BY <1>1, FS_CardinalityType
<1>3. Cardinality(S \cup {c}) = Cardinality(S) \/ Cardinality(S \cup {c}) = Cardinality(S) + 1
  BY FS_AddElement
<1>. QED  BY <1>2, <1>3

LEMMA OthersKeepComments ==
  ASSUME TalkInv, Onward, Turns({"comment", "delete"}), comment' = comment, removed' = removed
  PROVE  CommentsInv'
<1>. USE DEF TalkInv
<1>1. Thread' = Thread
  BY DEF Thread, Live
<1>2. Cardinality(Thread) <= MaxComments + crossed'
  <2>1. Thread \in SUBSET Comments
    BY DEF Thread
  <2>2. Cardinality(Thread) \in Nat /\ MaxComments \in Nat
    BY <2>1, TalkAssumption, FS_Subset, FS_CardinalityType
  <2>. QED  BY <2>2 DEF CommentsInv, Onward
<1>3. \A p \in Posts : For(p, "comment")' \/ For(p, "delete")' => post'[p] = post[p]
  BY DEF For, Turns
<1>4. \A p \in Posts : For(p, "comment")' => post'[p].parent \in Comments \cup {Nil} /\ Cardinality(post'[p].seen) < MaxComments
  BY <1>3 DEF CommentsInv, For
<1>5. \A p \in Posts : For(p, "delete")' => post'[p].of \in Comments
  BY <1>3 DEF CommentsInv, For
<1>6. crossed > 0 => crossed' > 0
  BY DEF Onward
<1>. QED  BY <1>1, <1>2, <1>4, <1>5, <1>6 DEF CommentsInv

LEMMA OthersKeepMessages ==
  ASSUME TalkInv, Turns({"read"}), message' = message, answered' = answered
  PROVE  MessagesInv'
<1>1. \A p \in Posts : For(p, "read")' => For(p, "read") /\ post'[p] = post[p]
  BY DEF For, Turns
<1>. QED  BY <1>1 DEF MessagesInv, TalkInv

LEMMA OthersKeepSearches ==
  ASSUME TalkInv, Onward, Turns({"save", "alert"}), search' = search, matched' = matched, alerted' = alerted
  PROVE  SearchesInv'
<1>. USE DEF TalkInv
<1>1. \A u : SearchesOf(u)' = SearchesOf(u)
  BY DEF SearchesOf, Saved
<1>2. \A u \in Seekers : Cardinality(SearchesOf(u)') <= MaxSearches + crossed'
  <2>1. TAKE u \in Seekers
  <2>2. SearchesOf(u) \in SUBSET Searches
    BY DEF SearchesOf
  <2>3. Cardinality(SearchesOf(u)) \in Nat /\ MaxSearches \in Nat
    BY <2>2, TalkAssumption, FS_Subset, FS_CardinalityType
  <2>4. Cardinality(SearchesOf(u)) <= MaxSearches + crossed
    BY DEF SearchesInv
  <2>. QED  BY <1>1, <2>3, <2>4 DEF Onward
<1>3. \A p \in Posts : For(p, "save")' \/ For(p, "alert")' => post'[p] = post[p]
  BY DEF For, Turns
<1>4. \A p \in Posts : For(p, "save")' => post'[p].who \in Seekers /\ Cardinality(post'[p].seen) < MaxSearches
  BY <1>3 DEF SearchesInv, For
<1>5. \A p \in Posts : For(p, "alert")' => For(p, "alert") /\ Alerting(p)'
  <2>. SUFFICES ASSUME NEW p \in Posts, For(p, "alert")' PROVE For(p, "alert") /\ Alerting(p)'
    OBVIOUS
  <2>1. post'[p] = post[p] /\ For(p, "alert")
    BY <1>3 DEF For
  <2>2. Alerting(p)
    BY <2>1 DEF SearchesInv
  <2>. QED  BY <2>1, <2>2 DEF Alerting
<1>6. \A p, q \in Posts : For(p, "alert")' /\ For(q, "alert")' /\ post'[p].task = post'[q].task => p = q
  BY <1>3, <1>5 DEF SearchesInv
<1>7. crossed' = 0 => crossed = 0
  BY DEF Onward
<1>8. \A s \in Searches : Saved(s)' => search'[s].matches <= matched'[s] /\ (crossed' = 0 => search'[s].matches = matched'[s])
  BY <1>7 DEF SearchesInv, Saved
<1>. QED  BY <1>2, <1>4, <1>5, <1>6, <1>8 DEF SearchesInv

LEMMA OthersKeepDisputes ==
  ASSUME TalkInv, Turns({"notice"}), dispute' = dispute, told' = told
  PROVE  DisputesInv'
<1>1. Noticing' \in SUBSET Noticing /\ Noticing \in SUBSET Posts
  BY DEF Noticing, Turns, For
<1>2. /\ Cardinality(Noticing') <= Cardinality(Noticing)
      /\ Cardinality(Noticing) \in Nat /\ Cardinality(Noticing') \in Nat
  BY <1>1, TalkAssumption, FS_Subset, FS_CardinalityType
<1>. QED  BY <1>2 DEF DisputesInv, TalkInv

LEMMA DyingKeeps ==
  ASSUME TalkInv, NEW p \in Posts, PostDies(p)
  PROVE  TalkInv'
<1>1. NoPost.for \notin {"comment", "delete", "read", "save", "alert", "notice"}
  BY DEF NoPost
<1>2. /\ Turns({"comment", "delete"}) /\ Turns({"read"})
      /\ Turns({"save", "alert"}) /\ Turns({"notice"})
  BY <1>1, PostTurns DEF PostDies, Close, TalkInv
<1>3. DOMAIN post' = Posts /\ Onward /\ crossed' \in Nat
  BY <1>2 DEF Turns, PostDies, Onward, TalkInv
<1>4. CommentsInv' /\ MessagesInv'
  BY <1>2, <1>3, OthersKeepComments, OthersKeepMessages DEF PostDies
<1>5. SearchesInv' /\ DisputesInv'
  BY <1>2, <1>3, OthersKeepSearches, OthersKeepDisputes DEF PostDies
<1>. QED  BY <1>3, <1>4, <1>5 DEF TalkInv

(* Comments.  No more are there than before and the one that is posted.    *)
LEMMA OneCommentMore ==
  ASSUME CommentsInv, crossed \in Nat, NEW c \in Comments, NEW seen, Cardinality(seen) < MaxComments,
         Thread' = Thread \cup {c}, Crossing(Thread # seen)
  PROVE  Onward /\ Cardinality(Thread') <= MaxComments + crossed'
<1>1. Thread \in SUBSET Comments
  BY DEF Thread
<1>2. IsFiniteSet(Thread) /\ Cardinality(Thread) \in Nat /\ MaxComments \in Nat
  BY <1>1, TalkAssumption, FS_Subset, FS_CardinalityType
<1>3. Cardinality(Thread \cup {c}) <= Cardinality(Thread) + 1 /\ Cardinality(Thread \cup {c}) \in Nat
  BY <1>2, OneMember
<1>4. Onward /\ (Thread # seen => crossed' = crossed + 1) /\ (Thread = seen => crossed' = crossed)
  BY Crossed
<1>5. Cardinality(Thread) <= MaxComments + crossed
  BY DEF CommentsInv
<1>6. CASE Thread = seen
  BY <1>2, <1>3, <1>4, <1>6
<1>7. CASE Thread # seen
  BY <1>2, <1>3, <1>4, <1>5, <1>7
<1>. QED  BY <1>4, <1>6, <1>7

LEMMA FewerComments ==
  ASSUME CommentsInv, crossed \in Nat, Onward, Thread' \subseteq Thread
  PROVE  Cardinality(Thread') <= MaxComments + crossed'
<1>1. Thread \in SUBSET Comments
  BY DEF Thread
<1>2. IsFiniteSet(Thread) /\ Cardinality(Thread) \in Nat /\ MaxComments \in Nat
  BY <1>1, TalkAssumption, FS_Subset, FS_CardinalityType
<1>3. Cardinality(Thread') <= Cardinality(Thread) /\ Cardinality(Thread') \in Nat
  BY <1>2, FS_Subset, FS_CardinalityType
<1>. QED  BY <1>2, <1>3 DEF CommentsInv, Onward

(* What a comment's deletion takes along is closed under replies, and is   *)
(* nothing without a reply that came late.                                 *)
LEMMA UnderClosed ==
  ASSUME NEW S \in SUBSET Comments
  PROVE  S \subseteq Under(S) /\ Under(S) \subseteq Comments /\ WithReplies(Under(S)) /\ (S = {} => Under(S) = {})
<1>1. S \subseteq Under(S) /\ Under(S) \subseteq Comments
  BY DEF Under
<1>2. ASSUME NEW d \in Thread, comment[d].parent \in Under(S) PROVE d \in Under(S)
  <2>1. d \in Comments
    BY DEF Thread
  <2>2. ASSUME NEW T \in SUBSET Comments, S \subseteq T, WithReplies(T) PROVE d \in T
    <3>1. comment[d].parent \in T
      BY <1>2, <2>2 DEF Under
    <3>. QED  BY <2>2, <3>1 DEF WithReplies
  <2>. QED  BY <2>1, <2>2 DEF Under
<1>3. ASSUME S = {} PROVE Under(S) = {}
  <2>1. WithReplies({})
    BY DEF WithReplies
  <2>. QED  BY <1>3, <2>1 DEF Under
<1>. QED  BY <1>1, <1>2, <1>3 DEF WithReplies

LEMMA CommentOpens ==
  ASSUME TalkInv, NEW p \in Posts, NEW r, post' = [post EXCEPT ![p] = r],
         UNCHANGED comment, UNCHANGED removed, crossed' = crossed,
         r.for = "comment" => r.parent \in Comments \cup {Nil} /\ Cardinality(r.seen) < MaxComments,
         r.for = "delete" => r.of \in Comments
  PROVE  CommentsInv'
<1>1. Thread' = Thread
  BY DEF Thread, Live
<1>2. \A q \in Posts : post'[q] = IF q = p THEN r ELSE post[q]
  BY DEF TalkInv
<1>3. \A q \in Posts : For(q, "comment")' =>
        post'[q].parent \in Comments \cup {Nil} /\ Cardinality(post'[q].seen) < MaxComments
  BY <1>2 DEF For, TalkInv, CommentsInv
<1>4. \A q \in Posts : For(q, "delete")' => post'[q].of \in Comments
  BY <1>2 DEF For, TalkInv, CommentsInv
<1>. QED  BY <1>1, <1>3, <1>4 DEF TalkInv, CommentsInv

LEMMA PostCommentKeeps ==
  ASSUME TalkInv, NEW p \in Posts, NEW c \in Comments, PostComment(p, c)
  PROVE  CommentsInv' /\ Onward
<1>. USE DEF TalkInv
<1>1. /\ For(p, "comment") /\ post' = [post EXCEPT ![p] = NoPost] /\ removed' = removed
      /\ NoPost.for \notin {"comment", "delete"}
  BY DEF PostComment, Close, NoPost
<1>2. Turns({"comment", "delete"})
  BY <1>1, PostTurns
<1>3. CASE UNCHANGED <<comment, crossed>>
  <2>1. Onward
    BY <1>3 DEF Onward
  <2>. QED  BY <1>1, <1>2, <1>3, <2>1, OthersKeepComments
<1>4. CASE ~ UNCHANGED <<comment, crossed>>
  <2>1. /\ post[p].parent = Nil \/ post[p].parent \in Thread
        /\ comment[c].is = "none"
        /\ comment' = [comment EXCEPT ![c] = [is |-> "there", parent |-> post[p].parent, fresh |-> TRUE, edited |-> FALSE]]
        /\ Crossing(Thread # post[p].seen)
    BY <1>4 DEF PostComment
  <2>2. /\ comment \in [Comments -> CommentRow] /\ Cardinality(post[p].seen) < MaxComments
        /\ post[p].parent \in Comments \cup {Nil}
    BY <1>1 DEF CommentsInv
  <2>3. comment' \in [Comments -> CommentRow]
    BY <2>1, <2>2 DEF CommentRow
  <2>4. Thread' = Thread \cup {c}
    BY <2>1, <2>2 DEF Thread, Live
  <2>5. Onward /\ Cardinality(Thread') <= MaxComments + crossed'
    BY <2>1, <2>2, <2>4, OneCommentMore
  <2>6. \A d \in Thread' : comment'[d].parent = Nil \/ comment'[d].parent \in Thread'
    <3>1. comment'[c].parent = post[p].parent /\ \A d \in Comments : d # c => comment'[d] = comment[d]
      BY <2>1, <2>2
    <3>2. Thread \subseteq Comments /\ \A d \in Thread : comment[d].parent = Nil \/ comment[d].parent \in Thread
      BY DEF Thread, CommentsInv
    <3>. QED  BY <2>1, <2>4, <3>1, <3>2
  <2>7. \A d \in Comments : comment'[d].is = "gone" => \E r \in removed' : r.of = d \/ (crossed' > 0 /\ d \in r.late)
    <3>1. \A d \in Comments : comment'[d].is = "gone" => comment[d].is = "gone"
      BY <2>1, <2>2
    <3>2. crossed > 0 => crossed' > 0
      BY <2>5 DEF Onward
    <3>. QED  BY <1>1, <3>1, <3>2 DEF CommentsInv
  <2>8. \A q \in Posts : For(q, "comment")' \/ For(q, "delete")' => post'[q] = post[q]
    BY <1>2 DEF Turns, For
  <2>9. \A q \in Posts : For(q, "comment")' => post'[q].parent \in Comments \cup {Nil} /\ Cardinality(post'[q].seen) < MaxComments
    BY <2>8 DEF CommentsInv, For
  <2>10. \A q \in Posts : For(q, "delete")' => post'[q].of \in Comments
    BY <2>8 DEF CommentsInv, For
  <2>. QED  BY <2>3, <2>5, <2>6, <2>7, <2>9, <2>10 DEF CommentsInv
<1>. QED  BY <1>3, <1>4 DEF Onward

LEMMA TouchCommentKeeps ==
  ASSUME TalkInv, NEW c \in Comments, Age(c) \/ EditComment(c)
  PROVE  CommentsInv'
<1>1. /\ comment \in [Comments -> CommentRow]
      /\ post' = post /\ removed' = removed /\ crossed' = crossed
      /\ comment' = [comment EXCEPT ![c].fresh = FALSE] \/ comment' = [comment EXCEPT ![c].edited = TRUE]
  BY DEF Age, EditComment, TalkInv, CommentsInv
<1>2. /\ comment' \in [Comments -> CommentRow]
      /\ \A d \in Comments : comment'[d].is = comment[d].is /\ comment'[d].parent = comment[d].parent
  <2>1. PICK f \in BOOLEAN, e \in BOOLEAN : comment' = [comment EXCEPT ![c] = [comment[c] EXCEPT !.fresh = f, !.edited = e]]
    <3>1. comment[c] \in CommentRow
      BY <1>1
    <3>2. /\ [comment[c] EXCEPT !.fresh = FALSE] = [comment[c] EXCEPT !.fresh = FALSE, !.edited = comment[c].edited]
          /\ [comment[c] EXCEPT !.edited = TRUE] = [comment[c] EXCEPT !.fresh = comment[c].fresh, !.edited = TRUE]
          /\ comment[c].fresh \in BOOLEAN /\ comment[c].edited \in BOOLEAN
      BY <3>1 DEF CommentRow
    <3>. QED  BY <1>1, <3>2
  <2>2. PICK new : new = [comment[c] EXCEPT !.fresh = f, !.edited = e]
    OBVIOUS
  <2>3. new \in CommentRow /\ new.is = comment[c].is /\ new.parent = comment[c].parent
    <3>1. comment[c] \in CommentRow
      BY <1>1
    <3>. QED  BY <2>2, <3>1 DEF CommentRow
  <2>4. comment' = [comment EXCEPT ![c] = new]
    BY <2>1, <2>2
  <2>. QED  BY <1>1, <2>3, <2>4
<1>3. Thread' = Thread /\ Thread \subseteq Comments
  BY <1>2 DEF Thread, Live
<1>. QED  BY <1>1, <1>2, <1>3 DEF CommentsInv, TalkInv, For

LEMMA DeleteCommentKeeps ==
  ASSUME TalkInv, NEW p \in Posts, DeleteComment(p)
  PROVE  CommentsInv' /\ Onward
<1>. USE DEF TalkInv
<1>. DEFINE c == post[p].of
            late == Replies(c) \ post[p].seen
            lost == {c} \cup Under(late)
<1>1. /\ For(p, "delete") /\ post' = [post EXCEPT ![p] = NoPost] /\ c \in Comments
      /\ NoPost.for \notin {"comment", "delete"}
  BY DEF DeleteComment, Close, NoPost, CommentsInv
<1>2. Turns({"comment", "delete"})
  BY <1>1, PostTurns
<1>3. CASE UNCHANGED <<comment, removed, crossed>>
  <2>1. Onward
    BY <1>3 DEF Onward
  <2>. QED  BY <1>1, <1>2, <1>3, <2>1, OthersKeepComments
<1>4. CASE ~ UNCHANGED <<comment, removed, crossed>>
  <2>1. /\ comment' = [d \in Comments |-> IF d \in lost THEN [comment[d] EXCEPT !.is = "gone"]
                                           ELSE Detached(post[p].seen)[d]]
        /\ removed' = removed \cup {[of |-> c, late |-> lost \ {c}]}
        /\ Crossing(late # {})
        /\ Live(c)
    BY <1>4 DEF DeleteComment
  <2>2. late \in SUBSET Comments /\ late \subseteq Thread
    BY DEF Replies, Thread
  <2>3. late \subseteq Under(late) /\ Under(late) \subseteq Comments /\ WithReplies(Under(late))
    BY <2>2, UnderClosed
  <2>4. late = {} => Under(late) = {}
    BY <2>2, UnderClosed
  <2>5. Onward /\ (late # {} => crossed' = crossed + 1)
    BY <2>1, Crossed
  <2>. HIDE DEF late
  <2>6. ASSUME NEW d \in Comments
        PROVE  /\ comment'[d] \in CommentRow
               /\ d \in lost => comment'[d].is = "gone"
               /\ d \notin lost => comment'[d].is = comment[d].is
               /\ d \notin lost => comment'[d].parent = IF d \in post[p].seen \cap Thread THEN Nil ELSE comment[d].parent
    <3>1. comment[d] \in CommentRow
      BY DEF CommentsInv
    <3>2. CASE d \in lost
      <4>1. comment'[d] = [comment[d] EXCEPT !.is = "gone"]
        BY <2>1, <3>2
      <4>. QED  BY <3>1, <3>2, <4>1 DEF CommentRow
    <3>3. CASE d \notin lost
      <4>1. comment'[d] = Detached(post[p].seen)[d]
        BY <2>1, <3>3
      <4>2. comment'[d] = IF d \in post[p].seen \cap Thread THEN [comment[d] EXCEPT !.parent = Nil] ELSE comment[d]
        BY <4>1 DEF Detached
      <4>. QED  BY <3>1, <3>3, <4>2 DEF CommentRow
    <3>. QED  BY <3>2, <3>3
  <2>7. Thread' = Thread \ lost
    BY <2>6 DEF Thread, Live
  <2>8. DOMAIN comment' = Comments /\ comment' \in [Comments -> CommentRow]
    BY <2>1, <2>6
  <2>9. ASSUME NEW d \in Thread' PROVE comment'[d].parent = Nil \/ comment'[d].parent \in Thread'
    <3>1. d \in Thread /\ d \notin lost /\ d \in Comments
      BY <2>7 DEF Thread
    <3>2. comment[d].parent = Nil \/ comment[d].parent \in Thread
      BY <3>1 DEF CommentsInv
    <3>3. CASE comment[d].parent \in Under(late)
      BY <2>3, <3>1, <3>3 DEF WithReplies
    <3>4. CASE comment[d].parent = c /\ d \notin post[p].seen
      <4>1. d \in late
        BY <3>1, <3>4 DEF Replies, late
      <4>. QED  BY <2>3, <3>1, <4>1
    <3>5. CASE d \in post[p].seen
      BY <2>6, <3>1, <3>5
    <3>6. CASE comment[d].parent \notin lost
      BY <2>6, <2>7, <3>1, <3>2, <3>6
    <3>. QED  BY <3>3, <3>4, <3>5, <3>6
  <2>10. \A d \in Comments : comment'[d].is = "gone" => \E r \in removed' : r.of = d \/ (crossed' > 0 /\ d \in r.late)
    <3>1. TAKE d \in Comments
    <3>2. CASE d \in lost
      <4>. DEFINE r == [of |-> c, late |-> lost \ {c}]
      <4>1. r \in removed'
        BY <2>1
      <4>2. r.of = c /\ r.late = lost \ {c}
        OBVIOUS
      <4>. HIDE DEF r
      <4>3. d # c => crossed' > 0
        <5>1. d # c => late # {}
          BY <2>4, <3>2
        <5>. QED  BY <5>1, <2>5
      <4>. QED  BY <3>2, <4>1, <4>2, <4>3
    <3>3. CASE d \notin lost /\ comment[d].is = "gone"
      <4>1. PICK r \in removed : r.of = d \/ (crossed > 0 /\ d \in r.late)
        BY <3>3 DEF CommentsInv
      <4>2. r \in removed'
        BY <2>1
      <4>. QED  BY <2>5, <4>1, <4>2 DEF Onward
    <3>. QED  BY <2>6, <3>2, <3>3
  <2>11. Cardinality(Thread') <= MaxComments + crossed'
    BY <2>5, <2>7, FewerComments
  <2>12. \A q \in Posts : For(q, "comment")' \/ For(q, "delete")' => post'[q] = post[q]
    BY <1>2 DEF Turns, For
  <2>13. \A q \in Posts : For(q, "comment")' => post'[q].parent \in Comments \cup {Nil} /\ Cardinality(post'[q].seen) < MaxComments
    BY <2>12 DEF CommentsInv, For
  <2>14. \A q \in Posts : For(q, "delete")' => post'[q].of \in Comments
    BY <2>12 DEF CommentsInv, For
  <2>. QED  BY <2>5, <2>8, <2>9, <2>10, <2>11, <2>13, <2>14 DEF CommentsInv
<1>. QED  BY <1>3, <1>4

LEMMA CommentsKeep ==
  ASSUME TalkInv, CommentNext
  PROVE  TalkInv'
<1>. USE DEF TalkInv
<1>1. ASSUME NEW p \in Posts, NEW r, post' = [post EXCEPT ![p] = r], r.for \notin {"read", "save", "alert", "notice"},
             OthersThanComments, CommentsInv', Onward
      PROVE  TalkInv'
  <2>1. Turns({"read"}) /\ Turns({"save", "alert"}) /\ Turns({"notice"})
    BY <1>1, PostTurns
  <2>2. MessagesInv' /\ SearchesInv' /\ DisputesInv'
    BY <1>1, <2>1, OthersKeepMessages, OthersKeepSearches, OthersKeepDisputes DEF OthersThanComments
  <2>. QED  BY <1>1, <2>1, <2>2 DEF Turns, Onward
<1>2. ASSUME NEW p \in Posts, NEW parent \in Comments \cup {Nil}, CountComments(p, parent) PROVE TalkInv'
  <2>. DEFINE r == [for |-> "comment", parent |-> parent, seen |-> Thread]
  <2>1. /\ post' = [post EXCEPT ![p] = r] /\ OthersThanComments /\ crossed' = crossed
        /\ UNCHANGED comment /\ UNCHANGED removed /\ Cardinality(Thread) < MaxComments
    BY <1>2 DEF CountComments, Open, CommentsUnchanged
  <2>2. /\ r.for \notin {"read", "save", "alert", "notice"}
        /\ r.for = "comment" => r.parent \in Comments \cup {Nil} /\ Cardinality(r.seen) < MaxComments
        /\ r.for = "delete" => r.of \in Comments
    BY <2>1
  <2>. HIDE DEF r
  <2>3. CommentsInv'
    BY <2>1, <2>2, CommentOpens
  <2>4. Onward
    BY <2>1 DEF Onward
  <2>. QED  BY <1>1, <2>1, <2>2, <2>3, <2>4
<1>3. ASSUME NEW p \in Posts, NEW c \in Comments, FindReplies(p, c) PROVE TalkInv'
  <2>. DEFINE r == [for |-> "delete", of |-> c, seen |-> Replies(c)]
  <2>1. /\ post' = [post EXCEPT ![p] = r] /\ OthersThanComments /\ crossed' = crossed
        /\ UNCHANGED comment /\ UNCHANGED removed
    BY <1>3 DEF FindReplies, Open, CommentsUnchanged
  <2>2. /\ r.for \notin {"read", "save", "alert", "notice"}
        /\ r.for = "comment" => r.parent \in Comments \cup {Nil} /\ Cardinality(r.seen) < MaxComments
        /\ r.for = "delete" => r.of \in Comments
    OBVIOUS
  <2>. HIDE DEF r
  <2>3. CommentsInv'
    BY <2>1, <2>2, CommentOpens
  <2>4. Onward
    BY <2>1 DEF Onward
  <2>. QED  BY <1>1, <2>1, <2>2, <2>3, <2>4
<1>4. ASSUME NEW p \in Posts, (\E c \in Comments : PostComment(p, c)) \/ DeleteComment(p) PROVE TalkInv'
  <2>1. post' = [post EXCEPT ![p] = NoPost] /\ OthersThanComments
    BY <1>4 DEF PostComment, DeleteComment, Close
  <2>2. NoPost.for = "nothing"
    BY DEF NoPost
  <2>3. CommentsInv' /\ Onward
    BY <1>4, PostCommentKeeps, DeleteCommentKeeps
  <2>. QED  BY <1>1, <2>1, <2>2, <2>3
<1>5. ASSUME NEW c \in Comments, Age(c) \/ EditComment(c) PROVE TalkInv'
  <2>1. post' = post /\ crossed' = crossed /\ OthersThanComments
    BY <1>5 DEF Age, EditComment
  <2>2. CommentsInv' /\ Onward
    BY <1>5, <2>1, TouchCommentKeeps DEF Onward
  <2>3. Turns({"read"}) /\ Turns({"save", "alert"}) /\ Turns({"notice"})
    BY <2>1, PostStays
  <2>4. MessagesInv' /\ SearchesInv' /\ DisputesInv'
    BY <2>1, <2>2, <2>3, OthersKeepMessages, OthersKeepSearches, OthersKeepDisputes DEF OthersThanComments
  <2>. QED  BY <2>1, <2>2, <2>4
<1>. QED  BY <1>2, <1>3, <1>4, <1>5, DyingKeeps DEF CommentNext

(* Messages.                                                               *)
LEMMA NilIsNoRow == Nil \notin MessageRow
BY TalkAssumption DEF MessageRow

LEMMA MessageEdited ==
  \A row \in MessageRow, read \in BOOLEAN, notice \in {"unread", "read", "gone"} :
    /\ [row EXCEPT !.read = read] \in MessageRow
    /\ [row EXCEPT !.notice = notice] \in MessageRow
    /\ [row EXCEPT !.notice = notice].read = row.read
BY DEF MessageRow

LEMMA SendKeeps ==
  ASSUME TalkInv, NEW m \in Messages, NEW u \in Parties, SendMessage(m, u)
  PROVE  MessagesInv'
<1>. DEFINE row == [to |-> u, read |-> FALSE, notice |-> "unread"]
<1>1. /\ message \in [Messages -> MessageRow \cup {Nil}]
      /\ message' = [message EXCEPT ![m] = row] /\ post' = post /\ answered' = answered
  BY DEF SendMessage, TalkInv, MessagesInv
<1>2. row \in MessageRow /\ row # Nil /\ ~row.read
  <2>1. row \in MessageRow /\ ~row.read
    BY DEF MessageRow
  <2>. QED  BY <2>1, NilIsNoRow
<1>. HIDE DEF row
<1>. QED  BY <1>1, <1>2 DEF TalkInv, MessagesInv, For

LEMMA NoticesKeep ==
  ASSUME TalkInv, NEW some, NEW status \in {"read", "gone"}, SetNotices(some, status),
         some \subseteq {m \in Messages : message[m] # Nil}
  PROVE  MessagesInv'
<1>1. /\ message \in [Messages -> MessageRow \cup {Nil}]
      /\ message' = [m \in Messages |-> IF m \in some THEN [message[m] EXCEPT !.notice = status] ELSE message[m]]
      /\ post' = post /\ answered' = answered
  BY DEF SetNotices, TalkInv, MessagesInv
<1>2. ASSUME NEW m \in Messages
      PROVE  /\ message'[m] \in MessageRow \cup {Nil}
             /\ message[m] # Nil => message'[m] # Nil
             /\ message'[m] # Nil => message[m] # Nil /\ message'[m].read = message[m].read
  <2>1. CASE m \in some
    <3>1. message[m] \in MessageRow /\ message'[m] = [message[m] EXCEPT !.notice = status]
      BY <1>1, <2>1
    <3>2. message'[m] \in MessageRow /\ message'[m].read = message[m].read
      BY <3>1, MessageEdited
    <3>. QED  BY <3>1, <3>2, NilIsNoRow
  <2>2. CASE m \notin some
    BY <1>1, <2>2
  <2>. QED  BY <2>1, <2>2
<1>3. DOMAIN message' = Messages /\ message' \in [Messages -> MessageRow \cup {Nil}]
  BY <1>1, <1>2
<1>. QED  BY <1>1, <1>2, <1>3 DEF TalkInv, MessagesInv, For

LEMMA MarkKeeps ==
  ASSUME TalkInv, NEW p \in Posts, MarkMessages(p)
  PROVE  MessagesInv'
<1>1. /\ message \in [Messages -> MessageRow \cup {Nil}]
      /\ message' = [m \in Messages |-> IF m \in post[p].seen THEN [message[m] EXCEPT !.read = TRUE] ELSE message[m]]
      /\ answered' = answered \cup post[p].seen
      /\ \A m \in post[p].seen : m \in Messages /\ message[m] # Nil
  BY DEF MarkMessages, Marked, TalkInv, MessagesInv
<1>2. ASSUME NEW m \in Messages
      PROVE  /\ message'[m] \in MessageRow \cup {Nil}
             /\ message[m] # Nil => message'[m] # Nil
             /\ m \notin post[p].seen => message'[m] = message[m]
  <2>1. CASE m \in post[p].seen
    <3>1. message[m] \in MessageRow /\ message'[m] = [message[m] EXCEPT !.read = TRUE]
      BY <1>1, <2>1
    <3>2. message'[m] \in MessageRow
      BY <3>1, MessageEdited
    <3>. QED  BY <2>1, <3>2, NilIsNoRow
  <2>2. CASE m \notin post[p].seen
    BY <1>1, <2>2
  <2>. QED  BY <2>1, <2>2
<1>3. DOMAIN message' = Messages /\ message' \in [Messages -> MessageRow \cup {Nil}]
  BY <1>1, <1>2
<1>4. Turns({"read"})
  <2>1. post' = [post EXCEPT ![p] = NoPost] /\ NoPost.for \notin {"read"}
    BY DEF MarkMessages, Close, NoPost
  <2>. QED  BY <2>1, PostTurns DEF TalkInv
<1>5. \A q \in Posts : For(q, "read")' => \A m \in post'[q].seen : m \in Messages /\ message'[m] # Nil
  <2>1. \A q \in Posts : For(q, "read")' => For(q, "read") /\ post'[q] = post[q]
    BY <1>4 DEF Turns, For
  <2>. QED  BY <1>2, <2>1 DEF TalkInv, MessagesInv
<1>6. \A m \in Messages : message'[m] # Nil /\ message'[m].read => m \in answered'
  BY <1>1, <1>2 DEF TalkInv, MessagesInv
<1>. QED  BY <1>3, <1>5, <1>6 DEF MessagesInv

LEMMA FetchKeeps ==
  ASSUME TalkInv, NEW p \in Posts, NEW u \in Parties, FetchMessages(p, u)
  PROVE  MessagesInv'
<1>. DEFINE r == [for |-> "read", who |-> u, seen |-> {m \in Earliest : Waiting(m, u)}]
<1>1. message' = message /\ answered' = answered /\ post' = [post EXCEPT ![p] = r]
  BY DEF FetchMessages, Open
<1>2. \A m \in r.seen : m \in Messages /\ message[m] # Nil
  BY DEF Earliest, Waiting
<1>. HIDE DEF r
<1>3. \A q \in Posts : post'[q] = IF q = p THEN r ELSE post[q]
  BY <1>1 DEF TalkInv
<1>4. \A q \in Posts : For(q, "read")' => \A m \in post'[q].seen : m \in Messages /\ message'[m] # Nil
  BY <1>1, <1>2, <1>3 DEF TalkInv, MessagesInv, For
<1>. QED  BY <1>1, <1>4 DEF TalkInv, MessagesInv

LEMMA MessagesKeep ==
  ASSUME TalkInv, MessageNext
  PROVE  TalkInv'
<1>. USE DEF TalkInv
<1>1. ASSUME OthersThanMessages, MessagesInv', Turns({"comment", "delete"}),
             Turns({"save", "alert"}), Turns({"notice"})
      PROVE  TalkInv'
  <2>1. Onward
    BY <1>1 DEF OthersThanMessages, Onward
  <2>2. CommentsInv' /\ SearchesInv' /\ DisputesInv'
    BY <1>1, <2>1, OthersKeepComments, OthersKeepSearches, OthersKeepDisputes DEF OthersThanMessages
  <2>. QED  BY <1>1, <2>1, <2>2 DEF Turns, Onward
<1>2. ASSUME NEW p \in Posts, NEW r, post' = [post EXCEPT ![p] = r], r.for \in {"read", "nothing"},
             OthersThanMessages, MessagesInv'
      PROVE  TalkInv'
  <2>1. Turns({"comment", "delete"}) /\ Turns({"save", "alert"}) /\ Turns({"notice"})
    BY <1>2, PostTurns
  <2>. QED  BY <1>1, <1>2, <2>1
<1>3. ASSUME post' = post, OthersThanMessages, MessagesInv' PROVE TalkInv'
  <2>1. Turns({"comment", "delete"}) /\ Turns({"save", "alert"}) /\ Turns({"notice"})
    BY <1>3, PostStays
  <2>. QED  BY <1>1, <1>3, <2>1
<1>4. ASSUME NEW p \in Posts, NEW u \in Parties, FetchMessages(p, u) PROVE TalkInv'
  <2>. DEFINE r == [for |-> "read", who |-> u, seen |-> {m \in Earliest : Waiting(m, u)}]
  <2>1. post' = [post EXCEPT ![p] = r] /\ OthersThanMessages /\ r.for = "read"
    BY <1>4 DEF FetchMessages, Open
  <2>2. MessagesInv'
    BY <1>4, FetchKeeps
  <2>. HIDE DEF r
  <2>. QED  BY <1>2, <2>1, <2>2
<1>5. ASSUME NEW p \in Posts, MarkMessages(p) PROVE TalkInv'
  <2>1. post' = [post EXCEPT ![p] = NoPost] /\ OthersThanMessages /\ NoPost.for = "nothing"
    BY <1>5 DEF MarkMessages, Close, NoPost
  <2>2. MessagesInv'
    BY <1>5, MarkKeeps
  <2>. QED  BY <1>2, <2>1, <2>2
<1>6. ASSUME NEW m \in Messages, NEW u \in Parties, SendMessage(m, u) PROVE TalkInv'
  <2>1. post' = post /\ OthersThanMessages
    BY <1>6 DEF SendMessage
  <2>. QED  BY <1>3, <1>6, <2>1, SendKeeps
<1>7. ASSUME NEW some, NEW status \in {"read", "gone"}, SetNotices(some, status),
             some \subseteq {m \in Messages : message[m] # Nil}
      PROVE  TalkInv'
  <2>1. post' = post /\ OthersThanMessages
    BY <1>7 DEF SetNotices
  <2>2. MessagesInv'
    BY <1>7, NoticesKeep
  <2>. QED  BY <1>3, <2>1, <2>2
<1>8. ASSUME NEW u \in Parties, MarkAllRead(u) \/ DeleteAllNotices(u) PROVE TalkInv'
  BY <1>7, <1>8 DEF MarkAllRead, DeleteAllNotices, NoticesOf
<1>9. ASSUME NEW m \in Messages, DeleteNotice(m) PROVE TalkInv'
  <2>1. SetNotices({m}, "gone") /\ {m} \subseteq {n \in Messages : message[n] # Nil}
    BY <1>9 DEF DeleteNotice, NoticesOf
  <2>. QED  BY <1>7, <2>1
<1>. QED  BY <1>4, <1>5, <1>6, <1>8, <1>9 DEF MessageNext

(* Saved searches.                                                         *)
SearchLimits == \A u \in Seekers : Cardinality(SearchesOf(u)) <= MaxSearches + crossed

LEMMA SearchesCount ==
  ASSUME NEW u
  PROVE  /\ SearchesOf(u) \in SUBSET Searches /\ IsFiniteSet(SearchesOf(u))
         /\ Cardinality(SearchesOf(u)) \in Nat /\ MaxSearches \in Nat
<1>1. SearchesOf(u) \in SUBSET Searches
  BY DEF SearchesOf
<1>. QED  BY <1>1, TalkAssumption, FS_Subset, FS_CardinalityType

LEMMA FewerSearches ==
  ASSUME SearchLimits, crossed \in Nat, Onward, \A u \in Seekers : SearchesOf(u)' \subseteq SearchesOf(u)
  PROVE  SearchLimits'
<1>. SUFFICES ASSUME NEW u \in Seekers PROVE Cardinality(SearchesOf(u)') <= MaxSearches + crossed'
  BY DEF SearchLimits
<1>1. Cardinality(SearchesOf(u)) <= MaxSearches + crossed
  BY DEF SearchLimits
<1>2. Cardinality(SearchesOf(u)) \in Nat /\ MaxSearches \in Nat /\ IsFiniteSet(SearchesOf(u))
  BY SearchesCount
<1>3. Cardinality(SearchesOf(u)') <= Cardinality(SearchesOf(u)) /\ Cardinality(SearchesOf(u)') \in Nat
  BY <1>2, FS_Subset, FS_CardinalityType
<1>. QED  BY <1>1, <1>2, <1>3 DEF Onward

LEMMA TouchSearchKeeps ==
  ASSUME TalkInv, NEW s \in Searches, SetAlert(s) \/ DeleteSearch(s)
  PROVE  SearchesInv'
<1>. USE DEF TalkInv
<1>1. search \in [Searches -> SearchRow] /\ search[s] \in SearchRow /\ Saved(s)
  BY DEF SetAlert, DeleteSearch, SearchesInv
<1>2. /\ post' = post /\ alerted' = alerted /\ matched' = matched /\ crossed' = crossed
      /\ \/ search' = [search EXCEPT ![s] = [search[s] EXCEPT !.instant = ~search[s].instant]]
         \/ search' = [search EXCEPT ![s] = [search[s] EXCEPT !.is = "gone"]]
  BY <1>1 DEF SetAlert, DeleteSearch
<1>3. PICK new : /\ search' = [search EXCEPT ![s] = new]
                 /\ \/ new = [search[s] EXCEPT !.instant = ~search[s].instant]
                    \/ new = [search[s] EXCEPT !.is = "gone"]
  BY <1>2
<1>4. /\ new \in SearchRow /\ new.user = search[s].user /\ new.matches = search[s].matches
      /\ new.is \in {search[s].is, "gone"}
  BY <1>1, <1>3 DEF SearchRow
<1>5. search' \in [Searches -> SearchRow]
  BY <1>1, <1>3, <1>4
<1>6. \A z \in Searches : /\ Saved(z)' => Saved(z)
                          /\ search'[z].user = search[z].user /\ search'[z].matches = search[z].matches
                          /\ search'[z].is = "none" => search[z].is = "none"
  BY <1>1, <1>3, <1>4 DEF Saved
<1>7. \A u \in Seekers : SearchesOf(u)' \subseteq SearchesOf(u)
  BY <1>6 DEF SearchesOf
<1>8. SearchLimits'
  BY <1>2, <1>7, FewerSearches DEF SearchesInv, SearchLimits, Onward
<1>9. \A p \in Posts : For(p, "alert")' => Alerting(p)'
  BY <1>2 DEF SearchesInv, For, Alerting
<1>10. \A z \in Searches : Saved(z)' =>
         search'[z].matches <= matched'[z] /\ (crossed' = 0 => search'[z].matches = matched'[z])
  BY <1>2, <1>6 DEF SearchesInv
<1>11. \A z \in Searches : search'[z].is = "none" => matched'[z] = 0
  BY <1>2, <1>6 DEF SearchesInv
<1>. QED  BY <1>2, <1>5, <1>8, <1>9, <1>10, <1>11 DEF SearchesInv, For, SearchLimits

LEMMA SaveKeeps ==
  ASSUME TalkInv, NEW p \in Posts, NEW s \in Searches, SaveSearch(p, s)
  PROVE  SearchesInv' /\ Onward
<1>. USE DEF TalkInv
<1>0. PICK w : w = post[p].who
  OBVIOUS
<1>. DEFINE new == [is |-> "there", user |-> w, instant |-> TRUE, matches |-> 0]
<1>1. /\ For(p, "save") /\ post' = [post EXCEPT ![p] = NoPost] /\ search[s].is = "none"
      /\ search' = [search EXCEPT ![s] = new] /\ alerted' = alerted /\ matched' = matched
      /\ Crossing(SearchesOf(w) # post[p].seen)
      /\ NoPost.for \notin {"save", "alert"}
  BY <1>0 DEF SaveSearch, Close, NoPost
<1>2. w \in Seekers /\ Cardinality(post[p].seen) < MaxSearches /\ search \in [Searches -> SearchRow]
  BY <1>0, <1>1 DEF SearchesInv
<1>3. new \in SearchRow /\ new.is = "there" /\ new.user = w /\ new.matches = 0
  BY <1>2 DEF SearchRow
<1>4. Onward /\ (SearchesOf(w) # post[p].seen => crossed' = crossed + 1)
            /\ (SearchesOf(w) = post[p].seen => crossed' = crossed)
  BY <1>1, Crossed
<1>. HIDE DEF new
<1>5. search' \in [Searches -> SearchRow]
  BY <1>1, <1>2, <1>3
<1>6. SearchesOf(w)' = SearchesOf(w) \cup {s} /\ \A u \in Seekers : u # w => SearchesOf(u)' = SearchesOf(u)
  BY <1>1, <1>2, <1>3 DEF SearchesOf, Saved
<1>7. SearchLimits'
  <2>. SUFFICES ASSUME NEW u \in Seekers PROVE Cardinality(SearchesOf(u)') <= MaxSearches + crossed'
    BY DEF SearchLimits
  <2>1. /\ IsFiniteSet(SearchesOf(u)) /\ Cardinality(SearchesOf(u)) \in Nat /\ MaxSearches \in Nat
        /\ Cardinality(SearchesOf(u)) <= MaxSearches + crossed
    BY SearchesCount DEF SearchesInv
  <2>2. CASE u # w
    BY <1>4, <1>6, <2>1, <2>2 DEF Onward
  <2>3. CASE u = w
    <3>1. /\ Cardinality(SearchesOf(u) \cup {s}) <= Cardinality(SearchesOf(u)) + 1
          /\ Cardinality(SearchesOf(u) \cup {s}) \in Nat
      BY <2>1, OneMember
    <3>2. Cardinality(SearchesOf(u)') = Cardinality(SearchesOf(u) \cup {s})
      <4>1. SearchesOf(u)' = SearchesOf(u) \cup {s}
        BY <1>6, <2>3
      <4>. QED  BY <4>1
    <3>3. \A a, b, m, x \in Nat : b <= a + 1 /\ a < m => b <= m + x
      OBVIOUS
    <3>4. \A a, b, m, x \in Nat : b <= a + 1 /\ a <= m + x => b <= m + (x + 1)
      OBVIOUS
    <3>5. CASE SearchesOf(u) = post[p].seen
      <4>1. Cardinality(SearchesOf(u)) < MaxSearches
        BY <1>2, <3>5
      <4>2. crossed' = crossed
        BY <1>4, <2>3, <3>5
      <4>. QED  BY <2>1, <3>1, <3>2, <3>3, <4>1, <4>2
    <3>6. CASE SearchesOf(u) # post[p].seen
      <4>1. crossed' = crossed + 1
        BY <1>4, <2>3, <3>6
      <4>. QED  BY <2>1, <3>1, <3>2, <3>4, <4>1
    <3>. QED  BY <3>5, <3>6
  <2>. QED  BY <2>2, <2>3
<1>8. \A q \in Posts : For(q, "save")' \/ For(q, "alert")' => post'[q] = post[q]
  <2>1. Turns({"save", "alert"})
    BY <1>1, PostTurns
  <2>. QED  BY <2>1 DEF Turns, For
<1>9. \A q \in Posts : For(q, "save")' => post'[q].who \in Seekers /\ Cardinality(post'[q].seen) < MaxSearches
  BY <1>8 DEF SearchesInv, For
<1>10. \A q \in Posts : For(q, "alert")' => For(q, "alert") /\ Alerting(q)'
  <2>. SUFFICES ASSUME NEW q \in Posts, For(q, "alert")' PROVE For(q, "alert") /\ Alerting(q)'
    OBVIOUS
  <2>1. post'[q] = post[q] /\ For(q, "alert")
    BY <1>8 DEF For
  <2>2. Alerting(q)
    BY <2>1 DEF SearchesInv
  <2>. QED  BY <1>1, <2>1, <2>2 DEF Alerting
<1>11. \A q, r \in Posts : For(q, "alert")' /\ For(r, "alert")' /\ post'[q].task = post'[r].task => q = r
  BY <1>8, <1>10 DEF SearchesInv
<1>12. \A z \in Searches : Saved(z)' =>
         search'[z].matches <= matched'[z] /\ (crossed' = 0 => search'[z].matches = matched'[z])
  <2>1. matched[s] = 0
    BY <1>1 DEF SearchesInv
  <2>2. crossed' = 0 => crossed = 0
    BY <1>4 DEF Onward
  <2>. QED  BY <1>1, <1>2, <1>3, <2>1, <2>2 DEF SearchesInv, Saved
<1>13. \A z \in Searches : search'[z].is = "none" => matched'[z] = 0
  BY <1>1, <1>2, <1>3 DEF SearchesInv
<1>. QED  BY <1>1, <1>4, <1>5, <1>7, <1>9, <1>10, <1>11, <1>12, <1>13 DEF SearchesInv, SearchLimits

LEMMA ReadSearchesKeeps ==
  ASSUME TalkInv, NEW p \in Posts, NEW t \in Created, ReadSearches(p, t)
  PROVE  SearchesInv'
<1>. USE DEF TalkInv
<1>1. PICK picked \in SUBSET Searches :
        /\ \A s \in picked : Saved(s) /\ search[s].instant
        /\ \A u \in Seekers : Cardinality(picked \cap SearchesOf(u)) \in {0, 1}
        /\ post' = [post EXCEPT ![p] = [for |-> "alert", task |-> t, seen |-> [s \in picked |-> search[s]]]]
  BY DEF ReadSearches, Open
<1>2. PICK r : r = [for |-> "alert", task |-> t, seen |-> [s \in picked |-> search[s]]]
  OBVIOUS
<1>3. r.for = "alert" /\ r.task = t /\ r.seen = [s \in picked |-> search[s]]
  BY <1>2
<1>4. \A q \in Posts : post'[q] = IF q = p THEN r ELSE post[q]
  BY <1>1, <1>2
<1>5. search' = search /\ matched' = matched /\ alerted' = alerted /\ crossed' = crossed
  BY DEF ReadSearches
<1>6. /\ \A q \in Posts : ~(For(q, "alert") /\ post[q].task = t)
      /\ \A u \in Seekers : alerted[t][u] = 0
  BY DEF ReadSearches
<1>7. Alerting(p)'
  <2>1. post'[p].task = t /\ post'[p].seen = [s \in picked |-> search[s]]
    BY <1>3, <1>4
  <2>2. ASSUME NEW u \in Seekers
        PROVE  Cardinality({s \in DOMAIN post'[p].seen : post'[p].seen[s].user = u}) \in {0, 1}
    <3>1. {s \in DOMAIN post'[p].seen : post'[p].seen[s].user = u} = picked \cap SearchesOf(u)
      BY <1>1, <2>1 DEF SearchesOf
    <3>. QED  BY <1>1, <3>1
  <2>3. ASSUME NEW s \in picked PROVE post'[p].seen[s].matches \in 0..matched[s]
    <3>1. /\ search[s].matches \in Nat /\ matched[s] \in Nat
          /\ search[s].matches <= matched[s]
      BY <1>1 DEF SearchesInv, SearchRow
    <3>. QED  BY <2>1, <3>1
  <2>. QED  BY <1>5, <1>6, <2>1, <2>2, <2>3 DEF Alerting
<1>8. ASSUME NEW q \in Posts, For(q, "alert")' PROVE Alerting(q)'
  <2>1. CASE q = p
    BY <1>7, <2>1
  <2>2. CASE q # p
    <3>1. post'[q] = post[q] /\ Alerting(q)
      BY <1>4, <1>8, <2>2 DEF SearchesInv, For
    <3>. QED  BY <1>5, <3>1 DEF Alerting
  <2>. QED  BY <2>1, <2>2
<1>9. \A q, w \in Posts : For(q, "alert")' /\ For(w, "alert")' /\ post'[q].task = post'[w].task => q = w
  <2>1. \A q \in Posts : q # p => post'[q] = post[q]
    BY <1>4
  <2>2. \A q \in Posts : q # p /\ For(q, "alert")' => For(q, "alert") /\ post'[q].task # t
    BY <1>6, <2>1 DEF For
  <2>3. post'[p].task = t
    BY <1>3, <1>4
  <2>. QED  BY <2>1, <2>2, <2>3 DEF SearchesInv
<1>10. \A q \in Posts : For(q, "save")' => post'[q].who \in Seekers /\ Cardinality(post'[q].seen) < MaxSearches
  BY <1>3, <1>4 DEF SearchesInv, For
<1>11. \A u \in Seekers : Cardinality(SearchesOf(u)') <= MaxSearches + crossed'
  BY <1>5 DEF SearchesInv, SearchesOf, Saved
<1>. QED  BY <1>5, <1>8, <1>9, <1>10, <1>11 DEF SearchesInv, Saved

LEMMA AlertKeeps ==
  ASSUME TalkInv, NEW p \in Posts, Alert(p)
  PROVE  SearchesInv' /\ Onward
<1>. USE DEF TalkInv
<1>1. /\ For(p, "alert") /\ post' = [post EXCEPT ![p] = NoPost] /\ Alerting(p)
      /\ NoPost.for \notin {"save", "alert"}
  BY DEF Alert, Close, NoPost, SearchesInv
<1>2. Turns({"save", "alert"})
  BY <1>1, PostTurns
<1>3. CASE UNCHANGED <<search, alerted, matched, crossed>>
  <2>1. Onward
    BY <1>3 DEF Onward
  <2>. QED  BY <1>2, <1>3, <2>1, OthersKeepSearches
<1>4. CASE ~ UNCHANGED <<search, alerted, matched, crossed>>
  <2>1. PICK seen, picked, t : seen = post[p].seen /\ picked = DOMAIN seen /\ t = post[p].task
    OBVIOUS
  <2>2. /\ \A s \in picked : Saved(s)
        /\ search' = [s \in Searches |-> IF s \in picked THEN [search[s] EXCEPT !.matches = seen[s].matches + 1]
                                         ELSE search[s]]
        /\ alerted' = [alerted EXCEPT ![t] =
                         [u \in Seekers |-> alerted[t][u] + Cardinality({s \in picked : seen[s].user = u})]]
        /\ matched' = [s \in Searches |-> IF s \in picked THEN matched[s] + 1 ELSE matched[s]]
        /\ Crossing(\E s \in picked : search[s].matches # seen[s].matches)
    BY <1>4, <2>1 DEF Alert
  <2>3. /\ picked \subseteq Searches /\ t \in Created
        /\ \A u \in Seekers : alerted[t][u] = 0 /\ Cardinality({s \in picked : seen[s].user = u}) \in {0, 1}
        /\ \A s \in picked : seen[s].matches \in 0..matched[s]
    BY <1>1, <2>1 DEF Alerting
  <2>4. /\ search \in [Searches -> SearchRow] /\ matched \in [Searches -> Nat]
        /\ alerted \in [Created -> [Seekers -> {0, 1}]]
    BY DEF SearchesInv
  <2>5. Onward /\ ((\E s \in picked : search[s].matches # seen[s].matches) => crossed' = crossed + 1)
    BY <2>2, Crossed
  <2>6. ASSUME NEW s \in Searches
        PROVE  /\ search'[s] \in SearchRow /\ matched'[s] \in Nat /\ matched'[s] >= matched[s]
               /\ search'[s].is = search[s].is /\ search'[s].user = search[s].user
               /\ search[s].is = "none" => matched'[s] = matched[s]
               /\ s \in picked => search'[s].matches = seen[s].matches + 1 /\ matched'[s] = matched[s] + 1
               /\ s \notin picked => search'[s].matches = search[s].matches /\ matched'[s] = matched[s]
    <3>1. search[s] \in SearchRow /\ matched[s] \in Nat
      BY <2>4
    <3>2. CASE s \in picked
      <4>1. PICK n : n = seen[s].matches + 1
        OBVIOUS
      <4>2. n \in Nat
        BY <2>3, <3>1, <3>2, <4>1
      <4>3. search'[s] = [search[s] EXCEPT !.matches = n] /\ matched'[s] = matched[s] + 1
        BY <2>2, <3>2, <4>1
      <4>4. /\ search'[s] \in SearchRow /\ search'[s].matches = n
            /\ search'[s].is = search[s].is /\ search'[s].user = search[s].user
        BY <3>1, <4>2, <4>3 DEF SearchRow
      <4>5. search[s].is # "none"
        BY <2>2, <3>2 DEF Saved
      <4>6. matched'[s] \in Nat /\ matched'[s] >= matched[s]
        BY <3>1, <4>3
      <4>. QED  BY <3>2, <4>1, <4>3, <4>4, <4>5, <4>6
    <3>3. CASE s \notin picked
      BY <2>2, <3>1, <3>3
    <3>. QED  BY <3>2, <3>3
  <2>7. search' \in [Searches -> SearchRow] /\ matched' \in [Searches -> Nat]
    <3>1. DOMAIN search' = Searches /\ DOMAIN matched' = Searches
      BY <2>2
    <3>2. search' = [s \in Searches |-> search'[s]] /\ matched' = [s \in Searches |-> matched'[s]]
      BY <2>2
    <3>. QED  BY <2>6, <3>2
  <2>8. alerted' \in [Created -> [Seekers -> {0, 1}]] /\ \A v \in Created : v # t => alerted'[v] = alerted[v]
    <3>1. PICK new : new = [u \in Seekers |-> alerted[t][u] + Cardinality({s \in picked : seen[s].user = u})]
      OBVIOUS
    <3>2. new \in [Seekers -> {0, 1}]
      <4>1. ASSUME NEW u \in Seekers PROVE new[u] \in {0, 1}
        <5>1. new[u] = 0 + Cardinality({s \in picked : seen[s].user = u})
          BY <2>3, <3>1
        <5>. QED  BY <2>3, <5>1
      <4>. QED  BY <3>1, <4>1
    <3>3. alerted' = [alerted EXCEPT ![t] = new]
      BY <2>2, <3>1
    <3>. QED  BY <2>4, <3>2, <3>3
  <2>9. SearchLimits'
    <3>1. \A u \in Seekers : SearchesOf(u)' \subseteq SearchesOf(u)
      BY <2>6 DEF SearchesOf, Saved
    <3>. QED  BY <2>5, <3>1, FewerSearches DEF SearchesInv, SearchLimits
  <2>10. ASSUME NEW s \in Searches, Saved(s)'
         PROVE  search'[s].matches <= matched'[s] /\ (crossed' = 0 => search'[s].matches = matched'[s])
    <3>1. /\ Saved(s) /\ search[s].matches <= matched[s] /\ (crossed = 0 => search[s].matches = matched[s])
      BY <2>6, <2>10 DEF SearchesInv, Saved
    <3>2. crossed' = 0 => crossed = 0
      BY <2>5 DEF Onward
    <3>3. CASE s \in picked
      <4>1. /\ search'[s].matches = seen[s].matches + 1 /\ matched'[s] = matched[s] + 1
            /\ seen[s].matches \in 0..matched[s] /\ matched[s] \in Nat
        BY <2>3, <2>4, <2>6, <3>3
      <4>2. crossed' = 0 => search[s].matches = seen[s].matches
        BY <2>5, <3>3
      <4>3. crossed' = 0 => seen[s].matches = matched[s]
        BY <3>1, <3>2, <4>2
      <4>4. \A a, m \in Nat : a <= m => a + 1 <= m + 1
        OBVIOUS
      <4>5. seen[s].matches \in Nat /\ seen[s].matches <= matched[s]
        BY <4>1
      <4>. QED  BY <4>1, <4>3, <4>4, <4>5
    <3>4. CASE s \notin picked
      BY <2>6, <3>1, <3>2, <3>4
    <3>. QED  BY <3>3, <3>4
  <2>11. \A q \in Posts : For(q, "save")' \/ For(q, "alert")' => post'[q] = post[q]
    BY <1>2 DEF Turns, For
  <2>12. \A q \in Posts : For(q, "save")' => post'[q].who \in Seekers /\ Cardinality(post'[q].seen) < MaxSearches
    BY <2>11 DEF SearchesInv, For
  <2>13. ASSUME NEW q \in Posts, For(q, "alert")' PROVE For(q, "alert") /\ Alerting(q)'
    <3>1. post'[q] = post[q] /\ For(q, "alert") /\ q # p
      BY <1>1, <2>11, <2>13 DEF For
    <3>2. Alerting(q) /\ post[q].task # t
      BY <1>1, <2>1, <3>1 DEF SearchesInv
    <3>3. alerted'[post[q].task] = alerted[post[q].task]
      BY <2>8, <3>2 DEF Alerting
    <3>4. ASSUME NEW s \in DOMAIN post[q].seen PROVE post[q].seen[s].matches \in 0..matched'[s]
      <4>1. s \in Searches /\ post[q].seen[s].matches \in 0..matched[s]
        BY <3>2, <3>4 DEF Alerting
      <4>2. matched'[s] \in Nat /\ matched[s] \in Nat /\ matched'[s] >= matched[s]
        BY <2>4, <2>6, <4>1
      <4>. QED  BY <4>1, <4>2
    <3>. QED  BY <3>1, <3>2, <3>3, <3>4 DEF Alerting
  <2>14. \A q, w \in Posts : For(q, "alert")' /\ For(w, "alert")' /\ post'[q].task = post'[w].task => q = w
    BY <2>11, <2>13 DEF SearchesInv
  <2>15. \A s \in Searches : search'[s].is = "none" => matched'[s] = 0
    BY <2>6 DEF SearchesInv
  <2>. QED  BY <2>5, <2>7, <2>8, <2>9, <2>10, <2>12, <2>13, <2>14, <2>15 DEF SearchesInv, SearchLimits
<1>. QED  BY <1>3, <1>4

LEMMA CountSearchesKeeps ==
  ASSUME TalkInv, NEW p \in Posts, NEW u \in Seekers, CountSearches(p, u)
  PROVE  SearchesInv'
<1>. USE DEF TalkInv
<1>1. /\ search' = search /\ matched' = matched /\ alerted' = alerted /\ crossed' = crossed
      /\ post' = [post EXCEPT ![p] = [for |-> "save", who |-> u, seen |-> SearchesOf(u)]]
      /\ Cardinality(SearchesOf(u)) < MaxSearches
  BY DEF CountSearches, Open
<1>2. PICK r : r = [for |-> "save", who |-> u, seen |-> SearchesOf(u)]
  OBVIOUS
<1>3. r.for = "save" /\ r.who \in Seekers /\ Cardinality(r.seen) < MaxSearches
  BY <1>1, <1>2
<1>4. \A q \in Posts : post'[q] = IF q = p THEN r ELSE post[q]
  BY <1>1, <1>2
<1>5. \A q \in Posts : For(q, "save")' => post'[q].who \in Seekers /\ Cardinality(post'[q].seen) < MaxSearches
  BY <1>3, <1>4 DEF SearchesInv, For
<1>6. \A q \in Posts : For(q, "alert")' => For(q, "alert") /\ post'[q] = post[q]
  BY <1>3, <1>4 DEF For
<1>7. ASSUME NEW q \in Posts, For(q, "alert")' PROVE Alerting(q)'
  <2>1. Alerting(q) /\ post'[q] = post[q]
    BY <1>6, <1>7 DEF SearchesInv
  <2>. QED  BY <1>1, <2>1 DEF Alerting
<1>8. \A q, w \in Posts : For(q, "alert")' /\ For(w, "alert")' /\ post'[q].task = post'[w].task => q = w
  BY <1>6 DEF SearchesInv
<1>9. \A v \in Seekers : Cardinality(SearchesOf(v)') <= MaxSearches + crossed'
  BY <1>1 DEF SearchesInv, SearchesOf, Saved
<1>. QED  BY <1>1, <1>5, <1>7, <1>8, <1>9 DEF SearchesInv, Saved

LEMMA SearchesKeep ==
  ASSUME TalkInv, SearchNext
  PROVE  TalkInv'
<1>. USE DEF TalkInv
<1>1. ASSUME OthersThanSearches, SearchesInv', Onward, Turns({"comment", "delete"}), Turns({"read"}), Turns({"notice"})
      PROVE  TalkInv'
  <2>1. CommentsInv' /\ MessagesInv' /\ DisputesInv'
    BY <1>1, OthersKeepComments, OthersKeepMessages, OthersKeepDisputes DEF OthersThanSearches
  <2>. QED  BY <1>1, <2>1 DEF Turns, Onward
<1>2. ASSUME NEW p \in Posts, NEW r, post' = [post EXCEPT ![p] = r], r.for \in {"save", "alert", "nothing"},
             OthersThanSearches, SearchesInv', Onward
      PROVE  TalkInv'
  <2>1. Turns({"comment", "delete"}) /\ Turns({"read"}) /\ Turns({"notice"})
    BY <1>2, PostTurns
  <2>. QED  BY <1>1, <1>2, <2>1
<1>3. ASSUME NEW p \in Posts, NEW u \in Seekers, CountSearches(p, u) PROVE TalkInv'
  <2>. DEFINE r == [for |-> "save", who |-> u, seen |-> SearchesOf(u)]
  <2>1. post' = [post EXCEPT ![p] = r] /\ OthersThanSearches /\ crossed' = crossed /\ r.for = "save"
    BY <1>3 DEF CountSearches, Open
  <2>2. SearchesInv' /\ Onward
    BY <1>3, <2>1, CountSearchesKeeps DEF Onward
  <2>. HIDE DEF r
  <2>. QED  BY <1>2, <2>1, <2>2
<1>4. ASSUME NEW p \in Posts, NEW t \in Created, ReadSearches(p, t) PROVE TalkInv'
  <2>0. PICK seen : post' = [post EXCEPT ![p] = [for |-> "alert", task |-> t, seen |-> seen]]
    BY <1>4 DEF ReadSearches, Open
  <2>1. PICK r : r = [for |-> "alert", task |-> t, seen |-> seen]
    OBVIOUS
  <2>2. OthersThanSearches /\ crossed' = crossed
    BY <1>4 DEF ReadSearches
  <2>3. SearchesInv' /\ Onward
    BY <1>4, <2>2, ReadSearchesKeeps DEF Onward
  <2>4. post' = [post EXCEPT ![p] = r] /\ r.for = "alert"
    BY <2>0, <2>1
  <2>. QED  BY <1>2, <2>2, <2>3, <2>4
<1>5. ASSUME NEW p \in Posts, (\E s \in Searches : SaveSearch(p, s)) \/ Alert(p) PROVE TalkInv'
  <2>1. post' = [post EXCEPT ![p] = NoPost] /\ OthersThanSearches /\ NoPost.for = "nothing"
    BY <1>5 DEF SaveSearch, Alert, Close, NoPost
  <2>2. SearchesInv' /\ Onward
    BY <1>5, SaveKeeps, AlertKeeps
  <2>. QED  BY <1>2, <2>1, <2>2
<1>6. ASSUME NEW s \in Searches, SetAlert(s) \/ DeleteSearch(s) PROVE TalkInv'
  <2>1. post' = post /\ OthersThanSearches /\ crossed' = crossed
    BY <1>6 DEF SetAlert, DeleteSearch
  <2>2. SearchesInv' /\ Onward
    BY <1>6, <2>1, TouchSearchKeeps DEF Onward
  <2>3. Turns({"comment", "delete"}) /\ Turns({"read"}) /\ Turns({"notice"})
    BY <2>1, PostStays
  <2>. QED  BY <1>1, <2>1, <2>2, <2>3
<1>. QED  BY <1>3, <1>4, <1>5, <1>6 DEF SearchNext

(* Disputes.                                                               *)
LEMMA NoticingOpens ==
  ASSUME TalkInv, NEW p \in Posts, post' = [post EXCEPT ![p] = [for |-> "notice"]],
         NEW d \in Nat, told.due + 1 = d
  PROVE  told.written + Cardinality(Noticing') <= d
<1>1. Noticing \in SUBSET Posts
  BY DEF Noticing
<1>2. IsFiniteSet(Noticing)
  BY <1>1, TalkAssumption, FS_Subset
<1>3. Noticing' \subseteq Noticing \cup {p} /\ IsFiniteSet(Noticing \cup {p})
  <2>1. Noticing' \subseteq Noticing \cup {p}
    BY DEF Noticing, For, TalkInv
  <2>. QED  BY <1>2, <2>1, FS_AddElement
<1>4. Cardinality(Noticing') <= Cardinality(Noticing \cup {p}) /\ Cardinality(Noticing') \in Nat
  BY <1>3, FS_Subset, FS_CardinalityType
<1>5. /\ Cardinality(Noticing) \in Nat /\ Cardinality(Noticing \cup {p}) \in Nat
      /\ Cardinality(Noticing \cup {p}) <= Cardinality(Noticing) + 1
  BY <1>2, OneMember
<1>6. /\ told.written \in Nat /\ told.due \in Nat
      /\ told.written + Cardinality(Noticing) <= told.due
  BY DEF TalkInv, DisputesInv
<1>7. \A w, due, n, m, k \in Nat : w + n <= due /\ k <= m /\ m <= n + 1 => w + k <= due + 1
  OBVIOUS
<1>. QED  BY <1>4, <1>5, <1>6, <1>7

LEMMA EvidenceKeeps ==
  ASSUME TalkInv, NEW p \in Posts, NEW role, SubmitEvidence(p, role)
  PROVE  DisputesInv'
<1>1. /\ dispute \in [open : BOOLEAN, mediated : Nat, evidence : Nat, events : Nat]
      /\ told \in [due : Nat, written : Nat] /\ dispute.events = dispute.evidence + dispute.mediated
  BY DEF TalkInv, DisputesInv
<1>2. PICK e \in Nat, v \in Nat : /\ e = dispute.evidence + 1 /\ v = dispute.events + 1
                                  /\ dispute' = [dispute EXCEPT !.evidence = e, !.events = v]
  <2>1. dispute.evidence + 1 \in Nat /\ dispute.events + 1 \in Nat
    BY <1>1
  <2>2. dispute' = [dispute EXCEPT !.evidence = dispute.evidence + 1, !.events = dispute.events + 1]
    BY DEF SubmitEvidence
  <2>. QED  BY <2>1, <2>2
<1>3. /\ dispute' \in [open : BOOLEAN, mediated : Nat, evidence : Nat, events : Nat]
      /\ dispute'.evidence = e /\ dispute'.events = v /\ dispute'.mediated = dispute.mediated
  BY <1>1, <1>2
<1>4. dispute'.events = dispute'.evidence + dispute'.mediated
  BY <1>1, <1>2, <1>3
<1>5. CASE UNCHANGED <<post, told>>
  <2>1. Noticing' = Noticing /\ told' = told
    BY <1>5 DEF Noticing, For
  <2>. QED  BY <1>3, <1>4, <2>1 DEF TalkInv, DisputesInv
<1>6. CASE NoticeDue(p)
  <2>1. PICK d \in Nat : d = told.due + 1 /\ told' = [told EXCEPT !.due = d]
    <3>1. told.due + 1 \in Nat
      BY <1>1
    <3>2. told' = [told EXCEPT !.due = told.due + 1]
      BY <1>6 DEF NoticeDue
    <3>. QED  BY <3>1, <3>2
  <2>2. told' \in [due : Nat, written : Nat] /\ told'.due = d /\ told'.written = told.written
    BY <1>1, <2>1
  <2>3. told.written + Cardinality(Noticing') <= d
    BY <1>6, <2>1, NoticingOpens DEF NoticeDue, Open
  <2>. QED  BY <1>3, <1>4, <2>2, <2>3 DEF DisputesInv
<1>. QED  BY <1>5, <1>6 DEF SubmitEvidence

LEMMA MediatorKeeps ==
  ASSUME TalkInv, NEW p \in Posts, AssignMediator(p)
  PROVE  DisputesInv'
<1>1. /\ dispute \in [open : BOOLEAN, mediated : Nat, evidence : Nat, events : Nat]
      /\ told \in [due : Nat, written : Nat] /\ dispute.events = dispute.evidence + dispute.mediated
  BY DEF TalkInv, DisputesInv
<1>2. PICK e \in Nat, v \in Nat : /\ e = dispute.mediated + 1 /\ v = dispute.events + 1
                                  /\ dispute' = [dispute EXCEPT !.mediated = e, !.events = v]
  <2>1. dispute.mediated + 1 \in Nat /\ dispute.events + 1 \in Nat
    BY <1>1
  <2>2. dispute' = [dispute EXCEPT !.mediated = dispute.mediated + 1, !.events = dispute.events + 1]
    BY DEF AssignMediator
  <2>. QED  BY <2>1, <2>2
<1>3. /\ dispute' \in [open : BOOLEAN, mediated : Nat, evidence : Nat, events : Nat]
      /\ dispute'.mediated = e /\ dispute'.events = v /\ dispute'.evidence = dispute.evidence
  BY <1>1, <1>2
<1>4. dispute'.events = dispute'.evidence + dispute'.mediated
  BY <1>1, <1>2, <1>3
<1>5. PICK d \in Nat : d = told.due + 1 /\ told' = [told EXCEPT !.due = d]
  BY <1>1 DEF AssignMediator
<1>6. told' \in [due : Nat, written : Nat] /\ told'.due = d /\ told'.written = told.written
  BY <1>1, <1>5
<1>7. told.written + Cardinality(Noticing') <= d
  BY <1>5, NoticingOpens DEF AssignMediator
<1>. QED  BY <1>3, <1>4, <1>6, <1>7 DEF DisputesInv

LEMMA WriteNoticeKeeps ==
  ASSUME TalkInv, NEW p \in Posts, WriteNotice(p)
  PROVE  DisputesInv'
<1>1. told \in [due : Nat, written : Nat] /\ told.written + Cardinality(Noticing) <= told.due
  BY DEF TalkInv, DisputesInv
<1>2. PICK w \in Nat : w = told.written + 1 /\ told' = [told EXCEPT !.written = w]
  BY <1>1 DEF WriteNotice
<1>3. told' \in [due : Nat, written : Nat] /\ told'.written = w /\ told'.due = told.due
  BY <1>1, <1>2
<1>4. Noticing \in SUBSET Posts /\ p \in Noticing
  BY DEF Noticing, WriteNotice
<1>5. Noticing' = Noticing \ {p}
  BY DEF Noticing, For, WriteNotice, Close, NoPost, TalkInv
<1>6. IsFiniteSet(Noticing) /\ Cardinality(Noticing) \in Nat
  BY <1>4, TalkAssumption, FS_Subset, FS_CardinalityType
<1>7. Cardinality(Noticing') = Cardinality(Noticing) - 1
  BY <1>4, <1>5, <1>6, FS_RemoveElement
<1>8. w + Cardinality(Noticing') <= told'.due
  BY <1>1, <1>2, <1>3, <1>6, <1>7
<1>9. dispute' = dispute
  BY DEF WriteNotice
<1>. QED  BY <1>3, <1>8, <1>9 DEF TalkInv, DisputesInv

LEMMA DisputesKeep ==
  ASSUME TalkInv, DisputeNext
  PROVE  TalkInv'
<1>. USE DEF TalkInv
<1>1. ASSUME OthersThanDisputes, DisputesInv', Turns({"comment", "delete"}), Turns({"read"}), Turns({"save", "alert"})
      PROVE  TalkInv'
  <2>1. Onward
    BY <1>1 DEF OthersThanDisputes, Onward
  <2>2. CommentsInv' /\ MessagesInv' /\ SearchesInv'
    BY <1>1, <2>1, OthersKeepComments, OthersKeepMessages, OthersKeepSearches DEF OthersThanDisputes
  <2>. QED  BY <1>1, <2>1, <2>2 DEF Turns, Onward
<1>2. ASSUME NEW p \in Posts, NEW r, post' = [post EXCEPT ![p] = r], r.for \in {"notice", "mediator", "nothing"},
             OthersThanDisputes, DisputesInv'
      PROVE  TalkInv'
  <2>1. Turns({"comment", "delete"}) /\ Turns({"read"}) /\ Turns({"save", "alert"})
    BY <1>2, PostTurns
  <2>. QED  BY <1>1, <1>2, <2>1
<1>3. ASSUME post' = post, OthersThanDisputes, DisputesInv' PROVE TalkInv'
  <2>1. Turns({"comment", "delete"}) /\ Turns({"read"}) /\ Turns({"save", "alert"})
    BY <1>3, PostStays
  <2>. QED  BY <1>1, <1>3, <2>1
<1>4. ASSUME NEW p \in Posts, NEW role, SubmitEvidence(p, role) PROVE TalkInv'
  <2>1. DisputesInv' /\ OthersThanDisputes
    BY <1>4, EvidenceKeeps DEF SubmitEvidence
  <2>2. CASE post' = post
    BY <1>3, <2>1, <2>2
  <2>3. CASE NoticeDue(p)
    <3>1. PICK r : r = [for |-> "notice"]
      OBVIOUS
    <3>2. post' = [post EXCEPT ![p] = r] /\ r.for = "notice"
      BY <2>3, <3>1 DEF NoticeDue, Open
    <3>. QED  BY <1>2, <2>1, <3>2
  <2>. QED  BY <1>4, <2>2, <2>3 DEF SubmitEvidence
<1>5. ASSUME NEW p \in Posts, ReadDispute(p) PROVE TalkInv'
  <2>0. PICK r : r = [for |-> "mediator"]
    OBVIOUS
  <2>1. post' = [post EXCEPT ![p] = r] /\ r.for = "mediator"
    BY <1>5, <2>0 DEF ReadDispute, Open
  <2>2. OthersThanDisputes /\ dispute' = dispute /\ told' = told
    BY <1>5 DEF ReadDispute
  <2>3. Turns({"notice"})
    BY <2>1, PostTurns
  <2>4. DisputesInv'
    BY <2>2, <2>3, OthersKeepDisputes
  <2>. QED  BY <1>2, <2>1, <2>2, <2>4
<1>6. ASSUME NEW p \in Posts, AssignMediator(p) PROVE TalkInv'
  <2>0. PICK r : r = [for |-> "notice"]
    OBVIOUS
  <2>1. post' = [post EXCEPT ![p] = r] /\ r.for = "notice"
    BY <1>6, <2>0 DEF AssignMediator
  <2>2. OthersThanDisputes /\ DisputesInv'
    BY <1>6, MediatorKeeps DEF AssignMediator
  <2>. QED  BY <1>2, <2>1, <2>2
<1>7. ASSUME NEW p \in Posts, WriteNotice(p) PROVE TalkInv'
  <2>1. post' = [post EXCEPT ![p] = NoPost] /\ NoPost.for = "nothing" /\ OthersThanDisputes
    BY <1>7 DEF WriteNotice, Close, NoPost
  <2>2. DisputesInv'
    BY <1>7, WriteNoticeKeeps
  <2>. QED  BY <1>2, <2>1, <2>2
<1>8. ASSUME Resolve PROVE TalkInv'
  <2>1. post' = post /\ told' = told /\ OthersThanDisputes /\ dispute' = [dispute EXCEPT !.open = FALSE]
    BY <1>8 DEF Resolve
  <2>2. Noticing' = Noticing
    BY <2>1 DEF Noticing, For
  <2>3. DisputesInv'
    BY <2>1, <2>2 DEF DisputesInv
  <2>. QED  BY <1>3, <2>1, <2>3
<1>. QED  BY <1>4, <1>5, <1>6, <1>7, <1>8, DyingKeeps DEF DisputeNext

LEMMA TalkInvInit == TalkInit => TalkInv
<1>. SUFFICES ASSUME TalkInit PROVE TalkInv
  OBVIOUS
<1>1. \A p \in Posts : post[p] = NoPost /\ post[p].for = "nothing"
  BY DEF TalkInit, NoPost
<1>2. Thread = {} /\ \A u : SearchesOf(u) = {}
  BY DEF TalkInit, Thread, Live, SearchesOf, Saved, NoComment, NoSearch
<1>3. Noticing = {}
  BY <1>1 DEF Noticing, For
<1>4. Cardinality({}) = 0 /\ {MaxComments, MaxSearches} \subseteq Nat
  BY FS_EmptySet, TalkAssumption
<1>5. Cardinality(Thread) = 0 /\ Cardinality(Noticing) = 0 /\ \A u : Cardinality(SearchesOf(u)) = 0
  BY <1>2, <1>3, <1>4
<1>6. comment \in [Comments -> CommentRow] /\ \A c \in Comments : comment[c].is # "gone"
  BY DEF TalkInit, NoComment, CommentRow
<1>7. CommentsInv
  BY <1>1, <1>2, <1>4, <1>5, <1>6 DEF TalkInit, CommentsInv, For
<1>8. MessagesInv
  BY <1>1 DEF TalkInit, MessagesInv, For
<1>9. SearchesInv
  <2>1. search \in [Searches -> SearchRow] /\ \A s \in Searches : ~Saved(s)
    BY DEF TalkInit, NoSearch, SearchRow, Saved
  <2>2. matched = [s \in Searches |-> 0] /\ matched \in [Searches -> Nat]
    BY DEF TalkInit
  <2>3. alerted \in [Created -> [Seekers -> {0, 1}]]
    BY DEF TalkInit
  <2>4. \A u \in Seekers : Cardinality(SearchesOf(u)) <= MaxSearches + crossed
    BY <1>4, <1>5 DEF TalkInit
  <2>. QED  BY <1>1, <2>1, <2>2, <2>3, <2>4 DEF SearchesInv, For
<1>10. DisputesInv
  BY <1>5 DEF TalkInit, DisputesInv
<1>11. DOMAIN post = Posts /\ crossed \in Nat
  BY DEF TalkInit
<1>. QED  BY <1>7, <1>8, <1>9, <1>10, <1>11 DEF TalkInv

LEMMA TalkInvNext == TalkInv /\ [TalkNext]_talkVars => TalkInv'
<1>. SUFFICES ASSUME TalkInv, [TalkNext]_talkVars PROVE TalkInv'
  OBVIOUS
<1>1. CASE UNCHANGED talkVars
  <2>1. /\ comment' = comment /\ message' = message /\ search' = search /\ dispute' = dispute /\ post' = post
        /\ removed' = removed /\ answered' = answered /\ alerted' = alerted /\ matched' = matched
        /\ told' = told /\ crossed' = crossed
    BY <1>1 DEF talkVars
  <2>2. /\ Turns({"comment", "delete"}) /\ Turns({"read"})
        /\ Turns({"save", "alert"}) /\ Turns({"notice"})
    BY <2>1, PostStays DEF TalkInv
  <2>3. Onward
    BY <2>1 DEF Onward, TalkInv
  <2>4. CommentsInv' /\ MessagesInv'
    BY <2>1, <2>2, <2>3, OthersKeepComments, OthersKeepMessages
  <2>5. SearchesInv' /\ DisputesInv'
    BY <2>1, <2>2, <2>3, OthersKeepSearches, OthersKeepDisputes
  <2>. QED  BY <2>1, <2>4, <2>5 DEF TalkInv
<1>. QED  BY <1>1, CommentsKeep, MessagesKeep, SearchesKeep, DisputesKeep DEF TalkNext

LEMMA TalkSuffices == TalkInv => TalkKept
<1>. SUFFICES ASSUME TalkInv PROVE TalkKept
  OBVIOUS
<1>1. \A t \in Created : \A u \in Seekers : alerted[t][u] <= 1
  <2>1. \A t \in Created : \A u \in Seekers : alerted[t][u] \in {0, 1}
    BY DEF TalkInv, SearchesInv
  <2>. QED  BY <2>1
<1>2. told.written <= told.due
  <2>1. Noticing \in SUBSET Posts
    BY DEF Noticing
  <2>2. Cardinality(Noticing) \in Nat
    BY <2>1, TalkAssumption, FS_Subset, FS_CardinalityType
  <2>. QED  BY <2>2 DEF TalkInv, DisputesInv
<1>. QED  BY <1>1, <1>2 DEF TalkInv, CommentsInv, MessagesInv, SearchesInv, DisputesInv, TalkKept

(* However requests about comments, messages, searches and disputes        *)
(* overlap, replies keep their parents, what is marked as read was shown,  *)
(* a user is alerted once about a task, a dispute's log is complete, and   *)
(* the limits are out by no more than the requests that crossed            *)
(* (routers/comments.py, routers/task_messages.py, routers/notifications.py,*)
(* routers/saved_searches.py, routers/disputes.py).                        *)
THEOREM TalkSound == TalkSpec => []TalkKept
BY TalkInvInit, TalkInvNext, TalkSuffices, PTL DEF TalkSpec
=============================================================================
