------------------------------ MODULE Welcome ------------------------------
(* A requester's onboarding (routers/requester_onboarding.py): five steps, *)
(* marked by hand or by other handlers in the background, and a bonus when *)
(* all are done.  A request reads the row without a lock, decides by its   *)
(* copy, and writes the columns that it changed.                           *)
EXTENDS Integers

CONSTANTS
  Guests,      \* requests that may be under way at once
  GuideSteps,  \* REQUESTER_ONBOARDING_STEPS
  MaxResets, MaxBonuses, MaxSlips

ASSUME WelcomeAssumption == {MaxResets, MaxBonuses, MaxSlips} \subseteq Nat /\ GuideSteps # {}

VARIABLES
  guide,    \* the row of requester_onboarding
  guest,    \* requests and their copies of the row
  bonuses,  \* how often the bonus was paid
  resets,   \* how often a row that had claimed it was reset
  asked,    \* history: steps marked since the last reset
  slips     \* history: writes decided on a copy that had changed

welcomeVars == <<guide, guest, bonuses, resets, asked, slips>>

NoGuest == [to |-> "nothing"]
NoGuide == [there |-> FALSE, steps |-> {}, completed |-> FALSE, skipped |-> FALSE, claimed |-> FALSE]
EmptyGuide == [NoGuide EXCEPT !.there = TRUE]

WelcomeTypeOK ==
  /\ guide.steps \subseteq GuideSteps /\ (guide = NoGuide \/ guide.there)
  /\ bonuses \in 0..MaxBonuses /\ resets \in 0..MaxResets /\ slips \in 0..MaxSlips /\ asked \subseteq GuideSteps

WelcomeInit ==
  /\ guide = NoGuide /\ guest = [g \in Guests |-> NoGuest]
  /\ bonuses = 0 /\ resets = 0 /\ asked = {} /\ slips = 0

Enter(g, request) == guest[g] = NoGuest /\ guest' = [guest EXCEPT ![g] = request]
Finished(g) == guest' = [guest EXCEPT ![g] = NoGuest]
Copy(g) == guest[g].copy
Slip(changed) == slips' = (IF changed THEN slips + 1 ELSE slips) /\ slips' <= MaxSlips
GuestDies(g) == /\ guest[g] # NoGuest /\ Finished(g)
                /\ UNCHANGED <<guide, bonuses, resets, asked, slips>>

(* Every request finds the row or will insert one; a step marked in the    *)
(* background that is done already ends here.                              *)
MarkedAlready(to, s) == to = "hook" /\ s \in guide.steps
OpenGuide(g, to, s) ==
  /\ Enter(g, [to |-> to, step |-> s, copy |-> guide])
  /\ ~MarkedAlready(to, s)
  /\ UNCHANGED <<guide, bonuses, resets, asked, slips>>

(* The row was inserted by another request: the constraint refuses ours.   *)
Refuse(g) ==
  /\ guest[g].to \in {"look", "step", "hook", "skip"} /\ ~Copy(g).there /\ guide.there /\ Finished(g)
  /\ UNCHANGED <<guide, bonuses, resets, asked, slips>>
Found(g) == Copy(g).there = guide.there

(* Looking at the steps inserts the row as well.                           *)
GetStatus(g) ==
  /\ guest[g].to = "look" /\ Found(g) /\ Finished(g)
  /\ guide' = IF Copy(g).there THEN guide ELSE EmptyGuide
  /\ UNCHANGED <<bonuses, resets, asked, slips>>

AllDone(steps) == steps = GuideSteps
ClaimsAgain(copy, steps) == AllDone(steps) \* mutant
Claims(copy, steps) == AllDone(steps) /\ ~copy.claimed
SetStep(g) ==
  /\ guest[g].to \in {"step", "hook"} /\ Found(g) /\ Finished(g)
  /\ LET copy == Copy(g)
         steps == copy.steps \cup {guest[g].step}
         claims == Claims(copy, steps)
     IN /\ guide' = [there |-> TRUE,
                     steps |-> guide.steps \cup (steps \ copy.steps),
                     completed |-> guide.completed \/ (AllDone(steps) /\ ~copy.completed),
                     skipped |-> guide.skipped,
                     claimed |-> guide.claimed \/ claims]
        /\ bonuses' = (IF claims THEN bonuses + 1 ELSE bonuses) /\ bonuses' <= MaxBonuses
        /\ asked' = asked \cup {guest[g].step}
        /\ Slip(copy # guide)
  /\ UNCHANGED resets

(* The whole flow is skipped, unless it was completed.                     *)
SkipOnboarding(g) ==
  /\ guest[g].to = "skip" /\ Found(g) /\ Finished(g)
  /\ guide' = IF Copy(g).completed THEN guide ELSE [guide EXCEPT !.there = TRUE, !.skipped = TRUE]
  /\ Slip(Copy(g).completed # guide.completed)
  /\ UNCHANGED <<bonuses, resets, asked>>

(* What the copy holds is cleared, and nothing else.                       *)
ResetOnboarding(g) ==
  /\ guest[g].to = "reset" /\ Finished(g) /\ Copy(g).there
  /\ guide' = [there |-> TRUE, steps |-> guide.steps \ Copy(g).steps,
               completed |-> guide.completed /\ ~Copy(g).completed,
               skipped |-> guide.skipped /\ ~Copy(g).skipped,
               claimed |-> guide.claimed /\ ~Copy(g).claimed]
  /\ resets' = (IF Copy(g).claimed THEN resets + 1 ELSE resets) /\ resets' <= MaxResets
  /\ asked' = {} /\ Slip(Copy(g) # guide)
  /\ UNCHANGED bonuses

WelcomeNext ==
  \E g \in Guests :
    \/ \E to \in {"look", "step", "hook", "skip", "reset"}, s \in GuideSteps : OpenGuide(g, to, s)
    \/ Refuse(g) \/ GetStatus(g) \/ SetStep(g) \/ SkipOnboarding(g) \/ ResetOnboarding(g) \/ GuestDies(g)
WelcomeSpec == WelcomeInit /\ [][WelcomeNext]_welcomeVars

-----------------------------------------------------------------------------
(* The bonus is paid once, and once more only for a row that was reset or  *)
(* for a request whose copy was outdated.  Without such a request the row  *)
(* has the steps that were marked, is complete exactly with all of them,   *)
(* and says whether its bonus was paid.                                    *)
WelcomeKept ==
  /\ bonuses <= 1 + resets + slips
  /\ slips = 0 =>
       /\ guide.steps = asked
       /\ guide.completed = AllDone(asked) /\ guide.claimed = guide.completed
       /\ bonuses = resets + (IF guide.claimed THEN 1 ELSE 0)
=============================================================================
