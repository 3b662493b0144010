------------------------------- MODULE Skills -------------------------------
(* One worker's profile for one type of task (routers/skills.py, called by *)
(* submit_task, approve_submission and reject_submission), the skill quiz  *)
(* that sets its level (routers/skill_quiz.py) and a certification         *)
(* (routers/certifications.py).  Profiles and certifications are locked    *)
(* FOR UPDATE, which holds nothing as long as there is no row: the first   *)
(* of several insertions wins and the others fail.                         *)
EXTENDS Integers, FiniteSets, Sequences

CONSTANTS Works, Updates, Quizzes, Exams, VolumeFor, VerifyAfter, Marks, PassMark,
          MaxAttempts

Levels == 1..5
ASSUME SkillsAssumption ==
  /\ VolumeFor \in [2..5 -> Nat \ {0}] /\ VerifyAfter \in Nat
  /\ Marks \subseteq Nat /\ PassMark \in Nat /\ MaxAttempts \in Nat

VARIABLES
  duty,     \* the worker's assignments of this type
  skill,    \* the row of worker_skills, empty when there is none
  update,   \* requests that update it
  tally,    \* history: the updates that found a row, by outcome
  quiz,     \* requests that submit a quiz
  stepped,  \* history: a quiz wrote a level it had compared with an older one
  cert,     \* the row of worker_certifications, empty when there is none
  exam,     \* requests that attempt the certification
  results   \* history: the marks of the attempts answered

skillVars == <<duty, skill, update, tally, quiz, stepped>>
certVars == <<cert, exam, results>>
profileVars == <<skillVars, certVars>>

Rest == [at |-> "rest"]
Absent == <<>>
NewSkill(l) == [completed |-> 0, approved |-> 0, rejected |-> 0, level |-> l, verified |-> FALSE]
Outcomes == {"completed", "approved", "rejected"}

SkillsTypeOK ==
  /\ duty \in [Works -> {"claimed", "submitted", "reviewed"}]
  /\ skill # Absent => /\ {skill.completed, skill.approved, skill.rejected} \subseteq Nat
                       /\ skill.level \in Levels /\ skill.verified \in BOOLEAN
  /\ tally \in [Outcomes -> Nat]
  /\ stepped \in BOOLEAN
  /\ cert # Absent => cert.attempts \in 0..MaxAttempts /\ cert.best \in Marks

SkillsInit ==
  /\ duty = [j \in Works |-> "claimed"] /\ skill = Absent
  /\ update = [u \in Updates |-> Rest] /\ tally = [o \in Outcomes |-> 0]
  /\ quiz = [z \in Quizzes |-> Rest] /\ stepped = FALSE
  /\ cert = Absent /\ exam = [x \in Exams |-> Rest] /\ results = <<>>

-----------------------------------------------------------------------------
Volume(n) == CHOOSE l \in Levels : /\ l > 1 => n >= VolumeFor[l]
                                   /\ \A k \in Levels : k > l => n < VolumeFor[k]
(* _proficiency_for_completed: by volume, up one with 95% approved, down   *)
(* one below 70%.                                                          *)
Proficiency(s) ==
  LET graded == s.approved + s.rejected
      base == Volume(s.completed) IN
  CASE graded > 0 /\ 100 * s.approved >= 95 * graded /\ base < 5 -> base + 1
    [] graded > 0 /\ 100 * s.approved < 70 * graded /\ base > 1 -> base - 1
    [] OTHER -> base
Verifies(s) == /\ s.level >= 4 /\ 100 * s.approved >= 90 * (s.approved + s.rejected)
               /\ s.approved + s.rejected > 0 /\ s.completed >= VerifyAfter

Holding(requests) == {x \in DOMAIN requests : requests[x].at \in {"locked", "inserted"}}
RowUnlocked == TRUE \* mutant
RowFree == Holding(update) = {} /\ Holding(quiz) = {}
(* The row is there to be counted on: the outcome is counted whatever it   *)
(* was counted as before.                                                  *)
Counted(s, o) ==
  LET t == [s EXCEPT !.completed = @ + 1,
                     !.approved = @ + IF o = "approved" THEN 1 ELSE 0,
                     !.rejected = @ + IF o = "rejected" THEN 1 ELSE 0]
      l == [t EXCEPT !.level = Proficiency(t)] IN
  [l EXCEPT !.verified = @ \/ Verifies(l)]

(* update_worker_skill, in the transaction that submits or reviews j.      *)
Update(u, j, o) ==
  /\ update[u] = Rest
  /\ \A v \in Updates : update[v].at # "rest" => update[v].work # j
  /\ duty[j] = IF o = "completed" THEN "claimed" ELSE "submitted"
  /\ skill # Absent => RowFree
  /\ update' = [update EXCEPT ![u] = [at |-> IF skill = Absent THEN "absent" ELSE "locked",
                                      work |-> j, outcome |-> o]]
  /\ UNCHANGED <<duty, skill, tally, quiz, stepped, certVars>>

(* Without a row a new one is added, but counting on its unset columns     *)
(* raises: the error is logged and the row stays as its defaults are.      *)
Insert(u) ==
  /\ update[u].at = "absent" /\ RowFree
  /\ update' = [update EXCEPT ![u] = IF skill = Absent THEN [@ EXCEPT !.at = "inserted"] ELSE Rest]
  /\ UNCHANGED <<duty, skill, tally, quiz, stepped, certVars>>

Finish(u) ==
  LET q == update[u] IN
  /\ q.at \in {"locked", "inserted"}
  /\ skill' = IF q.at = "locked" THEN Counted(skill, q.outcome) ELSE NewSkill(1)
  /\ tally' = IF q.at = "locked" THEN [tally EXCEPT ![q.outcome] = @ + 1] ELSE tally
  /\ duty' = [duty EXCEPT ![q.work] = IF q.outcome = "completed" THEN "submitted" ELSE "reviewed"]
  /\ update' = [update EXCEPT ![u] = Rest]
  /\ UNCHANGED <<quiz, stepped, certVars>>

UpdateDies(u) ==
  /\ update[u].at # "rest" /\ update' = [update EXCEPT ![u] = Rest]
  /\ UNCHANGED <<duty, skill, tally, quiz, stepped, certVars>>

-----------------------------------------------------------------------------
(* submit_quiz reads the row without a lock; a higher level is written.    *)
(* The bonus for the first pass is left out: the query that counts earlier *)
(* passes flushes this attempt first and counts it, so none is ever paid.  *)
SubmitQuiz(z, l) ==
  /\ quiz[z] = Rest
  /\ quiz' = [quiz EXCEPT ![z] = [at |-> "graded", level |-> l, row |-> skill]]
  /\ UNCHANGED <<duty, skill, update, tally, stepped, certVars>>

Raises(q) == q.row # Absent /\ q.level > q.row.level
FlushQuiz(z) ==
  LET q == quiz[z] IN
  /\ q.at = "graded" /\ (Raises(q) \/ q.row = Absent => RowFree)
  /\ quiz' = [quiz EXCEPT ![z] =
       IF q.row = Absent /\ skill # Absent THEN Rest
       ELSE [at |-> IF q.row = Absent THEN "inserted" ELSE IF Raises(q) THEN "locked" ELSE "unlocked",
             level |-> q.level, row |-> q.row]]
  /\ UNCHANGED <<duty, skill, update, tally, stepped, certVars>>

SaveQuiz(z) ==
  LET q == quiz[z] IN
  /\ q.at \in {"inserted", "locked", "unlocked"}
  /\ skill' = CASE q.at = "inserted" -> NewSkill(q.level)
                [] q.at = "locked" -> [skill EXCEPT !.level = q.level]
                [] OTHER -> skill
  /\ stepped' = (stepped \/ (q.at = "locked" /\ skill.level # q.row.level))
  /\ quiz' = [quiz EXCEPT ![z] = Rest]
  /\ UNCHANGED <<duty, update, tally, certVars>>

-----------------------------------------------------------------------------
(* attempt_certification.                                                  *)
CertFree == Holding(exam) = {}
MayTake(c) == c.cooling => c.passed
Attempt(x, mark) ==
  /\ exam[x] = Rest
  /\ cert # Absent => CertFree /\ MayTake(cert)
  /\ exam' = [exam EXCEPT ![x] = [at |-> IF cert = Absent THEN "absent" ELSE "locked", mark |-> mark]]
  /\ UNCHANGED <<cert, results, skillVars>>

InsertCert(x) ==
  /\ exam[x].at = "absent" /\ CertFree
  /\ exam' = [exam EXCEPT ![x] = IF cert = Absent THEN [@ EXCEPT !.at = "inserted"] ELSE Rest]
  /\ UNCHANGED <<cert, results, skillVars>>

Graded(m) == m >= PassMark
SaveAttempt(x) ==
  LET m == exam[x].mark IN
  /\ exam[x].at \in {"locked", "inserted"}
  /\ cert # Absent => cert.attempts < MaxAttempts
  /\ cert' = IF cert = Absent
             THEN [attempts |-> 1, best |-> m, passed |-> Graded(m), cooling |-> TRUE]
             ELSE [attempts |-> cert.attempts + 1, best |-> IF m > cert.best THEN m ELSE cert.best,
                   passed |-> cert.passed \/ Graded(m), cooling |-> TRUE]
  /\ results' = Append(results, m)
  /\ exam' = [exam EXCEPT ![x] = Rest]
  /\ UNCHANGED skillVars

ExamDies(x) ==
  /\ exam[x].at # "rest" /\ exam' = [exam EXCEPT ![x] = Rest]
  /\ UNCHANGED <<cert, results, skillVars>>

CoolDown ==
  /\ cert # Absent /\ cert.cooling
  /\ cert' = [cert EXCEPT !.cooling = FALSE]
  /\ UNCHANGED <<exam, results, skillVars>>

SkillNext ==
  \/ \E u \in Updates : \/ \E j \in Works, o \in Outcomes : Update(u, j, o)
                        \/ Insert(u) \/ Finish(u) \/ UpdateDies(u)
  \/ \E z \in Quizzes : (\E l \in Levels : SubmitQuiz(z, l)) \/ FlushQuiz(z) \/ SaveQuiz(z)
CertNext ==
  \/ \E x \in Exams : \/ \E m \in Marks : Attempt(x, m)
                      \/ InsertCert(x) \/ SaveAttempt(x) \/ ExamDies(x)
  \/ CoolDown
SkillsNext == SkillNext \/ CertNext
SkillsSpec == SkillsInit /\ [][SkillsNext]_profileVars

-----------------------------------------------------------------------------
(* However updates, quizzes and attempts overlap, fail or die: the profile *)
(* counts every update that found a row exactly once, its level is at      *)
(* least what its counts give unless a quiz was overtaken, and the         *)
(* certification stands for all the attempts answered.                     *)
ProfileKept ==
  /\ skill # Absent =>
       /\ skill.completed = tally["completed"] + tally["approved"] + tally["rejected"]
       /\ skill.approved = tally["approved"] /\ skill.rejected = tally["rejected"]
       /\ ~stepped => skill.level >= Proficiency(skill)
  /\ cert # Absent =>
       /\ cert.attempts = Len(results)
       /\ \E i \in DOMAIN results : cert.best = results[i]
       /\ \A i \in DOMAIN results : cert.best >= results[i]
       /\ cert.passed = Graded(cert.best)
=============================================================================
