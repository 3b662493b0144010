--------------------------- MODULE WorkersProofs ---------------------------
(* What TLAPS proves of how workers are hired, team up, get on and are     *)
(* rated: of Hiring, Teams, Progress, Standing and Skills, for any tasks,  *)
(* teams, days, strikes and requests.                                      *)
EXTENDS Hiring, Teams, Progress, Standing, Skills, FiniteSetTheorems, TLAPS

---------------------------------------------------------------------------
(* Teams *)

OwnersKept == \A t \in Teams, m \in Mates : role[t][m] = "owner" <=> creator[t] = m

(* A team that does not exist has left nothing behind. *)
NothingLeft ==
  \A t \in Teams : ~Live(t) =>
    /\ \A m \in Mates : role[t][m] = "none"
    /\ reserved # t
    /\ \A l \in Letters : letter[l] # Blank => letter[l].team # t

RoomKept == \A t \in Teams : Cardinality(Members(t)) <= MaxMembers + races

(* What a request has read is still so: an invitation being accepted is     *)
(* locked, and an owner stays one.                                         *)
ReadsKept ==
  /\ \A c \in Clerks : clerk[c].op = "join" =>
       /\ Pending(clerk[c].letter) /\ clerk[c].count < MaxMembers
       /\ \A d \in Clerks : clerk[d].op = "join" /\ clerk[d].letter = clerk[c].letter => d = c
  /\ \A c \in Clerks : clerk[c].op = "remove" =>
       creator[clerk[c].team] \notin {clerk[c].to, NoTeam}

LetterRow == [status : {"pending", "accepted", "declined"}, team : Teams, to : Mates, old : BOOLEAN]

TeamInv == TeamTypeOK /\ OwnersKept /\ NothingLeft /\ RoomKept /\ ReadsKept

LEMMA TeamFinite ==
  ASSUME NEW t \in Teams
  PROVE  IsFiniteSet(Members(t)) /\ Cardinality(Members(t)) \in Nat
BY TeamsAssumption, FS_Subset, FS_CardinalityType DEF Members

(* A team whose members stay, or of which some go, keeps within its room. *)
LEMMA RoomStays ==
  ASSUME TeamInv, races' = races, TeamTypeOK',
         \A t \in Teams, m \in Mates : role'[t][m] # "none" => role[t][m] # "none"
  PROVE  RoomKept'
<1>1. ASSUME NEW t \in Teams PROVE Cardinality(Members(t)') <= MaxMembers + races
  <2>1. Members(t)' \in SUBSET Members(t)
    BY DEF Members
  <2>2. Cardinality(Members(t)') <= Cardinality(Members(t))
    BY <2>1, TeamFinite, FS_Subset
  <2>3. Cardinality(Members(t)') \in Nat
    BY <2>1, TeamFinite, FS_Subset, FS_CardinalityType
  <2>. QED  BY <2>2, <2>3, TeamFinite, TeamsAssumption DEF TeamInv, RoomKept, TeamTypeOK
<1>2. \A t \in Teams : Cardinality(Members(t))' = Cardinality(Members(t)')
  OBVIOUS
<1>. QED  BY <1>1, <1>2 DEF RoomKept

LEMMA TeamInvInit == TeamInit => TeamInv
<1>. SUFFICES ASSUME TeamInit PROVE TeamInv
  OBVIOUS
<1>. USE DEF TeamInit
<1>1. TeamTypeOK
  BY TeamsAssumption DEF TeamTypeOK
<1>2. OwnersKept /\ NothingLeft /\ ReadsKept
  BY TeamsAssumption DEF OwnersKept, NothingLeft, ReadsKept, Idle
<1>3. ASSUME NEW t \in Teams PROVE Cardinality(Members(t)) = 0
  BY FS_EmptySet DEF Members
<1>. QED  BY <1>1, <1>2, <1>3, TeamsAssumption DEF TeamInv, RoomKept

LEMMA TeamInvNext == TeamInv /\ [TeamNext]_teamVars => TeamInv'
<1>. SUFFICES ASSUME TeamInv, [TeamNext]_teamVars PROVE TeamInv'
  OBVIOUS
<1>. USE TeamsAssumption DEF TeamInv
<1>1. CASE UNCHANGED teamVars
  <2>1. TeamTypeOK' /\ OwnersKept' /\ NothingLeft' /\ ReadsKept'
    BY <1>1 DEF teamVars, TeamTypeOK, OwnersKept, NothingLeft, ReadsKept, Live, Pending
  <2>. QED  BY <1>1, <2>1, RoomStays DEF teamVars
<1>2. ASSUME NEW c \in Clerks, GiveUp(c) PROVE TeamInv'
  <2>1. TeamTypeOK' /\ OwnersKept' /\ NothingLeft' /\ ReadsKept'
    BY <1>2 DEF GiveUp, Done, Idle, TeamTypeOK, OwnersKept, NothingLeft, ReadsKept, Live, Pending
  <2>. QED  BY <1>2, <2>1, RoomStays DEF GiveUp
<1>3. ASSUME NEW c \in Clerks, Remove(c) PROVE TeamInv'
  <2>1. clerk[c].team \in Teams /\ clerk[c].to \in Mates
    BY <1>3 DEF Remove, TeamTypeOK, Idle
  <2>2. TeamTypeOK'
    BY <1>3, <2>1 DEF Remove, Done, TeamTypeOK, Idle
  <2>3. OwnersKept'
    BY <1>3, <2>1 DEF Remove, TeamTypeOK, OwnersKept, ReadsKept
  <2>4. NothingLeft' /\ ReadsKept'
    BY <1>3, <2>1 DEF Remove, Done, Idle, TeamTypeOK, NothingLeft, ReadsKept, Live, Pending
  <2>. QED  BY <1>3, <2>1, <2>2, <2>3, <2>4, RoomStays DEF Remove, TeamTypeOK
<1>4. ASSUME NEW c \in Clerks, Reserve(c) PROVE TeamInv'
  <2>1. TeamTypeOK' /\ OwnersKept' /\ NothingLeft' /\ ReadsKept'
    BY <1>4 DEF Reserve, PointsAtTeam, Done, Idle, TeamTypeOK, OwnersKept, NothingLeft, ReadsKept,
                Live, Pending
  <2>. QED  BY <1>4, <2>1, RoomStays DEF Reserve
<1>5. ASSUME NEW c \in Clerks, NEW l \in Letters, InviteSend(c, l) PROVE TeamInv'
  <2>1. TeamTypeOK' /\ OwnersKept' /\ NothingLeft' /\ ReadsKept'
    BY <1>5 DEF InviteSend, Done, Idle, Blank, TeamTypeOK, OwnersKept, NothingLeft, ReadsKept,
                Live, Pending
  <2>. QED  BY <1>5, <2>1, RoomStays DEF InviteSend
<1>6. ASSUME NEW c \in Clerks, NEW l \in Letters, JoinRead(c, l) PROVE TeamInv'
  <2>1. letter[l].team \in Teams
    BY <1>6 DEF JoinRead, Pending, TeamTypeOK, Blank
  <2>2. TeamTypeOK' /\ OwnersKept' /\ NothingLeft' /\ ReadsKept'
    BY <1>6, <2>1, TeamFinite DEF JoinRead, Take, HasRoom, LetterLocked, Idle, TeamTypeOK, OwnersKept,
                NothingLeft, ReadsKept, Live, Pending
  <2>. QED  BY <1>6, <2>2, RoomStays DEF JoinRead
<1>7. ASSUME NEW c \in Clerks, NEW t \in Teams, ReserveRead(c, t) PROVE TeamInv'
  <2>1. TeamTypeOK' /\ OwnersKept' /\ NothingLeft' /\ ReadsKept'
    BY <1>7 DEF ReserveRead, Take, Idle, TeamTypeOK, OwnersKept, NothingLeft, ReadsKept, Live, Pending
  <2>. QED  BY <1>7, <2>1, RoomStays DEF ReserveRead
<1>8. ASSUME NEW c \in Clerks, NEW t \in Teams, NEW by \in Mates, NEW to \in Mates,
             InviteRead(c, t, by, to) PROVE TeamInv'
  <2>1. TeamTypeOK' /\ OwnersKept' /\ NothingLeft' /\ ReadsKept'
    BY <1>8 DEF InviteRead, Take, Idle, TeamTypeOK, OwnersKept, NothingLeft, ReadsKept, Live, Pending
  <2>. QED  BY <1>8, <2>1, RoomStays DEF InviteRead
<1>9. ASSUME NEW c \in Clerks, NEW t \in Teams, NEW by \in Mates, NEW to \in Mates,
             RemoveRead(c, t, by, to) PROVE TeamInv'
  <2>1. creator[t] \notin {to, NoTeam}
    BY <1>9 DEF RemoveRead, MayRemove, Members, TeamTypeOK, OwnersKept, NothingLeft, Live
  <2>2. TeamTypeOK' /\ OwnersKept' /\ NothingLeft' /\ ReadsKept'
    BY <1>9, <2>1 DEF RemoveRead, Take, Idle, TeamTypeOK, OwnersKept, NothingLeft, ReadsKept, Live, Pending
  <2>. QED  BY <1>9, <2>2, RoomStays DEF RemoveRead
<1>10. ASSUME NEW t \in Teams, DeleteTeam(t) PROVE TeamInv'
  <2>1. TeamTypeOK'
    BY <1>10 DEF DeleteTeam, TeamTypeOK, Blank
  <2>2. OwnersKept' /\ NothingLeft'
    BY <1>10 DEF DeleteTeam, Live, TeamTypeOK, OwnersKept, NothingLeft, Blank
  <2>3. ReadsKept'
    BY <1>10 DEF DeleteTeam, Live, LetterLocked, Pending, TeamTypeOK, ReadsKept, Blank, Idle
  <2>. QED  BY <1>10, <2>1, <2>2, <2>3, RoomStays DEF DeleteTeam, TeamTypeOK
<1>11. ASSUME NEW t \in Teams, NEW m \in Mates, CreateTeam(t, m) PROVE TeamInv'
  <2>1. TeamTypeOK'
    BY <1>11 DEF CreateTeam, TeamTypeOK
  <2>2. OwnersKept' /\ NothingLeft'
    BY <1>11 DEF CreateTeam, Live, TeamTypeOK, OwnersKept, NothingLeft
  <2>3. ReadsKept'
    BY <1>11 DEF CreateTeam, Pending, TeamTypeOK, ReadsKept, Idle
  <2>4. ASSUME NEW u \in Teams PROVE Cardinality(Members(u)') <= MaxMembers + races
    <3>1. CASE u = t
      <4>1. Members(u)' = {m}
        BY <1>11, <3>1 DEF CreateTeam, Members, TeamTypeOK, NothingLeft, Live
      <4>2. Cardinality({m}) = 1
        BY FS_Singleton
      <4>3. MaxMembers \in Nat \ {0} /\ races \in Nat
        BY DEF TeamTypeOK
      <4>. QED  BY ONLY <4>1, <4>2, <4>3
    <3>2. CASE u # t
      <4>1. Members(u)' = Members(u)
        BY <1>11, <3>2 DEF CreateTeam, Members, TeamTypeOK
      <4>. QED  BY <4>1 DEF RoomKept
    <3>. QED  BY <3>1, <3>2
  <2>5. \A u \in Teams : Cardinality(Members(u))' = Cardinality(Members(u)')
    OBVIOUS
  <2>. QED  BY <1>11, <2>1, <2>2, <2>3, <2>4, <2>5 DEF CreateTeam, RoomKept
<1>12. ASSUME NEW l \in Letters, Outdate(l) PROVE TeamInv'
  <2>1. /\ letter'[l].team = letter[l].team
        /\ letter'[l].status = letter[l].status /\ letter[l] # Blank /\ letter'[l] # Blank
        /\ letter' \in [Letters -> {Blank} \cup LetterRow]
        /\ \A k \in Letters \ {l} : letter'[k] = letter[k]
    <3>1. letter[l] \in LetterRow
      BY <1>12 DEF Outdate, Pending, TeamTypeOK, Blank, LetterRow
    <3>2. [letter[l] EXCEPT !.old = TRUE] \in LetterRow
      BY ONLY <3>1 DEF LetterRow
    <3>3. letter' = [letter EXCEPT ![l] = [letter[l] EXCEPT !.old = TRUE]]
      BY <1>12 DEF Outdate
    <3>4. letter \in [Letters -> {Blank} \cup LetterRow]
      BY DEF TeamTypeOK, LetterRow
    <3>. QED  BY ONLY <3>1, <3>2, <3>3, <3>4 DEF LetterRow, Blank
  <2>2. TeamTypeOK'
    BY <1>12, <2>1 DEF Outdate, TeamTypeOK, LetterRow
  <2>3. OwnersKept' /\ NothingLeft' /\ ReadsKept'
    BY <1>12, <2>1 DEF Outdate, TeamTypeOK, OwnersKept, NothingLeft, ReadsKept, Live, Pending
  <2>. QED  BY <1>12, <2>2, <2>3, RoomStays DEF Outdate
<1>13. ASSUME NEW l \in Letters, Decline(l) PROVE TeamInv'
  <2>1. TeamTypeOK' /\ OwnersKept' /\ NothingLeft' /\ ReadsKept'
    BY <1>13 DEF Decline, LetterLocked, Blank, Idle, TeamTypeOK, OwnersKept, NothingLeft, ReadsKept,
                 Live, Pending
  <2>. QED  BY <1>13, <2>1, RoomStays DEF Decline
<1>14. CASE Unreserve
  <2>1. TeamTypeOK' /\ OwnersKept' /\ NothingLeft' /\ ReadsKept'
    BY <1>14 DEF Unreserve, TeamTypeOK, OwnersKept, NothingLeft, ReadsKept, Live, Pending
  <2>. QED  BY <1>14, <2>1, RoomStays DEF Unreserve
<1>15. ASSUME NEW c \in Clerks, Join(c) PROVE TeamInv'
  <2>1. PICK l \in Letters, t \in Teams, m \in Mates :
          l = clerk[c].letter /\ t = letter[l].team /\ m = letter[l].to
    BY <1>15 DEF Join, ReadsKept, Pending, TeamTypeOK, Blank, Idle
  <2>2. /\ role[t][m] = "none" /\ role' = [role EXCEPT ![t][m] = "member"]
        /\ letter' = [letter EXCEPT ![l].status = "accepted"]
        /\ races' = IF Cardinality(Members(t)) > clerk[c].count THEN races + 1 ELSE races
        /\ races' <= MaxRaces /\ clerk' = [clerk EXCEPT ![c] = Idle]
        /\ UNCHANGED <<creator, reserved>>
    BY <1>15, <2>1 DEF Join, Done
  <2>3. Pending(l) /\ Live(t) /\ clerk[c].count < MaxMembers /\ clerk[c].count \in Nat
    BY <1>15, <2>1 DEF Join, ReadsKept, NothingLeft, Pending, TeamTypeOK, Blank, Idle
  <2>4. TeamTypeOK'
    <3>1. letter[l] \in LetterRow
      BY <2>3 DEF Pending, TeamTypeOK, Blank, LetterRow
    <3>2. [letter[l] EXCEPT !.status = "accepted"] \in LetterRow
      BY ONLY <3>1 DEF LetterRow
    <3>3. letter' = [letter EXCEPT ![l] = [letter[l] EXCEPT !.status = "accepted"]]
      BY <2>2
    <3>4. letter' \in [Letters -> {Blank} \cup LetterRow]
      BY <3>2, <3>3 DEF TeamTypeOK, LetterRow
    <3>5. role' \in [Teams -> [Mates -> {"none", "member", "owner"}]]
      BY <2>2 DEF TeamTypeOK
    <3>6. races' \in 0..MaxRaces
      BY <2>2 DEF TeamTypeOK
    <3>. QED  BY <2>2, <3>4, <3>5, <3>6 DEF TeamTypeOK, LetterRow
  <2>5. OwnersKept'
    BY <2>2, <2>3 DEF TeamTypeOK, OwnersKept
  <2>6. NothingLeft'
    BY <2>2, <2>3 DEF TeamTypeOK, NothingLeft, Live, Pending, Blank
  <2>7. ReadsKept'
    BY <1>15, <2>1, <2>2, <2>3 DEF Join, TeamTypeOK, ReadsKept, Pending, Blank, Idle
  <2>8. ASSUME NEW u \in Teams PROVE Cardinality(Members(u)') <= MaxMembers + races'
    <3>1. CASE u = t
      <4>1. Members(u)' = Members(u) \cup {m}
        BY <2>2, <3>1 DEF Members, TeamTypeOK
      <4>2. /\ Cardinality(Members(u)') \in Nat
            /\ Cardinality(Members(u)') <= Cardinality(Members(u)) + 1
        <5>1. IsFiniteSet(Members(u)) /\ Cardinality(Members(u)) \in Nat
          BY TeamFinite
        <5>2. IsFiniteSet(Members(u) \cup {m})
          BY <5>1, FS_AddElement
        <5>3. Cardinality(Members(u) \cup {m}) =
                IF m \in Members(u) THEN Cardinality(Members(u)) ELSE Cardinality(Members(u)) + 1
          BY <5>1, FS_AddElement
        <5>4. Cardinality(Members(u) \cup {m}) \in Nat
          BY <5>2, FS_CardinalityType
        <5>. QED  BY ONLY <4>1, <5>1, <5>3, <5>4
      <4>3. Cardinality(Members(u)) \in Nat /\ races \in Nat
        BY TeamFinite DEF TeamTypeOK
      <4>4. CASE Cardinality(Members(u)) > clerk[c].count
        BY <2>2, <3>1, <4>2, <4>3, <4>4 DEF RoomKept
      <4>5. CASE Cardinality(Members(u)) <= clerk[c].count
        BY <2>2, <2>3, <3>1, <4>2, <4>3, <4>5
      <4>. QED  BY <2>3, <4>3, <4>4, <4>5
    <3>2. CASE u # t
      <4>1. Members(u)' = Members(u)
        BY <2>2, <3>2 DEF Members, TeamTypeOK
      <4>. QED  BY <2>2, <4>1, TeamFinite DEF RoomKept, TeamTypeOK
    <3>. QED  BY <3>1, <3>2
  <2>9. \A u \in Teams : Cardinality(Members(u))' = Cardinality(Members(u)')
    OBVIOUS
  <2>. QED  BY <2>4, <2>5, <2>6, <2>7, <2>8, <2>9 DEF RoomKept
<1>. QED  BY <1>1, <1>2, <1>3, <1>4, <1>5, <1>6, <1>7, <1>8, <1>9, <1>10, <1>11, <1>12, <1>13,
            <1>14, <1>15 DEF TeamNext

(* A team belongs to its creator, one that is gone has left nothing, and    *)
(* its size passes the limit only by joinings that overlapped, one for     *)
(* each (routers/worker_teams.py).                                         *)
THEOREM TeamsSound == TeamSpec => []TeamSound
<1>1. TeamInv => TeamSound
  BY TeamsAssumption DEF TeamInv, TeamTypeOK, OwnersKept, NothingLeft, RoomKept, TeamSound, Live, Members
<1>2. TeamSpec => []TeamInv
  BY TeamInvInit, TeamInvNext, PTL DEF TeamSpec
<1>. QED  BY <1>1, <1>2, PTL

---------------------------------------------------------------------------
(* Skills: the profile *)

SkillRow == [completed : Nat, approved : Nat, rejected : Nat, level : Levels, verified : BOOLEAN]
UpdateRow == [at : {"absent", "locked", "inserted"}, work : Works, outcome : Outcomes]
QuizRow == [at : {"graded", "inserted", "locked", "unlocked"}, level : Levels,
            row : {Absent} \cup SkillRow]

SkillShape ==
  /\ skill \in {Absent} \cup SkillRow
  /\ update \in [Updates -> {Rest} \cup UpdateRow]
  /\ quiz \in [Quizzes -> {Rest} \cup QuizRow]
  /\ tally \in [Outcomes -> Nat]
  /\ stepped \in BOOLEAN

Holds(q) == q.at \in {"locked", "inserted"}

(* One request at most holds the row of worker_skills; there is a row when  *)
(* it is locked or was read, and none yet while one is being inserted.      *)
OneHolder ==
  /\ \A u, v \in Updates : Holds(update[u]) /\ Holds(update[v]) => u = v
  /\ \A y, z \in Quizzes : Holds(quiz[y]) /\ Holds(quiz[z]) => y = z
  /\ \A u \in Updates, z \in Quizzes : ~(Holds(update[u]) /\ Holds(quiz[z]))

RowThere ==
  /\ \A u \in Updates : /\ update[u].at = "locked" => skill # Absent
                        /\ update[u].at = "inserted" => skill = Absent
  /\ \A z \in Quizzes :
       /\ quiz[z].at = "locked" => Raises(quiz[z])
       /\ quiz[z].at = "inserted" => skill = Absent
       /\ quiz[z].at # "rest" /\ quiz[z].row # Absent => skill # Absent

(* The profile counts the updates that found it, and its level is earned. *)
CountsKept ==
  /\ skill = Absent => \A o \in Outcomes : tally[o] = 0
  /\ skill # Absent =>
       /\ skill.completed = tally["completed"] + tally["approved"] + tally["rejected"]
       /\ skill.approved = tally["approved"] /\ skill.rejected = tally["rejected"]
       /\ ~stepped => skill.level >= Proficiency(skill)

SkillInv == SkillShape /\ OneHolder /\ RowThere /\ CountsKept

(* Every number of tasks has its level by volume, one for none at all. *)
LEMMA VolumeLevel ==
  ASSUME NEW n \in Nat PROVE Volume(n) \in Levels /\ (n = 0 => Volume(n) = 1)
<1>. DEFINE P(l) == /\ l > 1 => n >= VolumeFor[l]
                    /\ \A k \in Levels : k > l => n < VolumeFor[k]
<1>1. \A k \in 2..5 : VolumeFor[k] \in Nat \ {0}
  BY SkillsAssumption
<1>2. Levels = {1, 2, 3, 4, 5}
  BY DEF Levels
<1>3. \E l \in Levels : P(l)
  <2>1. CASE n >= VolumeFor[5]
    <3>1. P(5)
      BY <2>1 DEF Levels
    <3>. QED  BY <3>1 DEF Levels
  <2>2. CASE n < VolumeFor[5] /\ n >= VolumeFor[4]
    <3>1. P(4)
      BY <1>1, <1>2, <2>2
    <3>. QED  BY <3>1 DEF Levels
  <2>3. CASE n < VolumeFor[5] /\ n < VolumeFor[4] /\ n >= VolumeFor[3]
    <3>1. P(3)
      BY <1>1, <1>2, <2>3
    <3>. QED  BY <3>1 DEF Levels
  <2>4. CASE n < VolumeFor[5] /\ n < VolumeFor[4] /\ n < VolumeFor[3] /\ n >= VolumeFor[2]
    <3>1. P(2)
      BY <1>1, <1>2, <2>4
    <3>. QED  BY <3>1 DEF Levels
  <2>5. CASE n < VolumeFor[5] /\ n < VolumeFor[4] /\ n < VolumeFor[3] /\ n < VolumeFor[2]
    <3>1. P(1)
      BY <1>1, <1>2, <2>5
    <3>. QED  BY <3>1 DEF Levels
  <2>. QED  BY <1>1, <2>1, <2>2, <2>3, <2>4, <2>5
<1>4. Volume(n) = CHOOSE l \in Levels : P(l)
  BY DEF Volume
<1>5. Volume(n) \in Levels /\ P(Volume(n))
  BY <1>3, <1>4
<1>6. n = 0 => Volume(n) = 1
  BY <1>1, <1>5 DEF Levels
<1>. QED  BY <1>5, <1>6

LEMMA ProficiencyLevel ==
  ASSUME NEW s \in SkillRow PROVE Proficiency(s) \in Levels
BY VolumeLevel DEF Proficiency, SkillRow, Levels

LEMMA RowNotAbsent == ASSUME NEW s \in SkillRow PROVE s # Absent
<1>1. DOMAIN s = {"completed", "approved", "rejected", "level", "verified"}
  BY DEF SkillRow
<1>2. "completed" \notin DOMAIN <<>>
  OBVIOUS
<1>. QED  BY <1>1, <1>2 DEF Absent

(* A new profile claims no more than it has earned. *)
LEMMA NewSkillKept ==
  ASSUME NEW l \in Levels
  PROVE  /\ NewSkill(l) \in SkillRow /\ NewSkill(l) # Absent
         /\ NewSkill(l).completed = 0 /\ NewSkill(l).approved = 0 /\ NewSkill(l).rejected = 0
         /\ NewSkill(l).level >= Proficiency(NewSkill(l))
<1>1. NewSkill(l) \in SkillRow /\ NewSkill(l) # Absent
  BY DEF NewSkill, SkillRow, Absent
<1>2. Proficiency(NewSkill(l)) = 1
  BY VolumeLevel DEF NewSkill, Proficiency
<1>. QED  BY <1>1, <1>2 DEF NewSkill, Levels

(* An outcome that is counted adds one, and sets the level to what it earns. *)
LEMMA CountedKept ==
  ASSUME NEW s \in SkillRow, NEW o \in Outcomes
  PROVE  /\ Counted(s, o) \in SkillRow /\ Counted(s, o) # Absent
         /\ Counted(s, o).completed = s.completed + 1
         /\ Counted(s, o).approved = s.approved + (IF o = "approved" THEN 1 ELSE 0)
         /\ Counted(s, o).rejected = s.rejected + (IF o = "rejected" THEN 1 ELSE 0)
         /\ Counted(s, o).level >= Proficiency(Counted(s, o))
<1>. DEFINE t == [s EXCEPT !.completed = @ + 1,
                           !.approved = @ + IF o = "approved" THEN 1 ELSE 0,
                           !.rejected = @ + IF o = "rejected" THEN 1 ELSE 0]
            l == [t EXCEPT !.level = Proficiency(t)]
            c == [l EXCEPT !.verified = @ \/ Verifies(l)]
<1>1. Counted(s, o) = c
  BY DEF Counted
<1>2. t \in SkillRow /\ t.completed = s.completed + 1
      /\ t.approved = s.approved + (IF o = "approved" THEN 1 ELSE 0)
      /\ t.rejected = s.rejected + (IF o = "rejected" THEN 1 ELSE 0)
  <2>1. /\ s.completed + 1 \in Nat
        /\ s.approved + (IF o = "approved" THEN 1 ELSE 0) \in Nat
        /\ s.rejected + (IF o = "rejected" THEN 1 ELSE 0) \in Nat
    BY DEF SkillRow
  <2>. QED  BY <2>1, Zenon DEF SkillRow
<1>3. Proficiency(t) \in Levels
  BY <1>2, ProficiencyLevel
<1>. HIDE DEF t
<1>4. l \in SkillRow /\ l.level = Proficiency(t) /\ l.completed = t.completed
      /\ l.approved = t.approved /\ l.rejected = t.rejected
  BY <1>2, <1>3 DEF SkillRow
<1>. HIDE DEF l
<1>5. c \in SkillRow /\ c.level = l.level /\ c.completed = l.completed
      /\ c.approved = l.approved /\ c.rejected = l.rejected
  BY <1>4 DEF SkillRow
<1>6. c # Absent
  BY <1>5, RowNotAbsent
<1>. HIDE DEF c
<1>7. Proficiency(c) = Proficiency(t)
  BY <1>4, <1>5 DEF Proficiency
<1>. QED  BY <1>1, <1>2, <1>3, <1>4, <1>5, <1>6, <1>7 DEF Levels

LEMMA SkillInvInit == SkillsInit => SkillInv
<1>. SUFFICES ASSUME SkillsInit PROVE SkillInv
  OBVIOUS
<1>1. SkillShape
  BY DEF SkillsInit, SkillShape
<1>2. OneHolder /\ RowThere
  BY DEF SkillsInit, OneHolder, RowThere, Holds, Rest
<1>3. CountsKept
  BY DEF SkillsInit, CountsKept
<1>. QED  BY <1>1, <1>2, <1>3 DEF SkillInv

LEMMA SkillInvNext == SkillInv /\ [SkillNext]_skillVars => SkillInv'
<1>. SUFFICES ASSUME SkillInv, [SkillNext]_skillVars PROVE SkillInv'
  OBVIOUS
<1>. USE DEF SkillInv
<1>1. CASE UNCHANGED skillVars
  BY <1>1 DEF skillVars, SkillShape, OneHolder, RowThere, CountsKept, Holds, Raises, Proficiency, Volume
<1>2. ASSUME NEW u \in Updates, NEW j \in Works, NEW o \in Outcomes, Update(u, j, o) PROVE SkillInv'
  <2>1. skill # Absent => /\ \A v \in Updates : ~Holds(update[v])
                          /\ \A z \in Quizzes : ~Holds(quiz[z])
    BY <1>2 DEF Update, RowFree, Holding, Holds, SkillShape
  <2>2. SkillShape'
    BY <1>2 DEF Update, SkillShape, UpdateRow
  <2>3. OneHolder'
    BY <1>2, <2>1 DEF Update, SkillShape, OneHolder, Holds
  <2>4. RowThere'
    BY <1>2 DEF Update, SkillShape, RowThere, Raises
  <2>5. CountsKept'
    BY <1>2 DEF Update, CountsKept, Proficiency, Volume
  <2>. QED  BY <2>2, <2>3, <2>4, <2>5
<1>3. ASSUME NEW u \in Updates, Insert(u) PROVE SkillInv'
  <2>1. /\ \A v \in Updates : ~Holds(update[v])
        /\ \A z \in Quizzes : ~Holds(quiz[z])
    BY <1>3 DEF Insert, RowFree, Holding, Holds, SkillShape
  <2>2. SkillShape'
    BY <1>3 DEF Insert, SkillShape, UpdateRow, Rest
  <2>3. OneHolder'
    BY <1>3, <2>1 DEF Insert, SkillShape, OneHolder, Holds, Rest
  <2>4. RowThere'
    BY <1>3 DEF Insert, SkillShape, RowThere, Raises, Rest
  <2>5. CountsKept'
    BY <1>3 DEF Insert, CountsKept, Proficiency, Volume
  <2>. QED  BY <2>2, <2>3, <2>4, <2>5
<1>4. ASSUME NEW u \in Updates, Finish(u) PROVE SkillInv'
  <2>1. PICK o \in Outcomes : o = update[u].outcome
    BY <1>4 DEF Finish, SkillShape, UpdateRow, Rest
  <2>2. /\ Holds(update[u]) /\ update' = [update EXCEPT ![u] = Rest]
        /\ skill' = IF update[u].at = "locked" THEN Counted(skill, o) ELSE NewSkill(1)
        /\ tally' = IF update[u].at = "locked" THEN [tally EXCEPT ![o] = @ + 1] ELSE tally
        /\ UNCHANGED <<quiz, stepped>>
    BY <1>4, <2>1 DEF Finish, Holds
  <2>3. update[u].at = "locked" => skill \in SkillRow /\ skill # Absent
    BY <2>2 DEF SkillShape, RowThere
  <2>4. skill' \in SkillRow /\ skill' # Absent
    BY <2>2, <2>3, CountedKept, NewSkillKept DEF Levels
  <2>5. SkillShape'
    BY <2>2, <2>4 DEF SkillShape
  <2>6. OneHolder'
    BY <2>2 DEF SkillShape, OneHolder, Holds, Rest
  <2>7. RowThere'
    BY <2>2, <2>4 DEF SkillShape, RowThere, OneHolder, Holds, Rest, Raises
  <2>8. CASE update[u].at = "locked"
    <3>1. /\ skill'.completed = skill.completed + 1
          /\ skill'.approved = skill.approved + (IF o = "approved" THEN 1 ELSE 0)
          /\ skill'.rejected = skill.rejected + (IF o = "rejected" THEN 1 ELSE 0)
          /\ skill'.level >= Proficiency(skill')
      BY <2>2, <2>3, <2>8, CountedKept
    <3>2. Proficiency(skill)' = Proficiency(skill')
      BY DEF Proficiency, Volume
    <3>3. CountsKept'
      BY <2>2, <2>3, <2>4, <2>8, <3>1, <3>2 DEF CountsKept, SkillShape, Outcomes
    <3>. QED  BY <2>5, <2>6, <2>7, <3>3
  <2>9. CASE update[u].at = "inserted"
    <3>1. skill = Absent
      BY <2>9 DEF RowThere
    <3>2. /\ skill'.completed = 0 /\ skill'.approved = 0 /\ skill'.rejected = 0
          /\ skill'.level >= Proficiency(skill')
      BY <2>2, <2>9, NewSkillKept DEF Levels
    <3>3. Proficiency(skill)' = Proficiency(skill')
      BY DEF Proficiency, Volume
    <3>4. CountsKept'
      BY <2>2, <2>4, <2>9, <3>1, <3>2, <3>3 DEF CountsKept, SkillShape, Outcomes
    <3>. QED  BY <2>5, <2>6, <2>7, <3>4
  <2>. QED  BY <2>2, <2>8, <2>9 DEF Holds
<1>5. ASSUME NEW u \in Updates, UpdateDies(u) PROVE SkillInv'
  <2>1. SkillShape' /\ OneHolder' /\ RowThere'
    BY <1>5 DEF UpdateDies, SkillShape, OneHolder, RowThere, Holds, Rest, Raises
  <2>2. CountsKept'
    BY <1>5 DEF UpdateDies, CountsKept, Proficiency, Volume
  <2>. QED  BY <2>1, <2>2
<1>6. ASSUME NEW z \in Quizzes, NEW l \in Levels, SubmitQuiz(z, l) PROVE SkillInv'
  <2>1. SkillShape'
    BY <1>6 DEF SubmitQuiz, SkillShape, QuizRow
  <2>2. OneHolder' /\ RowThere'
    BY <1>6 DEF SubmitQuiz, SkillShape, OneHolder, RowThere, Holds, Raises
  <2>3. CountsKept'
    BY <1>6 DEF SubmitQuiz, CountsKept, Proficiency, Volume
  <2>. QED  BY <2>1, <2>2, <2>3
<1>7. ASSUME NEW z \in Quizzes, FlushQuiz(z) PROVE SkillInv'
  <2>1. Raises(quiz[z]) \/ quiz[z].row = Absent => /\ \A v \in Updates : ~Holds(update[v])
                                                  /\ \A y \in Quizzes : ~Holds(quiz[y])
    BY <1>7 DEF FlushQuiz, RowFree, Holding, Holds, SkillShape
  <2>2. quiz[z] \in QuizRow /\ quiz[z].at = "graded"
    BY <1>7 DEF FlushQuiz, SkillShape, Rest
  <2>3. /\ UNCHANGED <<skill, update, tally, stepped>>
        /\ quiz' = [quiz EXCEPT ![z] =
             IF quiz[z].row = Absent /\ skill # Absent THEN Rest
             ELSE [at |-> IF quiz[z].row = Absent THEN "inserted"
                          ELSE IF Raises(quiz[z]) THEN "locked" ELSE "unlocked",
                   level |-> quiz[z].level, row |-> quiz[z].row]]
    BY <1>7 DEF FlushQuiz
  <2>4. SkillShape'
    BY <2>2, <2>3 DEF SkillShape, QuizRow
  <2>5. OneHolder'
    BY <2>1, <2>2, <2>3 DEF SkillShape, OneHolder, Holds, Rest
  <2>6. RowThere'
    BY <2>2, <2>3 DEF SkillShape, RowThere, Rest, Raises
  <2>7. CountsKept'
    BY <2>3 DEF CountsKept, Proficiency, Volume
  <2>. QED  BY <2>4, <2>5, <2>6, <2>7
<1>8. ASSUME NEW z \in Quizzes, SaveQuiz(z) PROVE SkillInv'
  <2>1. quiz[z] \in QuizRow /\ quiz[z].at \in {"inserted", "locked", "unlocked"}
    BY <1>8 DEF SaveQuiz, SkillShape, Rest
  <2>2. /\ UNCHANGED <<update, tally>> /\ quiz' = [quiz EXCEPT ![z] = Rest]
        /\ skill' = CASE quiz[z].at = "inserted" -> NewSkill(quiz[z].level)
                      [] quiz[z].at = "locked" -> [skill EXCEPT !.level = quiz[z].level]
                      [] OTHER -> skill
        /\ stepped' = (stepped \/ (quiz[z].at = "locked" /\ skill.level # quiz[z].row.level))
    BY <1>8 DEF SaveQuiz
  <2>3. Proficiency(skill)' = Proficiency(skill')
    BY DEF Proficiency, Volume
  <2>4. OneHolder'
    BY <2>2 DEF SkillShape, OneHolder, Holds, Rest
  <2>5. CASE quiz[z].at = "unlocked"
    <3>1. skill' = skill /\ stepped' = stepped
      BY <2>2, <2>5 DEF SkillShape
    <3>2. SkillShape' /\ RowThere'
      BY <2>2, <3>1 DEF SkillShape, RowThere, Rest, Raises
    <3>3. CountsKept'
      BY <2>2, <2>3, <3>1 DEF CountsKept
    <3>. QED  BY <2>4, <3>2, <3>3
  <2>6. CASE quiz[z].at = "inserted"
    <3>1. skill = Absent /\ skill' = NewSkill(quiz[z].level) /\ stepped' = stepped
      BY <2>2, <2>6 DEF SkillShape, RowThere
    <3>2. /\ skill' \in SkillRow /\ skill' # Absent
          /\ skill'.completed = 0 /\ skill'.approved = 0 /\ skill'.rejected = 0
          /\ skill'.level >= Proficiency(skill')
      BY <2>1, <3>1, NewSkillKept DEF QuizRow
    <3>3. SkillShape'
      BY <2>2, <3>1, <3>2 DEF SkillShape
    <3>4. RowThere'
      BY <2>2, <2>6, <3>2 DEF SkillShape, RowThere, OneHolder, Holds, Rest, Raises
    <3>5. CountsKept'
      BY <2>2, <2>3, <3>1, <3>2 DEF CountsKept, SkillShape, Outcomes
    <3>. QED  BY <2>4, <3>3, <3>4, <3>5
  <2>7. CASE quiz[z].at = "locked"
    <3>1. /\ skill \in SkillRow /\ skill # Absent
          /\ quiz[z].row \in SkillRow /\ quiz[z].level > quiz[z].row.level
      BY <2>1, <2>7 DEF RowThere, Raises, SkillShape, QuizRow
    <3>2. skill' = [skill EXCEPT !.level = quiz[z].level]
      BY <2>2, <2>7
    <3>3. /\ skill' \in SkillRow /\ skill'.level = quiz[z].level
          /\ skill'.completed = skill.completed /\ skill'.approved = skill.approved
          /\ skill'.rejected = skill.rejected
      BY <2>1, <3>1, <3>2 DEF SkillRow, QuizRow
    <3>4. skill' # Absent
      BY <3>3, RowNotAbsent
    <3>5. Proficiency(skill') = Proficiency(skill)
      BY <3>3 DEF Proficiency
    <3>6. SkillShape'
      BY <2>2, <2>7, <3>3 DEF SkillShape
    <3>7. RowThere'
      BY <2>2, <2>7, <3>4 DEF SkillShape, RowThere, OneHolder, Holds, Rest, Raises
    <3>8. ~stepped' => ~stepped /\ skill'.level > skill.level
      BY <2>2, <2>7, <3>1, <3>3
    <3>9. Proficiency(skill) \in Levels /\ skill.level \in Levels /\ skill'.level \in Levels
      BY <3>1, <3>3, ProficiencyLevel DEF SkillRow
    <3>10. CountsKept'
      BY <2>2, <2>3, <3>1, <3>3, <3>4, <3>5, <3>8, <3>9 DEF CountsKept, Levels
    <3>. QED  BY <2>4, <3>6, <3>7, <3>10
  <2>. QED  BY <2>1, <2>5, <2>6, <2>7
<1>. QED  BY <1>1, <1>2, <1>3, <1>4, <1>5, <1>6, <1>7, <1>8 DEF SkillNext

---------------------------------------------------------------------------
(* Skills: the certification *)

CertRow == [attempts : Nat, best : Marks, passed : BOOLEAN, cooling : BOOLEAN]
ExamRow == [at : {"absent", "locked", "inserted"}, mark : Marks]

CertShape ==
  /\ cert \in {Absent} \cup CertRow
  /\ exam \in [Exams -> {Rest} \cup ExamRow]
  /\ results \in Seq(Marks)

(* One attempt at most holds the row of worker_certifications. *)
OneExam ==
  /\ \A x, y \in Exams : Holds(exam[x]) /\ Holds(exam[y]) => x = y
  /\ \A x \in Exams : /\ exam[x].at = "locked" => cert # Absent
                      /\ exam[x].at = "inserted" => cert = Absent

(* The certification stands for the attempts answered. *)
ResultsKept ==
  /\ cert = Absent => results = <<>>
  /\ cert # Absent =>
       /\ cert.attempts = Len(results)
       /\ \E i \in DOMAIN results : cert.best = results[i]
       /\ \A i \in DOMAIN results : cert.best >= results[i]
       /\ cert.passed = Graded(cert.best)

CertInv == CertShape /\ OneExam /\ ResultsKept

LEMMA CertNotAbsent == ASSUME NEW c \in CertRow PROVE c # Absent
BY DEF CertRow, Absent

LEMMA CertInvInit == SkillsInit => CertInv
BY DEF SkillsInit, CertInv, CertShape, OneExam, ResultsKept, Holds, Rest

LEMMA CertInvNext == CertInv /\ [CertNext]_certVars => CertInv'
<1>. SUFFICES ASSUME CertInv, [CertNext]_certVars PROVE CertInv'
  OBVIOUS
<1>. USE DEF CertInv
<1>1. CASE UNCHANGED certVars
  BY <1>1 DEF certVars, CertShape, OneExam, ResultsKept, Holds
<1>2. ASSUME NEW x \in Exams, NEW m \in Marks, Attempt(x, m) PROVE CertInv'
  <2>1. cert # Absent => \A y \in Exams : ~Holds(exam[y])
    BY <1>2 DEF Attempt, CertFree, Holding, Holds, CertShape
  <2>2. CertShape'
    BY <1>2 DEF Attempt, CertShape, ExamRow
  <2>3. OneExam' /\ ResultsKept'
    BY <1>2, <2>1 DEF Attempt, CertShape, OneExam, ResultsKept, Holds
  <2>. QED  BY <2>2, <2>3
<1>3. ASSUME NEW x \in Exams, InsertCert(x) PROVE CertInv'
  <2>1. \A y \in Exams : ~Holds(exam[y])
    BY <1>3 DEF InsertCert, CertFree, Holding, Holds, CertShape
  <2>2. CertShape'
    BY <1>3 DEF InsertCert, CertShape, ExamRow, Rest
  <2>3. OneExam' /\ ResultsKept'
    BY <1>3, <2>1 DEF InsertCert, CertShape, OneExam, ResultsKept, Holds, Rest
  <2>. QED  BY <2>2, <2>3
<1>4. ASSUME NEW x \in Exams, SaveAttempt(x) PROVE CertInv'
  <2>1. PICK m \in Marks : m = exam[x].mark
    BY <1>4 DEF SaveAttempt, CertShape, ExamRow, Rest
  <2>2. /\ Holds(exam[x]) /\ results' = Append(results, m) /\ exam' = [exam EXCEPT ![x] = Rest]
        /\ cert' = IF cert = Absent
             THEN [attempts |-> 1, best |-> m, passed |-> Graded(m), cooling |-> TRUE]
             ELSE [attempts |-> cert.attempts + 1, best |-> IF m > cert.best THEN m ELSE cert.best,
                   passed |-> cert.passed \/ Graded(m), cooling |-> TRUE]
    BY <1>4, <2>1 DEF SaveAttempt, Holds
  <2>3. m \in Nat /\ \A n \in Marks : n \in Nat
    BY SkillsAssumption
  <2>4. /\ results' \in Seq(Marks) /\ Len(results') = Len(results) + 1
        /\ results'[Len(results) + 1] = m
        /\ \A i \in 1..Len(results) : results'[i] = results[i]
        /\ DOMAIN results' = 1..Len(results) + 1 /\ DOMAIN results = 1..Len(results)
    BY <2>2 DEF CertShape
  <2>5. OneExam'
    BY <2>2 DEF CertShape, OneExam, Holds, Rest
  <2>6. CASE cert = Absent
    <3>1. /\ cert'.attempts = 1 /\ cert'.best = m /\ cert'.passed = Graded(m) /\ cert' \in CertRow
      BY <2>2, <2>3, <2>6 DEF CertRow, Graded
    <3>2. Len(results) = 0
      BY <2>6 DEF ResultsKept
    <3>3. ResultsKept'
      BY <2>3, <2>4, <3>1, <3>2, CertNotAbsent DEF ResultsKept, Graded
    <3>. QED  BY <2>2, <2>4, <2>5, <3>1, <3>3 DEF CertShape
  <2>7. CASE cert # Absent
    <3>1. cert \in CertRow
      BY <2>7 DEF CertShape
    <3>2. /\ cert'.attempts = cert.attempts + 1
          /\ cert'.best = IF m > cert.best THEN m ELSE cert.best
          /\ cert'.passed = (cert.passed \/ Graded(m)) /\ cert' \in CertRow
      BY <2>2, <2>3, <2>7, <3>1 DEF CertRow, Graded
    <3>3. /\ cert.attempts = Len(results) /\ cert.passed = Graded(cert.best)
          /\ cert.best \in Nat /\ Len(results) \in Nat
      BY <2>3, <2>7, <3>1 DEF ResultsKept, CertRow, CertShape
    <3>4. PICK i \in 1..Len(results) : cert.best = results[i]
      BY <2>4, <2>7 DEF ResultsKept
    <3>5. \A j \in 1..Len(results) : cert.best >= results[j] /\ results[j] \in Nat
      <4>1. \A j \in 1..Len(results) : results[j] \in Marks
        BY DEF CertShape
      <4>2. \A j \in 1..Len(results) : cert.best >= results[j]
        BY <2>4, <2>7 DEF ResultsKept
      <4>. QED  BY ONLY <2>3, <4>1, <4>2
    <3>6. \E j \in DOMAIN results' : cert'.best = results'[j]
      BY <2>4, <3>2, <3>3, <3>4
    <3>7. \A j \in DOMAIN results' : cert'.best >= results'[j]
      BY <2>3, <2>4, <3>2, <3>3, <3>5
    <3>8. cert'.passed = Graded(cert'.best)
      <4>1. Graded(cert'.best) <=> Graded(cert.best) \/ Graded(m)
        <5>1. cert'.best = IF m > cert.best THEN m ELSE cert.best
          BY <3>2
        <5>2. m \in Nat /\ cert.best \in Nat /\ PassMark \in Nat
          BY <2>3, <3>3, SkillsAssumption
        <5>. QED  BY ONLY <5>1, <5>2 DEF Graded
      <4>2. Graded(cert.best) \in BOOLEAN /\ Graded(m) \in BOOLEAN /\ Graded(cert'.best) \in BOOLEAN
        BY DEF Graded
      <4>. QED  BY ONLY <3>2, <3>3, <4>1, <4>2, Zenon
    <3>9. ResultsKept'
      BY <2>4, <3>2, <3>3, <3>6, <3>7, <3>8, CertNotAbsent DEF ResultsKept, Graded
    <3>. QED  BY <2>2, <2>4, <2>5, <3>2, <3>9 DEF CertShape
  <2>. QED  BY <2>6, <2>7
<1>5. ASSUME NEW x \in Exams, ExamDies(x) PROVE CertInv'
  BY <1>5 DEF ExamDies, CertShape, OneExam, ResultsKept, Holds, Rest
<1>6. CASE CoolDown
  <2>1. /\ cert \in CertRow /\ cert # Absent
        /\ cert' = [cert EXCEPT !.cooling = FALSE] /\ UNCHANGED <<exam, results>>
    BY <1>6 DEF CoolDown, CertShape
  <2>2. /\ cert' \in CertRow /\ cert'.attempts = cert.attempts /\ cert'.best = cert.best
        /\ cert'.passed = cert.passed
    BY <2>1 DEF CertRow
  <2>3. cert' # Absent
    BY <2>2, CertNotAbsent
  <2>4. CertShape' /\ OneExam'
    BY <2>1, <2>2, <2>3 DEF CertShape, OneExam, Holds
  <2>5. ResultsKept'
    BY <2>1, <2>2, <2>3 DEF ResultsKept, Graded
  <2>. QED  BY <2>4, <2>5
<1>. QED  BY <1>1, <1>2, <1>3, <1>4, <1>5, <1>6 DEF CertNext

(* For any updates, quizzes and attempts, in any order: the profile counts  *)
(* the updates that found it, its level is earned or from a quiz, and the  *)
(* certification stands for all attempts answered (routers/skills.py,      *)
(* skill_quiz.py, certifications.py).                                      *)
THEOREM ProfilesKept == SkillsSpec => []ProfileKept
<1>. DEFINE Inv == SkillInv /\ CertInv
<1>1. SkillsInit => Inv
  BY SkillInvInit, CertInvInit
<1>2. Inv /\ [SkillsNext]_profileVars => Inv'
  <2>1. SkillNext => UNCHANGED certVars
    BY DEF SkillNext, Update, Insert, Finish, UpdateDies, SubmitQuiz, FlushQuiz, SaveQuiz
  <2>2. CertNext => UNCHANGED skillVars
    BY DEF CertNext, Attempt, InsertCert, SaveAttempt, ExamDies, CoolDown
  <2>. QED  BY <2>1, <2>2, SkillInvNext, CertInvNext DEF SkillsNext, profileVars
<1>3. Inv => ProfileKept
  BY DEF SkillInv, CountsKept, CertInv, ResultsKept, ProfileKept
<1>. QED  BY <1>1, <1>2, <1>3, PTL DEF SkillsSpec

---------------------------------------------------------------------------
(* Hiring *)

SessionRow ==
  {Free} \cup
  [op : {"claim"}, task : Tasks, worker : Workers, count : Nat] \cup
  [op : {"accept"}, task : ByApplication, worker : Workers, others : SUBSET Workers] \cup
  [op : {"apply", "withdraw"}, task : ByApplication, worker : Workers] \cup
  [op : {"respond", "list"}, task : Tasks, worker : Workers]

HireShape ==
  /\ hired \in Seq(Row)
  /\ bid \in [ByApplication -> [Workers -> {"none", "pending", "accepted", "rejected", "withdrawn"}]]
  /\ offer \in [Tasks -> [Workers -> {"none", "pending", "stale", "accepted", "declined", "expired"}]]
  /\ desk \in [Desks -> SessionRow]
  /\ late \in Nat

Rivals(op, p, q) == p.op = op /\ q.op = op /\ p.task = q.task /\ p.worker = q.worker

HasRow(via, t, w) ==
  \E i \in DOMAIN hired : hired[i].via = via /\ hired[i].task = t /\ hired[i].worker = w

(* No application or invite has two rows. *)
RowsSingle ==
  \A i, j \in DOMAIN hired : /\ hired[i].via # "claim" /\ hired[i].via = hired[j].via
                            /\ hired[i].task = hired[j].task /\ hired[i].worker = hired[j].worker
                            => i = j

(* An application that is accepted has its row, an undecided one has none;  *)
(* while its acceptance is under way it is locked, and undecided.          *)
BidsKept ==
  \A t \in ByApplication, w \in Workers :
    /\ bid[t][w] = "accepted" => HasRow("application", t, w)
    /\ bid[t][w] \in {"none", "pending"} => ~HasRow("application", t, w)
AcceptsKept ==
  /\ \A d \in Desks : desk[d].op = "accept" => bid[desk[d].task][desk[d].worker] = "pending"
  /\ \A d, e \in Desks : Rivals("accept", desk[d], desk[e]) => d = e

(* So has an invite; time may make it old while it is being answered. *)
OffersKept ==
  \A t \in Tasks, w \in Workers :
    /\ offer[t][w] = "accepted" => HasRow("invite", t, w)
    /\ offer[t][w] \in {"none", "pending", "stale", "declined"} => ~HasRow("invite", t, w)
AnswersKept ==
  /\ \A d \in Desks : desk[d].op = "respond" =>
                        offer[desk[d].task][desk[d].worker] \in {"pending", "stale"}
  /\ \A d, e \in Desks : Rivals("respond", desk[d], desk[e]) => d = e

ClaimsKept == \A d \in Desks : desk[d].op = "claim" => desk[d].count < Cap

HireInv == /\ HireShape /\ RowsSingle /\ BidsKept /\ AcceptsKept /\ OffersKept
           /\ AnswersKept /\ ClaimsKept /\ CapHeld

ActiveRows(w, n) == {j \in 1..n : hired[j].worker = w /\ hired[j].status = "active"}

LEMMA ActiveFinite ==
  ASSUME NEW n \in Nat, NEW w
  PROVE  IsFiniteSet(ActiveRows(w, n)) /\ Cardinality(ActiveRows(w, n)) \in Nat
<1>1. IsFiniteSet(1..n)
  BY FS_Interval
<1>2. ActiveRows(w, n) \in SUBSET (1..n)
  BY DEF ActiveRows
<1>3. IsFiniteSet(ActiveRows(w, n))
  BY <1>1, <1>2, FS_Subset
<1>. QED  BY <1>3, FS_CardinalityType

(* The cap is about rows: what leaves them, and what was under way, as they *)
(* are leaves it.                                                          *)
LEMMA CapStays ==
  ASSUME CapHeld, UNCHANGED <<hired, late>> PROVE CapHeld'
BY DEF CapHeld

LEMMA HireRow ==
  ASSUME HireShape, NEW t \in Tasks, NEW w \in Workers,
         NEW via \in {"claim", "invite", "application"}, Hire(t, w, via)
  PROVE  /\ hired' \in Seq(Row) /\ Len(hired) \in Nat
         /\ DOMAIN hired = 1..Len(hired) /\ DOMAIN hired' = 1..(Len(hired) + 1)
         /\ \A i \in 1..Len(hired) : hired'[i] = hired[i]
         /\ hired'[Len(hired) + 1] = [task |-> t, worker |-> w, via |-> via, status |-> "active"]
<1>1. [task |-> t, worker |-> w, via |-> via, status |-> "active"] \in Row
  BY DEF Row
<1>. QED  BY <1>1 DEF HireShape, Hire

LEMMA RowHire ==
  ASSUME HireInv, NEW t \in Tasks, NEW w \in Workers,
         NEW via \in {"claim", "invite", "application"}, Hire(t, w, via),
         via # "claim" => ~HasRow(via, t, w)
  PROVE  /\ RowsSingle'
         /\ \A v, u, x : HasRow(v, u, x)' <=> HasRow(v, u, x) \/ (v = via /\ u = t /\ x = w)
<1>1. /\ Len(hired) \in Nat /\ DOMAIN hired = 1..Len(hired) /\ DOMAIN hired' = 1..(Len(hired) + 1)
      /\ \A i \in 1..Len(hired) : hired'[i] = hired[i]
      /\ hired'[Len(hired) + 1] = [task |-> t, worker |-> w, via |-> via, status |-> "active"]
  BY HireRow DEF HireInv
<1>2. RowsSingle'
  BY <1>1 DEF HireInv, RowsSingle, HasRow
<1>3. \A v, u, x : HasRow(v, u, x)' <=> HasRow(v, u, x) \/ (v = via /\ u = t /\ x = w)
  BY <1>1 DEF HasRow
<1>. QED  BY <1>2, <1>3

LEMMA RowStays ==
  ASSUME UNCHANGED hired
  PROVE  /\ \A v, u, x : HasRow(v, u, x)' <=> HasRow(v, u, x)
         /\ RowsSingle => RowsSingle'
BY DEF HasRow, RowsSingle

(* A claim is counted with what was under way, other rows are not. *)
LEMMA CapHire ==
  ASSUME HireInv, NEW t \in Tasks, NEW w \in Workers,
         NEW via \in {"claim", "invite", "application"}, Hire(t, w, via),
         late' \in Nat, late' >= late,
         via = "claim" => ActiveOf(w) + 1 <= Cap + late'
  PROVE  CapHeld'
<1>. DEFINE n == Len(hired)
<1>1. /\ n \in Nat /\ DOMAIN hired = 1..n /\ DOMAIN hired' = 1..(n + 1)
      /\ \A i \in 1..n : hired'[i] = hired[i]
      /\ hired'[n + 1] = [task |-> t, worker |-> w, via |-> via, status |-> "active"]
  BY HireRow DEF HireInv
<1>. HIDE DEF n
<1>2. late \in Nat /\ Cap \in Nat
  BY HiringAssumption DEF HireInv, HireShape
<1>3. ASSUME NEW i \in 1..(n + 1), hired'[i].via = "claim", hired'[i].status = "active"
      PROVE  Cardinality({j \in 1..i : /\ hired'[j].worker = hired'[i].worker
                                       /\ hired'[j].status = "active"}) <= Cap + late'
  <2>. DEFINE S == {j \in 1..i : hired'[j].worker = hired'[i].worker /\ hired'[j].status = "active"}
  <2>1. CASE i \in 1..n
    <3>1. S = {j \in 1..i : hired[j].worker = hired[i].worker /\ hired[j].status = "active"}
      BY <1>1, <2>1
    <3>2. Cardinality(S) <= Cap + late
      BY <1>1, <1>3, <2>1, <3>1 DEF HireInv, CapHeld
    <3>3. S = ActiveRows(hired[i].worker, i)
      BY <3>1 DEF ActiveRows
    <3>4. i \in Nat
      BY <1>1
    <3>5. Cardinality(ActiveRows(hired[i].worker, i)) \in Nat
      BY <3>4, ActiveFinite
    <3>6. Cardinality(ActiveRows(hired[i].worker, i)) <= Cap + late'
      BY <1>2, <3>2, <3>3, <3>5
    <3>. QED  BY <3>3, <3>6
  <2>2. CASE i = n + 1
    <3>1. S = ActiveRows(w, n) \cup {n + 1}
      BY <1>1, <2>2 DEF ActiveRows
    <3>2. ActiveOf(w) = Cardinality(ActiveRows(w, n))
      BY <1>1 DEF ActiveOf, RowsWhere, ActiveRows
    <3>3. IsFiniteSet(ActiveRows(w, n))
      BY <1>1, ActiveFinite
    <3>4. n + 1 \notin ActiveRows(w, n)
      BY <1>1 DEF ActiveRows
    <3>5. Cardinality(ActiveRows(w, n) \cup {n + 1}) = Cardinality(ActiveRows(w, n)) + 1
      BY <3>3, <3>4, FS_AddElement
    <3>6. Cardinality(S) = ActiveOf(w) + 1
      BY <3>1, <3>2, <3>5
    <3>7. via = "claim"
      BY <1>1, <1>3, <2>2
    <3>. QED  BY <3>6, <3>7
  <2>. QED  BY <1>1, <2>1, <2>2
<1>. QED  BY <1>1, <1>3 DEF CapHeld

(* A row that is submitted, released or approved. *)
LEMMA StatusStays ==
  ASSUME HireInv, NEW i \in DOMAIN hired, NEW st \in {"submitted", "approved", "released"},
         hired' = [hired EXCEPT ![i].status = st], UNCHANGED <<bid, offer, desk, late>>
  PROVE  HireInv'
<1>. DEFINE n == Len(hired)
<1>1. n \in Nat /\ DOMAIN hired = 1..n /\ hired \in [1..n -> Row]
  BY DEF HireInv, HireShape
<1>2. [hired[i] EXCEPT !.status = st] \in Row
  BY <1>1 DEF Row
<1>3. /\ hired' \in [1..n -> Row]
      /\ hired'[i] = [hired[i] EXCEPT !.status = st]
      /\ \A j \in 1..n \ {i} : hired'[j] = hired[j]
  BY <1>1, <1>2
<1>4. hired' \in Seq(Row) /\ DOMAIN hired' = 1..n
  BY <1>1, <1>3
<1>5. \A j \in 1..n : /\ hired'[j].task = hired[j].task /\ hired'[j].worker = hired[j].worker
                       /\ hired'[j].via = hired[j].via
                       /\ hired'[j].status = "active" => hired[j].status = "active"
  BY <1>1, <1>2, <1>3 DEF Row
<1>. HIDE DEF n
<1>6. HireShape'
  BY <1>4 DEF HireInv, HireShape
<1>7. RowsSingle' /\ \A v, u, x : HasRow(v, u, x)' <=> HasRow(v, u, x)
  BY <1>1, <1>4, <1>5 DEF HireInv, RowsSingle, HasRow
<1>10. BidsKept' /\ AcceptsKept' /\ OffersKept' /\ AnswersKept' /\ ClaimsKept'
  BY <1>7 DEF HireInv, BidsKept, AcceptsKept, OffersKept, AnswersKept, ClaimsKept
<1>8. ASSUME NEW k \in 1..n, hired'[k].via = "claim", hired'[k].status = "active"
      PROVE  Cardinality({j \in 1..k : /\ hired'[j].worker = hired'[k].worker
                                       /\ hired'[j].status = "active"}) <= Cap + late
  <2>. DEFINE S == {j \in 1..k : hired'[j].worker = hired'[k].worker /\ hired'[j].status = "active"}
              T == {j \in 1..k : hired[j].worker = hired[k].worker /\ hired[j].status = "active"}
  <2>1. S \in SUBSET T
    BY <1>1, <1>5
  <2>2. T = ActiveRows(hired[k].worker, k)
    BY DEF ActiveRows
  <2>3. IsFiniteSet(T) /\ Cardinality(T) \in Nat
    <3>1. k \in Nat
      BY <1>1
    <3>2. /\ IsFiniteSet(ActiveRows(hired[k].worker, k))
          /\ Cardinality(ActiveRows(hired[k].worker, k)) \in Nat
      BY <3>1, ActiveFinite
    <3>. QED  BY <2>2, <3>2
  <2>4. Cardinality(S) <= Cardinality(T) /\ Cardinality(S) \in Nat
    BY <2>1, <2>3, FS_Subset, FS_CardinalityType
  <2>5. Cardinality(T) <= Cap + late
    BY <1>1, <1>5, <1>8 DEF HireInv, CapHeld
  <2>6. Cap + late \in Nat
    BY HiringAssumption DEF HireInv, HireShape
  <2>. QED  BY <2>3, <2>4, <2>5, <2>6
<1>9. CapHeld'
  BY <1>4, <1>8 DEF CapHeld
<1>. QED  BY <1>6, <1>7, <1>9, <1>10 DEF HireInv

LEMMA SessionTask ==
  ASSUME NEW q \in SessionRow, q.op = "respond" PROVE q.task \in Tasks /\ q.worker \in Workers
BY DEF SessionRow, Free

LEMMA HireInvInit == HireInit => HireInv
<1>. SUFFICES ASSUME HireInit PROVE HireInv
  OBVIOUS
<1>1. HireShape
  BY DEF HireInit, HireShape, SessionRow
<1>2. RowsSingle /\ BidsKept /\ AcceptsKept /\ OffersKept /\ AnswersKept /\ ClaimsKept
  BY DEF HireInit, RowsSingle, BidsKept, AcceptsKept, OffersKept, AnswersKept, Rivals, ClaimsKept, HasRow, Free
<1>3. CapHeld
  BY DEF HireInit, CapHeld
<1>. QED  BY <1>1, <1>2, <1>3 DEF HireInv

(* A request that begins, or ends without effect. *)
LEMMA DeskStays ==
  ASSUME HireInv, NEW d \in Desks, NEW ses \in SessionRow, desk' = [desk EXCEPT ![d] = ses],
         UNCHANGED <<hired, bid, offer, late>>,
         ses.op = "accept" => bid[ses.task][ses.worker] = "pending" /\ ~BidLocked(ses.task, ses.worker),
         ses.op = "respond" => offer[ses.task][ses.worker] = "pending" /\ ~OfferLocked(ses.task, ses.worker),
         ses.op = "claim" => ses.count < Cap
  PROVE  HireInv'
<1>1. HireShape'
  BY DEF HireInv, HireShape
<1>2. \A e \in Desks : desk'[e] = IF e = d THEN ses ELSE desk[e]
  BY DEF HireInv, HireShape
<1>3. AcceptsKept'
  BY <1>2 DEF HireInv, AcceptsKept, Rivals, BidLocked, Doing
<1>4. AnswersKept'
  BY <1>2 DEF HireInv, AnswersKept, Rivals, OfferLocked, Doing
<1>5. ClaimsKept'
  BY <1>2 DEF HireInv, ClaimsKept
<1>6. RowsSingle' /\ BidsKept' /\ OffersKept'
  BY RowStays DEF HireInv, BidsKept, OffersKept
<1>. QED  BY <1>1, <1>3, <1>4, <1>5, <1>6, CapStays DEF HireInv

(* An application is made, withdrawn or rejected, on a free or ending desk. *)
LEMMA BidStays ==
  ASSUME HireInv, NEW t \in ByApplication, NEW w \in Workers,
         NEW st \in {"pending", "rejected", "withdrawn"}, bid' = [bid EXCEPT ![t][w] = st],
         st = "pending" => bid[t][w] = "none", ~BidLocked(t, w),
         desk' = desk \/ \E d \in Desks : desk' = [desk EXCEPT ![d] = Free],
         UNCHANGED <<hired, offer, late>>
  PROVE  HireInv'
<1>1. HireShape'
  BY DEF HireInv, HireShape, SessionRow
<1>2. \A e \in Desks : desk'[e] = desk[e] \/ desk'[e].op = "free"
  BY DEF HireInv, HireShape, Free
<1>3. \A u \in ByApplication, v \in Workers : bid'[u][v] = IF u = t /\ v = w THEN st ELSE bid[u][v]
  BY DEF HireInv, HireShape
<1>4. RowsSingle' /\ BidsKept' /\ OffersKept'
  BY <1>3, RowStays DEF HireInv, BidsKept, OffersKept
<1>5. AcceptsKept'
  <2>1. \A e \in Desks : desk[e].op = "accept" => desk[e].task \in ByApplication /\ desk[e].worker \in Workers
    BY DEF HireInv, HireShape, SessionRow, Free
  <2>. QED  BY <1>2, <1>3, <2>1 DEF HireInv, AcceptsKept, Rivals, BidLocked, Doing
<1>6. AnswersKept' /\ ClaimsKept'
  BY <1>2 DEF HireInv, AnswersKept, Rivals, ClaimsKept
<1>. QED  BY <1>1, <1>4, <1>5, <1>6, CapStays DEF HireInv

Unanswered(t, w) ==
  \A d \in Desks : ~(desk[d].op = "respond" /\ desk[d].task = t /\ desk[d].worker = w)

(* An invite is sent, grows old or is closed without a row. *)
LEMMA OfferStays ==
  ASSUME HireInv, NEW t \in Tasks, NEW w \in Workers,
         NEW st \in {"pending", "stale", "declined", "expired"}, offer' = [offer EXCEPT ![t][w] = st],
         st # "expired" => offer[t][w] \in {"none", "pending", "stale"},
         st = "stale" \/ Unanswered(t, w)',
         desk' = desk \/ \E d \in Desks : desk' = [desk EXCEPT ![d] = Free],
         UNCHANGED <<hired, bid, late>>
  PROVE  HireInv'
<1>1. HireShape'
  BY DEF HireInv, HireShape, SessionRow
<1>2. \A e \in Desks : desk'[e] = desk[e] \/ desk'[e].op = "free"
  BY DEF HireInv, HireShape, Free
<1>3. \A u \in Tasks, v \in Workers : offer'[u][v] = IF u = t /\ v = w THEN st ELSE offer[u][v]
  BY DEF HireInv, HireShape
<1>4. RowsSingle' /\ BidsKept' /\ OffersKept'
  BY <1>3, RowStays DEF HireInv, BidsKept, OffersKept
<1>5. AnswersKept'
  <2>1. \A e \in Desks : desk[e].op = "respond" => desk[e].task \in Tasks /\ desk[e].worker \in Workers
    BY SessionTask DEF HireInv, HireShape
  <2>2. ASSUME NEW e \in Desks, desk'[e].op = "respond"
        PROVE  offer'[desk'[e].task][desk'[e].worker] \in {"pending", "stale"}
    <3>1. desk'[e] = desk[e]
      BY <1>2, <2>2
    <3>2. CASE desk[e].task = t /\ desk[e].worker = w
      BY <1>3, <2>2, <3>1, <3>2 DEF Unanswered
    <3>3. CASE ~(desk[e].task = t /\ desk[e].worker = w)
      BY <1>3, <2>1, <2>2, <3>1, <3>3 DEF HireInv, AnswersKept
    <3>. QED  BY <3>2, <3>3
  <2>3. \A d, e \in Desks : Rivals("respond", desk'[d], desk'[e]) => d = e
    BY <1>2 DEF HireInv, AnswersKept, Rivals
  <2>. QED  BY <2>2, <2>3 DEF AnswersKept, Rivals
<1>6. AcceptsKept' /\ ClaimsKept'
  BY <1>2 DEF HireInv, AcceptsKept, Rivals, ClaimsKept
<1>. QED  BY <1>1, <1>4, <1>5, <1>6, CapStays DEF HireInv

LEMMA ActiveCounted ==
  ASSUME HireShape, NEW w PROVE ActiveOf(w) = Cardinality(ActiveRows(w, Len(hired))) /\ ActiveOf(w) \in Nat
<1>1. Len(hired) \in Nat /\ DOMAIN hired = 1..Len(hired)
  BY DEF HireShape
<1>2. {i \in DOMAIN hired : hired[i].worker = w /\ hired[i].status = "active"} = ActiveRows(w, Len(hired))
  BY <1>1 DEF ActiveRows
<1>3. ActiveOf(w) = Cardinality(ActiveRows(w, Len(hired)))
  BY <1>2 DEF ActiveOf, RowsWhere
<1>. QED  BY <1>1, <1>3, ActiveFinite

LEMMA HireInvNext == HireInv /\ [HireNext]_hireVars => HireInv'
<1>. SUFFICES ASSUME HireInv, [HireNext]_hireVars PROVE HireInv'
  OBVIOUS
<1>. USE DEF HireInv
<1>1. CASE UNCHANGED hireVars
  <2>1. HireShape' /\ RowsSingle' /\ BidsKept' /\ OffersKept'
    BY <1>1, RowStays DEF hireVars, HireShape, BidsKept, OffersKept
  <2>2. AcceptsKept' /\ AnswersKept' /\ ClaimsKept'
    BY <1>1 DEF hireVars, AcceptsKept, AnswersKept, Rivals, ClaimsKept
  <2>. QED  BY <1>1, <2>1, <2>2, CapStays DEF hireVars
<1>2. ASSUME NEW d \in Desks, Refuse(d) PROVE HireInv'
  BY <1>2, DeskStays DEF Refuse, Leave, Free, SessionRow
<1>3. ASSUME NEW d \in Desks, ClaimEnd(d) PROVE HireInv'
  <2>1. PICK t \in Tasks, w \in Workers : t = desk[d].task /\ w = desk[d].worker
    BY <1>3 DEF ClaimEnd, HireShape, SessionRow, Free
  <2>2. desk[d].op = "claim" /\ desk[d].count \in Nat /\ desk[d].count < Cap
    BY <1>3 DEF ClaimEnd, HireShape, SessionRow, Free, ClaimsKept
  <2>3. /\ Hire(t, w, "claim") /\ desk' = [desk EXCEPT ![d] = Free] /\ UNCHANGED <<bid, offer>>
        /\ late' = late + (IF ActiveOf(w) > desk[d].count THEN ActiveOf(w) - desk[d].count ELSE 0)
    BY <1>3, <2>1 DEF ClaimEnd, Leave
  <2>4. ActiveOf(w) \in Nat /\ late \in Nat /\ Cap \in Nat
    BY ActiveCounted, HiringAssumption DEF HireShape
  <2>5. late' \in Nat /\ late' >= late /\ ActiveOf(w) + 1 <= Cap + late'
    BY ONLY <2>2, <2>3, <2>4
  <2>6. CapHeld'
    BY <2>3, <2>5, CapHire
  <2>7. HireShape'
    BY <2>3, <2>5, HireRow DEF HireShape, SessionRow
  <2>8. RowsSingle' /\ BidsKept' /\ OffersKept'
    BY <2>3, RowHire DEF BidsKept, OffersKept
  <2>9. AcceptsKept' /\ AnswersKept' /\ ClaimsKept'
    BY <2>3 DEF Free, HireShape, AcceptsKept, AnswersKept, Rivals, ClaimsKept
  <2>. QED  BY <2>6, <2>7, <2>8, <2>9
<1>4. ASSUME NEW d \in Desks, ApplyEnd(d) PROVE HireInv'
  <2>1. PICK t \in ByApplication, w \in Workers : t = desk[d].task /\ w = desk[d].worker
    BY <1>4 DEF ApplyEnd, HireShape, SessionRow, Free
  <2>2. bid[t][w] = "none" /\ bid' = [bid EXCEPT ![t][w] = "pending"] /\ UNCHANGED <<hired, offer, late>>
        /\ desk' = [desk EXCEPT ![d] = Free]
    BY <1>4, <2>1 DEF ApplyEnd, Leave
  <2>3. ~BidLocked(t, w)
    BY <2>2 DEF AcceptsKept, Rivals, BidLocked, Doing
  <2>. QED  BY <2>2, <2>3, BidStays
<1>5. ASSUME NEW d \in Desks, AcceptEnd(d) PROVE HireInv'
  <2>1. PICK t \in ByApplication, w \in Workers : t = desk[d].task /\ w = desk[d].worker
    BY <1>5 DEF AcceptEnd, HireShape, SessionRow, Free
  <2>2. /\ Hire(t, w, "application") /\ desk' = [desk EXCEPT ![d] = Free]
        /\ UNCHANGED <<offer, late>> /\ t \in Tasks
        /\ bid' = [bid EXCEPT ![t] = [v \in Workers |-> IF v = w THEN "accepted"
                                       ELSE IF v \in desk[d].others THEN "rejected" ELSE bid[t][v]]]
        /\ \A v \in desk[d].others : ~BidLocked(t, v)
    BY <1>5, <2>1, HiringAssumption DEF AcceptEnd, Leave
  <2>3. /\ bid[t][w] = "pending" /\ desk[d].op = "accept"
        /\ \A e \in Desks : desk[e].op = "accept" /\ desk[e].task = t /\ desk[e].worker = w => e = d
    BY <1>5, <2>1 DEF AcceptEnd, AcceptsKept, Rivals
  <2>4. CapHeld'
    BY <2>2, CapHire DEF HireShape
  <2>5. HireShape'
    BY <2>2, HireRow DEF HireShape, SessionRow
  <2>6. /\ RowsSingle'
        /\ \A v, u, x : HasRow(v, u, x)' <=> HasRow(v, u, x) \/ (v = "application" /\ u = t /\ x = w)
    BY <2>2, <2>3, RowHire DEF BidsKept
  <2>7. OffersKept' /\ AnswersKept' /\ ClaimsKept'
    BY <2>2, <2>6 DEF Free, HireShape, OffersKept, AnswersKept, Rivals, ClaimsKept
  <2>8. \A u \in ByApplication, v \in Workers :
          bid'[u][v] = IF u = t THEN IF v = w THEN "accepted"
                                     ELSE IF v \in desk[d].others THEN "rejected" ELSE bid[t][v]
                       ELSE bid[u][v]
    BY <2>2 DEF HireShape
  <2>9. BidsKept'
    BY <2>6, <2>8 DEF BidsKept
  <2>10. AcceptsKept'
    <3>1. ASSUME NEW e \in Desks, desk'[e].op = "accept"
          PROVE  e # d /\ desk'[e] = desk[e] /\ desk[e].task \in ByApplication /\ desk[e].worker \in Workers
                 /\ (desk[e].task = t => desk[e].worker # w /\ desk[e].worker \notin desk[d].others)
      BY <2>2, <2>3, <3>1 DEF HireShape, SessionRow, Free, BidLocked, Doing
    <3>. QED  BY <2>8, <3>1 DEF AcceptsKept, Rivals
  <2>. QED  BY <2>4, <2>5, <2>6, <2>7, <2>9, <2>10
<1>6. ASSUME NEW d \in Desks, WithdrawEnd(d) PROVE HireInv'
  <2>1. PICK t \in ByApplication, w \in Workers : t = desk[d].task /\ w = desk[d].worker
    BY <1>6 DEF WithdrawEnd, HireShape, SessionRow, Free
  <2>. QED  BY <1>6, <2>1, BidStays DEF WithdrawEnd, Leave
<1>7. ASSUME NEW d \in Desks, AcceptInvite(d) PROVE HireInv'
  <2>1. PICK t \in Tasks, w \in Workers : t = desk[d].task /\ w = desk[d].worker
    BY <1>7 DEF AcceptInvite, HireShape, SessionRow, Free
  <2>2. /\ Hire(t, w, "invite") /\ desk' = [desk EXCEPT ![d] = Free] /\ UNCHANGED <<bid, late>>
        /\ offer' = [offer EXCEPT ![t][w] = "accepted"]
    BY <1>7, <2>1 DEF AcceptInvite, Leave
  <2>3. /\ offer[t][w] \in {"pending", "stale"} /\ desk[d].op = "respond"
        /\ \A e \in Desks : desk[e].op = "respond" /\ desk[e].task = t /\ desk[e].worker = w => e = d
    BY <1>7, <2>1 DEF AcceptInvite, AnswersKept, Rivals
  <2>4. CapHeld'
    BY <2>2, CapHire DEF HireShape
  <2>5. HireShape'
    BY <2>2, HireRow DEF HireShape, SessionRow
  <2>6. /\ RowsSingle'
        /\ \A v, u, x : HasRow(v, u, x)' <=> HasRow(v, u, x) \/ (v = "invite" /\ u = t /\ x = w)
    BY <2>2, <2>3, RowHire DEF OffersKept
  <2>7. BidsKept' /\ AcceptsKept' /\ ClaimsKept'
    BY <2>2, <2>6 DEF Free, HireShape, BidsKept, AcceptsKept, Rivals, ClaimsKept
  <2>8. \A u \in Tasks, v \in Workers :
          offer'[u][v] = IF u = t /\ v = w THEN "accepted" ELSE offer[u][v]
    BY <2>2 DEF HireShape
  <2>9. OffersKept'
    BY <2>6, <2>8 DEF OffersKept
  <2>10. AnswersKept'
    <3>1. ASSUME NEW e \in Desks, desk'[e].op = "respond"
          PROVE  e # d /\ desk'[e] = desk[e] /\ desk[e].task \in Tasks /\ desk[e].worker \in Workers
                 /\ ~(desk[e].task = t /\ desk[e].worker = w)
      BY <2>2, <2>3, <3>1 DEF HireShape, SessionRow, Free
    <3>. QED  BY <2>8, <3>1 DEF AnswersKept, Rivals
  <2>. QED  BY <2>4, <2>5, <2>6, <2>7, <2>9, <2>10
<1>8. ASSUME NEW d \in Desks, DeclineInvite(d) PROVE HireInv'
  <2>1. PICK t \in Tasks, w \in Workers : t = desk[d].task /\ w = desk[d].worker
    BY <1>8 DEF DeclineInvite, HireShape, SessionRow, Free
  <2>2. /\ offer' = [offer EXCEPT ![t][w] = "declined"] /\ desk' = [desk EXCEPT ![d] = Free]
        /\ UNCHANGED <<hired, bid, late>>
    BY <1>8, <2>1 DEF DeclineInvite, Leave
  <2>3. /\ offer[t][w] \in {"pending", "stale"}
        /\ \A e \in Desks : desk[e].op = "respond" /\ desk[e].task = t /\ desk[e].worker = w => e = d
    BY <1>8, <2>1 DEF DeclineInvite, AnswersKept, Rivals
  <2>4. Unanswered(t, w)'
    BY <2>2, <2>3 DEF HireShape, Free, Unanswered
  <2>. QED  BY <2>2, <2>3, <2>4, OfferStays
<1>9. ASSUME NEW d \in Desks, ListEnd(d) PROVE HireInv'
  <2>1. PICK t \in Tasks, w \in Workers : t = desk[d].task /\ w = desk[d].worker
    BY <1>9 DEF ListEnd, HireShape, SessionRow, Free
  <2>2. /\ offer' = [offer EXCEPT ![t][w] = "expired"] /\ desk' = [desk EXCEPT ![d] = Free]
        /\ UNCHANGED <<hired, bid, late>> /\ ~OfferLocked(t, w)
    BY <1>9, <2>1 DEF ListEnd, Leave
  <2>3. Unanswered(t, w)'
    BY <2>2 DEF HireShape, Free, OfferLocked, Doing, Unanswered
  <2>. QED  BY <2>2, <2>3, OfferStays
<1>10. ASSUME NEW d \in Desks, NEW t \in Tasks, NEW w \in Workers, ClaimBegin(d, t, w) PROVE HireInv'
  <2>1. ActiveOf(w) \in Nat /\ ActiveOf(w) < Cap
    BY <1>10, ActiveCounted DEF ClaimBegin, UnderCap
  <2>2. [op |-> "claim", task |-> t, worker |-> w, count |-> ActiveOf(w)] \in SessionRow
    BY <2>1 DEF SessionRow
  <2>. QED  BY <1>10, <2>1, <2>2, DeskStays DEF ClaimBegin, Sit
<1>11. ASSUME NEW d \in Desks, NEW t \in Tasks, NEW w \in Workers, RespondBegin(d, t, w) PROVE HireInv'
  <2>1. [op |-> "respond", task |-> t, worker |-> w] \in SessionRow
    BY DEF SessionRow
  <2>. QED  BY <1>11, <2>1, DeskStays DEF RespondBegin, Sit
<1>12. ASSUME NEW d \in Desks, NEW t \in Tasks, NEW w \in Workers, ListBegin(d, t, w) PROVE HireInv'
  <2>1. [op |-> "list", task |-> t, worker |-> w] \in SessionRow
    BY DEF SessionRow
  <2>. QED  BY <1>12, <2>1, DeskStays DEF ListBegin, Sit
<1>13. ASSUME NEW d \in Desks, NEW t \in ByApplication, NEW w \in Workers,
              ApplyBegin(d, t, w) \/ WithdrawBegin(d, t, w) PROVE HireInv'
  <2>1. PICK op \in {"apply", "withdraw"} :
          /\ desk' = [desk EXCEPT ![d] = [op |-> op, task |-> t, worker |-> w]]
          /\ UNCHANGED <<hired, bid, offer, late>>
    BY <1>13 DEF ApplyBegin, WithdrawBegin, Sit
  <2>2. [op |-> op, task |-> t, worker |-> w] \in SessionRow
    BY DEF SessionRow
  <2>. QED  BY <2>1, <2>2, DeskStays
<1>14. ASSUME NEW d \in Desks, NEW t \in ByApplication, NEW w \in Workers, AcceptBegin(d, t, w)
       PROVE HireInv'
  <2>1. PICK others \in SUBSET Workers : others = {v \in Workers \ {w} : bid[t][v] = "pending"}
    OBVIOUS
  <2>2. [op |-> "accept", task |-> t, worker |-> w, others |-> others] \in SessionRow
    BY DEF SessionRow
  <2>. QED  BY <1>14, <2>1, <2>2, DeskStays DEF AcceptBegin, Decidable, Sit
<1>15. ASSUME NEW t \in Tasks, NEW w \in Workers, Invite(t, w) PROVE HireInv'
  <2>1. offer[t][w] = "none" /\ offer' = [offer EXCEPT ![t][w] = "pending"]
        /\ UNCHANGED <<hired, bid, desk, late>>
    BY <1>15 DEF Invite, Invitable
  <2>2. Unanswered(t, w)'
    BY <2>1 DEF AnswersKept, Unanswered
  <2>. QED  BY <2>1, <2>2, OfferStays
<1>19. ASSUME NEW t \in Tasks, NEW w \in Workers, GrowStale(t, w) PROVE HireInv'
  BY <1>19, OfferStays DEF GrowStale
<1>20. ASSUME NEW t \in Tasks, NEW w \in Workers, RespondTooLate(t, w) PROVE HireInv'
  <2>1. offer' = [offer EXCEPT ![t][w] = "expired"] /\ UNCHANGED <<hired, bid, desk, late>>
    BY <1>20 DEF RespondTooLate
  <2>2. Unanswered(t, w)'
    BY <1>20, <2>1 DEF RespondTooLate, OfferLocked, Doing, Unanswered
  <2>. QED  BY <2>1, <2>2, OfferStays
<1>21. ASSUME NEW t \in Tasks, NEW asked \in SUBSET Workers, BulkInvite(t, asked) PROVE HireInv'
  <2>1. /\ UNCHANGED <<hired, bid, desk, late>>
        /\ offer' = [offer EXCEPT ![t] = [w \in Workers |->
             IF w \in asked /\ offer[t][w] = "none" THEN "pending" ELSE offer[t][w]]]
    BY <1>21 DEF BulkInvite, Invitable
  <2>2. HireShape'
    BY <2>1 DEF HireShape
  <2>3. \A u \in Tasks, v \in Workers :
          offer'[u][v] = offer[u][v] \/ (offer[u][v] = "none" /\ offer'[u][v] = "pending")
    BY <2>1 DEF HireShape
  <2>4. RowsSingle' /\ BidsKept' /\ OffersKept'
    BY <2>1, <2>3, RowStays DEF BidsKept, OffersKept
  <2>5. AnswersKept'
    <3>1. \A e \in Desks : desk[e].op = "respond" => desk[e].task \in Tasks /\ desk[e].worker \in Workers
      BY SessionTask DEF HireShape
    <3>. QED  BY <2>1, <2>3, <3>1 DEF AnswersKept, Rivals
  <2>6. AcceptsKept' /\ ClaimsKept'
    BY <2>1 DEF AcceptsKept, Rivals, ClaimsKept
  <2>. QED  BY <2>1, <2>2, <2>4, <2>5, <2>6, CapStays
<1>16. ASSUME NEW t \in ByApplication, NEW w \in Workers, RejectBid(t, w) PROVE HireInv'
  BY <1>16, BidStays DEF RejectBid
<1>17. ASSUME NEW i \in DOMAIN hired, Submit(i) \/ Release(i) \/ Approve(i) PROVE HireInv'
  <2>1. PICK st \in {"submitted", "released", "approved"} : hired' = [hired EXCEPT ![i].status = st]
    BY <1>17 DEF Submit, Release, Approve
  <2>2. UNCHANGED <<bid, offer, desk, late>>
    BY <1>17 DEF Submit, Release, Approve
  <2>. QED  BY <2>1, <2>2, StatusStays
<1>18. ASSUME NEW t \in Tasks, CancelTask(t) PROVE HireInv'
  <2>1. HireShape' /\ RowsSingle' /\ BidsKept' /\ OffersKept'
    BY <1>18, RowStays DEF CancelTask, HireShape, BidsKept, OffersKept
  <2>2. AcceptsKept' /\ AnswersKept' /\ ClaimsKept'
    BY <1>18 DEF CancelTask, AcceptsKept, AnswersKept, Rivals, ClaimsKept
  <2>. QED  BY <1>18, <2>1, <2>2, CapStays DEF CancelTask
<1>. QED  BY <1>1, <1>2, <1>3, <1>4, <1>5, <1>6, <1>7, <1>8, <1>9, <1>10, <1>11, <1>12, <1>13, <1>14,
            <1>15, <1>16, <1>17, <1>18, <1>19, <1>20, <1>21 DEF HireNext, Requests

LEMMA AtMostOne ==
  ASSUME NEW S, IsFiniteSet(S), \A x, y \in S : x = y
  PROVE  Cardinality(S) <= 1 /\ (S # {} => Cardinality(S) = 1) /\ (S = {} => Cardinality(S) = 0)
<1>1. CASE S = {}
  BY <1>1, FS_EmptySet
<1>2. CASE S # {}
  <2>1. PICK x : S = {x}
    BY <1>2
  <2>. QED  BY <1>2, <2>1, FS_Singleton
<1>. QED  BY <1>1, <1>2

(* For any tasks, workers and requests: one answer to an application or an  *)
(* invite hires once, and claims pass the cap by what was under way only   *)
(* (routers/worker.py, applications.py, worker_marketplace.py).            *)
THEOREM HiringSafe == HireSpec => []HiringKept
<1>1. HireInv => HiringKept
  <2>. SUFFICES ASSUME HireInv PROVE HiringKept
    OBVIOUS
  <2>1. ASSUME NEW via \in {"application", "invite"}, NEW t, NEW w
        PROVE  /\ Through(via, t, w) <= 1
               /\ HasRow(via, t, w) => Through(via, t, w) = 1
               /\ ~HasRow(via, t, w) => Through(via, t, w) = 0
    <3>. DEFINE S == {i \in DOMAIN hired : /\ hired[i].via = via /\ hired[i].task = t
                                          /\ hired[i].worker = w}
    <3>1. Through(via, t, w) = Cardinality(S)
      BY DEF Through, RowsWhere
    <3>2. Len(hired) \in Nat /\ DOMAIN hired = 1..Len(hired)
      BY DEF HireInv, HireShape
    <3>3. IsFiniteSet(DOMAIN hired)
      BY <3>2, FS_Interval
    <3>4. IsFiniteSet(S)
      BY <3>3, FS_Subset
    <3>5. \A i, j \in S : i = j
      BY DEF HireInv, RowsSingle
    <3>6. HasRow(via, t, w) <=> S # {}
      BY DEF HasRow
    <3>. HIDE DEF S
    <3>. QED  BY <3>1, <3>4, <3>5, <3>6, AtMostOne
  <2>2. HiredOnce
    BY <2>1 DEF HireInv, BidsKept, OffersKept, HiredOnce
  <2>. QED  BY <2>2 DEF HireInv, HiringKept
<1>2. HireSpec => []HireInv
  BY HireInvInit, HireInvNext, PTL DEF HireSpec
<1>. QED  BY <1>1, <1>2, PTL

---------------------------------------------------------------------------
(* Standing *)

States == {"none", "active", "pardoned"}
Ops == Scores \cup {"ban", "adminBan", "adminUnban", "adminIssue", "adminPardon"}
StandingRow == [count : Nat, banned : BOOLEAN, score : 0..Full]
ModeratorRow ==
  [at : {"read", "flushed", "scored"}, op : Ops, strike : Strikes \cup {NoStrike},
   row : StandingRow, was : States \cup {NoStrike}, alone : BOOLEAN, held : BOOLEAN, score : 0..Full]

StrikeShape ==
  /\ strike \in [Strikes -> States] /\ standing \in StandingRow
  /\ behind \in BOOLEAN /\ drifted \in BOOLEAN
  /\ moderator \in [Moderators -> {Away} \cup ModeratorRow]

(* What a request on strikes and bans knows from its guard alone.          *)
GuardsKept == \A m \in Moderators : LET q == moderator[m] IN q # Away =>
  /\ q.op \in Issues => q.strike \in Strikes /\ q.was = "none"
  /\ q.op \in Pardons => q.strike \in Strikes /\ q.was \in {"active", "pardoned"}
  /\ q.op \notin Issues \cup Pardons => q.strike = NoStrike /\ q.was = NoStrike

(* What a request has read, and the score computed from it, is still so if *)
(* no other has committed since.                                           *)
RightScore(q) == IF NewBanned(q) THEN 0 ELSE Full - Penalty(q)
NothingMissed == \A m \in Moderators : LET q == moderator[m] IN q # Away /\ q.alone =>
  /\ q.row = standing
  /\ q.strike \in Strikes => q.was = strike[q.strike]
  /\ q.at = "scored" => q.score = RightScore(q)

DerivedRight ==
  /\ ~behind => standing.score = IF standing.banned THEN 0 ELSE Full - Cardinality(Active(strike))
  /\ ~drifted => standing.count = Cardinality(Active(strike))

StrikeInv == StrikeShape /\ GuardsKept /\ NothingMissed /\ DerivedRight

LEMMA AwayApart ==
  /\ Away.at = "away"
  /\ \A q \in ModeratorRow : q # Away /\ q.at # "away"
BY DEF Away, ModeratorRow

LEMMA ActiveCount ==
  ASSUME NEW S
  PROVE  /\ IsFiniteSet(Active(S)) /\ Cardinality(Active(S)) \in 0..Full /\ Full \in Nat
         /\ Full - Cardinality(Active(S)) \in 0..Full
         /\ Cardinality(Active(S)) = 0 <=> Active(S) = {}
<1>1. Active(S) \in SUBSET Strikes /\ IsFiniteSet(Strikes)
  BY StandingAssumption DEF Active
<1>2. /\ IsFiniteSet(Active(S)) /\ Cardinality(Active(S)) <= Cardinality(Strikes)
      /\ Cardinality(Active(S)) \in Nat /\ Cardinality(Strikes) \in Nat
  BY <1>1, FS_Subset, FS_CardinalityType
<1>. QED  BY <1>2, FS_EmptySet DEF Full

(* A strike that becomes active adds one, and one that is pardoned takes   *)
(* one away.                                                               *)
LEMMA ActiveStepped ==
  ASSUME NEW S \in [Strikes -> States], NEW s \in Strikes
  PROVE  /\ S[s] = "none" =>
              Cardinality(Active([S EXCEPT ![s] = "active"])) = Cardinality(Active(S)) + 1
         /\ S[s] = "active" =>
              Cardinality(Active([S EXCEPT ![s] = "pardoned"])) = Cardinality(Active(S)) - 1
<1>1. CASE S[s] = "none"
  <2>1. Active([S EXCEPT ![s] = "active"]) = Active(S) \cup {s} /\ s \notin Active(S)
    BY <1>1 DEF Active
  <2>. QED  BY <1>1, <2>1, ActiveCount, FS_AddElement
<1>2. CASE S[s] = "active"
  <2>1. Active([S EXCEPT ![s] = "pardoned"]) = Active(S) \ {s} /\ s \in Active(S)
    BY <1>2 DEF Active
  <2>. QED  BY <1>2, <2>1, ActiveCount, FS_RemoveElement
<1>. QED  BY <1>1, <1>2

(* What is computed from strikes stays while they do.                      *)
LEMMA Unmoved ==
  ASSUME UNCHANGED strike
  PROVE  /\ Active(strike)' = Active(strike) /\ Full' = Full
         /\ \A m \in Moderators : RightScore(moderator[m])' = RightScore(moderator'[m])
BY DEF Active, Full, Penalty, NewStrike, NewBanned, RightScore

LEMMA StrikeInvInit == StandingInit => StrikeInv
<1>. SUFFICES ASSUME StandingInit PROVE StrikeInv
  OBVIOUS
<1>1. Active(strike) = {}
  BY DEF StandingInit, Active
<1>2. Cardinality(Active(strike)) = 0 /\ Full \in Nat
  BY <1>1, ActiveCount
<1>3. Full = Full - 0 /\ Full \in 0..Full
  BY <1>2
<1>4. StrikeShape
  BY <1>3 DEF StandingInit, StrikeShape, StandingRow, States
<1>. QED  BY <1>2, <1>3, <1>4 DEF StandingInit, StrikeInv, GuardsKept, NothingMissed, DerivedRight

(* A request that begins.                                                  *)
LEMMA ModerateKept ==
  ASSUME StrikeInv, NEW m \in Moderators, NEW op \in Ops, NEW s \in Strikes \cup {NoStrike},
         Moderate(m, op, s),
         op \in Issues => s \in Strikes /\ strike[s] = "none",
         op \in Pardons => s \in Strikes /\ strike[s] # "none",
         op \notin Issues \cup Pardons => s = NoStrike
  PROVE  StrikeInv'
<1>. USE DEF StrikeInv
<1>. DEFINE new == [at |-> "read", op |-> op, strike |-> s, row |-> standing,
                    was |-> IF s = NoStrike THEN s ELSE strike[s],
                    alone |-> TRUE, held |-> FALSE, score |-> standing.score]
<1>1. /\ moderator' = [moderator EXCEPT ![m] = new]
      /\ UNCHANGED <<strike, standing, behind, drifted>>
  BY DEF Moderate
<1>2. new.was \in States \cup {NoStrike} /\ (s \in Strikes => new.was = strike[s])
  BY StandingAssumption DEF StrikeShape
<1>3. new \in ModeratorRow
  BY <1>2 DEF ModeratorRow, StrikeShape, StandingRow
<1>4. StrikeShape'
  BY <1>1, <1>3 DEF StrikeShape
<1>5. moderator'[m] = new /\ \A o \in Moderators \ {m} : moderator'[o] = moderator[o]
  BY <1>1 DEF StrikeShape
<1>6. GuardsKept'
  <2>1. op \in Pardons => strike[s] \in {"active", "pardoned"}
    BY DEF StrikeShape, States
  <2>. QED  BY <1>2, <1>5, <2>1 DEF GuardsKept
<1>7. NothingMissed'
  BY <1>1, <1>2, <1>5, Unmoved DEF NothingMissed
<1>8. DerivedRight'
  BY <1>1 DEF DerivedRight, Active, Full
<1>. QED  BY <1>4, <1>6, <1>7, <1>8

(* A request goes on, and keeps what it has read.                          *)
SameReading(r, q) ==
  r # Away /\ r.op = q.op /\ r.strike = q.strike /\ r.row = q.row /\ r.was = q.was /\ r.alone = q.alone

Flushed(q, h) == [q EXCEPT !.at = "flushed", !.held = h]
Scored(q, d) == [q EXCEPT !.at = "scored", !.score = d]

LEMMA ReadingStays ==
  ASSUME NEW q \in ModeratorRow, NEW h \in BOOLEAN
  PROVE  LET r == Flushed(q, h)
         IN  r \in ModeratorRow /\ r.at = "flushed" /\ SameReading(r, q)
<1>. DEFINE r == Flushed(q, h)
<1>. USE DEF Flushed
<1>1. r \in ModeratorRow /\ r.at = "flushed"
  BY DEF ModeratorRow
<1>2. r.op = q.op /\ r.strike = q.strike /\ r.row = q.row /\ r.was = q.was /\ r.alone = q.alone
  BY DEF ModeratorRow
<1>. QED  BY <1>1, <1>2, AwayApart DEF SameReading

LEMMA ReadingScored ==
  ASSUME NEW q \in ModeratorRow, NEW d \in 0..Full
  PROVE  LET r == Scored(q, d)
         IN  r \in ModeratorRow /\ r.score = d /\ SameReading(r, q)
<1>. DEFINE r == Scored(q, d)
<1>. USE DEF Scored
<1>1. r \in ModeratorRow /\ r.score = d
  BY DEF ModeratorRow
<1>2. r.op = q.op /\ r.strike = q.strike /\ r.row = q.row /\ r.was = q.was /\ r.alone = q.alone
  BY DEF ModeratorRow
<1>. QED  BY <1>1, <1>2, AwayApart DEF SameReading

(* What a request would write depends on what it has read alone.           *)
LEMMA SameWrites ==
  ASSUME NEW r, NEW q, SameReading(r, q)
  PROVE  RightScore(r) = RightScore(q)
<1>1. NewBanned(r) = NewBanned(q)
  BY DEF SameReading, NewBanned
<1>2. NewStrike(r) = NewStrike(q)
  BY DEF SameReading, NewStrike
<1>. QED  BY <1>1, <1>2 DEF SameReading, Penalty, RightScore

LEMMA StrikeInvNext == StrikeInv /\ [StrikeNext]_strikeVars => StrikeInv'
<1>. SUFFICES ASSUME StrikeInv, [StrikeNext]_strikeVars PROVE StrikeInv'
  OBVIOUS
<1>. USE DEF StrikeInv
<1>1. CASE UNCHANGED strikeVars
  <2>1. StrikeShape' /\ GuardsKept'
    BY <1>1 DEF strikeVars, StrikeShape, GuardsKept
  <2>2. NothingMissed' /\ DerivedRight'
    BY <1>1, Unmoved DEF strikeVars, NothingMissed, DerivedRight
  <2>. QED  BY <2>1, <2>2
<1>2. ASSUME NEW m \in Moderators, NEW s \in Strikes,
             \/ IssueStrike(m, s) \/ PardonStrike(m, s)
             \/ AdminAddStrike(m, s) \/ AdminPardonStrike(m, s)
      PROVE  StrikeInv'
  <2>1. CASE IssueStrike(m, s)
    BY <2>1, ModerateKept DEF IssueStrike, Unclaimed, Issues, Pardons, Ops, Scores
  <2>2. CASE PardonStrike(m, s)
    BY <2>2, ModerateKept DEF PardonStrike, Issues, Pardons, Ops, Scores
  <2>3. CASE AdminAddStrike(m, s)
    BY <2>3, ModerateKept DEF AdminAddStrike, Unclaimed, Issues, Pardons, Ops, Scores
  <2>4. CASE AdminPardonStrike(m, s)
    BY <2>4, ModerateKept DEF AdminPardonStrike, Issues, Pardons, Ops, Scores
  <2>. QED  BY <1>2, <2>1, <2>2, <2>3, <2>4
<1>3. ASSUME NEW m \in Moderators,
             \/ BanWorker(m) \/ UnbanWorker(m) \/ Recalculate(m)
             \/ AdminBanWorker(m) \/ AdminUnbanWorker(m)
      PROVE  StrikeInv'
  <2>1. PICK op \in {"ban", "unban", "recalculate", "adminBan", "adminUnban"} : Moderate(m, op, NoStrike)
    BY <1>3 DEF BanWorker, UnbanWorker, Recalculate, AdminBanWorker, AdminUnbanWorker
  <2>. QED  BY <2>1, ModerateKept DEF Issues, Pardons, Ops, Scores
<1>4. ASSUME NEW m \in Moderators, Flush(m) PROVE StrikeInv'
  <2>. DEFINE q == moderator[m]
              h == NewCount(q) # q.row.count \/ NewBanned(q) # q.row.banned
  <2>1. /\ q # Away /\ q \in ModeratorRow
        /\ moderator' = [moderator EXCEPT ![m].at = "flushed", ![m].held = h]
        /\ UNCHANGED <<strike, standing, behind, drifted>>
    BY <1>4 DEF Flush, StrikeShape, Away
  <2>2. h \in BOOLEAN
    OBVIOUS
  <2>. HIDE DEF h
  <2>3. moderator'[m] = Flushed(q, h) /\ \A o \in Moderators \ {m} : moderator'[o] = moderator[o]
    BY <2>1 DEF StrikeShape, Flushed
  <2>4. moderator'[m] \in ModeratorRow /\ moderator'[m].at = "flushed" /\ SameReading(moderator'[m], q)
    BY <2>1, <2>2, <2>3, ReadingStays
  <2>5. StrikeShape'
    BY <2>1, <2>4 DEF StrikeShape
  <2>6. GuardsKept'
    BY <2>1, <2>3, <2>4 DEF GuardsKept, SameReading
  <2>7. NothingMissed'
    <3>. SUFFICES ASSUME NEW o \in Moderators, moderator'[o] # Away, moderator'[o].alone
                  PROVE  LET r == moderator'[o] IN
                         /\ r.row = standing
                         /\ r.strike \in Strikes => r.was = strike[r.strike]
                         /\ r.at = "scored" => r.score = RightScore(r)
      BY <2>1, Unmoved DEF NothingMissed
    <3>1. CASE o # m
      BY <2>3, <3>1 DEF NothingMissed
    <3>2. CASE o = m
      BY <2>1, <2>4, <3>2 DEF NothingMissed, SameReading
    <3>. QED  BY <3>1, <3>2
  <2>8. DerivedRight'
    BY <2>1 DEF DerivedRight, Active, Full
  <2>. QED  BY <2>5, <2>6, <2>7, <2>8
<1>5. ASSUME NEW m \in Moderators, Score(m) PROVE StrikeInv'
  <2>. DEFINE q == moderator[m]
              c == RightScore(q)
  <2>1. /\ q # Away /\ q \in ModeratorRow
        /\ moderator' = [moderator EXCEPT ![m].at = "scored", ![m].score = c]
        /\ UNCHANGED <<strike, standing, behind, drifted>>
    BY <1>5 DEF Score, RightScore, StrikeShape, Away
  <2>2. c \in 0..Full
    <3>1. Full - Penalty(q) \in 0..Full /\ Full \in Nat
      BY ActiveCount DEF Penalty
    <3>. QED  BY <3>1 DEF RightScore
  <2>. DEFINE d == c
  <2>3. d = c /\ d \in 0..Full
    BY <2>2
  <2>. HIDE DEF d
  <2>4. moderator'[m] = Scored(q, d) /\ \A o \in Moderators \ {m} : moderator'[o] = moderator[o]
    BY <2>1, <2>3 DEF StrikeShape, Scored
  <2>5. moderator'[m] \in ModeratorRow /\ moderator'[m].score = d /\ SameReading(moderator'[m], q)
    BY <2>1, <2>3, <2>4, ReadingScored
  <2>6. StrikeShape'
    BY <2>1, <2>5 DEF StrikeShape
  <2>7. GuardsKept'
    BY <2>1, <2>4, <2>5 DEF GuardsKept, SameReading
  <2>8. NothingMissed'
    <3>. SUFFICES ASSUME NEW o \in Moderators, moderator'[o] # Away, moderator'[o].alone
                  PROVE  LET r == moderator'[o] IN
                         /\ r.row = standing
                         /\ r.strike \in Strikes => r.was = strike[r.strike]
                         /\ r.at = "scored" => r.score = RightScore(r)
      BY <2>1, Unmoved DEF NothingMissed
    <3>1. CASE o # m
      BY <2>4, <3>1 DEF NothingMissed
    <3>2. CASE o = m
      <4>1. /\ q.alone /\ q.row = standing /\ (q.strike \in Strikes => q.was = strike[q.strike])
            /\ RightScore(moderator'[m]) = RightScore(q)
        BY <2>1, <2>5, <3>2, SameWrites DEF NothingMissed, SameReading
      <4>. QED  BY <2>3, <2>5, <3>2, <4>1 DEF SameReading
    <3>. QED  BY <3>1, <3>2
  <2>9. DerivedRight'
    BY <2>1 DEF DerivedRight, Active, Full
  <2>. QED  BY <2>6, <2>7, <2>8, <2>9
<1>6. ASSUME NEW m \in Moderators, Save(m) PROVE StrikeInv'
  <2>. DEFINE q == moderator[m]
              n == NewStrike(q)
              S == IF n # q.was THEN [strike EXCEPT ![q.strike] = n] ELSE strike
  <2>1. /\ q # Away /\ q \in ModeratorRow
        /\ strike' = S
        /\ standing' = [count |-> Write(NewCount(q), q.row.count, standing.count),
                        banned |-> Write(NewBanned(q), q.row.banned, standing.banned),
                        score |-> Write(NewScore(q), q.row.score, standing.score)]
        /\ behind' = (q.op \notin Scores \cup {"ban"} \/ ~q.alone)
        /\ drifted' = \/ drifted
                      \/ ~q.alone /\ (NewCount(q) # q.row.count \/ n # q.was)
                      \/ NewCount(q) # q.row.count /\ n = q.was
        /\ moderator' = Disturb(moderator, m)
        /\ (q.at = "scored") = (q.op \in Scores)
    BY <1>6 DEF Save, StrikeShape, Away
  <2>2. /\ q.op \in Ops /\ q.row \in StandingRow /\ q.score \in 0..Full /\ q.alone \in BOOLEAN
        /\ q.strike \in Strikes \cup {NoStrike}
    BY <2>1 DEF ModeratorRow
  <2>3. /\ q.op \in Issues => q.strike \in Strikes /\ q.was = "none" /\ n = "active"
                              /\ NewCount(q) = q.row.count + 1
        /\ q.op \in Pardons => /\ q.strike \in Strikes /\ q.was \in {"active", "pardoned"} /\ n = "pardoned"
                               /\ NewCount(q) = IF q.row.count > 0 THEN q.row.count - 1 ELSE q.row.count
        /\ q.op \notin Issues \cup Pardons => n = q.was /\ NewCount(q) = q.row.count
    BY <2>1, <2>2 DEF GuardsKept, NewStrike, NewCount, Issues, Pardons
  <2>4. S \in [Strikes -> States]
    BY <2>3 DEF StrikeShape, States
  <2>5. NewCount(q) \in Nat /\ NewBanned(q) \in BOOLEAN /\ NewScore(q) \in 0..Full
    <3>1. NewCount(q) \in Nat
      BY <2>2, <2>3 DEF StandingRow
    <3>2. NewBanned(q) \in BOOLEAN
      BY <2>2 DEF NewBanned, StandingRow
    <3>3. NewScore(q) \in 0..Full
      <4>1. Full \in Nat
        BY ActiveCount
      <4>. QED  BY <2>2, <4>1 DEF NewScore
    <3>. QED  BY <3>1, <3>2, <3>3
  <2>6. standing' \in StandingRow
    BY <2>1, <2>2, <2>5 DEF StrikeShape, StandingRow, Write
  <2>7. /\ moderator' \in [Moderators -> {Away} \cup ModeratorRow]
        /\ \A o \in Moderators : moderator'[o] # Away =>
             /\ moderator'[o].alone = FALSE /\ moderator[o] # Away
             /\ \A f \in {"op", "strike", "was"} : moderator'[o][f] = moderator[o][f]
    <3>. SUFFICES ASSUME NEW o \in Moderators
                  PROVE  /\ Disturb(moderator, m)[o] \in {Away} \cup ModeratorRow
                         /\ Disturb(moderator, m)[o] # Away =>
                              /\ Disturb(moderator, m)[o].alone = FALSE /\ moderator[o] # Away
                              /\ \A f \in {"op", "strike", "was"} :
                                    Disturb(moderator, m)[o][f] = moderator[o][f]
      BY <2>1 DEF Disturb, StrikeShape
    <3>1. CASE o = m \/ moderator[o] = Away
      BY <3>1, AwayApart DEF Disturb, StrikeShape
    <3>2. CASE o # m /\ moderator[o] \in ModeratorRow
      <4>1. Disturb(moderator, m)[o] = [moderator[o] EXCEPT !.alone = FALSE]
        BY <3>2, AwayApart DEF Disturb, StrikeShape
      <4>. QED  BY <3>2, <4>1, AwayApart DEF ModeratorRow
    <3>. QED  BY <3>1, <3>2 DEF StrikeShape
  <2>8. StrikeShape'
    <3>1. behind' \in BOOLEAN /\ drifted' \in BOOLEAN
      BY <2>1 DEF StrikeShape
    <3>. QED  BY <2>1, <2>4, <2>6, <2>7, <3>1 DEF StrikeShape
  <2>9. GuardsKept'
    BY <2>7 DEF GuardsKept
  <2>10. NothingMissed'
    BY <2>7 DEF NothingMissed
  <2>11. ASSUME ~behind' PROVE standing'.score = IF standing'.banned THEN 0 ELSE Full - Cardinality(Active(S))
    <3>1. q.alone /\ q.row = standing /\ q.op \in Scores \cup {"ban"}
          /\ (q.strike \in Strikes => q.was = strike[q.strike])
      BY <2>1, <2>2, <2>11 DEF NothingMissed
    <3>2. standing'.score = NewScore(q) /\ standing'.banned = NewBanned(q)
      BY <2>1, <3>1 DEF Write
    <3>3. CASE q.op = "ban"
      BY <3>2, <3>3 DEF NewScore, NewBanned
    <3>4. CASE q.op \in Scores
      <4>1. NewScore(q) = IF NewBanned(q) THEN 0 ELSE Full - Penalty(q)
        BY <2>1, <3>1, <3>4 DEF NothingMissed, RightScore, NewScore, Scores
      <4>2. Penalty(q) = Cardinality(Active(S))
        <5>1. CASE q.op \in Issues \cup Pardons
          <6>1. [strike EXCEPT ![q.strike] = n] = S
            BY <2>3, <3>1, <5>1 DEF StrikeShape
          <6>. QED  BY <5>1, <6>1 DEF Penalty
        <5>2. CASE q.op \notin Issues \cup Pardons
          BY <2>3, <5>2 DEF Penalty
        <5>. QED  BY <5>1, <5>2
      <4>. QED  BY <3>2, <4>1, <4>2
    <3>. QED  BY <3>1, <3>3, <3>4
  <2>12. ASSUME ~drifted' PROVE standing'.count = Cardinality(Active(S))
    <3>1. ~drifted /\ standing.count = Cardinality(Active(strike)) /\ standing.count \in Nat
      BY <2>1, <2>12 DEF DerivedRight, StrikeShape, StandingRow
    <3>2. CASE NewCount(q) = q.row.count /\ n = q.was
      BY <2>1, <3>1, <3>2 DEF Write
    <3>3. CASE ~(NewCount(q) = q.row.count /\ n = q.was)
      <4>1. /\ q.alone /\ q.row = standing
            /\ q.op \in Issues \cup Pardons /\ q.strike \in Strikes
            /\ q.was = strike[q.strike] /\ n # q.was
        BY <2>1, <2>2, <2>3, <2>12, <3>3 DEF NothingMissed
      <4>2. standing'.count = NewCount(q) /\ S = [strike EXCEPT ![q.strike] = n]
        BY <2>1, <4>1 DEF Write
      <4>3. CASE q.op \in Issues
        <5>1. strike[q.strike] = "none" /\ n = "active"
          BY <2>3, <4>1, <4>3
        <5>2. Cardinality(Active(S)) = Cardinality(Active(strike)) + 1
          BY <4>1, <4>2, <5>1, ActiveStepped DEF StrikeShape
        <5>. QED  BY <2>3, <3>1, <4>1, <4>2, <4>3, <5>2
      <4>4. CASE q.op \in Pardons
        <5>1. strike[q.strike] = "active" /\ n = "pardoned"
          BY <2>3, <4>1, <4>4
        <5>2. Cardinality(Active(S)) = Cardinality(Active(strike)) - 1
          BY <4>1, <4>2, <5>1, ActiveStepped DEF StrikeShape
        <5>3. Active(strike) # {}
          BY <4>1, <5>1 DEF Active
        <5>4. standing.count > 0
          BY <3>1, <5>3, ActiveCount
        <5>. QED  BY <2>3, <3>1, <4>1, <4>2, <4>4, <5>2, <5>4
      <4>. QED  BY <4>1, <4>3, <4>4
    <3>. QED  BY <3>2, <3>3
  <2>13. DerivedRight'
    BY <2>1, <2>11, <2>12 DEF DerivedRight, Active, Full
  <2>. QED  BY <2>8, <2>9, <2>10, <2>13
<1>7. ASSUME NEW m \in Moderators, GiveUpModerating(m) PROVE StrikeInv'
  BY <1>7 DEF GiveUpModerating, StrikeShape, GuardsKept, NothingMissed, DerivedRight, NewBanned,
     Penalty, NewStrike, RightScore, Active, Full
<1>. QED  BY <1>1, <1>2, <1>3, <1>4, <1>5, <1>6, <1>7 DEF StrikeNext

(* What a request has read of ratings, or of answers to gold tasks, still   *)
(* stands if no other has committed since.                                 *)
RaterRow == [at : {"inserted", "read"}, task : Rated, alone : BOOLEAN, seen : SUBSET Rated]
RatingInv ==
  /\ rating \subseteq Rated /\ rater \in [Raters -> {Away} \cup RaterRow]
  /\ average \in [of : SUBSET Rated, alone : BOOLEAN]
  /\ \A r \in Raters : rater[r].at = "read" /\ rater[r].alone => rater[r].seen = rating \cup {rater[r].task}
  /\ average.alone => average.of = rating

LEMMA RatingInvInit == StandingInit => RatingInv
BY DEF StandingInit, RatingInv, Away

LEMMA RatingInvNext == RatingInv /\ [RatingNext]_ratingVars => RatingInv'
<1>. SUFFICES ASSUME RatingInv, [RatingNext]_ratingVars PROVE RatingInv'
  OBVIOUS
<1>. USE DEF RatingInv
<1>1. CASE UNCHANGED ratingVars
  BY <1>1 DEF ratingVars
<1>2. ASSUME NEW r \in Raters, NEW t \in Rated, Rate(r, t) PROVE RatingInv'
  BY <1>2 DEF Rate, RaterRow
<1>3. ASSUME NEW r \in Raters, Aggregate(r) PROVE RatingInv'
  <2>. DEFINE q == rater[r]
              c == rating \cup {q.task}
  <2>1. q \in RaterRow /\ rater' = [rater EXCEPT ![r].at = "read", ![r].seen = c]
        /\ UNCHANGED <<rating, average>>
    BY <1>3 DEF Aggregate, Away
  <2>2. c \in SUBSET Rated
    BY <2>1 DEF RaterRow
  <2>3. rater'[r] \in RaterRow /\ rater'[r].seen = c /\ rater'[r].task = q.task
    BY <2>1, <2>2 DEF RaterRow
  <2>4. rater' \in [Raters -> {Away} \cup RaterRow]
    BY <2>1, <2>3
  <2>. QED  BY <2>1, <2>3, <2>4
<1>4. ASSUME NEW r \in Raters, SaveRating(r) PROVE RatingInv'
  <2>1. rater[r] \in RaterRow
    BY <1>4 DEF SaveRating, Away
  <2>2. \A o \in Raters : /\ rater'[o] \in {Away} \cup RaterRow
                          /\ rater'[o] = Away \/ rater'[o].alone = FALSE
    <3>. SUFFICES ASSUME NEW o \in Raters
                  PROVE  LET d == Disturb(rater, r)[o] IN
                         d \in {Away} \cup RaterRow /\ (d = Away \/ d.alone = FALSE)
      BY <1>4 DEF SaveRating
    <3>1. CASE o = r \/ rater[o] = Away
      BY <3>1 DEF Disturb, Away
    <3>2. CASE o # r /\ rater[o] \in RaterRow
      <4>1. rater[o].at # "away"
        BY <3>2 DEF RaterRow
      <4>2. Disturb(rater, r)[o] = [rater[o] EXCEPT !.alone = FALSE]
        BY <3>2, <4>1 DEF Disturb
      <4>. QED  BY <3>2, <4>2 DEF RaterRow
    <3>. QED  BY <3>1, <3>2
  <2>3. rater' \in [Raters -> {Away} \cup RaterRow]
    BY <1>4, <2>2 DEF SaveRating, Disturb
  <2>. QED  BY <1>4, <2>1, <2>2, <2>3 DEF SaveRating, RaterRow, Away
<1>5. ASSUME NEW r \in Raters, RatingFails(r) PROVE RatingInv'
  BY <1>5 DEF RatingFails, Away
<1>. QED  BY <1>1, <1>2, <1>3, <1>4, <1>5 DEF RatingNext

EvaluatorRow ==
  [at : {"compared", "flushed", "read"}, task : Golden, verdict : Verdicts, alone : BOOLEAN,
   seen : SUBSET (Golden \X Verdicts)]
GoldInv ==
  /\ gold \in [Golden -> {"submitted"} \cup Verdicts]
  /\ evaluator \in [Evaluators -> {Away} \cup EvaluatorRow]
  /\ accuracy \in [of : SUBSET (Golden \X Verdicts), alone : BOOLEAN]
  /\ \A e \in Evaluators : evaluator[e].at = "read" /\ evaluator[e].alone =>
       evaluator[e].seen = Decided([gold EXCEPT ![evaluator[e].task] = evaluator[e].verdict])
  /\ accuracy.alone => accuracy.of = Decided(gold)

LEMMA DecidedType ==
  ASSUME NEW a \in [Golden -> {"submitted"} \cup Verdicts]
  PROVE  Decided(a) \in SUBSET (Golden \X Verdicts)
BY DEF Decided

LEMMA GoldInvInit == StandingInit => GoldInv
<1>. SUFFICES ASSUME StandingInit PROVE GoldInv
  OBVIOUS
<1>1. Decided(gold) = {}
  BY DEF StandingInit, Decided
<1>. QED  BY <1>1 DEF StandingInit, GoldInv, Away

LEMMA GoldInvNext == GoldInv /\ [GoldNext]_goldVars => GoldInv'
<1>. SUFFICES ASSUME GoldInv, [GoldNext]_goldVars PROVE GoldInv'
  OBVIOUS
<1>. USE DEF GoldInv
<1>1. CASE UNCHANGED goldVars
  BY <1>1 DEF goldVars, Decided
<1>2. ASSUME NEW g \in Golden, NEW v \in Verdicts, Review(g, v) PROVE GoldInv'
  <2>1. \A e \in Evaluators : /\ evaluator'[e] \in {Away} \cup EvaluatorRow
                              /\ evaluator'[e] = Away \/ evaluator'[e].alone = FALSE
    <3>. SUFFICES ASSUME NEW e \in Evaluators, evaluator[e] # Away
                  PROVE  LET d == [evaluator[e] EXCEPT !.alone = FALSE] IN
                         d \in EvaluatorRow /\ d.alone = FALSE
      BY <1>2 DEF Review
    <3>1. evaluator[e] \in EvaluatorRow
      OBVIOUS
    <3>. QED  BY <3>1 DEF EvaluatorRow
  <2>2. evaluator' \in [Evaluators -> {Away} \cup EvaluatorRow]
    BY <1>2, <2>1 DEF Review
  <2>3. gold' \in [Golden -> {"submitted"} \cup Verdicts] /\ accuracy' = [accuracy EXCEPT !.alone = FALSE]
    BY <1>2 DEF Review
  <2>4. accuracy' \in [of : SUBSET (Golden \X Verdicts), alone : BOOLEAN] /\ ~accuracy'.alone
    BY <2>3
  <2>. QED  BY <2>1, <2>2, <2>3, <2>4 DEF Away
<1>3. ASSUME NEW g \in Golden, NEW v \in Verdicts, NEW e \in Evaluators, Evaluate(e, g, v) PROVE GoldInv'
  BY <1>3 DEF Evaluate, EvaluatorRow, Decided
<1>4. ASSUME NEW e \in Evaluators, FlushVerdict(e) PROVE GoldInv'
  BY <1>4 DEF FlushVerdict, EvaluatorRow, Away, Decided
<1>5. ASSUME NEW e \in Evaluators, CountDecided(e) PROVE GoldInv'
  <2>. DEFINE q == evaluator[e]
              c == Decided(Judged(q))
  <2>1. q \in EvaluatorRow /\ evaluator' = [evaluator EXCEPT ![e].at = "read", ![e].seen = c]
        /\ UNCHANGED <<gold, accuracy>>
    BY <1>5 DEF CountDecided, Away
  <2>2. c \in SUBSET (Golden \X Verdicts)
    <3>1. Judged(q) \in [Golden -> {"submitted"} \cup Verdicts]
      BY <2>1 DEF Judged, EvaluatorRow
    <3>. QED  BY <3>1, DecidedType
  <2>3. evaluator'[e] \in EvaluatorRow /\ evaluator'[e].seen = c
        /\ evaluator'[e].task = q.task /\ evaluator'[e].verdict = q.verdict
    BY <2>1, <2>2 DEF EvaluatorRow
  <2>4. evaluator' \in [Evaluators -> {Away} \cup EvaluatorRow]
    BY <2>1, <2>3
  <2>. QED  BY <2>1, <2>3, <2>4 DEF Decided, Judged
<1>6. ASSUME NEW e \in Evaluators, SaveEvaluation(e) PROVE GoldInv'
  <2>1. evaluator[e] \in EvaluatorRow
    BY <1>6 DEF SaveEvaluation, Away
  <2>2. \A o \in Evaluators : /\ evaluator'[o] \in {Away} \cup EvaluatorRow
                              /\ evaluator'[o] = Away \/ evaluator'[o].alone = FALSE
    <3>. SUFFICES ASSUME NEW o \in Evaluators
                  PROVE  LET d == Disturb(evaluator, e)[o] IN
                         d \in {Away} \cup EvaluatorRow /\ (d = Away \/ d.alone = FALSE)
      BY <1>6 DEF SaveEvaluation
    <3>1. CASE o = e \/ evaluator[o] = Away
      BY <3>1 DEF Disturb, Away
    <3>2. CASE o # e /\ evaluator[o] \in EvaluatorRow
      <4>1. evaluator[o].at # "away"
        BY <3>2 DEF EvaluatorRow
      <4>2. Disturb(evaluator, e)[o] = [evaluator[o] EXCEPT !.alone = FALSE]
        BY <3>2, <4>1 DEF Disturb
      <4>. QED  BY <3>2, <4>2 DEF EvaluatorRow
    <3>. QED  BY <3>1, <3>2
  <2>3. evaluator' \in [Evaluators -> {Away} \cup EvaluatorRow]
    BY <1>6, <2>2 DEF SaveEvaluation, Disturb
  <2>4. gold' \in [Golden -> {"submitted"} \cup Verdicts] /\ gold' = Judged(evaluator[e])
    BY <1>6, <2>1 DEF SaveEvaluation, Judged, EvaluatorRow
  <2>5. accuracy' \in [of : SUBSET (Golden \X Verdicts), alone : BOOLEAN]
    BY <1>6, <2>1 DEF SaveEvaluation, EvaluatorRow
  <2>6. accuracy'.alone => accuracy'.of = Decided(gold')
    BY <1>6, <2>1, <2>4 DEF SaveEvaluation, Judged
  <2>7. Decided(gold)' = Decided(gold')
    BY DEF Decided
  <2>. QED  BY <2>2, <2>3, <2>4, <2>5, <2>6, <2>7 DEF Away
<1>. QED  BY <1>1, <1>2, <1>3, <1>4, <1>5, <1>6 DEF GoldNext

(* A step of one of the three leaves the others alone.                     *)
LEMMA StandingFrames ==
  /\ StrikeNext => UNCHANGED <<ratingVars, goldVars>>
  /\ RatingNext => UNCHANGED <<strikeVars, goldVars>>
  /\ GoldNext => UNCHANGED <<strikeVars, ratingVars>>
<1>1. ASSUME StrikeNext PROVE UNCHANGED <<ratingVars, goldVars>>
  BY <1>1, Zenon DEF StrikeNext, Flush, Score, Save, GiveUpModerating, Moderate, IssueStrike, PardonStrike,
     AdminAddStrike, AdminPardonStrike, BanWorker, UnbanWorker, Recalculate, AdminBanWorker, AdminUnbanWorker
<1>2. ASSUME RatingNext PROVE UNCHANGED <<strikeVars, goldVars>>
  BY <1>2, Zenon DEF RatingNext, Rate, Aggregate, SaveRating, RatingFails
<1>3. ASSUME GoldNext PROVE UNCHANGED <<strikeVars, ratingVars>>
  BY <1>3, Zenon DEF GoldNext, Review, Evaluate, FlushVerdict, CountDecided, SaveEvaluation
<1>. QED  BY <1>1, <1>2, <1>3

(* For any strikes, ratings and gold answers, and any requests on them at   *)
(* once: score, average and accuracy are right after every request that no *)
(* other overlapped, and the count of strikes until requests overlap.      *)
THEOREM StandingSound == StandingSpec => []StandingKept
<1>. DEFINE Inv == StrikeInv /\ RatingInv /\ GoldInv
<1>1. StandingInit => Inv
  BY StrikeInvInit, RatingInvInit, GoldInvInit
<1>2. Inv /\ [StandingNext]_standingVars => Inv'
  <2>. SUFFICES ASSUME Inv, [StandingNext]_standingVars PROVE Inv'
    OBVIOUS
  <2>1. /\ StrikeNext => UNCHANGED <<ratingVars, goldVars>>
        /\ RatingNext => UNCHANGED <<strikeVars, goldVars>>
        /\ GoldNext => UNCHANGED <<strikeVars, ratingVars>>
    BY StandingFrames
  <2>2. [StrikeNext]_strikeVars /\ [RatingNext]_ratingVars /\ [GoldNext]_goldVars
    BY <2>1 DEF StandingNext, standingVars
  <2>. QED  BY <2>2, StrikeInvNext, RatingInvNext, GoldInvNext
<1>3. Inv => StandingKept
  BY DEF StrikeInv, DerivedRight, RatingInv, GoldInv, StandingKept
<1>. QED  BY <1>1, <1>2, <1>3, PTL DEF StandingSpec

---------------------------------------------------------------------------
(* Progress *)

QuestRow == [value : Nat, complete : BOOLEAN, claimed : BOOLEAN]
WorkRow == [days : SUBSET Int, kinds : SUBSET Kinds, count : Nat]

ProgressShape ==
  /\ day \in Nat /\ streak \in Nat /\ active \in {Never} \cup Nat /\ claims \in Nat
  /\ work \in WorkRow /\ IsFiniteSet(work.kinds) /\ types \in SUBSET work.kinds
  /\ quest \in [Quests -> QuestRow]
  /\ claim \in [Shoppers -> {NotBusy} \cup [op : Quests]]

(* The last n days up to d, all of them worked.                            *)
InARow(n, d) == (d - n + 1)..d \subseteq work.days

StreakTrue ==
  /\ active = Never => streak = 0
  /\ active # Never => active <= day /\ streak <= active + 1 /\ InARow(streak, active)

(* What a quest has counted was done, and a claim under way is of one that  *)
(* is complete.                                                            *)
QuestsTrue ==
  /\ \A b \in Shoppers : claim[b] # NotBusy => quest[claim[b].op].complete
  /\ \A q \in Quests : /\ quest[q].claimed => quest[q].complete
                       /\ q # "variety" /\ quest[q].complete => quest[q].value >= QuestTarget[q]
  /\ quest["volume"].value <= work.count
  /\ quest["streak"].value > 0 => \E d \in work.days : InARow(quest["streak"].value, d)
  /\ quest["variety"].complete => Cardinality(work.kinds) >= QuestTarget["variety"]
  /\ quest["challenge"].value <= claims

ProgressInv == ProgressShape /\ StreakTrue /\ QuestsTrue

LEMMA AdvanceKept ==
  ASSUME NEW p \in QuestRow, NEW q \in Quests, NEW v \in Nat
  PROVE  LET a == Advance(p, q, v) IN
         /\ a \in QuestRow /\ a.claimed = p.claimed
         /\ p.complete => a = p
         /\ ~p.complete => a.value = v /\ (a.complete <=> v >= QuestTarget[q])
<1>1. QuestTarget[q] \in Nat
  BY ProgressAssumption DEF Quests
<1>2. CASE p.complete
  BY <1>2 DEF Advance
<1>3. CASE ~p.complete
  <2>. DEFINE c == v >= QuestTarget[q]
              a == [p EXCEPT !.value = v, !.complete = c]
  <2>1. c \in BOOLEAN /\ (c <=> v >= QuestTarget[q])
    BY <1>1
  <2>. HIDE DEF c
  <2>2. a \in QuestRow /\ a.claimed = p.claimed /\ a.value = v /\ a.complete = c
    BY <2>1 DEF QuestRow
  <2>3. Advance(p, q, v) = a
    BY <1>3, Zenon DEF Advance, c
  <2>. QED  BY <1>3, <2>1, <2>2, <2>3
<1>. QED  BY <1>2, <1>3

LEMMA ProgressInvInit == ProgressInit => ProgressInv
<1>. SUFFICES ASSUME ProgressInit PROVE ProgressInv
  OBVIOUS
<1>1. ProgressShape
  BY FS_EmptySet DEF ProgressInit, ProgressShape, WorkRow, QuestRow, Unstarted, Never
<1>2. StreakTrue
  BY DEF ProgressInit, StreakTrue
<1>3. QuestsTrue
  BY DEF ProgressInit, QuestsTrue, Unstarted, Quests
<1>. QED  BY <1>1, <1>2, <1>3 DEF ProgressInv

(* A step that none of it depends on.                                      *)
LEMMA ProgressStays ==
  ASSUME ProgressInv, UNCHANGED <<day, active, claims, work, types, quest, claim>>, streak' \in {0, streak}
  PROVE  ProgressInv'
<1>. USE DEF ProgressInv
<1>1. ProgressShape' /\ StreakTrue'
  <2>1. CASE streak' = streak
    BY <2>1 DEF ProgressShape, StreakTrue, InARow
  <2>2. CASE streak' = 0
    BY <2>2 DEF ProgressShape, StreakTrue, InARow, Never
  <2>. QED  BY <2>1, <2>2
<1>2. QuestsTrue'
  BY DEF QuestsTrue, InARow
<1>. QED  BY <1>1, <1>2

LEMMA MidnightKept == ASSUME ProgressInv, Midnight PROVE ProgressInv'
<1>. USE DEF ProgressInv
<1>1. day' = day + 1 /\ UNCHANGED <<streak, active>>
  BY DEF Midnight, streakVars
<1>2. CASE UNCHANGED <<quest, types, claim, work, claims>>
  BY <1>1, <1>2 DEF ProgressShape, StreakTrue, QuestsTrue, InARow
<1>3. CASE ~UNCHANGED <<quest, types, claim, work, claims>>
  <2>1. /\ quest' = [q \in Quests |-> Unstarted] /\ types' = {} /\ claim' = [b \in Shoppers |-> NotBusy]
        /\ work' = [work EXCEPT !.kinds = {}, !.count = 0] /\ claims' = 0
    BY <1>3 DEF Midnight
  <2>2. work' \in WorkRow /\ work'.days = work.days /\ work'.kinds = {} /\ work'.count = 0
    BY <2>1 DEF ProgressShape, WorkRow
  <2>3. ProgressShape'
    BY <1>1, <2>1, <2>2, FS_EmptySet DEF ProgressShape, QuestRow, Unstarted
  <2>4. StreakTrue'
    BY <1>1, <2>2 DEF ProgressShape, StreakTrue, InARow
  <2>5. QuestsTrue'
    BY <2>1, <2>2 DEF QuestsTrue, Unstarted, Quests
  <2>. QED  BY <2>3, <2>4, <2>5
<1>. QED  BY <1>2, <1>3

LEMMA WorkKept == ASSUME ProgressInv, NEW k \in Kinds, Work(k) PROVE ProgressInv'
<1>. USE DEF ProgressInv
<1>. DEFINE s == NextStreak
            w == IF s > quest["streak"].value THEN s ELSE quest["streak"].value
            n == VarietyValue(k)
<1>1. /\ streak' = s /\ active' = day /\ UNCHANGED <<day, claim, claims>>
      /\ work' = [days |-> work.days \cup {day}, kinds |-> work.kinds \cup {k}, count |-> work.count + 1]
      /\ types' = IF quest["variety"].complete THEN types ELSE Stored(k)
      /\ quest' = [q \in Quests |->
           CASE q = "volume"  -> Advance(quest[q], q, quest[q].value + 1)
             [] q = "streak"  -> Advance(quest[q], q, w)
             [] q = "variety" -> Advance(quest[q], q, n)
             [] OTHER         -> quest[q]]
  BY DEF Work
<1>2. /\ work' \in WorkRow /\ work'.days = work.days \cup {day} /\ work'.kinds = work.kinds \cup {k}
      /\ work'.count = work.count + 1
  BY <1>1 DEF ProgressShape, WorkRow
<1>3. /\ IsFiniteSet(work'.kinds) /\ types \cup {k} \in SUBSET work'.kinds
      /\ Cardinality(work'.kinds) \in Nat /\ Cardinality(work.kinds) \in Nat
      /\ Cardinality(work.kinds) <= Cardinality(work'.kinds)
  <2>1. IsFiniteSet(work'.kinds) /\ work.kinds \in SUBSET work'.kinds /\ types \cup {k} \in SUBSET work'.kinds
    BY <1>2, FS_AddElement DEF ProgressShape
  <2>. QED  BY <2>1, FS_Subset, FS_CardinalityType DEF ProgressShape
<1>4. n \in Nat /\ n <= Cardinality(work'.kinds)
  <2>1. IsFiniteSet(types \cup {k}) /\ Cardinality(types \cup {k}) <= Cardinality(work'.kinds)
    BY <1>3, FS_Subset
  <2>. QED  BY <2>1, FS_CardinalityType DEF VarietyValue
<1>5. s \in Nat /\ s <= day + 1 /\ (day - s + 1)..day \subseteq work'.days
  <2>1. CASE s = 1
    BY <1>2, <2>1 DEF ProgressShape
  <2>2. CASE active = day /\ s = streak
    BY <1>2, <2>2 DEF ProgressShape, StreakTrue, InARow, Never
  <2>3. CASE active # Never /\ active = day - 1 /\ s = streak + 1
    BY <1>2, <2>3 DEF ProgressShape, StreakTrue, InARow
  <2>. QED  BY <2>1, <2>2, <2>3 DEF NextStreak, GapBroken, ProgressShape
<1>6. StreakTrue'
  BY <1>1, <1>5 DEF StreakTrue, InARow, ProgressShape, Never
<1>. HIDE DEF s, n
<1>7. w \in Nat /\ w >= quest["streak"].value /\ (w = s \/ w = quest["streak"].value)
  BY <1>5 DEF ProgressShape, QuestRow, Quests
<1>. HIDE DEF w
<1>. DEFINE v(q) == CASE q = "volume" -> quest["volume"].value + 1 [] q = "streak" -> w
                      [] q = "variety" -> n [] OTHER -> quest[q].value
<1>8. ASSUME NEW q \in Quests
      PROVE  /\ quest'[q] \in QuestRow /\ quest'[q].claimed = quest[q].claimed
             /\ quest[q].complete \/ q = "challenge" => quest'[q] = quest[q]
             /\ ~quest[q].complete /\ q # "challenge" =>
                  quest'[q].value = v(q) /\ (quest'[q].complete <=> v(q) >= QuestTarget[q])
  <2>1. quest[q] \in QuestRow /\ quest["volume"].value \in Nat
    BY DEF ProgressShape, QuestRow, Quests
  <2>2. CASE q = "challenge"
    BY <1>1, <2>1, <2>2
  <2>3. CASE q # "challenge"
    <3>1. v(q) \in Nat
      BY <1>4, <1>7, <2>1, <2>3 DEF Quests
    <3>2. quest'[q] = Advance(quest[q], q, v(q))
      BY <1>1, <2>3 DEF Quests
    <3>. HIDE DEF v
    <3>. QED  BY <2>1, <2>3, <3>1, <3>2, AdvanceKept
  <2>. QED  BY <2>2, <2>3
<1>9. ProgressShape'
  <2>1. quest' \in [Quests -> QuestRow]
    BY <1>1, <1>8
  <2>2. types' \in SUBSET work'.kinds
    BY <1>1, <1>2, <1>3 DEF Stored
  <2>. QED  BY <1>1, <1>2, <1>3, <1>5, <2>1, <2>2 DEF ProgressShape
<1>10. QuestsTrue'
  <2>1. \A b \in Shoppers : claim'[b] # NotBusy => quest'[claim'[b].op].complete
    BY <1>1, <1>8 DEF QuestsTrue, ProgressShape
  <2>2. \A q \in Quests : quest'[q].claimed => quest'[q].complete
    BY <1>8 DEF QuestsTrue
  <2>3. \A q \in Quests : q # "variety" /\ quest'[q].complete => quest'[q].value >= QuestTarget[q]
    BY <1>8 DEF QuestsTrue
  <2>4. quest'["volume"].value <= work'.count
    <3>1. "volume" \in Quests /\ quest["volume"].value \in Nat /\ work.count \in Nat
          /\ quest["volume"].value <= work.count
      BY DEF QuestsTrue, ProgressShape, QuestRow, WorkRow, Quests
    <3>2. quest'["volume"].value \in {quest["volume"].value, quest["volume"].value + 1}
      BY <1>8, <3>1 DEF QuestRow
    <3>. QED  BY <1>2, <3>1, <3>2
  <2>5. ASSUME quest'["streak"].value > 0 PROVE \E d \in work'.days : InARow(quest["streak"].value, d)'
    <3>1. "streak" \in Quests /\ quest["streak"].value \in Nat
      BY DEF ProgressShape, QuestRow, Quests
    <3>2. quest'["streak"].value = s \/ quest'["streak"].value = quest["streak"].value
      BY <1>7, <1>8, <3>1
    <3>3. CASE quest'["streak"].value = s
      BY <1>2, <1>5, <3>3 DEF InARow
    <3>4. CASE quest'["streak"].value = quest["streak"].value
      <4>1. PICK d \in work.days : InARow(quest["streak"].value, d)
        BY <2>5, <3>4 DEF QuestsTrue
      <4>. QED  BY <1>2, <3>4, <4>1 DEF InARow
    <3>. QED  BY <3>2, <3>3, <3>4
  <2>6. quest'["variety"].complete => Cardinality(work'.kinds) >= QuestTarget["variety"]
    <3>1. "variety" \in Quests /\ QuestTarget["variety"] \in Nat
      BY ProgressAssumption DEF Quests
    <3>2. CASE quest["variety"].complete
      BY <1>3, <3>1, <3>2 DEF QuestsTrue
    <3>3. CASE ~quest["variety"].complete
      BY <1>3, <1>4, <1>8, <3>1, <3>3
    <3>. QED  BY <3>2, <3>3
  <2>7. quest'["challenge"].value <= claims'
    BY <1>1, <1>8 DEF QuestsTrue, Quests
  <2>. QED  BY <2>1, <2>2, <2>3, <2>4, <2>5, <2>6, <2>7 DEF QuestsTrue
<1>. QED  BY <1>6, <1>9, <1>10

LEMMA QuestClaimsKept ==
  ASSUME ProgressInv,
         \/ ClaimDaily
         \/ \E b \in Shoppers : ClaimQuest(b) \/ \E q \in Quests : ClaimQuestRead(b, q)
  PROVE  ProgressInv'
<1>. USE DEF ProgressInv
<1>1. CASE ClaimDaily
  <2>. DEFINE p == quest["challenge"]
              a == Advance(p, "challenge", p.value + 1)
  <2>1. quest' = [quest EXCEPT !["challenge"] = a] /\ claims' = claims + 1
        /\ UNCHANGED <<day, types, claim, work, streak, active>>
    BY <1>1 DEF ClaimDaily, streakVars
  <2>2. p \in QuestRow /\ p.value \in Nat /\ p.value <= claims /\ claims \in Nat /\ "challenge" \in Quests
    BY DEF ProgressShape, QuestsTrue, Quests, QuestRow
  <2>3. /\ a \in QuestRow /\ a.claimed = p.claimed
        /\ p.complete => a = p
        /\ ~p.complete => a.value = p.value + 1 /\ (a.complete <=> a.value >= QuestTarget["challenge"])
    <3>1. p \in QuestRow /\ "challenge" \in Quests /\ p.value + 1 \in Nat
      BY <2>2
    <3>. HIDE DEF p
    <3>2. /\ a \in QuestRow /\ a.claimed = p.claimed
          /\ p.complete => a = p
          /\ ~p.complete => a.value = p.value + 1 /\ (a.complete <=> p.value + 1 >= QuestTarget["challenge"])
      BY <3>1, AdvanceKept, Zenon
    <3>. HIDE DEF a
    <3>. QED  BY <3>2
  <2>. HIDE DEF a
  <2>4. ProgressShape'
    BY <2>1, <2>2, <2>3 DEF ProgressShape
  <2>5. StreakTrue'
    BY <2>1 DEF StreakTrue, InARow
  <2>6. \A q \in Quests : quest'[q] = IF q = "challenge" THEN a ELSE quest[q]
    BY <2>1 DEF ProgressShape
  <2>7. \A q \in Quests : /\ quest[q].complete => quest'[q].complete
                          /\ quest'[q].claimed => quest'[q].complete
                          /\ q # "variety" /\ quest'[q].complete => quest'[q].value >= QuestTarget[q]
    BY <2>2, <2>3, <2>6 DEF QuestsTrue
  <2>8. \A b \in Shoppers : claim'[b] # NotBusy => quest'[claim'[b].op].complete
    BY <2>1, <2>7 DEF QuestsTrue, ProgressShape
  <2>9. quest'["challenge"].value <= claims'
    BY <2>1, <2>2, <2>3, <2>6
  <2>10. quest'["volume"] = quest["volume"] /\ quest'["streak"] = quest["streak"] /\ quest'["variety"] = quest["variety"]
    BY <2>6 DEF Quests
  <2>11. QuestsTrue'
    BY <2>1, <2>7, <2>8, <2>9, <2>10 DEF QuestsTrue, InARow
  <2>. QED  BY <2>4, <2>5, <2>11
<1>2. ASSUME NEW b \in Shoppers, ClaimQuest(b) PROVE ProgressInv'
  <2>. DEFINE o == claim[b].op
  <2>1. /\ claim[b] # NotBusy /\ quest' = [quest EXCEPT ![o].claimed = TRUE]
        /\ claim' = [claim EXCEPT ![b] = NotBusy]
        /\ UNCHANGED <<day, types, work, claims, streak, active>>
    BY <1>2 DEF ClaimQuest, streakVars
  <2>2. o \in Quests /\ quest[o] \in QuestRow /\ quest[o].complete
    BY <2>1 DEF ProgressShape, QuestsTrue
  <2>. DEFINE r == [quest[o] EXCEPT !.claimed = TRUE]
  <2>3. r \in QuestRow /\ r.value = quest[o].value /\ r.complete
    BY <2>2 DEF QuestRow
  <2>. HIDE DEF r
  <2>4. \A q \in Quests : /\ quest'[q] = IF q = o THEN r ELSE quest[q]
                          /\ quest'[q].value = quest[q].value /\ quest'[q].complete = quest[q].complete
    <3>1. \A q \in Quests : quest'[q] = IF q = o THEN r ELSE quest[q]
      BY <2>1 DEF ProgressShape, r
    <3>2. r.complete = quest[o].complete
      BY <2>2, <2>3 DEF QuestRow
    <3>. QED  BY <2>3, <3>1, <3>2
  <2>5. ProgressShape'
    <3>1. quest' \in [Quests -> QuestRow]
      BY <2>1, <2>3, <2>4 DEF ProgressShape
    <3>. QED  BY <2>1, <3>1 DEF ProgressShape
  <2>6. StreakTrue'
    BY <2>1 DEF StreakTrue, InARow
  <2>7. QuestsTrue'
    <3>1. \A c \in Shoppers : claim'[c] # NotBusy => quest'[claim'[c].op].complete
      BY <2>1, <2>4 DEF QuestsTrue, ProgressShape
    <3>2. \A q \in Quests : /\ quest'[q].claimed => quest'[q].complete
                            /\ q # "variety" /\ quest'[q].complete => quest'[q].value >= QuestTarget[q]
      BY <2>2, <2>4 DEF QuestsTrue
    <3>3. /\ quest'["volume"].value = quest["volume"].value /\ quest'["streak"].value = quest["streak"].value
          /\ quest'["variety"].complete = quest["variety"].complete
          /\ quest'["challenge"].value = quest["challenge"].value
      BY <2>4 DEF Quests
    <3>. QED  BY <2>1, <3>1, <3>2, <3>3 DEF QuestsTrue, InARow
  <2>. QED  BY <2>5, <2>6, <2>7
<1>3. ASSUME NEW b \in Shoppers, NEW q \in Quests, ClaimQuestRead(b, q) PROVE ProgressInv'
  <2>1. /\ quest[q].complete /\ claim' = [claim EXCEPT ![b] = [op |-> q]]
        /\ UNCHANGED <<day, quest, types, work, claims, streak, active>>
    BY <1>3 DEF ClaimQuestRead, Claimable, streakVars
  <2>2. ProgressShape' /\ StreakTrue'
    BY <2>1 DEF ProgressShape, StreakTrue, InARow
  <2>3. QuestsTrue'
    BY <2>1 DEF QuestsTrue, InARow, ProgressShape
  <2>. QED  BY <2>2, <2>3
<1>. QED  BY <1>1, <1>2, <1>3

LEMMA ProgressInvNext == ProgressInv /\ [ProgressNext]_progressVars => ProgressInv'
<1>. SUFFICES ASSUME ProgressInv, [ProgressNext]_progressVars PROVE ProgressInv'
  OBVIOUS
<1>1. CASE BuyFreeze \/ UNCHANGED progressVars
  BY <1>1, ProgressStays DEF BuyFreeze, progressVars, questVars, streakVars
<1>2. ASSUME NEW p \in Sweepers, StreakRead(p) \/ StreakCommit(p) \/ StreakFails(p) \/ Restart(p)
      PROVE  ProgressInv'
  <2>1. UNCHANGED <<day, active, questVars>> /\ streak' \in {0, streak}
    BY <1>2 DEF StreakRead, StreakCommit, StreakFails, Restart, streakVars
  <2>. QED  BY <2>1, ProgressStays DEF questVars
<1>. QED  BY <1>1, <1>2, MidnightKept, WorkKept, QuestClaimsKept DEF ProgressNext

(* What was paid for a quest and what is still under way were once claims   *)
(* at the same time.                                                       *)
PaidTrue ==
  /\ paid \in [Quests -> Nat] /\ crowd \in [Quests -> Nat]
  /\ \A q \in Quests : /\ quest[q].claimed <=> paid[q] > 0
                       /\ paid[q] + Cardinality(Claiming(q)) <= crowd[q]

LEMMA ClaimingCounts == ASSUME NEW q PROVE IsFiniteSet(Claiming(q)) /\ Cardinality(Claiming(q)) \in Nat
<1>1. Claiming(q) \in SUBSET Shoppers /\ IsFiniteSet(Shoppers)
  BY ProgressAssumption DEF Claiming
<1>. QED  BY <1>1, FS_Subset, FS_CardinalityType

LEMMA PaidInit == ProgressInit => PaidTrue
<1>. SUFFICES ASSUME ProgressInit PROVE PaidTrue
  OBVIOUS
<1>1. \A q \in Quests : Claiming(q) = {}
  BY DEF ProgressInit, Claiming, NotBusy, Quests
<1>2. \A q \in Quests : Cardinality(Claiming(q)) = 0
  BY <1>1, FS_EmptySet
<1>3. paid = [q \in Quests |-> 0] /\ crowd = [q \in Quests |-> 0] /\ \A q \in Quests : ~quest[q].claimed
  BY DEF ProgressInit, Unstarted
<1>. QED  BY <1>2, <1>3 DEF PaidTrue

LEMMA PaidStays ==
  ASSUME PaidTrue, UNCHANGED <<claim, paid, crowd>>, \A q \in Quests : quest'[q].claimed = quest[q].claimed
  PROVE  PaidTrue'
<1>1. \A q : Claiming(q)' = Claiming(q)
  BY DEF Claiming
<1>. QED  BY <1>1 DEF PaidTrue

(* No claim is read once one has committed, so those that pay a second time *)
(* were counted with the first.                                            *)
LEMMA PaidNext ==
  ASSUME ProgressInv, PaidTrue, [ProgressNext]_progressVars
  PROVE  PaidTrue'
<1>. USE DEF ProgressInv
<1>1. CASE BuyFreeze \/ UNCHANGED progressVars
  BY <1>1, PaidStays DEF BuyFreeze, progressVars, questVars
<1>2. ASSUME NEW p \in Sweepers, StreakRead(p) \/ StreakCommit(p) \/ StreakFails(p) \/ Restart(p)
      PROVE  PaidTrue'
  BY <1>2, PaidStays DEF StreakRead, StreakCommit, StreakFails, Restart, questVars
<1>3. CASE Midnight
  <2>1. CASE UNCHANGED <<quest, claim, paid, crowd>>
    BY <2>1, PaidStays
  <2>2. CASE ~UNCHANGED <<quest, claim, paid, crowd>>
    <3>1. /\ quest' = [q \in Quests |-> Unstarted] /\ claim' = [b \in Shoppers |-> NotBusy]
          /\ paid' = [q \in Quests |-> 0] /\ crowd' = [q \in Quests |-> 0]
      BY <1>3, <2>2 DEF Midnight
    <3>2. \A q \in Quests : Claiming(q)' = {}
      BY <3>1 DEF Claiming, NotBusy, Quests
    <3>3. \A q \in Quests : Cardinality(Claiming(q)') = 0
      BY <3>2, FS_EmptySet
    <3>. QED  BY <3>1, <3>3 DEF PaidTrue, Unstarted
  <2>. QED  BY <2>1, <2>2
<1>4. ASSUME NEW k \in Kinds, Work(k) PROVE PaidTrue'
  <2>1. UNCHANGED <<claim, paid, crowd>>
    BY <1>4 DEF Work
  <2>2. ASSUME NEW q \in Quests PROVE quest'[q].claimed = quest[q].claimed
    <3>1. \E v : quest'[q] \in {quest[q], Advance(quest[q], q, v)}
      BY <1>4 DEF Work, Quests
    <3>2. \A v : Advance(quest[q], q, v).claimed = quest[q].claimed
      BY DEF Advance, ProgressShape, QuestRow
    <3>. QED  BY <3>1, <3>2
  <2>. QED  BY <2>1, <2>2, PaidStays
<1>5. CASE ClaimDaily
  <2>1. UNCHANGED <<claim, paid, crowd>>
    BY <1>5 DEF ClaimDaily
  <2>2. ASSUME NEW q \in Quests PROVE quest'[q].claimed = quest[q].claimed
    <3>1. \E v : quest'[q] \in {quest[q], Advance(quest[q], q, v)}
      BY <1>5 DEF ClaimDaily, ProgressShape
    <3>2. \A v : Advance(quest[q], q, v).claimed = quest[q].claimed
      BY DEF Advance, ProgressShape, QuestRow
    <3>. QED  BY <3>1, <3>2
  <2>. QED  BY <2>1, <2>2, PaidStays
<1>6. ASSUME NEW b \in Shoppers, NEW q \in Quests, ClaimQuestRead(b, q) PROVE PaidTrue'
  <2>. DEFINE n == Cardinality(Claiming(q) \cup {b})
  <2>1. /\ ~quest[q].claimed /\ claim[b] = NotBusy
        /\ claim' = [claim EXCEPT ![b] = [op |-> q]]
        /\ crowd' = [crowd EXCEPT ![q] = HighMark(@, n)]
        /\ UNCHANGED <<quest, paid>>
    BY <1>6 DEF ClaimQuestRead, Claimable
  <2>2. \A r \in Quests : Claiming(r)' = IF r = q THEN Claiming(q) \cup {b} ELSE Claiming(r)
    BY <2>1 DEF Claiming, ProgressShape, NotBusy, Quests
  <2>3. n \in Nat
    BY ClaimingCounts, FS_AddElement, FS_CardinalityType
  <2>. HIDE DEF n
  <2>4. crowd \in [Quests -> Nat] /\ paid \in [Quests -> Nat] /\ paid[q] = 0
    BY <2>1 DEF PaidTrue
  <2>5. crowd' \in [Quests -> Nat] /\ crowd'[q] >= n
        /\ \A r \in Quests : r # q => crowd'[r] = crowd[r]
    BY <2>1, <2>3, <2>4 DEF HighMark
  <2>6. Cardinality(Claiming(q)') = n
    BY <2>2 DEF n
  <2>7. \A r \in Quests : paid'[r] + Cardinality(Claiming(r)') <= crowd'[r]
    <3>. SUFFICES ASSUME NEW r \in Quests PROVE paid'[r] + Cardinality(Claiming(r)') <= crowd'[r]
      OBVIOUS
    <3>1. CASE r = q
      BY <2>1, <2>3, <2>4, <2>5, <2>6, <3>1
    <3>2. CASE r # q
      BY <2>1, <2>2, <2>5, <3>2 DEF PaidTrue
    <3>. QED  BY <3>1, <3>2
  <2>. QED  BY <2>1, <2>4, <2>5, <2>7 DEF PaidTrue
<1>7. ASSUME NEW b \in Shoppers, ClaimQuest(b) PROVE PaidTrue'
  <2>0. PICK q \in Quests : claim[b].op = q
    BY <1>7 DEF ClaimQuest, ProgressShape
  <2>. DEFINE n == Cardinality(Claiming(q))
              m == Cardinality(Claiming(q) \ {b})
  <2>1. /\ claim[b] # NotBusy /\ claim' = [claim EXCEPT ![b] = NotBusy]
        /\ quest' = [quest EXCEPT ![q].claimed = TRUE] /\ paid' = [paid EXCEPT ![q] = @ + 1]
        /\ crowd' = crowd
    BY <1>7, <2>0 DEF ClaimQuest
  <2>2. q \in Quests /\ quest[q] \in QuestRow /\ b \in Claiming(q)
    BY <2>0, <2>1 DEF ProgressShape, Claiming
  <2>3. \A r \in Quests : Claiming(r)' = IF r = q THEN Claiming(q) \ {b} ELSE Claiming(r)
    BY <2>0, <2>1, <2>2 DEF Claiming, ProgressShape, NotBusy, Quests
  <2>4. n \in Nat /\ m \in Nat /\ m = n - 1
    BY <2>2, ClaimingCounts, FS_RemoveElement, FS_CardinalityType
  <2>5. Cardinality(Claiming(q)') = m
    <3>1. Claiming(q)' = Claiming(q) \ {b}
      BY <2>2, <2>3
    <3>. QED  BY <3>1
  <2>6. /\ \A r \in Quests : r # q => quest'[r] = quest[r] /\ paid'[r] = paid[r]
        /\ quest'[q].claimed /\ paid'[q] = paid[q] + 1 /\ paid[q] \in Nat
        /\ paid' \in [Quests -> Nat] /\ crowd' \in [Quests -> Nat] /\ crowd[q] \in Nat
        /\ paid[q] + n <= crowd[q]
    BY <2>1, <2>2 DEF ProgressShape, QuestRow, PaidTrue
  <2>. HIDE DEF n, m
  <2>7. \A r \in Quests : quest'[r].claimed <=> paid'[r] > 0
    BY <2>6 DEF PaidTrue
  <2>8. \A r \in Quests : paid'[r] + Cardinality(Claiming(r)') <= crowd'[r]
    <3>. SUFFICES ASSUME NEW r \in Quests PROVE paid'[r] + Cardinality(Claiming(r)') <= crowd'[r]
      OBVIOUS
    <3>1. CASE r = q
      BY <2>1, <2>4, <2>5, <2>6, <3>1
    <3>2. CASE r # q
      BY <2>1, <2>3, <2>6, <3>2 DEF PaidTrue
    <3>. QED  BY <3>1, <3>2
  <2>. QED  BY <2>6, <2>7, <2>8 DEF PaidTrue
<1>. QED  BY <1>1, <1>2, <1>3, <1>4, <1>5, <1>6, <1>7 DEF ProgressNext

(* Days in a row are as many as the run of days that ends with the last.    *)
LEMMA RunCounts == ASSUME ProgressInv PROVE StreakEarned
<1>. USE DEF ProgressInv
<1>1. CASE active = Never
  BY <1>1 DEF StreakTrue, StreakEarned, Run
<1>2. CASE active # Never
  <2>. DEFINE R == {d \in 0..active : d..active \subseteq work.days}
              I == (active - streak + 1)..active
  <2>1. active \in Nat /\ streak \in Nat /\ streak <= active + 1 /\ I \subseteq work.days
    BY <1>2 DEF ProgressShape, StreakTrue, InARow
  <2>2. I \in SUBSET R
    <3>. SUFFICES ASSUME NEW d \in I PROVE d \in R
      OBVIOUS
    <3>1. d \in 0..active /\ d..active \subseteq I
      BY <2>1
    <3>. QED  BY <2>1, <3>1
  <2>3. IsFiniteSet(R)
    <3>1. IsFiniteSet(0..active) /\ R \in SUBSET (0..active)
      BY <2>1, FS_Interval
    <3>. QED  BY <3>1, FS_Subset
  <2>4. Cardinality(I) = streak
    BY <2>1, FS_Interval
  <2>5. Cardinality(I) <= Cardinality(R)
    BY <2>2, <2>3, FS_Subset
  <2>. QED  BY <1>2, <2>4, <2>5 DEF StreakEarned, Run
<1>. QED  BY <1>1, <1>2

(* For any quests, targets and weeks, and any submissions, claims, sweeps   *)
(* and restarts: a streak never says more than the days worked in a row,   *)
(* a quest that is complete or rewarded was worked for, and one that is    *)
(* claimed was paid for, no more often than claims of it were under way    *)
(* at once.                                                                *)
THEOREM ProgressEarned == ProgressSpec => []ProgressKept
<1>1. ASSUME ProgressInv PROVE RewardsEarned
  <2>. USE <1>1 DEF ProgressInv
  <2>1. \A q \in Quests : QuestTarget[q] \in Nat \ {0} /\ quest[q].value \in Nat
    BY ProgressAssumption DEF Quests, ProgressShape, QuestRow
  <2>2. \A q \in Quests : quest[q].claimed => quest[q].complete
    BY DEF QuestsTrue
  <2>3. quest["volume"].complete => work.count >= QuestTarget["volume"]
    BY <2>1 DEF QuestsTrue, Quests, ProgressShape, WorkRow
  <2>4. ASSUME quest["streak"].complete
        PROVE  \E d \in work.days : (d - QuestTarget["streak"] + 1)..d \subseteq work.days
    <3>1. /\ "streak" \in Quests /\ quest["streak"].value >= QuestTarget["streak"]
          /\ QuestTarget["streak"] \in Nat \ {0} /\ quest["streak"].value \in Nat
      BY <2>1, <2>4 DEF QuestsTrue, Quests
    <3>2. PICK d \in work.days : InARow(quest["streak"].value, d)
      BY <3>1 DEF QuestsTrue
    <3>3. d \in Int
      BY DEF ProgressShape, WorkRow
    <3>4. (d - QuestTarget["streak"] + 1)..d \subseteq (d - quest["streak"].value + 1)..d
      BY <3>1, <3>3
    <3>. QED  BY <3>2, <3>4 DEF InARow
  <2>5. quest["challenge"].complete => claims >= QuestTarget["challenge"]
    BY <2>1 DEF QuestsTrue, Quests, ProgressShape
  <2>. QED  BY <2>2, <2>3, <2>4, <2>5 DEF QuestsTrue, RewardsEarned
<1>2. ASSUME PaidTrue PROVE RewardedOnce
  <2>. SUFFICES ASSUME NEW q \in Quests PROVE (quest[q].claimed <=> paid[q] > 0) /\ paid[q] <= crowd[q]
    BY DEF RewardedOnce
  <2>1. paid[q] \in Nat /\ crowd[q] \in Nat /\ Cardinality(Claiming(q)) \in Nat
    BY <1>2, ClaimingCounts DEF PaidTrue
  <2>. QED  BY <1>2, <2>1 DEF PaidTrue
<1>3. ProgressInv /\ PaidTrue => ProgressKept
  BY <1>1, <1>2, RunCounts DEF ProgressKept
<1>. QED  BY <1>3, ProgressInvInit, ProgressInvNext, PaidInit, PaidNext, PTL DEF ProgressSpec
============================================================================
