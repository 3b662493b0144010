------------------------------- MODULE Teams -------------------------------
(* Worker teams (routers/worker_teams.py): teams with a creator, their     *)
(* members and invitations, and the tasks reserved for a team.  Of all     *)
(* handlers only accept_invite and decline_invite lock a row, that of the  *)
(* invitation; the others read, and write what they then believe.          *)
EXTENDS Integers, FiniteSets

CONSTANTS Teams, Mates, Letters, Clerks, MaxMembers, MaxRaces, NoTeam, Gone

ASSUME TeamsAssumption ==
  /\ IsFiniteSet(Mates)
  /\ MaxMembers \in Nat \ {0} /\ MaxRaces \in Nat
  /\ NoTeam \notin Teams /\ NoTeam # Gone /\ {NoTeam, Gone} \cap Mates = {}

VARIABLES
  creator,  \* worker_teams: whose team it is, NoTeam before it exists, Gone after
  role,     \* worker_team_members
  letter,   \* worker_team_invites
  clerk,    \* requests between their reads and their commit
  reserved, \* tasks.assigned_team_id of one open task
  races     \* joinings whose count of members was out of date at the commit

teamVars == <<creator, role, letter, clerk, reserved, races>>

Blank == [status |-> "unsent"]
Idle == [op |-> "idle"]

TeamTypeOK ==
  /\ creator \in [Teams -> Mates \cup {NoTeam, Gone}]
  /\ role \in [Teams -> [Mates -> {"none", "member", "owner"}]]
  /\ letter \in [Letters -> {Blank} \cup
       [status : {"pending", "accepted", "declined"}, team : Teams, to : Mates, old : BOOLEAN]]
  /\ clerk \in [Clerks -> {Idle} \cup
       [op : {"invite"}, team : Teams, by : Mates, to : Mates] \cup
       [op : {"join"}, letter : Letters, count : Nat] \cup
       [op : {"remove"}, team : Teams, by : Mates, to : Mates] \cup
       [op : {"reserve"}, team : Teams]]
  /\ reserved \in Teams \cup {NoTeam}
  /\ races \in 0..MaxRaces

TeamInit ==
  /\ creator = [t \in Teams |-> NoTeam]
  /\ role = [t \in Teams |-> [m \in Mates |-> "none"]]
  /\ letter = [l \in Letters |-> Blank]
  /\ clerk = [c \in Clerks |-> Idle]
  /\ reserved = NoTeam
  /\ races = 0

Live(t) == creator[t] \in Mates
Members(t) == {m \in Mates : role[t][m] # "none"}
Pending(l) == letter[l].status = "pending"
LetterLocked(l) == \E c \in Clerks : clerk[c].op = "join" /\ clerk[c].letter = l

Take(c, ses) == clerk[c] = Idle /\ clerk' = [clerk EXCEPT ![c] = ses]
Done(c) == clerk' = [clerk EXCEPT ![c] = Idle]

GiveUp(c) == clerk[c] # Idle /\ Done(c) /\ UNCHANGED <<creator, role, letter, reserved, races>>

CreateTeam(t, m) ==
  /\ creator[t] = NoTeam
  /\ creator' = [creator EXCEPT ![t] = m]
  /\ role' = [role EXCEPT ![t][m] = "owner"]
  /\ UNCHANGED <<letter, clerk, reserved, races>>

(* Members and invitations go with the team, tasks reserved for it are     *)
(* free; an invitation being accepted makes the deletion wait.             *)
DeleteTeam(t) ==
  /\ Live(t)
  /\ \A l \in Letters : LetterLocked(l) => letter[l].team # t
  /\ creator' = [creator EXCEPT ![t] = Gone]
  /\ role' = [role EXCEPT ![t] = [m \in Mates |-> "none"]]
  /\ letter' = [l \in Letters |-> IF letter[l] # Blank /\ letter[l].team = t
                                    THEN Blank ELSE letter[l]]
  /\ reserved' = IF reserved = t THEN NoTeam ELSE reserved
  /\ UNCHANGED <<clerk, races>>

(* Any member invites, on what it reads of members and invitations. *)
InviteRead(c, t, by, to) ==
  /\ by \in Members(t) /\ to \notin Members(t)
  /\ \A l \in Letters : ~ /\ Pending(l) /\ letter[l].team = t /\ letter[l].to = to
  /\ Cardinality(Members(t)) < MaxMembers
  /\ Take(c, [op |-> "invite", team |-> t, by |-> by, to |-> to])
  /\ UNCHANGED <<creator, role, letter, reserved, races>>

InviteSend(c, l) ==
  /\ clerk[c].op = "invite"
  /\ Live(clerk[c].team)
  /\ letter[l] = Blank
  /\ letter' = [letter EXCEPT ![l] = [status |-> "pending", team |-> clerk[c].team,
                                      to |-> clerk[c].to, old |-> FALSE]]
  /\ Done(c)
  /\ UNCHANGED <<creator, role, reserved, races>>

(* expires_at passes *)
Outdate(l) ==
  /\ Pending(l) /\ ~letter[l].old
  /\ letter' = [letter EXCEPT ![l].old = TRUE]
  /\ UNCHANGED <<creator, role, clerk, reserved, races>>

HasRoom(n) == n < MaxMembers

(* The lock is on the invitation: two accepts of the same one wait for each *)
(* other, those of two invitations to one team count the same members.     *)
JoinRead(c, l) ==
  LET n == Cardinality(Members(letter[l].team)) IN
  /\ Pending(l) /\ ~LetterLocked(l) /\ ~letter[l].old
  /\ HasRoom(n)
  /\ Take(c, [op |-> "join", letter |-> l, count |-> n])
  /\ UNCHANGED <<creator, role, letter, reserved, races>>

(* (team, user) is unique: one who is a member already cannot join again. *)
Join(c) ==
  LET l == clerk[c].letter
      t == letter[l].team
      m == letter[l].to IN
  /\ clerk[c].op = "join"
  /\ role[t][m] = "none"
  /\ role' = [role EXCEPT ![t][m] = "member"]
  /\ letter' = [letter EXCEPT ![l].status = "accepted"]
  /\ races' = IF Cardinality(Members(t)) > clerk[c].count THEN races + 1 ELSE races
  /\ races' <= MaxRaces
  /\ Done(c)
  /\ UNCHANGED <<creator, reserved>>

(* decline_invite, and accept_invite of an invitation that has expired. *)
Decline(l) ==
  /\ Pending(l) /\ ~LetterLocked(l)
  /\ letter' = [letter EXCEPT ![l].status = "declined"]
  /\ UNCHANGED <<creator, role, clerk, reserved, races>>

MayRemoveAnyone(t, by, to) == by = to \/ role[t][by] = "owner" \* mutant
MayRemove(t, by, to) == IF by = to THEN role[t][by] = "member" ELSE role[t][by] = "owner"

RemoveRead(c, t, by, to) ==
  /\ {by, to} \subseteq Members(t)
  /\ MayRemove(t, by, to)
  /\ Take(c, [op |-> "remove", team |-> t, by |-> by, to |-> to])
  /\ UNCHANGED <<creator, role, letter, reserved, races>>

(* The row read is deleted; if another request has, nothing is left to do. *)
Remove(c) ==
  LET t == clerk[c].team IN
  /\ clerk[c].op = "remove"
  /\ role' = [role EXCEPT ![t][clerk[c].to] = "none"]
  /\ Done(c)
  /\ UNCHANGED <<creator, letter, reserved, races>>

ReserveRead(c, t) ==
  /\ Live(t)
  /\ Take(c, [op |-> "reserve", team |-> t])
  /\ UNCHANGED <<creator, role, letter, reserved, races>>

PointsAtTeam(t) == Live(t)

(* The foreign key of tasks.assigned_team_id. *)
Reserve(c) ==
  /\ clerk[c].op = "reserve"
  /\ PointsAtTeam(clerk[c].team)
  /\ reserved' = clerk[c].team
  /\ Done(c)
  /\ UNCHANGED <<creator, role, letter, races>>

Unreserve ==
  /\ reserved # NoTeam
  /\ reserved' = NoTeam
  /\ UNCHANGED <<creator, role, letter, clerk, races>>

TeamNext ==
  \/ \E c \in Clerks : GiveUp(c) \/ Join(c) \/ Remove(c) \/ Reserve(c)
  \/ \E c \in Clerks, l \in Letters : InviteSend(c, l) \/ JoinRead(c, l)
  \/ \E c \in Clerks, t \in Teams : ReserveRead(c, t)
  \/ \E c \in Clerks, t \in Teams, by, to \in Mates :
       InviteRead(c, t, by, to) \/ RemoveRead(c, t, by, to)
  \/ \E t \in Teams : DeleteTeam(t) \/ \E m \in Mates : CreateTeam(t, m)
  \/ \E l \in Letters : Outdate(l) \/ Decline(l)
  \/ Unreserve

TeamSpec == TeamInit /\ [][TeamNext]_teamVars

(* A team that exists is owned by its creator and nobody else, and a       *)
(* deleted one has no members, invitations or reserved task left.  The     *)
(* limit of members holds as far as the code keeps it: it is passed once   *)
(* for each joining whose count was out of date, so not before two         *)
(* invitations to the team were accepted at once.                          *)
TeamSound ==
  /\ \A t \in Teams : {m \in Mates : role[t][m] = "owner"} = {creator[t]} \cap Mates
  /\ \A t \in Teams :
       IF Live(t) THEN Cardinality(Members(t)) <= MaxMembers + races
       ELSE /\ Members(t) = {} /\ reserved # t
            /\ \A l \in Letters : letter[l] # Blank => letter[l].team # t

(* accept_invite: its check of the size under the lock "prevents two       *)
(* concurrent accepts from racing past 20 members" (worker_teams.py:512).  *)
(* For two invitations it does not: two accepts break this, which          *)
(* TeamSound for that reason does not claim.                               *)
TeamLimit == \A t \in Teams : Cardinality(Members(t)) <= MaxMembers
============================================================================
