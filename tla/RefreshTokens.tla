----------------------------- MODULE RefreshTokens -----------------------------
(* The refresh tokens that keep a browser signed in                        *)
(* (core/refresh_tokens.py and the routes of routers/auth.py that use it). *)
(* Every sign-in starts a family of tokens; a rotation revokes one token   *)
(* and issues the next of its family; a revoked token that is presented    *)
(* again ends the family.  One user with several browsers; a browser may   *)
(* rotate from two tabs at once or send a request again.  The signature    *)
(* and the lifetime of access tokens are left out.                         *)
EXTENDS Integers, FiniteSets

CONSTANTS Tokens, Browsers, Rotations, NoToken

ASSUME TokensAssumption == NoToken \notin Tokens

VARIABLES
  token,     \* the rows of refresh_tokens
  jar,       \* the refresh token a browser holds
  rotation,  \* calls of rotate_refresh_token and what they have read
  change,    \* a password change: committed, with the tokens still to revoke
  uneasy,    \* history: families rotated twice at once, or whose answer was lost
  ended,     \* history: families ended by a replay or a password change
  overtaken  \* history: families with a rotation in progress when they ended

tokenVars == <<token, jar, rotation, change, uneasy, ended, overtaken>>

Ages == {"valid", "expired", "stale"}   \* stale: expired a week ago
Row(f) == [family |-> f, live |-> TRUE, age |-> "valid"]
Unused == [family |-> NoToken, live |-> FALSE, age |-> "valid"]
Deleted == [Unused EXCEPT !.age = "stale"]
NotRotating == [at |-> "idle"]
Stored == {t \in Tokens : token[t].family # NoToken}
Family(f) == {t \in Stored : token[t].family = f}
Live(f) == {t \in Family(f) : token[t].live}
Rotating(f) == {r \in Rotations : rotation[r].at \in {"read", "replay"} /\ rotation[r].family = f}
Answers(f) == {r \in Rotations : rotation[r].at = "answer" /\ rotation[r].family = f}

TokensTypeOK ==
  /\ \A t \in Tokens : token[t].family \in Tokens \cup {NoToken}
                       /\ token[t].live \in BOOLEAN /\ token[t].age \in Ages
  /\ jar \in [Browsers -> Tokens \cup {NoToken}]
  /\ uneasy \subseteq Tokens /\ ended \subseteq Tokens /\ overtaken \subseteq Tokens

TokensInit ==
  /\ token = [t \in Tokens |-> Unused]
  /\ jar = [b \in Browsers |-> NoToken]
  /\ rotation = [r \in Rotations |-> NotRotating]
  /\ change = "none"
  /\ uneasy = {} /\ ended = {} /\ overtaken = {}

Ending(F) ==
  /\ ended' = ended \cup F
  /\ overtaken' = overtaken \cup {f \in F : Rotating(f) # {}}

(* A sign-in; the token starts a family of its own.                        *)
SignIn(b, t) ==
  /\ jar[b] = NoToken /\ token[t] = Unused
  /\ token' = [token EXCEPT ![t] = Row(t)]
  /\ jar' = [jar EXCEPT ![b] = t]
  /\ UNCHANGED <<rotation, change, uneasy, ended, overtaken>>

(* rotate_refresh_token: first the row is read, without a lock ...         *)
BeginRotation(r, b) ==
  LET t == jar[b]
      f == token[t].family IN
  /\ rotation[r] = NotRotating /\ t \in Stored
  /\ rotation' = [rotation EXCEPT ![r] = [at |-> IF token[t].live THEN "read" ELSE "replay",
                    browser |-> b, token |-> t, family |-> f, next |-> NoToken]]
  /\ uneasy' = uneasy \cup IF Rotating(f) \cup Answers(f) # {} THEN {f} ELSE {}
  /\ UNCHANGED <<token, jar, change, ended, overtaken>>

(* ... an unknown or an expired one is refused, and the browser signs out. *)
Discard(b) == jar' = [jar EXCEPT ![b] = NoToken]
Refused(r) ==
  LET s == rotation[r] IN
  /\ s.at = "read" /\ token[s.token].age # "valid"
  /\ rotation' = [rotation EXCEPT ![r] = NotRotating] /\ Discard(s.browser)
  /\ UNCHANGED <<token, change, uneasy, ended, overtaken>>
RotateUnknown(b) ==
  /\ jar[b] # NoToken /\ jar[b] \notin Stored /\ Discard(b)
  /\ UNCHANGED <<token, rotation, change, uneasy, ended, overtaken>>

(* ... a live one is revoked and the next of its family is issued ...      *)
Issue(r, t) ==
  LET s == rotation[r] IN
  /\ s.at = "read" /\ token[s.token].age = "valid" /\ token[t] = Unused
  /\ token' = [token EXCEPT ![s.token].live = FALSE, ![t] = Row(s.family)]
  /\ rotation' = [rotation EXCEPT ![r].at = "answer", ![r].next = t]
  /\ UNCHANGED <<jar, change, uneasy, ended, overtaken>>

(* ... and one that was revoked before ends the family: the tokens of the  *)
(* family that are in the table.                                           *)
RevokeFamilyUnsaved(f) == token \* mutant
RevokeFamily(f) == [t \in Tokens |-> IF t \in Family(f) THEN [token[t] EXCEPT !.live = FALSE]
                                     ELSE token[t]]
Replay(r) ==
  LET s == rotation[r] IN
  /\ s.at = "replay"
  /\ token' = RevokeFamily(s.family)
  /\ rotation' = [rotation EXCEPT ![r] = NotRotating] /\ Discard(s.browser)
  /\ ended' = ended \cup {s.family}
  /\ overtaken' = overtaken \cup IF Rotating(s.family) \ {r} # {} THEN {s.family} ELSE {}
  /\ UNCHANGED <<change, uneasy>>

Received(r) ==
  LET s == rotation[r] IN
  /\ s.at = "answer"
  /\ jar' = [jar EXCEPT ![s.browser] = IF @ = NoToken THEN NoToken ELSE s.next]
  /\ rotation' = [rotation EXCEPT ![r] = NotRotating]
  /\ UNCHANGED <<token, change, uneasy, ended, overtaken>>

LoseAnswer(r) ==
  /\ rotation[r].at = "answer"
  /\ rotation' = [rotation EXCEPT ![r] = NotRotating]
  /\ uneasy' = uneasy \cup {rotation[r].family}
  /\ UNCHANGED <<token, jar, change, ended, overtaken>>

RotationDies(r) ==
  /\ rotation[r].at \in {"read", "replay"}
  /\ rotation' = [rotation EXCEPT ![r] = NotRotating]
  /\ UNCHANGED <<token, jar, change, uneasy, ended, overtaken>>

(* Signing out revokes the one token that is presented.                    *)
Revoke(t) == [token EXCEPT ![t].live = FALSE]
SignOut(b) ==
  LET t == jar[b] IN
  /\ t # NoToken /\ Discard(b)
  /\ IF t \in Stored /\ token[t].live
     THEN token' = Revoke(t)
     ELSE token' = token
  /\ UNCHANGED <<rotation, change, uneasy, ended, overtaken>>

(* change_password and reset_password commit the password and the next     *)
(* token version, and then revoke every token of the user in a transaction *)
(* of its own.                                                             *)
ChangePassword ==
  /\ change = "none" /\ change' = "committed"
  /\ UNCHANGED <<token, jar, rotation, uneasy, ended, overtaken>>
RevokeAll ==
  /\ change = "committed" /\ change' = "done"
  /\ token' = [t \in Tokens |-> IF t \in Stored THEN [token[t] EXCEPT !.live = FALSE]
                                ELSE token[t]]
  /\ Ending({token[t].family : t \in Stored})
  /\ UNCHANGED <<jar, rotation, uneasy>>
ChangeDies ==
  /\ change = "committed" /\ change' = "done"
  /\ UNCHANGED <<token, jar, rotation, uneasy, ended, overtaken>>

(* Time passes for a token no rotation is using; the sweeper deletes those *)
(* that expired a week ago.                                                *)
GrowOld(t) ==
  /\ t \in Stored /\ token[t].age # "stale"
  /\ \A r \in Rotations : rotation[r].at # "idle" => t \notin {rotation[r].token, rotation[r].next}
  /\ token' = [token EXCEPT ![t].age = IF @ = "valid" THEN "expired" ELSE "stale"]
  /\ UNCHANGED <<jar, rotation, change, uneasy, ended, overtaken>>
Gone == {t \in Stored : token[t].age = "stale"}
CleanUp ==
  /\ Gone # {}
  /\ token' = [t \in Tokens |-> IF t \in Gone THEN Deleted ELSE token[t]]
  /\ UNCHANGED <<jar, rotation, change, uneasy, ended, overtaken>>

TokensNext ==
  \/ \E b \in Browsers, t \in Tokens : SignIn(b, t)
  \/ \E r \in Rotations, b \in Browsers : BeginRotation(r, b)
  \/ \E r \in Rotations : \/ Refused(r) \/ Replay(r) \/ Received(r)
                          \/ LoseAnswer(r) \/ RotationDies(r)
                          \/ \E t \in Tokens : Issue(r, t)
  \/ \E b \in Browsers : RotateUnknown(b) \/ SignOut(b)
  \/ ChangePassword \/ RevokeAll \/ ChangeDies
  \/ \E t \in Tokens : GrowOld(t)
  \/ CleanUp

TokensSpec == TokensInit /\ [][TokensNext]_tokenVars

-----------------------------------------------------------------------------
(* A browser that rotates one call at a time and gets every answer stays   *)
(* signed in: the token it holds, or the one on its way to it, is the one  *)
(* live token of its family, until the family is ended.  And a family that *)
(* was ended while none of its rotations was in progress has no live token *)
(* again.                                                                  *)
SessionKept ==
  /\ \A b \in Browsers : LET f == token[jar[b]].family IN
       (jar[b] \in Stored /\ f \notin uneasy \cup ended) =>
         Live(f) = IF Answers(f) = {} THEN {jar[b]}
                   ELSE {rotation[r].next : r \in Answers(f)}
  /\ \A f \in ended \ overtaken : Live(f) = {}
=============================================================================
