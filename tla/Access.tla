------------------------------- MODULE Access -------------------------------
(* How a user gets into an account: registering, signing in with a         *)
(* password or with Google, the links that verify an address or reset a    *)
(* password (routers/auth.py, routers/oauth.py), and the second factor     *)
(* with its backup codes (routers/two_factor.py).  None of these locks     *)
(* anything: every request reads the row of the account and writes the     *)
(* columns it changed.  Passwords, one-time codes and tokens are numbers;  *)
(* refresh tokens are in RefreshTokens.                                    *)
EXTENDS Integers, FiniteSets

CONSTANTS Requests, Resets, MaxLinks, MaxSecrets, MaxEnables, MaxChanges, MaxStale

Codes(n) == {n} \X {1, 2}
BackupCodes == UNION {Codes(n) : n \in 1..MaxEnables}
Purposes == {"register", "google", "verify", "resend", "sign_in", "change",
             "setup", "enable", "disable", "second_factor"}

ASSUME AccessAssumption ==
  /\ {MaxLinks, MaxSecrets, MaxEnables, MaxChanges, MaxStale} \subseteq Nat
  /\ Resets \cap (Purposes \cup BackupCodes \cup {"nothing"}) = {}

VARIABLES
  account,    \* the row of users
  request,    \* requests: what each is for, and the row it read
  reset,      \* the rows of password_reset_tokens
  phone,      \* the secret in the user's authenticator
  issued,     \* how many links, secrets and sets of backup codes there were
  badges,     \* access tokens: their version and the password they are from
  changes,    \* history: how often the password was changed
  uses,       \* history: how often each reset link and backup code was taken
  confirmed,  \* history: the address was verified
  stale       \* history: writes over a row that others wrote since the read

accessVars == <<account, request, reset, phone, issued, badges, changes, uses, confirmed, stale>>

Nobody == [exists |-> FALSE, verified |-> FALSE, link |-> 0, google |-> FALSE, version |-> 0,
           secret |-> 0, enabled |-> FALSE, codes |-> {}]
NoRequest == [for |-> "nothing"]
Fresh(kind) == issued[kind] + 1

AccessTypeOK ==
  /\ account.link \in 0..MaxLinks /\ account.secret \in 0..MaxSecrets
  /\ account.codes \subseteq BackupCodes
  /\ reset \in [Resets -> {"none", "sent", "used", "expired"}]
  /\ changes \in 0..MaxChanges /\ stale \in 0..MaxStale

AccessInit ==
  /\ account = Nobody
  /\ request = [r \in Requests |-> NoRequest]
  /\ reset = [l \in Resets |-> "none"]
  /\ phone = 0 /\ issued = [link |-> 0, secret |-> 0, enabling |-> 0]
  /\ badges = {} /\ changes = 0
  /\ uses = [t \in Resets \cup BackupCodes |-> 0]
  /\ confirmed = FALSE /\ stale = 0

(* What a request must find in the row to go on.                           *)
May(what) ==
  CASE what = "register" -> ~account.exists
    [] what = "google" -> TRUE
    [] what = "verify" -> account.link # 0 /\ ~account.verified
    [] what = "resend" -> account.exists /\ ~account.verified
    [] what \in {"sign_in", "change"} -> account.exists
    [] what = "setup" -> account.exists /\ ~account.enabled
    [] what = "enable" -> ~account.enabled /\ account.secret # 0
    [] what \in {"disable", "second_factor"} -> account.enabled
    [] OTHER -> reset[what] = "sent"

Read(r, what) ==
  /\ request[r] = NoRequest /\ May(what)
  /\ request' = [request EXCEPT ![r] = [for |-> what, seen |-> account, after |-> changes, late |-> FALSE]]
  /\ UNCHANGED <<account, reset, phone, issued, badges, changes, uses, confirmed, stale>>

Wants(r, what) == request[r].for = what
Seen(r) == request[r].seen
Respond(r) == request' = [request EXCEPT ![r] = NoRequest]
Late(q) == [q EXCEPT !.late = TRUE]

(* A flush writes the columns that differ from what was read; what the     *)
(* other open requests read is then out of date.                           *)
Overtake(r) ==
  request' = [q \in Requests |-> IF q = r \/ request[q] = NoRequest THEN NoRequest ELSE Late(request[q])]
Flush(row, seen, new) == [c \in DOMAIN row |-> IF new[c] # seen[c] THEN new[c] ELSE row[c]]
Write(r, new) ==
  /\ account' = Flush(account, Seen(r), new)
  /\ stale' = IF request[r].late THEN stale + 1 ELSE stale
  /\ stale' <= MaxStale
  /\ Overtake(r)

Admit(version, after) == badges' = badges \cup {[version |-> version, after |-> after]}
Take(t) == uses' = [uses EXCEPT ![t] = @ + 1]

(* register and a first visit by Google: the address and Google's id are   *)
(* unique, so of two inserts one fails.                                    *)
NewAccount(r, row) ==
  /\ IF account.exists THEN Respond(r) /\ UNCHANGED <<account, badges>>
     ELSE Overtake(r) /\ account' = row /\ Admit(0, changes)
  /\ stale' = stale

Register(r) ==
  /\ Wants(r, "register") /\ Fresh("link") <= MaxLinks
  /\ NewAccount(r, [Nobody EXCEPT !.exists = TRUE, !.link = Fresh("link")])
  /\ issued' = [issued EXCEPT !.link = Fresh("link")]
  /\ UNCHANGED <<reset, phone, changes, uses, confirmed>>

Verified(row) == IF row.verified THEN row ELSE [row EXCEPT !.verified = TRUE, !.link = 0]
Linked(row, sure) == [(IF sure THEN Verified(row) ELSE row) EXCEPT !.google = TRUE]

GoogleCallback(r, sure) ==
  /\ Wants(r, "google")
  /\ IF ~Seen(r).exists
     THEN NewAccount(r, [Nobody EXCEPT !.exists = TRUE, !.google = TRUE, !.verified = sure])
     ELSE /\ IF Seen(r).google THEN Respond(r) /\ UNCHANGED <<account, stale>>
             ELSE Write(r, Linked(Seen(r), sure))
          /\ Admit(account.version, changes)   \* the row is read again
  /\ confirmed' = (confirmed \/ (account' # account /\ account'.verified))
  /\ UNCHANGED <<reset, phone, issued, changes, uses>>

VerifyEmail(r) ==
  /\ Wants(r, "verify") /\ Write(r, Verified(Seen(r))) /\ confirmed' = TRUE
  /\ UNCHANGED <<reset, phone, issued, badges, changes, uses>>

ResendVerification(r) ==
  /\ Wants(r, "resend") /\ Fresh("link") <= MaxLinks
  /\ Write(r, [Seen(r) EXCEPT !.link = Fresh("link")])
  /\ issued' = [issued EXCEPT !.link = Fresh("link")]
  /\ UNCHANGED <<reset, phone, badges, changes, uses, confirmed>>

(* login: with a second factor it gives only leave to present it.          *)
Login(r) ==
  /\ Wants(r, "sign_in") /\ Respond(r)
  /\ IF Seen(r).enabled THEN badges' = badges ELSE Admit(Seen(r).version, request[r].after)
  /\ UNCHANGED <<account, reset, phone, issued, changes, uses, confirmed, stale>>

(* A new password raises the version that access tokens must have.         *)
SameVersion(row) == row \* mutant
NextVersion(row) == [row EXCEPT !.version = @ + 1]
ChangePassword(r) ==
  /\ Wants(r, "change") /\ changes < MaxChanges
  /\ Write(r, NextVersion(Seen(r))) /\ changes' = changes + 1
  /\ UNCHANGED <<reset, phone, issued, badges, uses, confirmed>>

ForgotPassword(l) ==
  /\ account.exists /\ reset[l] = "none" /\ reset' = [reset EXCEPT ![l] = "sent"]
  /\ UNCHANGED <<account, request, phone, issued, badges, changes, uses, confirmed, stale>>
LinkExpires(l) ==
  /\ reset[l] = "sent" /\ reset' = [reset EXCEPT ![l] = "expired"]
  /\ UNCHANGED <<account, request, phone, issued, badges, changes, uses, confirmed, stale>>
ResetPassword(r, l) ==
  /\ Wants(r, l) /\ changes < MaxChanges
  /\ Write(r, NextVersion(Seen(r))) /\ changes' = changes + 1
  /\ reset' = [reset EXCEPT ![l] = "used"] /\ Take(l)
  /\ UNCHANGED <<phone, issued, badges, confirmed>>

(* setup_2fa stores a secret and shows it; the user may scan it.           *)
Setup(r) ==
  /\ Wants(r, "setup") /\ Fresh("secret") <= MaxSecrets
  /\ Write(r, [Seen(r) EXCEPT !.secret = Fresh("secret")])
  /\ issued' = [issued EXCEPT !.secret = Fresh("secret")]
  /\ phone' \in {phone, Fresh("secret")}
  /\ UNCHANGED <<reset, badges, changes, uses, confirmed>>

Enable(r) ==
  /\ Wants(r, "enable") /\ phone = Seen(r).secret /\ Fresh("enabling") <= MaxEnables
  /\ Write(r, [Seen(r) EXCEPT !.enabled = TRUE, !.codes = Codes(Fresh("enabling"))])
  /\ issued' = [issued EXCEPT !.enabling = Fresh("enabling")]
  /\ UNCHANGED <<reset, phone, badges, changes, uses, confirmed>>

(* A code of the authenticator, or a backup code, which is used up.        *)
ByPhone(r) == phone = Seen(r).secret /\ phone # 0
Without(row, c) == [row EXCEPT !.codes = @ \ {c}]

Verify(r) ==
  /\ Wants(r, "second_factor")
  /\ \/ ByPhone(r) /\ Respond(r) /\ UNCHANGED <<account, uses, stale>>
     \/ \E c \in Seen(r).codes : Write(r, Without(Seen(r), c)) /\ Take(c)
  /\ Admit(Seen(r).version, request[r].after)
  /\ UNCHANGED <<reset, phone, issued, changes, confirmed>>

Disable(r) ==
  /\ Wants(r, "disable")
  /\ \/ ByPhone(r) /\ uses' = uses
     \/ \E c \in Seen(r).codes : Take(c)
  /\ Write(r, [Seen(r) EXCEPT !.secret = 0, !.enabled = FALSE, !.codes = {}])
  /\ UNCHANGED <<reset, phone, issued, badges, changes, confirmed>>

RequestDies(r) ==
  /\ request[r] # NoRequest /\ Respond(r)
  /\ UNCHANGED <<account, reset, phone, issued, badges, changes, uses, confirmed, stale>>

EnterNext ==
  \/ \E r \in Requests :
       \/ \E what \in {"register", "google", "verify", "resend", "sign_in", "change"} \cup Resets :
            Read(r, what)
       \/ Register(r) \/ VerifyEmail(r) \/ ResendVerification(r) \/ Login(r) \/ ChangePassword(r)
       \/ \E sure \in BOOLEAN : GoogleCallback(r, sure)
       \/ \E l \in Resets : ResetPassword(r, l)
       \/ RequestDies(r)
  \/ \E l \in Resets : ForgotPassword(l) \/ LinkExpires(l)

FactorNext ==
  \E r \in Requests :
    \/ \E what \in {"setup", "enable", "disable", "second_factor"} : Read(r, what)
    \/ Setup(r) \/ Enable(r) \/ Verify(r) \/ Disable(r)

AccessNext == EnterNext \/ FactorNext
AccessSpec == AccessInit /\ [][AccessNext]_accessVars

-----------------------------------------------------------------------------
(* A verified address stays verified, whatever requests that read it       *)
(* unverified write later.  A reset link or a backup code is taken once,   *)
(* and once more at most for each request that wrote over a row others had *)
(* written.  Without such a request the second factor is the one in the    *)
(* user's phone, its backup codes are those not taken, and access tokens   *)
(* from before the last change of the password are void - also when they   *)
(* were asked for before and issued after it.                              *)
AccessKept ==
  /\ confirmed => account.verified
  /\ \A t \in DOMAIN uses : uses[t] <= 1 + stale
  /\ stale = 0 =>
       /\ account.enabled => /\ account.secret = phone
                             /\ account.codes = {c \in Codes(issued.enabling) : uses[c] = 0}
       /\ \A b \in badges : b.version = account.version => b.after = changes
=============================================================================
