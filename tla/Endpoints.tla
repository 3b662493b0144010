----------------------------- MODULE Endpoints -----------------------------
(* The signing secret of a webhook endpoint: its rotation                  *)
(* (routers/webhooks.py) and the signatures of test calls, deliveries,     *)
(* queued retries and replays (core/webhooks.py, core/webhook_retry.py).   *)
(* Secrets are numbered in the order they were issued; time is counted in  *)
(* hours and the secret before the current one keeps signing for Grace     *)
(* hours.  Receivers, bodies and outcomes are left to WebhookRetry.        *)
EXTENDS Integers, Sequences

CONSTANTS Letters, Rotators, Grace, LastHour, MaxSecrets, NoSecret

ASSUME EndpointsAssumption ==
  /\ Grace \in Nat \ {0} /\ LastHour \in Nat /\ MaxSecrets \in Nat \ {0}
  /\ NoSecret \notin Nat

VARIABLES
  now,       \* the hour it is
  endpoint,  \* the row of webhook_endpoints
  rotator,   \* calls of rotate_secret and the row they read
  letter,    \* deliveries: the row read, the signatures, where each is
  given,     \* history: by secret, the hour in which it was replaced
  crossed    \* history: a rotation wrote over another one it had not seen

endpointVars == <<now, endpoint, rotator, letter, given, crossed>>

Never == LastHour + Grace + 1
NoEndpoint == [there |-> FALSE, active |-> FALSE, secret |-> NoSecret, previous |-> NoSecret, until |-> 0]
Unsent == [at |-> "unsent"]
Quiet == [at |-> "quiet"]
Arrived == {l \in Letters : letter[l].at = "arrived"}
Logged == {l \in Letters : /\ letter[l].at \in {"arrived", "queued", "failed"}
                           /\ letter[l].kind # "test"}

EndpointsTypeOK ==
  /\ now \in 0..LastHour
  /\ endpoint.secret \in 0..(MaxSecrets - 1) \cup {NoSecret}
  /\ endpoint.previous \in 0..(MaxSecrets - 1) \cup {NoSecret}
  /\ given \in Seq(Nat) /\ Len(given) <= MaxSecrets

EndpointsInit ==
  /\ now = 0 /\ endpoint = NoEndpoint
  /\ rotator = [r \in Rotators |-> Quiet]
  /\ letter = [l \in Letters |-> Unsent]
  /\ given = <<>> /\ crossed = FALSE

Hour == /\ now < LastHour /\ now' = now + 1
        /\ UNCHANGED <<endpoint, rotator, letter, given, crossed>>

(* create_endpoint.                                                        *)
Create ==
  /\ given = <<>>
  /\ endpoint' = [NoEndpoint EXCEPT !.there = TRUE, !.active = TRUE, !.secret = 0]
  /\ given' = <<Never>>
  /\ UNCHANGED <<now, rotator, letter, crossed>>

SwitchActive ==
  /\ endpoint.there /\ endpoint' = [endpoint EXCEPT !.active = ~@]
  /\ UNCHANGED <<now, rotator, letter, given, crossed>>

(* Queued letters go with the row (ON DELETE CASCADE).                     *)
Delete ==
  /\ endpoint.there /\ endpoint' = NoEndpoint
  /\ letter' = [l \in Letters |-> IF letter[l].at = "queued" THEN [letter[l] EXCEPT !.at = "failed"]
                                  ELSE letter[l]]
  /\ UNCHANGED <<now, rotator, given, crossed>>

(* rotate_secret.                                                          *)
ReadSecret(r) ==
  /\ rotator[r] = Quiet /\ endpoint.there
  /\ rotator' = [rotator EXCEPT ![r] = [at |-> "read", secret |-> endpoint.secret]]
  /\ UNCHANGED <<now, endpoint, letter, given, crossed>>

Latest == Len(given)    \* secret n is given[n + 1]
Rotated(r) == [endpoint EXCEPT !.secret = Latest, !.previous = rotator[r].secret,
                               !.until = now + Grace]
Rotate(r) ==
  /\ rotator[r].at = "read" /\ Latest < MaxSecrets
  /\ rotator' = [rotator EXCEPT ![r] = Quiet]
  /\ IF endpoint.there
     THEN /\ endpoint' = Rotated(r)
          /\ given' = Append([given EXCEPT ![endpoint.secret + 1] = now], Never)
     ELSE UNCHANGED <<endpoint, given>>
  /\ crossed' = (crossed \/ (endpoint.there /\ rotator[r].secret # endpoint.secret))
  /\ UNCHANGED <<now, letter>>

-----------------------------------------------------------------------------
(* A letter of some kind, with the row as it is when the letter is begun.  *)
Read(l, kind) ==
  /\ letter[l] = Unsent
  /\ letter' = [letter EXCEPT ![l] = [at |-> "read", kind |-> kind, row |-> endpoint]]
  /\ UNCHANGED <<now, endpoint, rotator, given, crossed>>

Fire(l) == endpoint.active /\ Read(l, "delivery")
Test(l) == endpoint.there /\ Read(l, "test")
(* An earlier event sent again, to every active endpoint or to one address. *)
SendAgain(l) == Logged # {} /\ endpoint.active /\ Read(l, "replay")
RetryByHand(l) == Logged # {} /\ Read(l, "manual")

(* The signature header: v1 with the secret, v0 with the one before while  *)
(* its grace lasts; a replay has v1 only and a manual retry none.          *)
InGraceAtEnd(row) == row.previous # NoSecret /\ now <= row.until \* mutant
InGrace(row) == row.previous # NoSecret /\ now < row.until
Signatures(kind, row) ==
  CASE kind = "manual" -> {}
    [] kind = "replay" -> {row.secret}
    [] OTHER -> {row.secret} \cup IF InGrace(row) THEN {row.previous} ELSE {}
Sign(l) ==
  LET q == letter[l] IN
  /\ q.at = "read"
  /\ letter' = [letter EXCEPT ![l] = [at |-> "signed", kind |-> q.kind, secret |-> q.row.secret,
                  by |-> Signatures(q.kind, q.row), when |-> now]]
  /\ UNCHANGED <<now, endpoint, rotator, given, crossed>>

Arrive(l) ==
  /\ letter[l].at \in {"signed", "queued"}
  /\ letter' = [letter EXCEPT ![l].at = "arrived"]
  /\ UNCHANGED <<now, endpoint, rotator, given, crossed>>

(* A delivery that fails may be queued with the headers it was signed with *)
(* and sent again, or be given up; the others are sent once.               *)
Fail(l) ==
  /\ letter[l].at \in {"signed", "queued"}
  /\ \E end \in {"queued", "failed"} :
       /\ end = "queued" => letter[l].kind = "delivery" /\ endpoint.there
       /\ letter' = [letter EXCEPT ![l].at = end]
  /\ UNCHANGED <<now, endpoint, rotator, given, crossed>>

EndpointsNext ==
  \/ Hour \/ Create \/ SwitchActive \/ Delete
  \/ \E r \in Rotators : ReadSecret(r) \/ Rotate(r)
  \/ \E l \in Letters : Fire(l) \/ Test(l) \/ SendAgain(l) \/ RetryByHand(l) \/ Sign(l) \/ Arrive(l) \/ Fail(l)

EndpointsSpec == EndpointsInit /\ [][EndpointsNext]_endpointVars

-----------------------------------------------------------------------------
(* A secret that was replaced still counts for Grace hours.  Every         *)
(* delivery and every test that arrives, at once or from the queue, was    *)
(* signed with all the secrets that counted when it was signed among those *)
(* given before its row was read, and with no other, as long as no two     *)
(* rotations overlapped and no secret was replaced within the grace of the *)
(* one before it.                                                          *)
Replaced(n) == given[n + 1]
Crowded == \E n \in 0..(Len(given) - 2) :
             Replaced(n + 1) # Never /\ Replaced(n + 1) < Replaced(n) + Grace
SecretsKept ==
  Crowded \/ crossed \/ \A l \in Arrived : LET a == letter[l] IN
    a.kind \in {"delivery", "test"} =>
      a.by = {n \in 0..a.secret : n = a.secret \/ a.when < Replaced(n) + Grace}
=============================================================================
