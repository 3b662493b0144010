------------------------------ MODULE Notices ------------------------------
(* What the sweeper of every replica sends unasked: the weekly and daily   *)
(* digests, which a process remembers having sent, and the alerts for      *)
(* watched tasks, which the rows of task_watchlist remember                *)
(* (core/sweeper.py, routers/worker_marketplace.py).  Days are counted     *)
(* from a Monday; an hour is before, at or after eight; a watched task is  *)
(* alerted again the next day.  The cap of 100 watched tasks is left out.   *)
EXTENDS Integers, FiniteSets

CONSTANTS Subscribers, Replicas, Watches, LastDay, MaxUpsets

ASSUME NoticesAssumption == IsFiniteSet(Replicas) /\ LastDay \in Nat /\ MaxUpsets \in Nat

VARIABLES
  day, hour,
  frequency,  \* digest_frequency by user
  unread,     \* users with unread notifications
  digest,     \* replicas: the digest being sent and the users still to come
  mailed,     \* replicas: the day of the last digest of either kind
  mails,      \* history: digests sent today, by kind and user
  upset,      \* history: restarts, failures and orders, today and in all
  watch,      \* the rows of task_watchlist
  open,       \* watches whose task can be claimed
  sweep,      \* replicas: the rows a watchlist sweep has read
  alerted,    \* history: the day of the row's last alert
  early       \* history: rows alerted twice in a day though no sweep overlapped

digestVars == <<hour, frequency, unread, digest, mailed, mails, upset>>
watchVars == <<watch, open, sweep, alerted, early>>
noticeVars == <<day, digestVars, watchVars>>

Digests == {"weekly", "daily"}
Frequencies == {"none", "daily", "weekly"}
Long == -2                             \* longer ago than a day
NotSending == [kind |-> "none", to |-> {}]
NotWatched == [there |-> FALSE, notified |-> Long]
NoSweep == [at |-> "none"]
Mailless == [k \in Digests |-> [u \in Subscribers |-> 0]]

NoticesTypeOK ==
  /\ day \in 0..LastDay /\ hour \in 1..3
  /\ frequency \in [Subscribers -> Frequencies] /\ unread \subseteq Subscribers
  /\ \A p \in Replicas : digest[p].kind \in Digests \cup {"none"} /\ digest[p].to \subseteq Subscribers
  /\ mails \in [Digests -> [Subscribers -> Nat]]
  /\ upset.today \in 0..MaxUpsets /\ upset.ever \in 0..MaxUpsets
  /\ watch \in [Watches -> [there : BOOLEAN, notified : {Long} \cup 0..LastDay]]
  /\ open \subseteq Watches

NoticesInit ==
  /\ day = 0 /\ hour = 1
  /\ frequency \in [Subscribers -> Frequencies] /\ unread = {}
  /\ digest = [p \in Replicas |-> NotSending]
  /\ mailed = [p \in Replicas |-> [k \in Digests |-> -1]]
  /\ mails = Mailless /\ upset = [today |-> 0, ever |-> 0]
  /\ watch = [i \in Watches |-> NotWatched] /\ open = {}
  /\ sweep = [p \in Replicas |-> NoSweep]
  /\ alerted = [i \in Watches |-> Long] /\ early = {}

(* No digest takes until the next morning.                                 *)
Pass ==
  \/ /\ hour < 3 /\ hour' = hour + 1
     /\ UNCHANGED <<day, mails, upset>>
  \/ /\ hour = 3 /\ day < LastDay
     /\ \A p \in Replicas : digest[p] = NotSending
     /\ hour' = 1 /\ day' = day + 1
     /\ mails' = Mailless /\ upset' = [upset EXCEPT !.today = 0]
Time == Pass /\ UNCHANGED <<frequency, unread, digest, mailed, watchVars>>

Receive(u) ==
  /\ unread' \in {unread \cup {u}, unread \ {u}}
  /\ UNCHANGED <<day, hour, frequency, digest, mailed, mails, upset, watchVars>>
Prefer(u, f) ==
  /\ frequency' = [frequency EXCEPT ![u] = f]
  /\ UNCHANGED <<day, hour, unread, digest, mailed, mails, upset, watchVars>>

-----------------------------------------------------------------------------
(* send_weekly_digests and send_daily_digests: one after the other in a    *)
(* sweep, at eight, unless this process has sent the digest today.         *)
SentBefore(p, k) == mailed[p][k] > day \* mutant
Sent(p, k) == mailed[p][k] = day
Monday == day % 7 = 0
Readers(k) == {u \in Subscribers : IF k = "weekly" THEN frequency[u] = "weekly"
                             ELSE frequency[u] = "daily" /\ u \in unread}
Prepare(p, k) ==
  /\ digest[p] = NotSending /\ sweep[p] = NoSweep
  /\ hour = 2 /\ ~Sent(p, k) /\ (k = "weekly" => Monday)
  /\ digest' = [digest EXCEPT ![p] = [kind |-> k, to |-> Readers(k)]]
  /\ UNCHANGED <<day, hour, frequency, unread, mailed, mails, upset, watchVars>>

(* A mail that cannot be sent is logged and skipped.                       *)
Send(p, u) ==
  /\ u \in digest[p].to
  /\ digest' = [digest EXCEPT ![p].to = @ \ {u}]
  /\ mails' \in {mails, [mails EXCEPT ![digest[p].kind][u] = @ + 1]}
  /\ UNCHANGED <<day, hour, frequency, unread, mailed, upset, watchVars>>

Remember(p) ==
  /\ digest[p].kind # "none" /\ digest[p].to = {}
  /\ mailed' = [mailed EXCEPT ![p][digest[p].kind] = day]
  /\ digest' = [digest EXCEPT ![p] = NotSending]
  /\ UNCHANGED <<day, hour, frequency, unread, mails, upset, watchVars>>

(* An error of the database ends the digest before it is remembered; a     *)
(* restart forgets those that were sent.                                   *)
Upset == /\ upset.ever < MaxUpsets
         /\ upset' = [today |-> upset.today + 1, ever |-> upset.ever + 1]
DigestFails(p) ==
  /\ digest[p].kind # "none" /\ Upset
  /\ digest' = [digest EXCEPT ![p] = NotSending]
  /\ UNCHANGED <<day, hour, frequency, unread, mailed, mails, watchVars>>
Restart(p) ==
  /\ Upset
  /\ digest' = [digest EXCEPT ![p] = NotSending]
  /\ sweep' = [sweep EXCEPT ![p] = NoSweep]
  /\ mailed' = [mailed EXCEPT ![p] = [k \in Digests |-> -1]]
  /\ UNCHANGED <<day, hour, frequency, unread, mails, watch, open, alerted, early>>

(* An administrator orders a digest at any time: the weekly one for every  *)
(* user, the daily one for those who chose it, with no memory of either.   *)
Mailed(k, asked) ==
  /\ Upset
  /\ \E S \in SUBSET asked :
       mails' = [mails EXCEPT ![k] = [u \in Subscribers |-> @[u] + IF u \in S THEN 1 ELSE 0]]
  /\ UNCHANGED <<day, hour, frequency, unread, digest, mailed, watchVars>>
TriggerWeekly == Mailed("weekly", Subscribers)
TriggerDaily == Mailed("daily", {u \in Subscribers : frequency[u] = "daily"})

-----------------------------------------------------------------------------
(* add_to_watchlist; the unique constraint keeps one row a worker and task. *)
Watch(i) ==
  /\ ~watch[i].there /\ watch' = [watch EXCEPT ![i] = [there |-> TRUE, notified |-> Long]]
  /\ UNCHANGED <<day, digestVars, open, sweep, alerted, early>>

(* remove_from_watchlist; a sweep that has read the row will not find it.  *)
Unwatch(i) ==
  /\ watch[i].there /\ watch' = [watch EXCEPT ![i] = NotWatched]
  /\ sweep' = [p \in Replicas |-> IF sweep[p].at = "read" /\ i \in sweep[p].rows
                                  THEN [sweep[p] EXCEPT !.lost = TRUE] ELSE sweep[p]]
  /\ alerted' = [alerted EXCEPT ![i] = Long]
  /\ UNCHANGED <<day, digestVars, open, early>>

Reopen(i) ==
  /\ open' \in {open \cup {i}, open \ {i}}
  /\ UNCHANGED <<day, digestVars, watch, sweep, alerted, early>>

(* _sweep_watchlist_notifications: the rows to alert are read, then every  *)
(* alert and its notified_at are committed together, or nothing when one   *)
(* of the rows has gone.                                                   *)
Due(i) == watch[i].there /\ i \in open /\ watch[i].notified < day
ReadWatches(p) ==
  LET rows == {i \in Watches : Due(i)} IN
  /\ sweep[p] = NoSweep /\ digest[p] = NotSending /\ rows # {}
  /\ sweep' = [sweep EXCEPT ![p] = [at |-> "read", rows |-> rows, since |-> day,
                                  lost |-> FALSE, overtaken |-> {}]]
  /\ UNCHANGED <<day, digestVars, watch, open, alerted, early>>

Notified(s) == [i \in Watches |-> IF i \in s.rows THEN [watch[i] EXCEPT !.notified = s.since]
                                  ELSE watch[i]]
Alert(p) ==
  LET s == sweep[p] IN
  /\ s.at = "read"
  /\ sweep' = [o \in Replicas |->
                IF o = p THEN NoSweep
                ELSE IF ~s.lost /\ sweep[o].at = "read"
                     THEN [sweep[o] EXCEPT !.overtaken = @ \cup s.rows] ELSE sweep[o]]
  /\ IF s.lost THEN UNCHANGED <<watch, alerted, early>>
     ELSE /\ watch' = Notified(s)
          /\ alerted' = [i \in Watches |-> IF i \in s.rows THEN s.since ELSE alerted[i]]
          /\ early' = early \cup {i \in s.rows \ s.overtaken : alerted[i] = s.since}
  /\ UNCHANGED <<day, digestVars, open>>

DigestNext ==
  \/ TriggerWeekly \/ TriggerDaily
  \/ \E u \in Subscribers : Receive(u) \/ \E f \in Frequencies : Prefer(u, f)
  \/ \E p \in Replicas : \/ \E k \in Digests : Prepare(p, k)
                         \/ \E u \in Subscribers : Send(p, u)
                         \/ Remember(p) \/ DigestFails(p)
WatchNext ==
  \/ \E i \in Watches : Watch(i) \/ Unwatch(i) \/ Reopen(i)
  \/ \E p \in Replicas : ReadWatches(p) \/ Alert(p)
NoticesNext == Time \/ DigestNext \/ WatchNext \/ \E p \in Replicas : Restart(p)
NoticesSpec == NoticesInit /\ [][NoticesNext]_noticeVars

-----------------------------------------------------------------------------
(* A user is mailed a digest at most once a day by each replica, and once  *)
(* more for every restart, failure and order of the day; no watched task   *)
(* is alerted twice in a day, unless two replicas' sweeps overlapped.      *)
NoticesKept ==
  /\ \A k \in Digests, u \in Subscribers : mails[k][u] <= Cardinality(Replicas) + upset.today
  /\ early = {}
=============================================================================
