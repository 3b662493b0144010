------------------------------ MODULE Monitors -----------------------------
(* What watches the system: each replica's sweeper counts errors in memory *)
(* and raises alerts (core/system_alerts.py, run_sweeper), admins resolve  *)
(* them (routers/admin.py); and the alert of a low balance, which only      *)
(* create_task gives (core/credit_alerts.py, update_credit_alert).         *)
EXTENDS Integers, FiniteSets

CONSTANTS
  Sentries,                       \* replicas
  Reports, MaxErrors, MaxRaised,  \* rows of system_alerts; the threshold of errors; alerts ever
  Admins,                         \* requests of admins
  Settings,                       \* requests that set the threshold
  Thresholds, MaxBalance, MaxSettings,
  MaxSkewed, MaxLapsed            \* bounds the ends of a kind's cooldown

ASSUME MonitorsAssumption ==
  /\ {MaxErrors, MaxRaised, MaxBalance, MaxSettings, MaxSkewed, MaxLapsed} \subseteq Nat
  /\ Thresholds \subseteq Nat
  /\ IsFiniteSet(Reports) /\ IsFiniteSet(Admins) /\ IsFiniteSet(Sentries)

Failures == 3      \* consecutive sweeps that raised
Looks == <<"error_rate_spike", "sweeper_stall", "sweeper_consecutive_errors">>
Kinds == {"error_rate_spike", "sweeper_stall", "sweeper_consecutive_errors"}

VARIABLES
  sentry,   \* a process: errors in the window, sweeps that raised, kinds in cooldown, its
            \* pass; and, history, how many passes in a row have failed
  report,   \* the rows of system_alerts
  lapsed,   \* history: cooldowns of a kind that ended or that a restart forgot
  admin,    \* admins' requests, what they read, what they still log
  logged,   \* history: resolutions and entries of the audit log
  wallet,   \* credits, credit_alert_threshold and credit_alert_fired
  setting,  \* requests that set the threshold and what they read
  since,    \* history since the last setting: a task created that left less, alerts
  skewed    \* history: writes decided on what had changed

monitorVars == <<sentry, report, lapsed, admin, logged, wallet, setting, since, skewed>>

NoReport == [kind |-> "none", cause |-> 0, resolved |-> FALSE]
Booted == [errors |-> 0, failures |-> 0, cooling |-> {}, pass |-> "between", failing |-> 0]
NoAdmin == [doing |-> "nothing"]
NoSetting == [to |-> 0, seen |-> [threshold |-> 0, fired |-> FALSE], set |-> FALSE]
Raised == {r \in Reports : report[r] # NoReport}

MonitorsTypeOK ==
  /\ \A s \in Sentries : sentry[s].errors \in 0..MaxErrors /\ sentry[s].failures \in 0..Failures
  /\ \A r \in Raised : report[r].kind \in Kinds
  /\ wallet.credits \in 0..MaxBalance /\ wallet.threshold \in Thresholds \cup {0} /\ skewed \in 0..MaxSkewed

MonitorsInit ==
  /\ sentry = [s \in Sentries |-> Booted]
  /\ report = [r \in Reports |-> NoReport] /\ admin = [a \in Admins |-> NoAdmin]
  /\ lapsed = [k \in Kinds |-> 0]
  /\ logged = [resolved |-> 0, entries |-> 0]
  /\ wallet = [credits |-> MaxBalance, threshold |-> 0, fired |-> FALSE]
  /\ setting = [q \in Settings |-> NoSetting]
  /\ since = [low |-> 0, alerts |-> 0, settings |-> 0] /\ skewed = 0

Skew(changed) == skewed' = (IF changed THEN skewed + 1 ELSE skewed) /\ skewed' <= MaxSkewed
WalletUnchanged == UNCHANGED <<wallet, setting, since>>

(* A process: requests fail, errors leave the window, cooldowns end.       *)
SetSentry(s, new) == sentry' = [sentry EXCEPT ![s] = new]
Lapse(over) == /\ lapsed' = [k \in Kinds |-> IF k \in over THEN lapsed[k] + 1 ELSE lapsed[k]]
               /\ \A k \in Kinds : lapsed'[k] <= MaxLapsed
OnlySentry == UNCHANGED <<report, admin, logged, skewed>> /\ WalletUnchanged
HttpError(s) == /\ sentry[s].errors < MaxErrors
                /\ SetSentry(s, [sentry[s] EXCEPT !.errors = @ + 1]) /\ Lapse({}) /\ OnlySentry
WindowPasses(s) == /\ sentry[s].errors > 0
                   /\ SetSentry(s, [sentry[s] EXCEPT !.errors = @ - 1]) /\ Lapse({}) /\ OnlySentry
CooldownEnds(s, k) == /\ k \in sentry[s].cooling
                      /\ SetSentry(s, [sentry[s] EXCEPT !.cooling = @ \ {k}]) /\ Lapse({k}) /\ OnlySentry
Reboot(s) == /\ sentry[s] # Booted
             /\ SetSentry(s, Booted) /\ Lapse(sentry[s].cooling) /\ OnlySentry

(* A pass ends, and may have taken longer than the stall limit; then the   *)
(* signals are looked at, once.  An error inside sweep_once is caught      *)
(* there, logged and rolled back, and run_sweeper records a success; only  *)
(* what escapes it (the session that cannot be rolled back or closed)      *)
(* counts.                                                                 *)
StillFailing(s) == sentry[s].failures \* mutant
AfterSuccess(s) == 0
OneMore(n) == IF n < Failures THEN n + 1 ELSE n
Sweep(s, ends, long) ==
  /\ sentry[s].pass = "between"
  /\ SetSentry(s, [sentry[s] EXCEPT
       !.failures = IF ends = "raises" THEN OneMore(@) ELSE AfterSuccess(s),
       !.failing = IF ends = "well" THEN 0 ELSE OneMore(@),
       !.pass = IF long THEN "stalled" ELSE "swept"])
  /\ Lapse({}) /\ OnlySentry
Signals(s) ==
  {k \in Kinds : CASE k = "error_rate_spike" -> sentry[s].errors = MaxErrors
                   [] k = "sweeper_stall" -> sentry[s].pass = "stalled"
                   [] OTHER -> sentry[s].failures >= Failures}
EverySignal(s) == Signals(s) \* mutant
DueAlerts(s) == Signals(s) \ sentry[s].cooling
(* The cooldown starts before the row is written and stays if that fails;  *)
(* an error other than the database's ends the look at that signal.        *)
FireAlerts(s, last, written) ==
  LET tried == DueAlerts(s) \cap {Looks[i] : i \in 1..last} IN
  /\ sentry[s].pass # "between"
  /\ SetSentry(s, [sentry[s] EXCEPT !.pass = "between", !.cooling = @ \cup tried])
  /\ written \subseteq tried
  /\ \E rows \in [written -> Reports \ Raised] :
       /\ \A j, k \in written : rows[j] = rows[k] => j = k
       /\ report' = [r \in Reports |->
            IF \E k \in written : rows[k] = r
            THEN LET k == CHOOSE k \in written : rows[k] = r
                 IN [kind |-> k, resolved |-> FALSE,
                     cause |-> IF k = "sweeper_consecutive_errors" THEN sentry[s].failing ELSE Failures]
            ELSE report[r]]
  /\ Cardinality({r \in Reports : report'[r] # NoReport}) <= MaxRaised
  /\ UNCHANGED <<lapsed, admin, logged, skewed>> /\ WalletUnchanged

(* Resolving: read, write, and log in a second transaction.                *)
OnlyDesk == UNCHANGED <<sentry, lapsed>> /\ WalletUnchanged
OpenReport(a, r) ==
  /\ r \in Raised /\ ~report[r].resolved /\ admin[a] = NoAdmin
  /\ admin' = [admin EXCEPT ![a] = [doing |-> "resolve", of |-> r]]
  /\ UNCHANGED <<report, logged, skewed>> /\ OnlyDesk
ResolveReport(a) ==
  /\ admin[a].doing = "resolve"
  /\ LET r == admin[a].of IN
       /\ report' = [report EXCEPT ![r].resolved = TRUE]
       /\ admin' = [admin EXCEPT ![a] = [doing |-> "log"]]
       /\ logged' = [logged EXCEPT !.resolved = @ + 1]
       /\ Skew(report[r].resolved)
  /\ OnlyDesk
LogResolution(a) ==
  /\ admin[a].doing = "log" /\ admin' = [admin EXCEPT ![a] = NoAdmin]
  /\ logged' = [logged EXCEPT !.entries = @ + 1]
  /\ UNCHANGED <<report, skewed>> /\ OnlyDesk

(* The balance: create_task holds the user's lock and gives the alert in   *)
(* its own transaction; the other charges (a batch, a rerun, a step of a   *)
(* pipeline, a template, a withdrawal) give none.  Credits that come back  *)
(* do not reset the flag: nothing calls reset_credit_alert_if_recovered.   *)
OnlyWallet == UNCHANGED <<sentry, report, lapsed, admin, logged>>
Low(credits) == wallet.threshold # 0 /\ credits < wallet.threshold
FiresAgain(left) == Low(left) \* mutant
Fires(left) == Low(left) /\ ~wallet.fired
CreateTask ==
  LET left == wallet.credits - 1 IN
  /\ wallet.credits > 0
  /\ wallet' = [wallet EXCEPT !.credits = left, !.fired = @ \/ Fires(left)]
  /\ since' = [since EXCEPT !.low = IF Low(left) THEN 1 ELSE @,
                            !.alerts = IF Fires(left) THEN @ + 1 ELSE @]
  /\ UNCHANGED <<setting, skewed>> /\ OnlyWallet
ChargeUntold == /\ wallet.credits > 0 /\ wallet' = [wallet EXCEPT !.credits = @ - 1]
                /\ UNCHANGED <<setting, since, skewed>> /\ OnlyWallet
TopUp == /\ wallet.credits < MaxBalance /\ wallet' = [wallet EXCEPT !.credits = @ + 1]
         /\ UNCHANGED <<setting, since, skewed>> /\ OnlyWallet

(* The flag is written only if the copy that was read has it set.          *)
ReadSetting(q, to) ==
  /\ ~setting[q].set
  /\ setting' = [setting EXCEPT ![q] = [to |-> to, set |-> TRUE,
                   seen |-> [threshold |-> wallet.threshold, fired |-> wallet.fired]]]
  /\ UNCHANGED <<wallet, since, skewed>> /\ OnlyWallet
SetThreshold(q) ==
  /\ setting[q].set /\ since.settings < MaxSettings
  /\ LET seen == setting[q].seen IN
       /\ wallet' = [wallet EXCEPT !.threshold = IF setting[q].to = seen.threshold THEN @ ELSE setting[q].to,
                                   !.fired = @ /\ ~seen.fired]
       /\ Skew(seen # [threshold |-> wallet.threshold, fired |-> wallet.fired])
  /\ setting' = [setting EXCEPT ![q] = NoSetting]
  /\ since' = [low |-> 0, alerts |-> 0, settings |-> since.settings + 1]
  /\ OnlyWallet

SentryNext ==
  \/ \E s \in Sentries :
       \/ HttpError(s) \/ WindowPasses(s) \/ Reboot(s)
       \/ \E k \in Kinds : CooldownEnds(s, k)
       \/ \E ends \in {"well", "caught", "raises"}, long \in BOOLEAN : Sweep(s, ends, long)
       \/ \E last \in 1..3, written \in SUBSET Kinds : FireAlerts(s, last, written)
  \/ \E a \in Admins : ResolveReport(a) \/ LogResolution(a) \/ \E r \in Reports : OpenReport(a, r)
WalletNext == \/ CreateTask \/ ChargeUntold \/ TopUp
              \/ \E q \in Settings : SetThreshold(q) \/ \E to \in Thresholds : ReadSetting(q, to)
MonitorsNext == SentryNext \/ WalletNext
MonitorsSpec == MonitorsInit /\ [][MonitorsNext]_monitorVars

-----------------------------------------------------------------------------
AlertsOf(k) == {r \in Reports : report[r].kind = k}
Cooling(k) == {s \in Sentries : k \in sentry[s].cooling}

(* Whatever restarts and fails to be written, the alerts of a kind are no  *)
(* more than its cooldowns that run, ended or were forgotten: a replica    *)
(* gives one in each.  One of failing sweeps stands for three in a row     *)
(* that failed.  A resolution is logged at most once and only if it        *)
(* happened.  After a threshold is set, the user is told at most once,     *)
(* and exactly once when a task created left less, unless a task created   *)
(* and the setting overlapped.                                             *)
MonitorsKept ==
  /\ \A k \in Kinds : Cardinality(AlertsOf(k)) <= Cardinality(Cooling(k)) + lapsed[k]
  /\ \A r \in Raised : report[r].cause >= Failures
  /\ logged.entries <= logged.resolved /\ logged.resolved <= Cardinality({r \in Raised : report[r].resolved}) + skewed
  /\ since.alerts <= 1
  /\ skewed = 0 => since.alerts = since.low

(* Said of the code, and not so.  The alert fires 'the first time the      *)
(* user's balance drops below the threshold' (users.py:238, and            *)
(* credit_alerts.py:3, 'after any credit deduction'): after most charges   *)
(* nobody looks whether it did.  'Consecutive sweeper errors' fire an      *)
(* alert (system_alerts.py:6): those that sweep_once catches reset the     *)
(* count instead.                                                          *)
LowBalanceTold == [][wallet'.credits < wallet.credits /\ Low(wallet'.credits) => wallet'.fired]_wallet
ErrorsCounted == \A s \in Sentries : sentry[s].failing >= Failures => sentry[s].failures >= Failures
=============================================================================
