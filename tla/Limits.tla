------------------------------ MODULE Limits ------------------------------
(* The per-key request limits of core/api_key_rate_limit.py, as core/auth  *)
(* applies them to every call made with an API key, and the cap on a       *)
(* user's pipelines of core/quotas.py.  One key, each call made once; a    *)
(* counter ("bucket") per minute and per day; the upsert of a bucket locks *)
(* its row until the call commits.  Minutes are counted from 0 and a day   *)
(* has MinutesPerDay.  A limit of None (unlimited) is a limit larger than  *)
(* the number of calls.                                                    *)
EXTENDS Integers, FiniteSets

CONSTANTS Calls, RpmLimits, DailyLimit, MinutesPerDay, LastMinute,
          Makers, MaxPipelines, Cap,
          MaxOverlaps  \* bounds pipelines created after another one's count

ASSUME LimitsAssumption ==
  /\ RpmLimits \subseteq Nat /\ RpmLimits # {}
  /\ DailyLimit \in Nat /\ LastMinute \in Nat /\ MinutesPerDay \in Nat \ {0}
  /\ MaxPipelines \in Nat /\ Cap \in Nat /\ MaxOverlaps \in Nat

VARIABLES
  minute,    \* the database's clock
  rpm,       \* the key's limit per minute: its own or its plan's
  bucket,    \* the rows, as written by the transactions in progress
  call,      \* the calls: where each is and what it has read
  passed,    \* history: the calls let through, by window
  strays,    \* history: the calls counted in a window later than their clock
  highest,   \* history: the highest limit applied in a window
  pipelines, \* the number of the user's pipelines
  maker,     \* requests that create a pipeline
  raced      \* history: pipelines created since another one's count was read

callVars == <<minute, rpm, bucket, call, passed, strays, highest>>
makerVars == <<pipelines, maker, raced>>
limitVars == <<callVars, makerVars>>

Minutes == {"rpm"} \X (0..LastMinute)
Days == {"daily"} \X (0..(LastMinute \div MinutesPerDay))
Windows == Minutes \cup Days
Today(kind, m) == IF kind = "rpm" THEN m ELSE m \div MinutesPerDay
Now(kind) == <<kind, Today(kind, minute)>>

NoBucket == [count |-> 0, reset |-> LastMinute + 2]
Out == [at |-> "out"]
Over == [at |-> "over"]
Before(c, k) == call[c].row[k]      \* the row as it was when c first wrote it
Holds(c) == IF call[c].at \in {"minute", "day"} THEN DOMAIN call[c].row ELSE {}
Locked(k) == \E c \in Calls : k \in Holds(c)

LimitsTypeOK ==
  /\ minute \in 0..LastMinute /\ rpm \in RpmLimits
  /\ bucket \in [Windows -> [count : Nat, reset : Nat]]
  /\ \A c \in Calls : Holds(c) \subseteq Windows
  /\ passed \in [Windows -> Nat] /\ strays \in [Windows -> Nat]
  /\ pipelines \in 0..MaxPipelines /\ raced \in 0..MaxOverlaps

LimitsInit ==
  /\ minute = 0 /\ rpm \in RpmLimits
  /\ bucket = [k \in Windows |-> NoBucket]
  /\ call = [c \in Calls |-> Out]
  /\ passed = [k \in Windows |-> 0] /\ strays = [k \in Windows |-> 0]
  /\ highest = [k \in Windows |-> 0]
  /\ pipelines = 0 /\ maker = [m \in Makers |-> Out] /\ raced = 0

Tick == minute < LastMinute /\ minute' = minute + 1
        /\ UNCHANGED <<rpm, bucket, call, passed, strays, highest, makerVars>>

SetLimit(n) == n \in RpmLimits \ {rpm} /\ rpm' = n
               /\ UNCHANGED <<minute, bucket, call, passed, strays, highest, makerVars>>

(* The first query fixes NOW() for the transaction and loads the key.      *)
Authenticate(c) ==
  /\ call[c].at = "out"
  /\ call' = [call EXCEPT ![c] = [at |-> "in", began |-> minute, limit |-> rpm]]
  /\ UNCHANGED <<minute, rpm, bucket, passed, strays, highest, makerVars>>

(* The process's own clock, from which the end of both windows is computed. *)
ReadClock(c) ==
  /\ call[c].at = "in"
  /\ call' = [call EXCEPT ![c] = [at |-> "clock", began |-> @.began, limit |-> @.limit,
                                  now |-> minute, row |-> <<>>]]
  /\ UNCHANGED <<minute, rpm, bucket, passed, strays, highest, makerVars>>

Expired(k, c) == bucket[k].reset <= Today(k[1], call[c].began)
Counted(k, c) == IF Expired(k, c) THEN 1 ELSE bucket[k].count + 1
ExceedsByOne(n, limit) == n > limit + 1 \* mutant
Exceeds(n, limit) == n > limit

(* The upsert of one bucket, and the check of what it returned.  A call    *)
(* above a limit is answered 429 and everything it wrote is rolled back.   *)
Undo(c) == [k \in Windows |-> IF k \in Holds(c) THEN Before(c, k) ELSE bucket[k]]
Increment(c, k, limit, at) ==
  LET n == Counted(k, c) IN
  /\ ~Locked(k)
  /\ IF Exceeds(n, limit)
     THEN /\ bucket' = Undo(c) /\ call' = [call EXCEPT ![c] = Over]
          /\ UNCHANGED <<strays, highest>>
     ELSE /\ bucket' = [bucket EXCEPT ![k] = [count |-> n,
                                              reset |-> Today(k[1], call[c].now) + 1]]
          /\ call' = [call EXCEPT ![c].at = at, ![c].row =
                        [w \in Holds(c) \cup {k} |-> IF w = k THEN bucket[k] ELSE Before(c, w)]]
          /\ strays' = [strays EXCEPT ![k] = @ + IF Today(k[1], call[c].now) < k[2] THEN 1 ELSE 0]
          /\ highest' = [highest EXCEPT ![k] = IF limit > @ THEN limit ELSE @]
  /\ UNCHANGED <<minute, rpm, passed, makerVars>>

CountMinute(c) == call[c].at = "clock" /\ Increment(c, Now("rpm"), call[c].limit, "minute")
CountDay(c) == call[c].at = "minute" /\ Increment(c, Now("daily"), DailyLimit, "day")

(* last_used_at is written and everything is committed; the call goes on.  *)
LetThrough(c) ==
  /\ call[c].at = "day"
  /\ passed' = [k \in Windows |-> passed[k] + IF k \in Holds(c) THEN 1 ELSE 0]
  /\ call' = [call EXCEPT ![c] = Over]
  /\ UNCHANGED <<minute, rpm, bucket, strays, highest, makerVars>>

CallDies(c) ==
  /\ call[c].at \in {"clock", "minute", "day"}
  /\ bucket' = Undo(c) /\ call' = [call EXCEPT ![c] = Over]
  /\ UNCHANGED <<minute, rpm, passed, strays, highest, makerVars>>

-----------------------------------------------------------------------------
(* create_pipeline counts the user's pipelines, then inserts one more.     *)
UnderPlan(n) == n < Cap
CountPipelines(m) ==
  /\ maker[m].at = "out" /\ UnderPlan(pipelines)
  /\ maker' = [maker EXCEPT ![m] = [at |-> "counted", others |-> FALSE]]
  /\ UNCHANGED <<pipelines, raced, callVars>>

CreatePipeline(m) ==
  /\ maker[m].at = "counted" /\ pipelines < MaxPipelines
  /\ maker[m].others => raced < MaxOverlaps
  /\ pipelines' = pipelines + 1
  /\ raced' = raced + IF maker[m].others THEN 1 ELSE 0
  /\ maker' = [o \in Makers |->
                IF o = m THEN Out
                ELSE IF maker[o].at = "counted" THEN [maker[o] EXCEPT !.others = TRUE] ELSE maker[o]]
  /\ UNCHANGED callVars

DeletePipeline ==
  /\ pipelines > 0 /\ pipelines' = pipelines - 1
  /\ UNCHANGED <<maker, raced, callVars>>

CallNext ==
  \/ Tick
  \/ \E n \in RpmLimits : SetLimit(n)
  \/ \E c \in Calls : \/ Authenticate(c) \/ ReadClock(c) \/ CountMinute(c)
                      \/ CountDay(c) \/ LetThrough(c) \/ CallDies(c)
MakerNext ==
  \/ \E m \in Makers : CountPipelines(m) \/ CreatePipeline(m)
  \/ DeletePipeline
LimitsNext == CallNext \/ MakerNext

LimitsSpec == LimitsInit /\ [][LimitsNext]_limitVars

-----------------------------------------------------------------------------
(* A window lets through no more calls than the highest limit applied in   *)
(* it, and its counter is exact, whatever calls overlap, are refused or    *)
(* die.  The exception is a call whose clock was read in the window before *)
(* (api_key_rate_limit.py:116): it ends the new window's bucket at once    *)
(* and the next call starts counting again.  Likewise the user has at most *)
(* Cap pipelines and one more for each that was created after a count.     *)
LimitOf(k) == IF k[1] = "rpm" THEN highest[k] ELSE DailyLimit
RateKept ==
  /\ \A k \in Windows :
       /\ passed[k] <= LimitOf(k) * (1 + strays[k])
       /\ strays[k] = 0 => bucket[k].count = passed[k] + Cardinality({c \in Calls : k \in Holds(c)})
  /\ pipelines <= Cap + raced
=============================================================================
