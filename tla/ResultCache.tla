---------------------------- MODULE ResultCache ----------------------------
(* The cache of AI results for one task type and input (core/              *)
(* result_cache.py): looked up before a run (_run_task), stored by a       *)
(* coroutine of its own after it, flushed by an admin (routers/admin.py).  *)
(* Each of them reads the row and writes it later, by its key.             *)
EXTENDS Integers

CONSTANTS
  Callers,              \* lookups and stores that may be under way at once
  MaxRows, MaxResults,  \* rows ever inserted; results ever computed
  MaxHits, MaxRaces

ASSUME CacheAssumption == {MaxRows, MaxResults, MaxHits, MaxRaces} \subseteq Nat

VARIABLES
  cached,    \* the row of task_result_cache
  caller,    \* lookups and stores and the row they read
  computed,  \* results computed so far
  refreshed, \* history: the last result that a store committed
  served,    \* history: hits, results served, lookups that failed
  races      \* history: writes decided on a row that had changed

cacheVars == <<cached, caller, computed, refreshed, served, races>>

NoRow == [id |-> 0, output |-> 0, fresh |-> FALSE, hits |-> 0]
NoCaller == [for |-> "nothing"]
There(row) == row # NoRow

CacheTypeOK ==
  /\ cached.output \in 0..computed /\ computed \in 0..MaxResults
  /\ served.hits \in 0..MaxHits /\ races \in 0..MaxRaces

CacheInit ==
  /\ cached = NoRow /\ caller = [c \in Callers |-> NoCaller] /\ computed = 0
  /\ refreshed = [output |-> 0, rows |-> 0] /\ races = 0
  /\ served = [hits |-> 0, outputs |-> {}, failed |-> 0]

Asks(c, what) == caller[c].for = what
Ask(c, request) == caller[c] = NoCaller /\ caller' = [caller EXCEPT ![c] = request]
Hang(c) == caller' = [caller EXCEPT ![c] = NoCaller]
Race(changed) == races' = (IF changed THEN races + 1 ELSE races) /\ races' <= MaxRaces

(* A lookup finds nothing, an expired row, which it deletes, or a result.  *)
Lookup(c) == /\ There(cached) /\ Ask(c, [for |-> "result", seen |-> cached])
             /\ UNCHANGED <<cached, computed, refreshed, served, races>>
Same(c) == cached.id = caller[c].seen.id
NeverExpired(row) == FALSE \* mutant
Expired(row) == ~row.fresh
DropExpired(c) ==
  /\ Asks(c, "result") /\ Expired(caller[c].seen) /\ Hang(c)
  /\ cached' = IF Same(c) THEN NoRow ELSE cached
  /\ Race(Same(c) /\ cached # caller[c].seen)
  /\ UNCHANGED <<computed, refreshed, served>>
Hit(c) ==
  /\ Asks(c, "result") /\ ~Expired(caller[c].seen) /\ Hang(c) /\ Same(c)
  /\ served.hits < MaxHits
  /\ cached' = [cached EXCEPT !.hits = caller[c].seen.hits + 1]
  /\ served' = [served EXCEPT !.hits = @ + 1, !.outputs = @ \cup {[output |-> caller[c].seen.output,
                                                                  fresh |-> caller[c].seen.fresh]}]
  /\ Race(cached # caller[c].seen)
  /\ UNCHANGED <<computed, refreshed>>

(* The row is gone when its hits are counted: the rollback expires what    *)
(* was loaded, and the lookup raises on the next access to it.             *)
Miscount(c) ==
  /\ Asks(c, "result") /\ ~Expired(caller[c].seen) /\ Hang(c) /\ ~Same(c)
  /\ served' = [served EXCEPT !.failed = @ + 1] /\ served'.failed <= MaxRaces
  /\ UNCHANGED <<cached, computed, refreshed, races>>

(* A result is stored over the row that the store read, or inserted; if    *)
(* that row is gone, or another was inserted, the result is dropped.       *)
Compute(c) ==
  /\ computed < MaxResults /\ computed' = computed + 1
  /\ Ask(c, [for |-> "store", seen |-> cached, output |-> computed + 1])
  /\ UNCHANGED <<cached, refreshed, served, races>>
Store(c) ==
  /\ Asks(c, "store") /\ Hang(c)
  /\ LET new == ~There(caller[c].seen) IN
     IF ~Same(c) THEN UNCHANGED <<cached, refreshed>>
     ELSE /\ new => refreshed.rows < MaxRows
          /\ refreshed' = [output |-> caller[c].output, rows |-> IF new THEN refreshed.rows + 1 ELSE refreshed.rows]
          /\ cached' = IF new THEN [id |-> refreshed'.rows, output |-> caller[c].output, fresh |-> TRUE, hits |-> 0]
                       ELSE [cached EXCEPT !.output = caller[c].output, !.fresh = TRUE]
  /\ UNCHANGED <<computed, served, races>>
CallerDies(c) == /\ caller[c] # NoCaller /\ Hang(c)
                 /\ UNCHANGED <<cached, computed, refreshed, served, races>>

Expire == /\ There(cached) /\ cached.fresh /\ cached' = [cached EXCEPT !.fresh = FALSE]
          /\ UNCHANGED <<caller, computed, refreshed, served, races>>
FlushCache(expiredOnly) ==
  /\ There(cached) /\ (expiredOnly => ~cached.fresh) /\ cached' = NoRow
  /\ UNCHANGED <<caller, computed, refreshed, served, races>>

CacheNext ==
  \/ \E c \in Callers : \/ Lookup(c) \/ DropExpired(c) \/ Hit(c) \/ Miscount(c)
                        \/ Compute(c) \/ Store(c) \/ CallerDies(c)
  \/ Expire \/ \E expiredOnly \in BOOLEAN : FlushCache(expiredOnly)
CacheSpec == CacheInit /\ [][CacheNext]_cacheVars

-----------------------------------------------------------------------------
(* A result that is served was computed and had not expired when it was    *)
(* looked up.  The row holds the last result that was stored, and counts   *)
(* no hit that was not one.  A lookup whose row is flushed under it fails, *)
(* so it fails only after rows were removed.                               *)
CacheKept ==
  /\ \A o \in served.outputs : o.fresh /\ o.output \in 1..computed
  /\ There(cached) => cached.output = refreshed.output /\ cached.hits <= served.hits
  /\ There(cached) /\ refreshed.rows = 1 /\ races = 0 => served.failed = 0 /\ cached.hits = served.hits
=============================================================================
