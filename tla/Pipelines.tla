------------------------------ MODULE Pipelines ------------------------------
(***************************************************************************)
(* Runs of a pipeline.  An executor is a coroutine in the memory of the    *)
(* API process with a database session of its own: it walks the steps,     *)
(* pays for the AI ones, and ends when it has opened the task of a human   *)
(* one.  The completion of that task, in the session of some other         *)
(* request, starts the next executor of the run.  A session that writes a  *)
(* value it believes to be there already writes nothing.                   *)
(***************************************************************************)
EXTENDS Naturals, Sequences, FiniteSets, FiniteSetsExt

CONSTANTS Runs,         \* ids of runs, the retries among them
          Fresh,        \* the ids for runs that retry no other
          Definitions,  \* the pipelines' step lists
          Execs,        \* bounds the executors alive at a time
          Tasks,        \* bounds the tasks of human steps
          MaxExtra,     \* bounds the repeated completions of human steps
          MaxFaults     \* bounds restarts and failed executors

(* After a success or a skip comes the step "onPass", after a failure      *)
(* "onFail".  Steps count from 1; None means the next step for the former  *)
(* and the failure of the run for the latter.                              *)
None == 0
StepDef == [human: BOOLEAN, conditional: BOOLEAN, onPass: Nat, onFail: Nat, retries: Nat]

ASSUME DefinitionsAssumption == Definitions \subseteq Seq(StepDef) \ {<<>>}
NoRun == "no_run"
ASSUME IdsAssumption ==
  /\ Fresh \subseteq Runs /\ NoRun \notin Runs
  /\ Execs \subseteq Nat /\ IsFiniteSet(Execs)
  /\ Tasks \subseteq Nat \ {None} /\ IsFiniteSet(Tasks)
ASSUME BoundsAssumption == MaxExtra \in Nat /\ MaxFaults \in Nat

VARIABLES def,      \* the step list of the run
          origin,   \* who started it
          run,      \* task_pipeline_runs.status
          step,     \* task_pipeline_step_runs.status
          link,     \* task_pipeline_step_runs.task_id
          parent,   \* the run that this one retries
          task,     \* the human steps' tasks
          due,      \* completions committed whose resumption is still to be called
          exec,     \* the executors
          leaving,  \* cancel requests that have read the run
          charged,  \* charges of each step
          late,     \* charges of a step when its run had ended
          extra,    \* repeated completions of the run's human steps
          faults

runVars == <<def, origin, parent>>
vars == <<def, origin, run, step, link, parent, task, due, exec, leaving, charged, late, extra, faults>>

RunStatus == {"none", "uncommitted", "running", "completed", "failed", "cancelled"}
StepStatus == {"pending", "running", "retrying", "completed", "failed", "skipped"}
Ended == {"completed", "failed", "cancelled"}
Done == {"completed", "skipped"}
Idle == [run |-> NoRun, phase |-> "idle", at |-> 0, visited |-> {}, seen |-> "none",
         mine |-> <<>>, tries |-> 0]

Steps(r) == DOMAIN def[r]
Live(r) == {e \in Execs : exec[e].run = r}
Linked(r) == {link[r][i] : i \in Steps(r)} \ {None}
AfterNextTwo(r, i) == IF def[r][i].onPass = None THEN i + 2 ELSE def[r][i].onPass \* mutant

After(r, i) == IF def[r][i].onPass = None THEN i + 1 ELSE def[r][i].onPass

Init == /\ def = [r \in Runs |-> <<>>]
        /\ origin = [r \in Runs |-> "none"]
        /\ run = [r \in Runs |-> "none"]
        /\ step = [r \in Runs |-> <<>>]
        /\ link = [r \in Runs |-> <<>>]
        /\ parent = [r \in Runs |-> NoRun]
        /\ task = [t \in Tasks |-> "none"]
        /\ due = [t \in Tasks |-> 0]
        /\ exec = [e \in Execs |-> Idle]
        /\ leaving = [r \in Runs |-> FALSE]
        /\ charged = [r \in Runs |-> <<>>]
        /\ late = [r \in Runs |-> <<>>]
        /\ extra = [r \in Runs |-> 0]
        /\ faults = 0

---------------------------------------------------------------------------
(* Starting a run *)

Free(e) == exec[e] = Idle /\ \A f \in Execs : f < e => exec[f] # Idle
Spawn(e, r, at) == exec' = [exec EXCEPT ![e] = [Idle EXCEPT !.run = r, !.phase = "starting", !.at = at]]

NewRun(r, d, how, from, status, steps) ==
  /\ run[r] = "none"
  /\ def' = [def EXCEPT ![r] = d]
  /\ origin' = [origin EXCEPT ![r] = how]
  /\ parent' = [parent EXCEPT ![r] = from]
  /\ run' = [run EXCEPT ![r] = status]
  /\ step' = [step EXCEPT ![r] = steps]
  /\ link' = [link EXCEPT ![r] = [i \in DOMAIN d |-> None]]
  /\ charged' = [charged EXCEPT ![r] = [i \in DOMAIN d |-> 0]]
  /\ late' = [late EXCEPT ![r] = [i \in DOMAIN d |-> 0]]
  /\ UNCHANGED <<task, due, leaving, extra, faults>>

Pending(d) == [i \in DOMAIN d |-> "pending"]

(* The owner's request commits the run, then hands it to an executor.      *)
StartRun(r, d, e) == /\ r \in Fresh
                     /\ Free(e)
                     /\ NewRun(r, d, "owner", NoRun, "running", Pending(d))
                     /\ Spawn(e, r, 1)

(* A trigger starts the executor first; its caller commits later, a        *)
(* schedule after all the triggers of the sweep.                           *)
FireTrigger(r, d, e) == /\ r \in Fresh
                        /\ Free(e)
                        /\ NewRun(r, d, "trigger", NoRun, "uncommitted", Pending(d))
                        /\ Spawn(e, r, 1)

CommitTrigger(r) == /\ run[r] = "uncommitted"
                    /\ run' = [run EXCEPT ![r] = "running"]
                    /\ UNCHANGED <<runVars, step, link, task, due, exec, leaving, charged, late, extra, faults>>

ResumeFromLast(r) == Max({1} \cup {i \in Steps(r) : \A j \in 1..i : step[r][j] \in Done}) \* mutant

(* The first step that was neither completed nor skipped. *)
ResumeFrom(r) == 1 + Max({0} \cup {i \in Steps(r) : \A j \in 1..i : step[r][j] \in Done})

(* Retry copies what the old run finished into a new run. *)
Retry(r, n, e) ==
  /\ run[r] \in {"failed", "cancelled"}
  /\ n \notin Fresh
  /\ Free(e)
  /\ NewRun(n, def[r], "owner", r, "running",
            [i \in Steps(r) |-> IF i < ResumeFrom(r) THEN step[r][i] ELSE "pending"])
  /\ Spawn(e, n, ResumeFrom(r))

(* Cancel reads the run without a lock and writes it when it commits. *)
ReadToCancel(r) == /\ run[r] = "running"
                   /\ ~leaving[r]
                   /\ leaving' = [leaving EXCEPT ![r] = TRUE]
                   /\ UNCHANGED <<runVars, run, step, link, task, due, exec, charged, late, extra, faults>>

Cancel(r) == /\ leaving[r]
             /\ leaving' = [leaving EXCEPT ![r] = FALSE]
             /\ run' = [run EXCEPT ![r] = "cancelled"]
             /\ UNCHANGED <<runVars, step, link, task, due, exec, charged, late, extra, faults>>

---------------------------------------------------------------------------
(* The executor *)

Ends(e) == exec' = [exec EXCEPT ![e] = Idle]

(* A session flushes the columns that differ from what it last saw. *)
WriteRun(e, v) == IF exec[e].seen = v THEN run' = run ELSE run' = [run EXCEPT ![exec[e].run] = v]
WriteStep(e, i, v) == IF exec[e].mine[i] = v THEN step' = step
                                             ELSE step' = [step EXCEPT ![exec[e].run][i] = v]
Moved(e, i, v, at) == [exec[e] EXCEPT !.phase = "walking", !.at = at, !.mine[i] = v, !.tries = 0]

Cursor(e, r, i) == r = exec[e].run /\ i = exec[e].at
Visible(r) == run[r] \notin {"none", "uncommitted"}

(* The executor leaves alone a run it does not find, or that has ended. *)
Start(e) == /\ exec[e].phase = "starting"
            /\ LET r == exec[e].run IN
                 IF Visible(r) /\ run[r] \notin Ended
                 THEN exec' = [exec EXCEPT ![e].phase = "walking", ![e].seen = run[r], ![e].mine = step[r]]
                 ELSE Ends(e)
            /\ UNCHANGED <<runVars, run, step, link, task, due, leaving, charged, late, extra, faults>>

Walking(e) == exec[e].phase = "walking"
AtStep(e) == Walking(e) /\ exec[e].at \in Steps(exec[e].run)
SeenBefore(e) == exec[e].at \in exec[e].visited
Unvisited(e) == AtStep(e) /\ ~SeenBefore(e)

DetectLoop(e) == /\ AtStep(e) /\ SeenBefore(e)
                 /\ WriteRun(e, "failed")
                 /\ Ends(e)
                 /\ UNCHANGED <<runVars, step, link, task, due, leaving, charged, late, extra, faults>>

(* Before each step the run is read again, and only "cancelled" ends it.   *)
StopsFor(s) == s = "cancelled"
StopCancelled(e) == /\ Unvisited(e)
                    /\ StopsFor(run[exec[e].run])
                    /\ Ends(e)
                    /\ UNCHANGED <<runVars, run, step, link, task, due, leaving, charged, late, extra, faults>>

Refreshed(e) == /\ Unvisited(e)
                /\ ~StopsFor(run[exec[e].run])

Entered(e, x) == [x EXCEPT !.visited = @ \cup {exec[e].at}, !.seen = run[exec[e].run]]

SkipStep(e) == \E r \in Runs, i \in 1..exec[e].at :
  /\ Cursor(e, r, i)
  /\ Refreshed(e)
  /\ def[r][i].conditional
  /\ WriteStep(e, i, "skipped")
  /\ exec' = [exec EXCEPT ![e] = Entered(e, Moved(e, i, "skipped", After(r, i)))]
  /\ UNCHANGED <<runVars, run, link, task, due, leaving, charged, late, extra, faults>>

BeginStep(e) == \E r \in Runs, i \in 1..exec[e].at :
  /\ Cursor(e, r, i)
  /\ Refreshed(e)
  /\ WriteStep(e, i, "running")
  /\ exec' = [exec EXCEPT ![e] = [Entered(e, @) EXCEPT !.mine[i] = "running",
                                    !.phase = IF def[r][i].human THEN "opening" ELSE "working"]]
  /\ UNCHANGED <<runVars, run, link, task, due, leaving, charged, late, extra, faults>>

(* The output, the AI task's row and its charge are one commit. *)
Pays(r, i) == /\ charged' = [charged EXCEPT ![r][i] = @ + 1]
              /\ late' = [late EXCEPT ![r][i] = IF run[r] \in Ended THEN @ + 1 ELSE @]

StepSucceedsNoBreak(e) == \E r \in Runs, i \in 1..exec[e].at : \* mutant
  /\ Cursor(e, r, i)
  /\ exec[e].phase = "working"
  /\ Pays(r, i)
  /\ WriteStep(e, i, "completed")
  /\ exec' = [exec EXCEPT ![e] = IF exec[e].tries < def[r][i].retries THEN [@ EXCEPT !.tries = @ + 1]
                                 ELSE Moved(e, i, "completed", After(r, i))]
  /\ UNCHANGED <<runVars, run, link, task, due, leaving, extra, faults>>

StepSucceeds(e) == \E r \in Runs, i \in 1..exec[e].at :
  /\ Cursor(e, r, i)
  /\ exec[e].phase = "working"
  /\ Pays(r, i)
  /\ WriteStep(e, i, "completed")
  /\ exec' = [exec EXCEPT ![e] = Moved(e, i, "completed", After(r, i))]
  /\ UNCHANGED <<runVars, run, link, task, due, leaving, extra, faults>>

RetryStep(e) == \E r \in Runs, i \in 1..exec[e].at :
  /\ Cursor(e, r, i)
  /\ exec[e].phase = "working"
  /\ exec[e].tries < def[r][i].retries
  /\ WriteStep(e, i, "retrying")
  /\ exec' = [exec EXCEPT ![e].tries = @ + 1, ![e].mine[i] = "retrying"]
  /\ UNCHANGED <<runVars, run, link, task, due, leaving, charged, late, extra, faults>>

(* The last attempt failed, or the owner's credits do not cover the step. *)
StepFails(e) == \E r \in Runs, i \in 1..exec[e].at :
  /\ Cursor(e, r, i)
  /\ exec[e].phase = "working"
  /\ WriteStep(e, i, "failed")
  /\ IF def[r][i].onFail = None
     THEN WriteRun(e, "failed") /\ Ends(e)
     ELSE run' = run /\ exec' = [exec EXCEPT ![e] = Moved(e, i, "failed", def[r][i].onFail)]
  /\ UNCHANGED <<runVars, link, task, due, leaving, charged, late, extra, faults>>

OpenTaskAndGoOn(e) == \E r \in Runs, i \in 1..exec[e].at, t \in Tasks : \* mutant
  /\ Cursor(e, r, i)
  /\ exec[e].phase = "opening"
  /\ task[t] = "none"
  /\ task' = [task EXCEPT ![t] = "open"]
  /\ link' = [link EXCEPT ![r][i] = t]
  /\ exec' = [exec EXCEPT ![e] = Moved(e, i, "running", After(r, i))]
  /\ UNCHANGED <<runVars, run, step, due, leaving, charged, late, extra, faults>>

(* The human step's task is opened and linked, and the executor is done. *)
OpenTask(e) == \E r \in Runs, i \in 1..exec[e].at, t \in Tasks :
  /\ Cursor(e, r, i)
  /\ exec[e].phase = "opening"
  /\ task[t] = "none" /\ \A u \in Tasks : u < t => task[u] # "none"
  /\ task' = [task EXCEPT ![t] = "open"]
  /\ link' = [link EXCEPT ![r][i] = t]
  /\ Ends(e)
  /\ UNCHANGED <<runVars, run, step, due, leaving, charged, late, extra, faults>>

(* Past the last step the run is completed as it was last read. *)
Finish(e) == /\ Walking(e) /\ ~AtStep(e)
             /\ WriteRun(e, "completed")
             /\ Ends(e)
             /\ UNCHANGED <<runVars, step, link, task, due, leaving, charged, late, extra, faults>>

ExecutorStep(e) == \/ Start(e) \/ DetectLoop(e) \/ StopCancelled(e) \/ SkipStep(e) \/ BeginStep(e)
                   \/ StepSucceeds(e) \/ RetryStep(e) \/ StepFails(e) \/ OpenTask(e) \/ Finish(e)

---------------------------------------------------------------------------
(* Human steps *)

Owner(t) == {r \in Runs : t \in Linked(r)}
Extra(t) == extra' = [r \in Runs |-> IF r \in Owner(t) THEN extra[r] + 1 ELSE extra[r]]
Repeats(t) == /\ task[t] = "completed"
              /\ Owner(t) # {}
              /\ MapThenSumSet(LAMBDA r : extra[r], Runs) < MaxExtra
              /\ Extra(t)

CompleteTask(t) == /\ task[t] = "open"
                   /\ task' = [task EXCEPT ![t] = "completed"]
                   /\ due' = [due EXCEPT ![t] = @ + 1]
                   /\ UNCHANGED <<runVars, run, step, link, exec, leaving, charged, late, extra, faults>>

(* Approving a submission of a completed task, or deciding its dispute,    *)
(* resumes the run once more.                                              *)
ApproveTask(t) == /\ Repeats(t)
                  /\ due' = [due EXCEPT ![t] = @ + 1]
                  /\ UNCHANGED <<runVars, run, step, link, task, exec, leaving, charged, late, faults>>

(* A rejected submission opens the task again. *)
ReopenTask(t) == /\ Repeats(t)
                 /\ task' = [task EXCEPT ![t] = "open"]
                 /\ UNCHANGED <<runVars, run, step, link, due, exec, leaving, charged, late, faults>>

CancelTask(t) == /\ task[t] = "open"
                 /\ task' = [task EXCEPT ![t] = "cancelled"]
                 /\ UNCHANGED <<runVars, run, step, link, due, exec, leaving, charged, late, extra, faults>>

Called(t) == due[t] > 0 /\ due' = [due EXCEPT ![t] = @ - 1]

(* Another executor may have given the step run a newer task. *)
ResumeUnknown(t) == /\ Called(t)
                    /\ Owner(t) = {}
                    /\ UNCHANGED <<runVars, run, step, link, task, exec, leaving, charged, late, extra, faults>>

ResumablePaused(r) == run[r] = "paused" \* mutant
Resumable(r) == run[r] \notin Ended

Resume(t, e) == \E r \in Owner(t) : \E i \in Steps(r) :
  /\ Called(t)
  /\ link[r][i] = t
  /\ step' = [step EXCEPT ![r][i] = "completed"]
  /\ IF Resumable(r) THEN Free(e) /\ Spawn(e, r, After(r, i)) ELSE exec' = exec
  /\ UNCHANGED <<runVars, run, link, task, leaving, charged, late, extra, faults>>

---------------------------------------------------------------------------
(* Faults *)

Fault == faults < MaxFaults /\ faults' = faults + 1

(* A restart forgets the executors and the calls not yet made. *)
Crash == /\ Fault
         /\ exec' = [e \in Execs |-> Idle]
         /\ due' = [t \in Tasks |-> 0]
         /\ leaving' = [r \in Runs |-> FALSE]
         /\ run' = [r \in Runs |-> IF run[r] = "uncommitted" THEN "none" ELSE run[r]]
         /\ UNCHANGED <<runVars, step, link, task, charged, late, extra>>

(* An error outside the attempts fails the run, if that can still be       *)
(* written.                                                                *)
ExecutorErrs(e) == /\ Fault
                   /\ exec[e].phase \notin {"idle", "starting"}
                   /\ \/ WriteRun(e, "failed")
                      \/ run' = run
                   /\ Ends(e)
                   /\ UNCHANGED <<runVars, step, link, task, due, leaving, charged, late, extra>>

---------------------------------------------------------------------------
Owns(r) == \/ \E d \in Definitions, e \in Execs : StartRun(r, d, e) \/ FireTrigger(r, d, e)
           \/ CommitTrigger(r)
           \/ \E n \in Runs, e \in Execs : Retry(r, n, e)
           \/ ReadToCancel(r) \/ Cancel(r)
Human(t) == CompleteTask(t) \/ ApproveTask(t) \/ ReopenTask(t) \/ CancelTask(t)
Resumes(t) == ResumeUnknown(t) \/ \E e \in Execs : Resume(t, e)

Next == \/ \E r \in Runs : Owns(r)
        \/ \E e \in Execs : ExecutorStep(e) \/ ExecutorErrs(e)
        \/ \E t \in Tasks : Human(t) \/ Resumes(t)
        \/ Crash

Spec == Init /\ [][Next]_vars

(* The event loop keeps running some coroutine it holds.  That is less than *)
(* the loop grants, which starves none, and already enough.                *)
Coroutine == (\E e \in Execs : ExecutorStep(e)) \/ (\E t \in Tasks : Resumes(t))
Fairness == WF_vars(Coroutine)
LiveSpec == Spec /\ Fairness

---------------------------------------------------------------------------
(* Properties *)

(* Every variable keeps its type: runs, steps and links of one shape per   *)
(* definition, cursors and counters that are numbers.                      *)
TypeOK ==
  /\ def \in [Runs -> Definitions \cup {<<>>}]
  /\ origin \in [Runs -> {"none", "owner", "trigger"}]
  /\ parent \in [Runs -> Runs \cup {NoRun}]
  /\ run \in [Runs -> RunStatus]
  /\ DOMAIN step = Runs /\ DOMAIN link = Runs /\ DOMAIN charged = Runs /\ DOMAIN late = Runs
  /\ \A r \in Runs : /\ step[r] \in [Steps(r) -> StepStatus]
                      /\ link[r] \in [Steps(r) -> Tasks \cup {None}]
                      /\ charged[r] \in [Steps(r) -> Nat]
                      /\ late[r] \in [Steps(r) -> Nat]
  /\ task \in [Tasks -> {"none", "open", "completed", "cancelled"}]
  /\ due \in [Tasks -> Nat]
  /\ exec \in [Execs -> [run: Runs \cup {NoRun}, phase: {"idle", "starting", "walking", "working", "opening"},
                         at: Nat, visited: SUBSET Nat, seen: RunStatus, mine: Seq(StepStatus), tries: Nat]]
  /\ leaving \in [Runs -> BOOLEAN]
  /\ extra \in [Runs -> Nat]
  /\ faults \in 0..MaxFaults

(* What may still advance a run: its executors, its open tasks, and the    *)
(* resumptions about to be called.                                         *)
Calls(r) == UNION {{t} \X (1..due[t]) : t \in Linked(r)}
Threads(r) == Cardinality(Live(r)) + Cardinality({t \in Linked(r) : task[t] = "open"})
              + Cardinality(Calls(r))

TaskWithdrawn(r) == \E t \in Linked(r) : task[t] = "cancelled"

(* A run is advanced by one thread, plus one for each repeated completion  *)
(* of a human step: a restart, a retry or a trigger starts no second       *)
(* executor.  And without faults a run its owner started never says        *)
(* running with nothing to advance it, unless the task of its human step   *)
(* was cancelled.                                                          *)
Threaded == \A r \in Runs :
  /\ Threads(r) <= 1 + extra[r]
  /\ run[r] = "running" /\ origin[r] = "owner" /\ faults = 0 =>
       Threads(r) > 0 \/ TaskWithdrawn(r)

Forward(d) == \A i \in DOMAIN d : (d[i].onPass = None \/ d[i].onPass > i) /\ (d[i].onFail = None \/ d[i].onFail > i)
Linear(d) == \A i \in DOMAIN d : d[i].onPass = None /\ d[i].onFail = None

(* The owner pays for a step of a run without backward branches once per   *)
(* thread of the run, whatever the attempts, and once the run has ended at *)
(* most once more.                                                         *)
ChargedPerThread ==
  \A r \in Runs : \A i \in Steps(r) : /\ Forward(def[r]) => charged[r][i] <= 1 + extra[r]
                                       /\ late[r][i] <= 1 + extra[r]

Family(r) == {r} \cup {n \in Runs : parent[n] = r}

(* A retry does not pay again for what the retried run of a linear         *)
(* pipeline paid for, except what an executor still does when the run has  *)
(* ended under it.                                                         *)
RetryPaysTheRest ==
  \A r \in Runs : Linear(def[r]) =>
    \A n \in Runs, i \in Steps(r) :
      parent[n] = r => charged[r][i] + charged[n][i] <= 1 + extra[r] + extra[n] + late[r][i]

(* The steps of a linear pipeline run in order: an executor works on a     *)
(* step only when every earlier one is completed or skipped.  A repeated   *)
(* completion of a human step starts an executor that goes over the later  *)
(* steps once more, so it ends the promise.                                *)
InOrder ==
  \A e \in Execs : exec[e].phase \in {"working", "opening"} =>
    LET r == exec[e].run IN
      Linear(def[r]) /\ extra[r] = 0 => \A j \in 1..(exec[e].at - 1) : step[r][j] \in Done

(* However executors, completions, cancels, retries and restarts overlap,   *)
(* a run has one thread of steps, in order, each paid for once.             *)
RunKept == Threaded /\ ChargedPerThread /\ RetryPaysTheRest /\ InOrder

UsedUp(r) == /\ \A t \in Tasks : task[t] # "none"
             /\ \E e \in Live(r) : exec[e].phase = "opening"
Settled(r) == \/ run[r] \in Ended \/ UsedUp(r)
              \/ \E t \in Linked(r) : task[t] \in {"open", "cancelled"}

(* Without faults a run its owner started comes to an end or waits for     *)
(* workers (or for a task when the model's are used up): branches cannot   *)
(* keep an executor going for ever.                                        *)
Progress == \A r \in Runs :
  (run[r] = "running" /\ origin[r] = "owner") ~> (Settled(r) \/ faults > 0)
=============================================================================
