---------------------------- MODULE Experiments ----------------------------
(* An A/B experiment over tasks (routers/experiments.py): tasks are        *)
(* enrolled in a variant and their outcomes recorded, each by a request    *)
(* that reads a variant's counters, and writes them back one higher.  Only *)
(* the row of the participant is locked, by its own update, while its      *)
(* outcome is recorded.                                                    *)
EXTENDS Integers, Sequences, FiniteSets, FiniteSetsExt

CONSTANTS
  Recorders,    \* requests that may be under way at once
  Variants, Trials,   \* the variants, and the tasks to enrol
  MaxRecords,   \* how often the outcome of one task is recorded
  NotEnrolled

VARIABLES
  experiment,   \* the row of ab_experiments
  arm,          \* the rows of ab_variants: their counters
  trial,        \* the rows of ab_participants, by task
  recorder,     \* requests and what they read
  recorded,     \* history: the outcomes recorded, by task
  overlaps       \* history: counters a request wrote over another's count

experimentVars == <<experiment, arm, trial, recorder, recorded, overlaps>>

NoRecorder == [for |-> "nothing"]
Counters == {"participants", "completed", "failed"}
Outcomes == {"completed", "failed", "cancelled"}
Enrolled(a) == {t \in Trials : trial[t] # NotEnrolled /\ trial[t].arm = a}
TimesRecorded(outcome) == [t \in Trials |-> Cardinality({n \in DOMAIN recorded[t] : recorded[t][n] = outcome})]
Recordings(a, outcome) == MapThenSumSet(LAMBDA t : TimesRecorded(outcome)[t], Enrolled(a))

ASSUME ExperimentsAssumption ==
  /\ MaxRecords \in Nat /\ IsFiniteSet(Trials)
  /\ NotEnrolled \notin [arm : Variants, outcome : Outcomes \cup {"none"}]

ExperimentsTypeOK ==
  /\ experiment \in [status : {"none", "draft", "running", "paused", "completed", "gone"},
                     started : BOOLEAN, ended : BOOLEAN]
  /\ arm \in [Variants -> [Counters -> Nat]]
  /\ \A t \in Trials : trial[t] = NotEnrolled \/ trial[t].arm \in Variants

ExperimentsInit ==
  /\ experiment = [status |-> "none", started |-> FALSE, ended |-> FALSE]
  /\ arm = [a \in Variants |-> [c \in Counters |-> 0]]
  /\ trial = [t \in Trials |-> NotEnrolled]
  /\ recorder = [r \in Recorders |-> NoRecorder]
  /\ recorded = [t \in Trials |-> <<>>]
  /\ overlaps = {}

Alive == experiment.status \notin {"none", "gone"}

CreateExperiment ==
  /\ experiment.status = "none" /\ experiment' = [experiment EXCEPT !.status = "draft"]
  /\ UNCHANGED <<arm, trial, recorder, recorded, overlaps>>

(* Any order of these is allowed: a completed experiment may run again.    *)
UpdateStatus(status) ==
  /\ Alive
  /\ experiment' = [experiment EXCEPT !.status = status, !.started = @ \/ status = "running",
                                      !.ended = @ \/ status = "completed"]
  /\ UNCHANGED <<arm, trial, recorder, recorded, overlaps>>

(* Its variants and participants go with it.                               *)
DeleteExperiment ==
  /\ Alive /\ \A r \in Recorders : recorder[r].for # "record"   \* whose lock it waits for
  /\ experiment' = [experiment EXCEPT !.status = "gone"]
  /\ trial' = [t \in Trials |-> NotEnrolled]
  /\ UNCHANGED <<arm, recorder, recorded, overlaps>>

EndRecorder(r) == recorder' = [recorder EXCEPT ![r] = NoRecorder]

(* The counter is written one above what was read.                         *)
Count(a, c, seen) ==
  /\ arm' = [arm EXCEPT ![a][c] = seen + 1]
  /\ overlaps' = IF arm[a][c] = seen THEN overlaps ELSE overlaps \cup {<<a, c>>}

ReadArms(r, t) ==
  /\ recorder[r] = NoRecorder /\ experiment.status = "running" /\ trial[t] = NotEnrolled
  /\ \E a \in Variants :
       recorder' = [recorder EXCEPT ![r] = [for |-> "enroll", task |-> t, arm |-> a, seen |-> arm[a]]]
  /\ UNCHANGED <<experiment, arm, trial, recorded, overlaps>>

NotUnique(t) == TRUE \* mutant
Unique(t) == trial[t] = NotEnrolled

EnrollTask(r) ==
  /\ recorder[r].for = "enroll" /\ EndRecorder(r)
  /\ LET t == recorder[r].task
         a == recorder[r].arm
     IN IF Alive /\ Unique(t)
        THEN /\ trial' = [trial EXCEPT ![t] = [arm |-> a, outcome |-> "none"]]
             /\ Count(a, "participants", recorder[r].seen["participants"])
        ELSE UNCHANGED <<arm, trial, overlaps>>
  /\ UNCHANGED <<experiment, recorded>>

(* The participant is updated before the variant is read.                  *)
BeginRecord(r, t, outcome) ==
  /\ recorder[r] = NoRecorder /\ trial[t] # NotEnrolled
  /\ Len(recorded[t]) < MaxRecords
  /\ \A q \in Recorders : ~(recorder[q].for = "record" /\ recorder[q].task = t)
  /\ recorder' = [recorder EXCEPT ![r] = [for |-> "record", task |-> t, outcome |-> outcome,
                                          arm |-> trial[t].arm, seen |-> arm[trial[t].arm]]]
  /\ UNCHANGED <<experiment, arm, trial, recorded, overlaps>>

RecordOutcome(r) ==
  /\ recorder[r].for = "record" /\ EndRecorder(r)
  /\ LET t == recorder[r].task
         o == recorder[r].outcome
     IN /\ trial' = [trial EXCEPT ![t].outcome = o]
        /\ recorded' = [recorded EXCEPT ![t] = Append(@, o)]
        /\ IF o \in Counters THEN Count(recorder[r].arm, o, recorder[r].seen[o])
           ELSE UNCHANGED <<arm, overlaps>>
  /\ UNCHANGED experiment

RecorderDies(r) ==
  /\ recorder[r] # NoRecorder /\ EndRecorder(r)
  /\ UNCHANGED <<experiment, arm, trial, recorded, overlaps>>

ExperimentsNext ==
  \/ CreateExperiment \/ DeleteExperiment
  \/ \E status \in {"running", "paused", "completed"} : UpdateStatus(status)
  \/ \E r \in Recorders :
       \/ EnrollTask(r) \/ RecordOutcome(r) \/ RecorderDies(r)
       \/ \E t \in Trials : ReadArms(r, t) \/ \E o \in Outcomes : BeginRecord(r, t, o)
ExperimentsSpec == ExperimentsInit /\ [][ExperimentsNext]_experimentVars

-----------------------------------------------------------------------------
(* A variant's counters never exceed its participants and the outcomes     *)
(* recorded of them, and are these exactly, whatever else overlaps, unless *)
(* a request wrote the same counter over another's count.  So where no     *)
(* outcome is recorded twice completion_rate stays within one, and the     *)
(* counters compared in get_results are what the participants' rows say.   *)
ExperimentKept ==
  Alive => \A a \in Variants : \A c \in Counters :
    LET told == IF c = "participants" THEN Cardinality(Enrolled(a)) ELSE Recordings(a, c)
        rows == Cardinality({t \in Enrolled(a) : trial[t].outcome = c})
    IN /\ arm[a][c] <= told
       /\ <<a, c>> \notin overlaps => arm[a][c] = told
       /\ (c # "participants" /\ \A t \in Enrolled(a) : Len(recorded[t]) <= 1) => told = rows
=============================================================================
