-------------------------- MODULE PipelinesProofs --------------------------
(* What TLAPS proves of the runs of a pipeline, for any pipelines, any      *)
(* number of runs, executors and tasks, and any bounds.                     *)
EXTENDS Pipelines, FiniteSetTheorems, SequenceTheorems, WellFoundedInduction, TLAPS

---------------------------------------------------------------------------
(* Threads of a run, counted up to a position.  An executor stands at its   *)
(* step; an open task, or a resumption to be called, behind the task's.     *)

Started == {"walking", "working", "opening"}

At(r, P) == {e \in Execs : exec[e].run = r /\ exec[e].at \in P}
LinkedAt(r, t, P) == \E j \in Steps(r) : link[r][j] = t /\ j + 1 \in P
OpenAt(r, P) == {t \in Tasks : task[t] = "open" /\ LinkedAt(r, t, P)}
AllCalls == {c \in Tasks \X Nat : c[2] \in 1..due[c[1]]}
CallAt(r, P) == {c \in AllCalls : LinkedAt(r, c[1], P)}

Tokens(A, O, C) == ({"executor"} \X A) \cup ({"task"} \X O) \cup ({"call"} \X C)
N(r, P) == Cardinality(Tokens(At(r, P), OpenAt(r, P), CallAt(r, P)))

(* What is behind a position never comes before it again. *)
Down(P) == P \subseteq Nat /\ \A x \in P, y \in Nat : y <= x => y \in P
Onward(r, P) == Down(P) /\ (P = Nat \/ Forward(def[r]))

---------------------------------------------------------------------------
(* The inductive invariant *)

(* An executor's copies are of its run's shape, and it never knows of an    *)
(* end that has not come.                                                   *)
ExecKept(e) ==
  /\ exec[e].phase = "idle" => exec[e] = Idle
  /\ exec[e].phase # "idle" => exec[e].run \in Runs /\ run[exec[e].run] # "none"
  /\ exec[e].phase \in Started => /\ Visible(exec[e].run)
                                  /\ exec[e].mine \in [Steps(exec[e].run) -> StepStatus]
                                  /\ exec[e].seen \in Ended => run[exec[e].run] \in Ended
  /\ exec[e].phase \in {"working", "opening"} =>
       /\ exec[e].at \in Steps(exec[e].run) /\ exec[e].at \in exec[e].visited
       /\ def[exec[e].run][exec[e].at].human <=> exec[e].phase = "opening"
  /\ exec[e].phase = "working" => exec[e].mine[exec[e].at] \notin Done

(* A run that nobody sees yet has no tasks and no retries.                  *)
RunShape(r) ==
  /\ ~Visible(r) => /\ \A i \in Steps(r) : link[r][i] = None
                    /\ origin[r] # "owner" /\ parent[r] = NoRun /\ ~leaving[r]
  /\ parent[r] # NoRun => /\ parent[r] \in Runs
                          /\ run[parent[r]] \in Ended
                          /\ def[r] = def[parent[r]]

(* A task belongs to one step of one run. *)
LinksApart ==
  \A r, q \in Runs : \A i \in Steps(r), j \in Steps(q) :
     link[r][i] # None /\ link[r][i] = link[q][j] => r = q /\ i = j
LinksMade == \A r \in Runs : \A i \in Steps(r) : link[r][i] # None => task[link[r][i]] # "none"
TasksMade == \A t \in Tasks : task[t] = "none" => due[t] = 0

Shape == /\ \A e \in Execs : ExecKept(e)
         /\ \A r \in Runs : RunShape(r)
         /\ LinksApart /\ LinksMade /\ TasksMade
         /\ IsFiniteSet(AllCalls)

(* No more threads than completions allow; and a thread that has passed a   *)
(* step is one that may have paid for it.                                   *)
ThreadsCounted == \A r \in Runs : N(r, Nat) <= 1 + extra[r]
ChargesCounted == \A r \in Runs : Forward(def[r]) =>
                    \A i \in Steps(r) : charged[r][i] + N(r, 0..i) <= 1 + extra[r]

(* The executors that may pay for a step of a run that has ended. *)
Still(r, i) == {e \in Execs : /\ exec[e].run = r /\ exec[e].phase \in Started
                              /\ i \notin exec[e].visited \/ (exec[e].phase = "working" /\ exec[e].at = i)}
LateFor(r, i) == /\ run[r] \in Ended => late[r][i] + Cardinality(Still(r, i)) <= 1 + extra[r]
                 /\ run[r] \notin Ended => late[r][i] = 0
LateCounted == \A r \in Runs : \A i \in Steps(r) : LateFor(r, i)

Moving(t) == task[t] = "open" \/ due[t] > 0
Held(r) == \/ Live(r) # {}
           \/ \E i \in Steps(r) : link[r][i] # None /\ (Moving(link[r][i]) \/ task[link[r][i]] = "cancelled")
Waits == \A r \in Runs : run[r] = "running" /\ origin[r] = "owner" /\ faults = 0 => Held(r)

(* With one thread only, what lies before it is done, also in the copies    *)
(* of its executor.                                                         *)
Passed(r, e) == \A j \in Steps(r) :
  /\ j < exec[e].at => step[r][j] \in Done
  /\ exec[e].phase \in Started /\ exec[e].mine[j] \in Done => step[r][j] \in Done
Reached(r, i) == link[r][i] # None /\ Moving(link[r][i]) => \A j \in Steps(r) : j < i => step[r][j] \in Done
OrderedFor(r) == Linear(def[r]) /\ extra[r] = 0 => /\ \A e \in Live(r) : Passed(r, e)
                                                  /\ \A i \in Steps(r) : Reached(r, i)
Ordered == \A r \in Runs : OrderedFor(r)

(* When every thread is still at or before step i, or has paid for i, then  *)
(* a step up to i that is not done has one at or before it that will write  *)
(* it.                                                                      *)
Full(r, i) == charged[r][i] + N(r, 0..i) = 1 + extra[r]
PushedBy(r, j, e) == exec[e].run = r /\ exec[e].at <= j /\ (exec[e].phase \in Started => exec[e].mine[j] \notin Done)
PushedFrom(r, j, i, k) == k <= j /\ k < i /\ link[r][k] # None /\ Moving(link[r][k])
Pushed(r, j, i) == (\E e \in Execs : PushedBy(r, j, e)) \/ (\E k \in Steps(r) : PushedFrom(r, j, i, k))
AccountedFor(r) == Linear(def[r]) =>
  \A i \in Steps(r) : Full(r, i) => \A j \in 1..i : step[r][j] \in Done \/ Pushed(r, j, i)
Accounted == \A r \in Runs : AccountedFor(r)

(* A retry begins behind the steps that every thread has paid for.         *)
Beyond(n, i) == /\ charged[n][i] = 0
                /\ \A e \in Live(n) : exec[e].at > i
                /\ \A j \in 1..i : link[n][j] = None
Retried == \A n \in Runs : parent[n] # NoRun /\ Linear(def[n]) => \A i \in Steps(n) :
  Beyond(n, i) \/ charged[parent[n]][i] <= extra[parent[n]] + late[parent[n]][i]

RunInv == /\ TypeOK /\ Shape /\ ThreadsCounted /\ ChargesCounted
          /\ LateCounted /\ Waits /\ Ordered /\ Accounted /\ Retried

---------------------------------------------------------------------------
(* Sets of tokens *)

LEMMA CardSub ==
  ASSUME NEW W, IsFiniteSet(W), NEW V, V \subseteq W
  PROVE  IsFiniteSet(V) /\ Cardinality(V) \in Nat /\ Cardinality(W) \in Nat /\ Cardinality(V) <= Cardinality(W)
<1>1. V \in SUBSET W  OBVIOUS
<1>2. IsFiniteSet(V) /\ Cardinality(V) <= Cardinality(W)  BY <1>1, FS_Subset
<1>. QED  BY <1>2, FS_CardinalityType

LEMMA CardLess ==
  ASSUME NEW W, IsFiniteSet(W), NEW a \in W, NEW V, V \subseteq W \ {a}
  PROVE  Cardinality(V) \in Nat /\ Cardinality(W) \in Nat /\ Cardinality(V) + 1 <= Cardinality(W)
<1>1. IsFiniteSet(W \ {a}) /\ Cardinality(W \ {a}) = Cardinality(W) - 1  BY FS_RemoveElement
<1>2. Cardinality(V) \in Nat /\ Cardinality(V) <= Cardinality(W \ {a}) /\ Cardinality(W \ {a}) \in Nat
  BY <1>1, CardSub
<1>3. Cardinality(W) \in Nat  BY FS_CardinalityType
<1>. QED  BY ONLY <1>1, <1>2, <1>3

LEMMA CardMore ==
  ASSUME NEW W, IsFiniteSet(W), NEW b, NEW V, V \subseteq W \cup {b}
  PROVE  /\ IsFiniteSet(V) /\ Cardinality(V) \in Nat /\ Cardinality(W) \in Nat
         /\ Cardinality(V) <= Cardinality(W) + 1
<1>1. IsFiniteSet(W \cup {b}) /\ Cardinality(W) \in Nat /\ Cardinality(W \cup {b}) <= Cardinality(W) + 1
  BY FS_AddElement, FS_CardinalityType
<1>2. IsFiniteSet(V) /\ Cardinality(V) \in Nat /\ Cardinality(W \cup {b}) \in Nat /\ Cardinality(V) <= Cardinality(W \cup {b})
  BY <1>1, CardSub
<1>. QED  BY <1>1, <1>2

LEMMA CardSwap ==
  ASSUME NEW W, IsFiniteSet(W), NEW a \in W, NEW b, NEW V, V \subseteq (W \ {a}) \cup {b}
  PROVE  Cardinality(V) \in Nat /\ Cardinality(W) \in Nat /\ Cardinality(V) <= Cardinality(W)
<1>1. IsFiniteSet(W \ {a})  BY FS_RemoveElement
<1>2. Cardinality(W \ {a}) + 1 <= Cardinality(W) /\ Cardinality(W) \in Nat /\ Cardinality(W \ {a}) \in Nat  BY CardLess
<1>3. Cardinality(V) \in Nat /\ Cardinality(V) <= Cardinality(W \ {a}) + 1  BY <1>1, CardMore
<1>. QED  BY <1>2, <1>3

(* What becomes of the threads of a run in a step. *)
LEMMA TokensSub ==
  ASSUME NEW A, NEW O, NEW C, IsFiniteSet(Tokens(A, O, C)), NEW A2, NEW O2, NEW C2,
         A2 \subseteq A, O2 \subseteq O, C2 \subseteq C
  PROVE  /\ Cardinality(Tokens(A2, O2, C2)) \in Nat /\ Cardinality(Tokens(A, O, C)) \in Nat
         /\ Cardinality(Tokens(A2, O2, C2)) <= Cardinality(Tokens(A, O, C))
<1>1. Tokens(A2, O2, C2) \subseteq Tokens(A, O, C)  BY DEF Tokens
<1>. QED  BY <1>1, CardSub

LEMMA TokenLost ==
  ASSUME NEW A, NEW O, NEW C, IsFiniteSet(Tokens(A, O, C)), NEW A2, NEW O2, NEW C2,
         A2 \subseteq A, O2 \subseteq O, C2 \subseteq C, A # A2 \/ O # O2 \/ C # C2
  PROVE  /\ Cardinality(Tokens(A2, O2, C2)) \in Nat /\ Cardinality(Tokens(A, O, C)) \in Nat
         /\ Cardinality(Tokens(A2, O2, C2)) + 1 <= Cardinality(Tokens(A, O, C))
<1>1. PICK x \in Tokens(A, O, C) : x \notin Tokens(A2, O2, C2)
  <2>1. CASE \E a \in A : a \notin A2
    <3>1. PICK a \in A : a \notin A2  BY <2>1
    <3>2. <<"executor", a>> \in Tokens(A, O, C) /\ <<"executor", a>> \notin Tokens(A2, O2, C2)  BY <3>1 DEF Tokens
    <3>. QED  BY <3>2
  <2>2. CASE \E o \in O : o \notin O2
    <3>1. PICK o \in O : o \notin O2  BY <2>2
    <3>2. <<"task", o>> \in Tokens(A, O, C) /\ <<"task", o>> \notin Tokens(A2, O2, C2)  BY <3>1 DEF Tokens
    <3>. QED  BY <3>2
  <2>3. CASE \E c \in C : c \notin C2
    <3>1. PICK c \in C : c \notin C2  BY <2>3
    <3>2. <<"call", c>> \in Tokens(A, O, C) /\ <<"call", c>> \notin Tokens(A2, O2, C2)  BY <3>1 DEF Tokens
    <3>. QED  BY <3>2
  <2>. QED  BY <2>1, <2>2, <2>3
<1>2. Tokens(A2, O2, C2) \subseteq Tokens(A, O, C) \ {x}  BY <1>1 DEF Tokens
<1>. QED  BY <1>1, <1>2, CardLess

LEMMA TokenMore ==
  ASSUME NEW A, NEW O, NEW C, IsFiniteSet(Tokens(A, O, C)), NEW A2, NEW O2, NEW C2,
         A2 \subseteq A,
         NEW t, NEW c, \/ O2 \subseteq O \cup {t} /\ C2 \subseteq C
                       \/ O2 \subseteq O /\ C2 \subseteq C \cup {c}
  PROVE  /\ Cardinality(Tokens(A2, O2, C2)) \in Nat /\ Cardinality(Tokens(A, O, C)) \in Nat
         /\ Cardinality(Tokens(A2, O2, C2)) <= Cardinality(Tokens(A, O, C)) + 1
<1>. DEFINE W == Tokens(A, O, C)   V == Tokens(A2, O2, C2)
<1>1. \E b : V \subseteq W \cup {b}
  <2>1. CASE O2 \subseteq O \cup {t} /\ C2 \subseteq C
    <3>1. V \subseteq W \cup {<<"task", t>>}  BY <2>1 DEF Tokens
    <3>. QED  BY <3>1
  <2>2. CASE O2 \subseteq O /\ C2 \subseteq C \cup {c}
    <3>1. V \subseteq W \cup {<<"call", c>>}  BY <2>2 DEF Tokens
    <3>. QED  BY <3>1
  <2>. QED  BY <2>1, <2>2
<1>. HIDE DEF W, V
<1>2. PICK b : V \subseteq W \cup {b}  BY <1>1
<1>3. IsFiniteSet(W)  BY DEF W
<1>4. Cardinality(V) \in Nat /\ Cardinality(W) \in Nat /\ Cardinality(V) <= Cardinality(W) + 1
  BY ONLY <1>2, <1>3, CardMore
<1>. QED  BY <1>4 DEF W, V

(* An executor opens a task, a completion makes a call, a call makes an     *)
(* executor.                                                                *)
LEMMA TokenSwap ==
  ASSUME NEW A, NEW O, NEW C, IsFiniteSet(Tokens(A, O, C)), NEW A2, NEW O2, NEW C2, NEW e, NEW t, NEW c,
         \/ e \in A /\ A2 \subseteq A \ {e} /\ O2 \subseteq O \cup {t} /\ C2 \subseteq C
         \/ t \in O /\ A2 \subseteq A /\ O2 \subseteq O \ {t} /\ C2 \subseteq C \cup {c}
         \/ c \in C /\ A2 \subseteq A \cup {e} /\ O2 \subseteq O /\ C2 \subseteq C \ {c}
  PROVE  /\ Cardinality(Tokens(A2, O2, C2)) \in Nat /\ Cardinality(Tokens(A, O, C)) \in Nat
         /\ Cardinality(Tokens(A2, O2, C2)) <= Cardinality(Tokens(A, O, C))
<1>. DEFINE W == Tokens(A, O, C)   V == Tokens(A2, O2, C2)
<1>1. \E a \in W : \E b : V \subseteq (W \ {a}) \cup {b}
  <2>1. CASE e \in A /\ A2 \subseteq A \ {e} /\ O2 \subseteq O \cup {t} /\ C2 \subseteq C
    <3>1. <<"executor", e>> \in W /\ V \subseteq (W \ {<<"executor", e>>}) \cup {<<"task", t>>}  BY <2>1 DEF Tokens
    <3>. QED  BY <3>1
  <2>2. CASE t \in O /\ A2 \subseteq A /\ O2 \subseteq O \ {t} /\ C2 \subseteq C \cup {c}
    <3>1. <<"task", t>> \in W /\ V \subseteq (W \ {<<"task", t>>}) \cup {<<"call", c>>}  BY <2>2 DEF Tokens
    <3>. QED  BY <3>1
  <2>3. CASE c \in C /\ A2 \subseteq A \cup {e} /\ O2 \subseteq O /\ C2 \subseteq C \ {c}
    <3>1. <<"call", c>> \in W /\ V \subseteq (W \ {<<"call", c>>}) \cup {<<"executor", e>>}  BY <2>3 DEF Tokens
    <3>. QED  BY <3>1
  <2>. QED  BY <2>1, <2>2, <2>3
<1>2. IsFiniteSet(W)  OBVIOUS
<1>. HIDE DEF W, V
<1>3. PICK a \in W : \E b : V \subseteq (W \ {a}) \cup {b}  BY <1>1
<1>5. PICK b : V \subseteq (W \ {a}) \cup {b}  BY <1>3
<1>4. Cardinality(V) \in Nat /\ Cardinality(W) \in Nat /\ Cardinality(V) <= Cardinality(W)
  BY ONLY <1>2, <1>5, CardSwap
<1>. QED  BY <1>4 DEF W, V

LEMMA TokensFinite ==
  ASSUME IsFiniteSet(AllCalls), NEW r, NEW P
  PROVE  /\ IsFiniteSet(Tokens(At(r, P), OpenAt(r, P), CallAt(r, P))) /\ N(r, P) \in Nat
         /\ IsFiniteSet(At(r, P))
<1>1. IsFiniteSet(At(r, P)) /\ IsFiniteSet(OpenAt(r, P)) /\ IsFiniteSet(CallAt(r, P))
  <2>1. At(r, P) \subseteq Execs /\ OpenAt(r, P) \subseteq Tasks /\ CallAt(r, P) \subseteq AllCalls
    BY DEF At, OpenAt, CallAt
  <2>. QED  BY <2>1, IdsAssumption, CardSub
<1>2. IsFiniteSet({"executor"}) /\ IsFiniteSet({"task"}) /\ IsFiniteSet({"call"})  BY FS_Singleton
<1>3. IsFiniteSet({"executor"} \X At(r, P)) /\ IsFiniteSet({"task"} \X OpenAt(r, P)) /\ IsFiniteSet({"call"} \X CallAt(r, P))
  BY <1>1, <1>2, FS_Product
<1>4. IsFiniteSet(Tokens(At(r, P), OpenAt(r, P), CallAt(r, P)))
  BY <1>3, FS_Union DEF Tokens
<1>. QED  BY <1>1, <1>4, FS_CardinalityType DEF N

---------------------------------------------------------------------------
(* Types *)

LEMMA StepsKnown ==
  ASSUME TypeOK, NEW r \in Runs
  PROVE  /\ def[r] \in Seq(StepDef) /\ Len(def[r]) \in Nat /\ Steps(r) = 1..Len(def[r])
         /\ \A i \in Steps(r) : /\ def[r][i] \in StepDef /\ def[r][i].human \in BOOLEAN
                                /\ def[r][i].onPass \in Nat /\ def[r][i].onFail \in Nat
         /\ \A i \in Steps(r) : After(r, i) \in Nat
<1>1. def[r] \in Seq(StepDef)
  BY DefinitionsAssumption, EmptySeq DEF TypeOK
<1>2. Len(def[r]) \in Nat /\ Steps(r) = 1..Len(def[r])  BY <1>1 DEF Steps
<1>3. \A i \in Steps(r) : def[r][i] \in StepDef  BY <1>1, <1>2
<1>. QED  BY <1>1, <1>2, <1>3 DEF StepDef, After, None

LEMMA ExecFields ==
  ASSUME TypeOK, NEW e \in Execs
  PROVE  /\ exec[e].run \in Runs \cup {NoRun} /\ exec[e].at \in Nat /\ exec[e].visited \in SUBSET Nat
         /\ exec[e].phase \in {"idle", "starting"} \cup Started
         /\ exec[e].seen \in RunStatus /\ exec[e].tries \in Nat
BY DEF TypeOK, Started

LEMMA RunFields ==
  ASSUME TypeOK, NEW r \in Runs, NEW i \in Steps(r)
  PROVE  /\ step[r][i] \in StepStatus /\ link[r][i] \in Tasks \cup {None}
         /\ charged[r][i] \in Nat /\ late[r][i] \in Nat /\ extra[r] \in Nat
BY DEF TypeOK

(* A task or a resumption that can still move a run is one of its threads.  *)
LEMMA MovingHeld ==
  ASSUME TypeOK, NEW q \in Runs, NEW k \in Steps(q), link[q][k] # None, Moving(link[q][k]), NEW P, k + 1 \in P
  PROVE  OpenAt(q, P) # {} \/ CallAt(q, P) # {}
<1>1. link[q][k] \in Tasks /\ due[link[q][k]] \in Nat  BY DEF TypeOK
<1>2. LinkedAt(q, link[q][k], P)  BY DEF LinkedAt
<1>3. CASE task[link[q][k]] = "open"  BY <1>1, <1>2, <1>3 DEF OpenAt
<1>4. CASE due[link[q][k]] > 0
  <2>1. <<link[q][k], 1>> \in AllCalls  BY <1>1, <1>4 DEF AllCalls
  <2>. QED  BY <1>2, <2>1 DEF CallAt
<1>. QED  BY <1>3, <1>4 DEF Moving

LEMMA ThreadsCount ==
  ASSUME Shape, NEW q, NEW P, At(q, P) # {} \/ OpenAt(q, P) # {} \/ CallAt(q, P) # {}
  PROVE  N(q, P) # 0
<1>. DEFINE A == At(q, P)   O == OpenAt(q, P)   C == CallAt(q, P)
<1>1. IsFiniteSet(Tokens(A, O, C))  BY TokensFinite DEF Shape
<1>. HIDE DEF A, O, C
<1>2. Tokens(A, O, C) # {} => Cardinality(Tokens(A, O, C)) # 0  BY <1>1, FS_EmptySet
<1>3. CASE A # {}
  <2>1. PICK a \in A : TRUE  BY <1>3
  <2>2. <<"executor", a>> \in Tokens(A, O, C)  BY <2>1 DEF Tokens
  <2>. QED  BY <1>2, <2>2 DEF N, A, O, C
<1>4. CASE O # {}
  <2>1. PICK o \in O : TRUE  BY <1>4
  <2>2. <<"task", o>> \in Tokens(A, O, C)  BY <2>1 DEF Tokens
  <2>. QED  BY <1>2, <2>2 DEF N, A, O, C
<1>5. CASE C # {}
  <2>1. PICK c \in C : TRUE  BY <1>5
  <2>2. <<"call", c>> \in Tokens(A, O, C)  BY <2>1 DEF Tokens
  <2>. QED  BY <1>2, <2>2 DEF N, A, O, C
<1>. QED  BY <1>3, <1>4, <1>5 DEF A, O, C

LEMMA IdleFields == Idle.run = NoRun /\ Idle.phase = "idle" /\ Idle.at = 0
BY DEF Idle

LEMMA LinearGoesOn == ASSUME NEW d, Linear(d), DOMAIN d \subseteq Nat PROVE Forward(d)
BY DEF Linear, Forward

LEMMA Downs == /\ Down(Nat) /\ \A i \in Nat : Down(0..i)
BY DEF Down
(* The last of finitely many steps, and where a retry begins. *)
LEMMA LastOf ==
  ASSUME NEW n \in Nat, NEW S, S \subseteq 0..n, S # {}
  PROVE  Max(S) \in S /\ \A y \in S : Max(S) >= y
<1>. DEFINE T == {k \in Nat : n - k \in S}
<1>1. T \subseteq Nat /\ T # {}
  <2>1. PICK y \in S : TRUE  OBVIOUS
  <2>2. n - y \in Nat /\ n - (n - y) = y  BY <2>1
  <2>. QED  BY <2>1, <2>2
<1>2. PICK k \in T : \A l \in T : ~ (<<l, k>> \in OpToRel(<, Nat))
  <2>. HIDE DEF T
  <2>. QED  BY <1>1, NatLessThanWellFounded, WFMin
<1>3. \A l \in T : l >= k
  <2>1. k \in Nat /\ \A l \in T : l \in Nat  BY <1>2
  <2>2. ASSUME NEW l \in T, l < k PROVE FALSE
    <3>1. <<l, k>> \in OpToRel(<, Nat)  BY <2>1, <2>2 DEF OpToRel
    <3>. QED  BY <3>1, <1>2
  <2>. HIDE DEF T
  <2>. QED  BY <2>1, <2>2
<1>4. n - k \in S /\ \A y \in S : n - k >= y
  <2>1. ASSUME NEW y \in S PROVE n - k >= y
    <3>0. y \in 0..n /\ k \in Nat  BY <1>2
    <3>1. n - y \in T /\ y \in Nat /\ k \in Nat
      <4>1. n - y \in Nat /\ n - (n - y) = y /\ y \in Nat  BY ONLY <3>0, n \in Nat
      <4>. QED  BY <4>1, <3>0
    <3>2. n - y >= k  BY <3>1, <1>3
    <3>. QED  BY ONLY <3>1, <3>2, n \in Nat
  <2>. QED  BY <2>1, <1>2
<1>. QED  BY <1>4 DEF Max

LEMMA ResumePoint ==
  ASSUME TypeOK, NEW r \in Runs
  PROVE  /\ ResumeFrom(r) \in Nat /\ ResumeFrom(r) >= 1
         /\ \A j \in Steps(r) : j < ResumeFrom(r) => step[r][j] \in Done
         /\ \A i \in Steps(r) : (\A j \in 1..i : step[r][j] \in Done) => i < ResumeFrom(r)
<1>. DEFINE S == {0} \cup {i \in Steps(r) : \A j \in 1..i : step[r][j] \in Done}
<1>1. S \subseteq 0..Len(def[r]) /\ S # {} /\ Len(def[r]) \in Nat  BY StepsKnown
<1>2. \A i \in S : \A j \in 1..i : step[r][j] \in Done  OBVIOUS
<1>3. \A i \in Steps(r) : (\A j \in 1..i : step[r][j] \in Done) => i \in S  OBVIOUS
<1>4. Max(S) \in S /\ (\A y \in S : Max(S) >= y)
  <2>. HIDE DEF S
  <2>. QED  BY <1>1, LastOf
<1>5. ResumeFrom(r) = 1 + Max(S)  BY DEF ResumeFrom
<1>. HIDE DEF S
<1>6. Max(S) \in Nat
  <2>1. \A y \in S : y \in Nat  BY <1>1
  <2>. QED  BY ONLY <1>4, <2>1
<1>7. \A j \in Steps(r) : j < 1 + Max(S) => j \in 1..Max(S)  BY <1>6, StepsKnown
<1>8. S \subseteq Nat  BY <1>1
<1>9. ASSUME NEW j \in Steps(r), j < ResumeFrom(r) PROVE step[r][j] \in Done
  BY <1>9, <1>2, <1>4, <1>5, <1>7
<1>10. ASSUME NEW i \in Steps(r), \A j \in 1..i : step[r][j] \in Done PROVE i < ResumeFrom(r)
  <2>1. i \in S /\ i \in Nat /\ Max(S) >= i  BY <1>3, <1>4, <1>8, <1>10
  <2>. QED  BY ONLY <2>1, <1>5, <1>6
<1>11. ResumeFrom(r) \in Nat /\ ResumeFrom(r) >= 1  BY ONLY <1>5, <1>6
<1>. QED  BY <1>9, <1>10, <1>11

---------------------------------------------------------------------------
(* What an executor's step does *)

ExecRow == [run: Runs \cup {NoRun}, phase: {"idle", "starting", "walking", "working", "opening"},
            at: Nat, visited: SUBSET Nat, seen: RunStatus, mine: Seq(StepStatus), tries: Nat]

(* It ends, having written at most its run's end and its step's failure.    *)
Leaves(e) ==
  /\ exec[e].phase # "idle"
  /\ exec' = [exec EXCEPT ![e] = Idle]
  /\ run' \in [Runs -> RunStatus]
  /\ \A q \in Runs : run'[q] = run[q] \/ (/\ q = exec[e].run /\ exec[e].phase \in Started
                                          /\ run'[q] \in {"failed", "completed"})
  /\ DOMAIN step' = Runs /\ \A q \in Runs : step'[q] \in [Steps(q) -> StepStatus]
  /\ \A q \in Runs : \A j \in Steps(q) : step'[q][j] = step[q][j] \/ (q = exec[e].run /\ j = exec[e].at)
  /\ run'[exec[e].run] = "running" /\ origin[exec[e].run] = "owner" => faults' # 0
  /\ faults' \in 0..MaxFaults /\ faults' >= faults
  /\ UNCHANGED <<runVars, link, task, due, leaving, charged, late, extra>>

(* It goes on as x, at the same step or a later one, and its copy of that   *)
(* step says whether it is done.                                            *)
GoesTo(e, x) ==
  /\ x.at = exec[e].at \/ /\ exec[e].at \in Steps(x.run)
                          /\ Forward(def[x.run]) => x.at > exec[e].at
                          /\ Linear(def[x.run]) => x.at = exec[e].at + 1
  /\ \A j \in Steps(x.run) : j # exec[e].at =>
       x.mine[j] = IF exec[e].phase = "starting" THEN step[x.run][j] ELSE exec[e].mine[j]
  /\ exec[e].phase = "starting" => x.at = exec[e].at /\ x.mine = step[x.run] /\ step' = step
  /\ exec[e].phase # "starting" => exec[e].phase \in Started /\ exec[e].at \in Steps(x.run)
  /\ exec[e].phase # "starting" /\ Linear(def[x.run]) =>
       \/ x.at = exec[e].at /\ x.mine[exec[e].at] \notin Done
       \/ /\ x.at = exec[e].at + 1 /\ x.mine[exec[e].at] \in Done
          /\ \/ step'[x.run][exec[e].at] \in Done
             \/ /\ step'[x.run][exec[e].at] = step[x.run][exec[e].at]
                /\ exec[e].mine[exec[e].at] \in Done

PaysFor(e, x, q, j) ==
  /\ q = x.run /\ j = exec[e].at /\ (Forward(def[q]) => x.at > j)
  /\ e \in Still(q, j) /\ e \notin Still(q, j)'
  /\ charged'[q][j] = charged[q][j] + 1
  /\ late'[q][j] = IF run[q] \in Ended THEN late[q][j] + 1 ELSE late[q][j]

Moves(e, x) ==
  /\ exec[e].phase # "idle"
  /\ exec' = [exec EXCEPT ![e] = x]
  /\ x \in ExecRow /\ x.run = exec[e].run /\ x.phase \in Started /\ ExecKept(e)'
  /\ DOMAIN step' = Runs /\ DOMAIN charged' = Runs /\ DOMAIN late' = Runs
  /\ \A q \in Runs : /\ step'[q] \in [Steps(q) -> StepStatus]
                     /\ charged'[q] \in [Steps(q) -> Nat] /\ late'[q] \in [Steps(q) -> Nat]
  /\ \A q \in Runs : \A j \in Steps(q) : step'[q][j] = step[q][j] \/ (q = exec[e].run /\ j = exec[e].at)
  /\ \A q \in Runs : \A j \in Steps(q) :
       (charged'[q][j] = charged[q][j] /\ late'[q][j] = late[q][j]) \/ PaysFor(e, x, q, j)
  /\ \A q \in Runs : \A j \in Steps(q) : run[q] \in Ended /\ e \in Still(q, j)' => e \in Still(q, j)
  /\ GoesTo(e, x)
  /\ UNCHANGED <<runVars, run, link, task, due, leaving, extra, faults>>

LEMMA StepWritten ==
  ASSUME TypeOK, NEW e \in Execs, exec[e].run \in Runs, exec[e].at \in Steps(exec[e].run),
         NEW v \in StepStatus, WriteStep(e, exec[e].at, v)
  PROVE  /\ DOMAIN step' = Runs /\ \A q \in Runs : step'[q] \in [Steps(q) -> StepStatus]
         /\ \A q \in Runs : \A j \in Steps(q) :
              step'[q][j] = step[q][j] \/ (q = exec[e].run /\ j = exec[e].at)
         /\ \/ step'[exec[e].run][exec[e].at] = v
            \/ /\ step' = step
               /\ exec[e].mine[exec[e].at] = v
<1>. DEFINE r == exec[e].run   i == exec[e].at
<1>1. DOMAIN step = Runs /\ \A q \in Runs : step[q] \in [Steps(q) -> StepStatus]  BY DEF TypeOK
<1>2. CASE exec[e].mine[i] = v
  <2>1. step' = step  BY <1>2 DEF WriteStep
  <2>. QED  BY <1>1, <1>2, <2>1
<1>3. CASE exec[e].mine[i] # v
  <2>1. step' = [step EXCEPT ![r][i] = v]  BY <1>3 DEF WriteStep
  <2>. QED  BY <1>1, <1>3, <2>1
<1>. QED  BY <1>2, <1>3

(* The rows an executor goes on with. *)
LEMMA ExecRows ==
  ASSUME TypeOK, NEW e \in Execs
  PROVE  exec[e] \in ExecRow /\ DOMAIN exec = Execs
BY DEF TypeOK, ExecRow

LEMMA MineWritten ==
  ASSUME TypeOK, NEW r \in Runs, NEW m \in [Steps(r) -> StepStatus], NEW i \in Steps(r), NEW v \in StepStatus
  PROVE  /\ [m EXCEPT ![i] = v] \in [Steps(r) -> StepStatus] /\ [m EXCEPT ![i] = v] \in Seq(StepStatus)
         /\ [m EXCEPT ![i] = v][i] = v /\ \A j \in Steps(r) : j # i => [m EXCEPT ![i] = v][j] = m[j]
<1>1. \A f \in [Steps(r) -> StepStatus] : f \in Seq(StepStatus)  BY StepsKnown, SeqDef
<1>. QED  BY <1>1

LEMMA MovedRow ==
  ASSUME NEW e \in Execs, exec[e] \in ExecRow, NEW n \in Nat, NEW i, NEW v,
         [exec[e].mine EXCEPT ![i] = v] \in Seq(StepStatus)
  PROVE  /\ Moved(e, i, v, n) \in ExecRow
         /\ Moved(e, i, v, n).run = exec[e].run /\ Moved(e, i, v, n).phase = "walking"
         /\ Moved(e, i, v, n).at = n /\ Moved(e, i, v, n).visited = exec[e].visited
         /\ Moved(e, i, v, n).seen = exec[e].seen /\ Moved(e, i, v, n).mine = [exec[e].mine EXCEPT ![i] = v]
BY DEF Moved, ExecRow

LEMMA EnteredRow ==
  ASSUME NEW e \in Execs, exec[e].at \in Nat, run[exec[e].run] \in RunStatus, NEW x \in ExecRow
  PROVE  /\ Entered(e, x) \in ExecRow
         /\ Entered(e, x).run = x.run /\ Entered(e, x).phase = x.phase /\ Entered(e, x).at = x.at
         /\ Entered(e, x).visited = x.visited \cup {exec[e].at} /\ Entered(e, x).seen = run[exec[e].run]
         /\ Entered(e, x).mine = x.mine /\ Entered(e, x).tries = x.tries
BY DEF Entered, ExecRow

LEMMA ExecKeptAs ==
  ASSUME NEW e \in Execs, NEW x, exec'[e] = x, x.phase \in Started, x.run \in Runs, run' = run, def' = def,
         Visible(x.run), x.mine \in [Steps(x.run) -> StepStatus],
         x.seen \in Ended => run[x.run] \in Ended,
         x.phase \in {"working", "opening"} => x.at \in Steps(x.run) /\ x.at \in x.visited,
         x.phase \in {"working", "opening"} => (def[x.run][x.at].human <=> x.phase = "opening"),
         x.phase = "working" => x.mine[x.at] \notin Done
  PROVE  ExecKept(e)'
<1>1. x.phase # "idle" /\ run[x.run] # "none"  BY DEF Started, Visible
<1>2. x.phase # "idle" /\ x.phase \in {"idle", "starting", "walking", "working", "opening"}  BY DEF Started
<1>. QED  BY <1>1, <1>2 DEF ExecKept, Steps, Visible

(* Each of an executor's actions is one or the other. *)
LEMMA StartMoves ==
  ASSUME TypeOK, Shape, NEW e \in Execs, Start(e)
  PROVE  Leaves(e) \/ \E x : Moves(e, x)
<1>. DEFINE r == exec[e].run
<1>1. exec[e].phase = "starting" /\ r \in Runs /\ run[r] # "none" /\ exec[e].at \in Nat
  BY ExecFields DEF Start, Shape, ExecKept, Started
<1>2. CASE Visible(r) /\ run[r] \notin Ended
  <2>. DEFINE x == [exec[e] EXCEPT !.phase = "walking", !.seen = run[r], !.mine = step[r]]
  <2>1. exec' = [exec EXCEPT ![e] = x]  BY <1>2 DEF Start
  <2>2. step[r] \in [Steps(r) -> StepStatus] /\ step[r] \in Seq(StepStatus) /\ run[r] \in RunStatus
    BY <1>1, StepsKnown, SeqDef DEF TypeOK
  <2>3. /\ x \in ExecRow /\ x.run = r /\ x.phase = "walking" /\ x.seen = run[r] /\ x.mine = step[r]
        /\ x.at = exec[e].at
    BY <2>2, ExecRows DEF ExecRow
  <2>. HIDE DEF x
  <2>4. exec'[e] = x  BY <2>1, ExecRows
  <2>5. UNCHANGED <<runVars, run, step, link, task, due, leaving, charged, late, extra, faults>>
    BY DEF Start
  <2>6. ExecKept(e)'
    BY <1>1, <1>2, <2>2, <2>3, <2>4, <2>5, ExecKeptAs DEF Started, runVars
  <2>7. GoesTo(e, x)
    BY <1>1, <2>3, <2>5 DEF GoesTo, Started
  <2>8. \A q \in Runs : /\ step'[q] \in [Steps(q) -> StepStatus]
                        /\ charged'[q] \in [Steps(q) -> Nat] /\ late'[q] \in [Steps(q) -> Nat]
    BY <2>5 DEF TypeOK
  <2>9. DOMAIN step' = Runs /\ DOMAIN charged' = Runs /\ DOMAIN late' = Runs  BY <2>5 DEF TypeOK
  <2>10. \A q \in Runs : \A j \in Steps(q) : run[q] \in Ended /\ e \in Still(q, j)' => e \in Still(q, j)
    BY <1>2, <2>3, <2>4 DEF Still
  <2>. QED  BY <1>1, <1>2, <2>1, <2>3, <2>5, <2>6, <2>7, <2>8, <2>9, <2>10 DEF Moves, Started
<1>3. CASE ~(Visible(r) /\ run[r] \notin Ended)
  <2>1. exec' = [exec EXCEPT ![e] = Idle]  BY <1>3 DEF Start, Ends
  <2>2. UNCHANGED <<runVars, run, step, link, task, due, leaving, charged, late, extra, faults>>
    BY DEF Start
  <2>3. run[r] # "running"  BY <1>3 DEF Visible, Ended
  <2>4. faults \in 0..MaxFaults /\ faults >= faults /\ run \in [Runs -> RunStatus]  BY BoundsAssumption DEF TypeOK
  <2>5. DOMAIN step = Runs /\ \A q \in Runs : step[q] \in [Steps(q) -> StepStatus]  BY DEF TypeOK
  <2>. QED  BY <1>1, <2>1, <2>2, <2>3, <2>4, <2>5 DEF Leaves
<1>. QED  BY <1>2, <1>3

LEMMA MovesAs ==
  ASSUME TypeOK, Shape, NEW e \in Execs, exec[e].phase \in Started, exec[e].at \in Steps(exec[e].run),
         NEW x \in ExecRow, exec' = [exec EXCEPT ![e] = x], x.run = exec[e].run,
         NEW v \in StepStatus, WriteStep(e, exec[e].at, v), x.mine = [exec[e].mine EXCEPT ![exec[e].at] = v],
         x.seen \in {exec[e].seen, run[exec[e].run]}, exec[e].visited \subseteq x.visited,
         \/ /\ x.at = exec[e].at /\ v \notin Done /\ exec[e].at \in x.visited
            /\ x.phase \in {"working", "opening"}
            /\ (def[exec[e].run][exec[e].at].human <=> x.phase = "opening")
            /\ exec[e].phase = "working" \/ exec[e].at \notin exec[e].visited
         \/ /\ x.phase = "walking"
            /\ Forward(def[exec[e].run]) => x.at > exec[e].at
            /\ Linear(def[exec[e].run]) => x.at = exec[e].at + 1 /\ v \in Done,
         DOMAIN charged' = Runs, DOMAIN late' = Runs,
         \A q \in Runs : charged'[q] \in [Steps(q) -> Nat] /\ late'[q] \in [Steps(q) -> Nat],
         \A q \in Runs : \A j \in Steps(q) :
           (charged'[q][j] = charged[q][j] /\ late'[q][j] = late[q][j]) \/ PaysFor(e, x, q, j),
         UNCHANGED <<runVars, run, link, task, due, leaving, extra, faults>>
  PROVE  Moves(e, x)
<1>. DEFINE r == exec[e].run   i == exec[e].at
<1>1. /\ r \in Runs /\ Visible(r) /\ exec[e].mine \in [Steps(r) -> StepStatus]
      /\ exec[e].seen \in Ended => run[r] \in Ended
      /\ exec[e].phase # "idle" /\ exec[e].phase # "starting"
  BY DEF Shape, ExecKept, Started
<1>2. /\ x.mine \in [Steps(r) -> StepStatus] /\ x.mine[i] = v
      /\ \A j \in Steps(r) : j # i => x.mine[j] = exec[e].mine[j]
  BY <1>1, MineWritten
<1>3. x.phase \in Started  BY DEF Started
<1>4. exec'[e] = x  BY ExecRows
<1>5. run' = run /\ def' = def  BY DEF runVars
<1>6. ExecKept(e)'
  <2>1. x.phase \in {"working", "opening"} => x.at \in Steps(r) /\ x.at \in x.visited  OBVIOUS
  <2>2. x.phase \in {"working", "opening"} => (def[x.run][x.at].human <=> x.phase = "opening")  OBVIOUS
  <2>3. x.phase = "working" => x.mine[x.at] \notin Done  BY <1>2
  <2>4. x.seen \in Ended => run[r] \in Ended  BY <1>1
  <2>. QED  BY <1>1, <1>2, <1>3, <1>4, <1>5, <2>1, <2>2, <2>3, <2>4, ExecKeptAs
<1>7. /\ DOMAIN step' = Runs /\ \A q \in Runs : step'[q] \in [Steps(q) -> StepStatus]
      /\ \A q \in Runs : \A j \in Steps(q) : step'[q][j] = step[q][j] \/ (q = r /\ j = i)
      /\ step'[r][i] = v \/ (step' = step /\ exec[e].mine[i] = v)
  BY <1>1, StepWritten
<1>8. GoesTo(e, x)
  <2>1. x.at = i \/ (i \in Steps(x.run) /\ (Forward(def[x.run]) => x.at > i) /\ (Linear(def[x.run]) => x.at = i + 1))
    OBVIOUS
  <2>2. Linear(def[x.run]) =>
          \/ x.at = i /\ x.mine[i] \notin Done
          \/ /\ x.at = i + 1 /\ x.mine[i] \in Done
             /\ \/ step'[x.run][i] \in Done
                \/ step'[x.run][i] = step[x.run][i] /\ exec[e].mine[i] \in Done
    BY <1>2, <1>7
  <2>. QED  BY <1>1, <1>2, <2>1, <2>2 DEF GoesTo
<1>9. \A q \in Runs : \A j \in Steps(q) : e \in Still(q, j)' => e \in Still(q, j)
  BY <1>4 DEF Still
<1>. QED  BY <1>1, <1>3, <1>6, <1>7, <1>8, <1>9 DEF Moves

LEMMA NoCharge ==
  ASSUME TypeOK, UNCHANGED <<runVars, charged, late>>
  PROVE  /\ DOMAIN charged' = Runs /\ DOMAIN late' = Runs
         /\ \A q \in Runs : charged'[q] \in [Steps(q) -> Nat] /\ late'[q] \in [Steps(q) -> Nat]
         /\ \A q \in Runs : \A j \in Steps(q) : charged'[q][j] = charged[q][j] /\ late'[q][j] = late[q][j]
BY DEF TypeOK

LEMMA CursorKnown ==
  ASSUME TypeOK, Shape, NEW e \in Execs, exec[e].phase \in Started
  PROVE  /\ exec[e].run \in Runs /\ run[exec[e].run] \in RunStatus /\ exec[e].at \in Nat
         /\ exec[e] \in ExecRow /\ exec[e].mine \in [Steps(exec[e].run) -> StepStatus]
         /\ exec[e].visited \subseteq Nat
         /\ exec[e].phase \in {"working", "opening"} =>
              /\ exec[e].at \in Steps(exec[e].run) /\ exec[e].at \in exec[e].visited
              /\ def[exec[e].run][exec[e].at].human <=> exec[e].phase = "opening"
<1>1. exec[e].run \in Runs  BY DEF Shape, ExecKept, Started
<1>. QED  BY <1>1, ExecFields, ExecRows DEF Shape, ExecKept, TypeOK

LEMMA AfterGoesOn ==
  ASSUME TypeOK, NEW r \in Runs, NEW i \in Steps(r)
  PROVE  /\ After(r, i) \in Nat /\ i \in Nat
         /\ Forward(def[r]) => After(r, i) > i
         /\ Linear(def[r]) => After(r, i) = i + 1
<1>1. After(r, i) \in Nat /\ i \in Nat  BY StepsKnown
<1>. QED  BY <1>1 DEF After, Forward, Linear, None, Steps

LEMMA SkipMoves ==
  ASSUME TypeOK, Shape, NEW e \in Execs, SkipStep(e)
  PROVE  \E x : Moves(e, x)
<1>. DEFINE r == exec[e].run   i == exec[e].at   m == Moved(e, i, "skipped", After(r, i))   x == Entered(e, m)
<1>1. /\ Unvisited(e) /\ WriteStep(e, i, "skipped") /\ exec' = [exec EXCEPT ![e] = x]
      /\ UNCHANGED <<runVars, run, link, task, due, leaving, charged, late, extra, faults>>
  BY DEF SkipStep, Cursor, Refreshed
<1>2. exec[e].phase \in Started /\ i \in Steps(r)  BY <1>1 DEF Unvisited, AtStep, Walking, Started
<1>3. "skipped" \in StepStatus /\ "skipped" \in Done  BY DEF StepStatus, Done
<1>4. [exec[e].mine EXCEPT ![i] = "skipped"] \in Seq(StepStatus)  BY <1>2, <1>3, CursorKnown, MineWritten
<1>5. After(r, i) \in Nat  BY <1>2, CursorKnown, AfterGoesOn
<1>6. /\ m \in ExecRow /\ m.run = r /\ m.phase = "walking" /\ m.at = After(r, i) /\ m.visited = exec[e].visited
      /\ m.mine = [exec[e].mine EXCEPT ![i] = "skipped"]
  BY <1>2, <1>4, <1>5, CursorKnown, MovedRow
<1>. HIDE DEF m
<1>7. /\ x \in ExecRow /\ x.run = r /\ x.phase = "walking" /\ x.at = After(r, i) /\ exec[e].visited \subseteq x.visited
      /\ x.mine = [exec[e].mine EXCEPT ![i] = "skipped"] /\ x.seen = run[r]
  BY <1>2, <1>6, CursorKnown, EnteredRow
<1>. HIDE DEF x
<1>8. /\ Forward(def[r]) => x.at > i
      /\ Linear(def[r]) => x.at = i + 1
  BY <1>2, <1>7, CursorKnown, AfterGoesOn
<1>9. Moves(e, x)
  BY <1>1, <1>2, <1>3, <1>7, <1>8, NoCharge, MovesAs
<1>. QED  BY <1>9

LEMMA BeginMoves ==
  ASSUME TypeOK, Shape, NEW e \in Execs, BeginStep(e)
  PROVE  \E x : Moves(e, x)
<1>. DEFINE r == exec[e].run   i == exec[e].at   m == Entered(e, exec[e])
            x == [m EXCEPT !.mine[i] = "running", !.phase = IF def[r][i].human THEN "opening" ELSE "working"]
<1>1. /\ Unvisited(e) /\ WriteStep(e, i, "running")
      /\ UNCHANGED <<runVars, run, link, task, due, leaving, charged, late, extra, faults>>
  BY DEF BeginStep, Cursor, Refreshed
<1>2. exec' = [exec EXCEPT ![e] = x]  BY ExecRows DEF BeginStep, Cursor
<1>3. exec[e].phase \in Started /\ i \in Steps(r) /\ i \notin exec[e].visited
  BY <1>1 DEF Unvisited, AtStep, Walking, Started, SeenBefore
<1>4. "running" \in StepStatus /\ "running" \notin Done  BY DEF StepStatus, Done
<1>5. [exec[e].mine EXCEPT ![i] = "running"] \in Seq(StepStatus)  BY <1>3, <1>4, CursorKnown, MineWritten
<1>6. /\ m \in ExecRow /\ m.run = r /\ m.at = i /\ m.visited = exec[e].visited \cup {i}
      /\ m.mine = exec[e].mine /\ m.seen = run[r]
  BY <1>3, CursorKnown, EnteredRow
<1>. HIDE DEF m
<1>7. /\ x \in ExecRow /\ x.run = r /\ x.at = i /\ x.visited = exec[e].visited \cup {i}
      /\ x.phase = (IF def[r][i].human THEN "opening" ELSE "working")
      /\ x.mine = [exec[e].mine EXCEPT ![i] = "running"] /\ x.seen = run[r]
  BY <1>5, <1>6 DEF ExecRow
<1>. HIDE DEF x
<1>8. /\ x.phase \in {"working", "opening"} /\ (def[r][i].human <=> x.phase = "opening")
  BY <1>7
<1>9. Moves(e, x)
  BY <1>1, <1>2, <1>3, <1>4, <1>7, <1>8, NoCharge, MovesAs
<1>. QED  BY <1>9

LEMMA RetryMoves ==
  ASSUME TypeOK, Shape, NEW e \in Execs, RetryStep(e)
  PROVE  \E x : Moves(e, x)
<1>. DEFINE r == exec[e].run   i == exec[e].at
            x == [exec[e] EXCEPT !.tries = @ + 1, !.mine[i] = "retrying"]
<1>1. /\ exec[e].phase = "working" /\ WriteStep(e, i, "retrying")
      /\ UNCHANGED <<runVars, run, link, task, due, leaving, charged, late, extra, faults>>
  BY DEF RetryStep, Cursor
<1>2. exec' = [exec EXCEPT ![e] = x]  BY ExecRows DEF RetryStep, Cursor
<1>3. exec[e].phase \in Started  BY <1>1 DEF Started
<1>4. "retrying" \in StepStatus /\ "retrying" \notin Done  BY DEF StepStatus, Done
<1>5. i \in Steps(r) /\ i \in exec[e].visited /\ (def[r][i].human <=> exec[e].phase = "opening")
  BY <1>1, <1>3, CursorKnown
<1>6. [exec[e].mine EXCEPT ![i] = "retrying"] \in Seq(StepStatus)  BY <1>3, <1>4, <1>5, CursorKnown, MineWritten
<1>7. /\ x \in ExecRow /\ x.run = r /\ x.at = i /\ x.visited = exec[e].visited /\ x.phase = exec[e].phase
      /\ x.mine = [exec[e].mine EXCEPT ![i] = "retrying"] /\ x.seen = exec[e].seen
  <2>1. exec[e].tries + 1 \in Nat /\ exec[e] \in ExecRow  BY <1>3, ExecFields, CursorKnown
  <2>. QED  BY <1>6, <2>1 DEF ExecRow
<1>. HIDE DEF x
<1>9. Moves(e, x)
  BY <1>1, <1>2, <1>3, <1>4, <1>5, <1>7, NoCharge, MovesAs
<1>. QED  BY <1>9

LEMMA SuccessMoves ==
  ASSUME TypeOK, Shape, NEW e \in Execs, StepSucceeds(e)
  PROVE  \E x : Moves(e, x)
<1>0. PICK r \in Runs, i \in 1..exec[e].at : r = exec[e].run /\ i = exec[e].at
  BY DEF StepSucceeds, Cursor
<1>. DEFINE x == Moved(e, i, "completed", After(r, i))
<1>1. /\ exec[e].phase = "working" /\ WriteStep(e, i, "completed") /\ exec' = [exec EXCEPT ![e] = x]
      /\ Pays(r, i)
      /\ UNCHANGED <<runVars, run, link, task, due, leaving, extra, faults>>
  BY <1>0 DEF StepSucceeds, Cursor
<1>2. exec[e].phase \in Started  BY <1>1 DEF Started
<1>3. "completed" \in StepStatus /\ "completed" \in Done  BY DEF StepStatus, Done
<1>4. i \in Steps(r) /\ i \in exec[e].visited /\ r \in Runs  BY <1>0, <1>1, <1>2, CursorKnown
<1>5. [exec[e].mine EXCEPT ![i] = "completed"] \in Seq(StepStatus)  BY <1>0, <1>2, <1>3, <1>4, CursorKnown, MineWritten
<1>6. After(r, i) \in Nat  BY <1>4, AfterGoesOn
<1>7. /\ x \in ExecRow /\ x.run = r /\ x.phase = "walking" /\ x.at = After(r, i) /\ x.visited = exec[e].visited
      /\ x.mine = [exec[e].mine EXCEPT ![i] = "completed"] /\ x.seen = exec[e].seen
  BY <1>0, <1>2, <1>5, <1>6, CursorKnown, MovedRow
<1>. HIDE DEF x
<1>8. /\ Forward(def[r]) => x.at > i
      /\ Linear(def[r]) => x.at = i + 1
  BY <1>4, <1>7, AfterGoesOn
<1>9. e \in Still(r, i) /\ e \notin Still(r, i)'
  <2>1. exec'[e] = x  BY <1>1, ExecRows
  <2>. QED  BY <1>0, <1>1, <1>2, <1>4, <1>7, <2>1 DEF Still
<1>10. /\ DOMAIN charged' = Runs /\ DOMAIN late' = Runs
       /\ \A q \in Runs : charged'[q] \in [Steps(q) -> Nat] /\ late'[q] \in [Steps(q) -> Nat]
       /\ \A q \in Runs : \A j \in Steps(q) :
            (charged'[q][j] = charged[q][j] /\ late'[q][j] = late[q][j]) \/ PaysFor(e, x, q, j)
  <2>1. /\ DOMAIN charged = Runs /\ DOMAIN late = Runs
        /\ \A q \in Runs : charged[q] \in [Steps(q) -> Nat] /\ late[q] \in [Steps(q) -> Nat]
    BY DEF TypeOK
  <2>2. /\ charged' = [charged EXCEPT ![r][i] = charged[r][i] + 1]
        /\ late' = [late EXCEPT ![r][i] = IF run[r] \in Ended THEN late[r][i] + 1 ELSE late[r][i]]
    BY <1>1, <1>4, <2>1 DEF Pays
  <2>3. charged[r][i] + 1 \in Nat /\ late[r][i] + 1 \in Nat /\ late[r][i] \in Nat  BY <1>4, <2>1
  <2>4. \A q \in Runs : charged'[q] \in [Steps(q) -> Nat]  BY ONLY <1>4, <2>1, <2>2, <2>3
  <2>5. \A q \in Runs : late'[q] \in [Steps(q) -> Nat]  BY ONLY <1>4, <2>1, <2>2, <2>3
  <2>6. \A q \in Runs : \A j \in Steps(q) : q # r \/ j # i =>
          charged'[q][j] = charged[q][j] /\ late'[q][j] = late[q][j]
    BY ONLY <1>4, <2>1, <2>2, <2>3
  <2>7. /\ charged'[r][i] = charged[r][i] + 1
        /\ late'[r][i] = IF run[r] \in Ended THEN late[r][i] + 1 ELSE late[r][i]
    BY ONLY <1>4, <2>1, <2>2, <2>3
  <2>8. PaysFor(e, x, r, i)  BY <1>0, <1>7, <1>8, <1>9, <2>7 DEF PaysFor
  <2>9. DOMAIN charged' = Runs /\ DOMAIN late' = Runs  BY <2>1, <2>2
  <2>. QED  BY <2>4, <2>5, <2>6, <2>8, <2>9
<1>11. Moves(e, x)
  BY <1>0, <1>1, <1>2, <1>3, <1>4, <1>7, <1>8, <1>10, MovesAs
<1>. QED  BY <1>11

(* How an executor's step ends it. *)
LEMMA LeavesAs ==
  ASSUME TypeOK, Shape, NEW e \in Execs, exec[e].phase \in Started, Ends(e),
         run' = run \/ \E v \in {"failed", "completed"} : WriteRun(e, v),
         DOMAIN step' = Runs, \A q \in Runs : step'[q] \in [Steps(q) -> StepStatus],
         \A q \in Runs : \A j \in Steps(q) : step'[q][j] = step[q][j] \/ (q = exec[e].run /\ j = exec[e].at),
         (faults' = faults /\ (run' = run => run[exec[e].run] # "running")) \/ Fault,
         UNCHANGED <<runVars, link, task, due, leaving, charged, late, extra>>
  PROVE  Leaves(e)
<1>. DEFINE r == exec[e].run
<1>1. r \in Runs /\ run[r] \in RunStatus /\ exec[e].phase # "idle"  BY CursorKnown DEF Started
<1>2. run \in [Runs -> RunStatus] /\ faults \in 0..MaxFaults  BY DEF TypeOK
<1>3. exec[e].seen \in Ended => run[r] \in Ended  BY DEF Shape, ExecKept
<1>4. run' = run \/ \E v \in {"failed", "completed"} : run' = [run EXCEPT ![r] = v]
  BY DEF WriteRun
<1>5. /\ run' \in [Runs -> RunStatus]
      /\ \A q \in Runs : run'[q] = run[q] \/ (q = r /\ run'[q] \in {"failed", "completed"})
  BY <1>1, <1>2, <1>4 DEF RunStatus
<1>6. faults' \in 0..MaxFaults /\ faults' >= faults /\ (Fault => faults' # 0)
  BY <1>2, BoundsAssumption DEF Fault
<1>7. run'[r] = "running" => faults' # 0
  <2>1. CASE Fault  BY <2>1, <1>6
  <2>2. CASE faults' = faults /\ (run' = run => run[r] # "running")
    <3>1. CASE run' = run  BY <2>2, <3>1
    <3>2. CASE \E v \in {"failed", "completed"} : run' = [run EXCEPT ![r] = v]  BY <1>1, <1>2, <3>2
    <3>. QED  BY <1>4, <3>1, <3>2
  <2>. QED  BY <2>1, <2>2
<1>8. exec' = [exec EXCEPT ![e] = Idle]  BY DEF Ends
<1>. QED  BY <1>1, <1>5, <1>6, <1>7, <1>8 DEF Leaves

LEMMA FailureMoves ==
  ASSUME TypeOK, Shape, NEW e \in Execs, StepFails(e)
  PROVE  Leaves(e) \/ \E x : Moves(e, x)
<1>. DEFINE r == exec[e].run   i == exec[e].at
<1>1. /\ exec[e].phase = "working" /\ WriteStep(e, i, "failed")
      /\ UNCHANGED <<runVars, link, task, due, leaving, charged, late, extra, faults>>
      /\ IF def[r][i].onFail = None
         THEN WriteRun(e, "failed") /\ Ends(e)
         ELSE run' = run /\ exec' = [exec EXCEPT ![e] = Moved(e, i, "failed", def[r][i].onFail)]
  BY DEF StepFails, Cursor
<1>2. exec[e].phase \in Started  BY <1>1 DEF Started
<1>3. "failed" \in StepStatus  BY DEF StepStatus
<1>4. i \in Steps(r) /\ i \in exec[e].visited /\ r \in Runs  BY <1>1, <1>2, CursorKnown
<1>5. CASE def[r][i].onFail = None
  <2>1. /\ DOMAIN step' = Runs /\ \A q \in Runs : step'[q] \in [Steps(q) -> StepStatus]
        /\ \A q \in Runs : \A j \in Steps(q) : step'[q][j] = step[q][j] \/ (q = r /\ j = i)
    BY <1>1, <1>3, <1>4, StepWritten
  <2>2. WriteRun(e, "failed") /\ Ends(e)  BY <1>1, <1>5
  <2>3. run' = run => run[r] # "running"
    <3>1. exec[e].seen \in Ended => run[r] \in Ended  BY <1>2 DEF Shape, ExecKept
    <3>2. CASE exec[e].seen = "failed"  BY <3>1, <3>2 DEF Ended
    <3>3. CASE exec[e].seen # "failed"
      <4>1. run' = [run EXCEPT ![r] = "failed"]  BY <2>2, <3>3 DEF WriteRun
      <4>2. run'[r] = "failed"  BY <1>4, <4>1 DEF TypeOK
      <4>. QED  BY <4>2
    <3>. QED  BY <3>2, <3>3
  <2>4. Leaves(e)  BY <1>1, <1>2, <2>1, <2>2, <2>3, LeavesAs
  <2>. QED  BY <2>4
<1>6. CASE def[r][i].onFail # None
  <2>. DEFINE x == Moved(e, i, "failed", def[r][i].onFail)
  <2>1. exec' = [exec EXCEPT ![e] = x] /\ run' = run  BY <1>1, <1>6
  <2>2. [exec[e].mine EXCEPT ![i] = "failed"] \in Seq(StepStatus)  BY <1>2, <1>3, <1>4, CursorKnown, MineWritten
  <2>3. def[r][i].onFail \in Nat  BY <1>4, StepsKnown
  <2>4. /\ x \in ExecRow /\ x.run = r /\ x.phase = "walking" /\ x.at = def[r][i].onFail /\ x.visited = exec[e].visited
        /\ x.mine = [exec[e].mine EXCEPT ![i] = "failed"] /\ x.seen = exec[e].seen
    BY <1>2, <2>2, <2>3, CursorKnown, MovedRow
  <2>. HIDE DEF x
  <2>5. (Forward(def[r]) => x.at > i) /\ ~Linear(def[r])
    BY <1>4, <1>6, <2>4 DEF Forward, Linear, Steps
  <2>6. Moves(e, x)
    BY <1>1, <1>2, <1>3, <1>4, <2>1, <2>4, <2>5, NoCharge, MovesAs
  <2>. QED  BY <2>6
<1>. QED  BY <1>5, <1>6

LEMMA EndsAreLeft ==
  ASSUME TypeOK, Shape, NEW e \in Execs,
         DetectLoop(e) \/ StopCancelled(e) \/ Finish(e) \/ ExecutorErrs(e)
  PROVE  Leaves(e)
<1>1. DOMAIN step = Runs /\ \A q \in Runs : step[q] \in [Steps(q) -> StepStatus]  BY DEF TypeOK
<1>2. ASSUME NEW v \in {"failed", "completed"}, WriteRun(e, v), exec[e].phase \in Started
      PROVE  run' = run => run[exec[e].run] # "running"
  <2>1. exec[e].seen \in Ended => run[exec[e].run] \in Ended  BY <1>2 DEF Shape, ExecKept
  <2>2. CASE exec[e].seen = v  BY <2>1, <2>2 DEF Ended
  <2>3. CASE exec[e].seen # v
    <3>1. run' = [run EXCEPT ![exec[e].run] = v]  BY <1>2, <2>3 DEF WriteRun
    <3>2. run'[exec[e].run] = v  BY <1>2, <3>1, CursorKnown DEF TypeOK
    <3>. QED  BY <3>2
  <2>. QED  BY <2>2, <2>3
<1>3. CASE DetectLoop(e)
  <2>1. exec[e].phase \in Started /\ Ends(e) /\ WriteRun(e, "failed")
    BY <1>3 DEF DetectLoop, AtStep, Walking, Started
  <2>2. UNCHANGED <<runVars, step, link, task, due, leaving, charged, late, extra, faults>>  BY <1>3 DEF DetectLoop
  <2>3. run' = run => run[exec[e].run] # "running"  BY <1>2, <2>1
  <2>. QED  BY <1>1, <2>1, <2>2, <2>3, LeavesAs DEF runVars
<1>4. CASE StopCancelled(e)
  <2>1. exec[e].phase \in Started /\ Ends(e) /\ run[exec[e].run] = "cancelled"
    BY <1>4 DEF StopCancelled, Unvisited, AtStep, Walking, Started, StopsFor
  <2>2. UNCHANGED <<runVars, run, step, link, task, due, leaving, charged, late, extra, faults>>  BY <1>4 DEF StopCancelled
  <2>. QED  BY <1>1, <2>1, <2>2, LeavesAs DEF runVars
<1>5. CASE Finish(e)
  <2>1. exec[e].phase \in Started /\ Ends(e) /\ WriteRun(e, "completed")
    BY <1>5 DEF Finish, Walking, Started
  <2>2. UNCHANGED <<runVars, step, link, task, due, leaving, charged, late, extra, faults>>  BY <1>5 DEF Finish
  <2>3. run' = run => run[exec[e].run] # "running"  BY <1>2, <2>1
  <2>. QED  BY <1>1, <2>1, <2>2, <2>3, LeavesAs DEF runVars
<1>6. CASE ExecutorErrs(e)
  <2>1. exec[e].phase \in Started /\ Ends(e) /\ (WriteRun(e, "failed") \/ run' = run) /\ Fault
    BY <1>6, ExecFields DEF ExecutorErrs, Started
  <2>2. UNCHANGED <<runVars, step, link, task, due, leaving, charged, late, extra>>  BY <1>6 DEF ExecutorErrs
  <2>. QED  BY <1>1, <2>1, <2>2, LeavesAs DEF runVars
<1>. QED  BY <1>3, <1>4, <1>5, <1>6

LEMMA ExecutorSteps ==
  ASSUME TypeOK, Shape, NEW e \in Execs, ExecutorStep(e) \/ ExecutorErrs(e)
  PROVE  OpenTask(e) \/ Leaves(e) \/ \E x : Moves(e, x)
BY StartMoves, SkipMoves, BeginMoves, RetryMoves, SuccessMoves, FailureMoves, EndsAreLeft DEF ExecutorStep

---------------------------------------------------------------------------
(* Types are kept *)

LEMMA IdleTyped == Idle \in ExecRow
<1>1. <<>> \in Seq(StepStatus)  BY EmptySeq
<1>. QED  BY <1>1 DEF Idle, ExecRow, RunStatus

LEMMA SpawnedRow ==
  ASSUME NEW r \in Runs, NEW n \in Nat
  PROVE  LET x == [Idle EXCEPT !.run = r, !.phase = "starting", !.at = n]
         IN  x \in ExecRow /\ x.run = r /\ x.phase = "starting" /\ x.at = n
<1>1. <<>> \in Seq(StepStatus)  BY EmptySeq
<1>. QED  BY <1>1 DEF Idle, ExecRow, RunStatus

LEMMA ExecTyped ==
  ASSUME TypeOK, NEW e \in Execs, NEW x \in ExecRow, exec' = [exec EXCEPT ![e] = x]
  PROVE  /\ exec' \in [Execs -> ExecRow] /\ exec'[e] = x
         /\ \A f \in Execs : f # e => exec'[f] = exec[f]
BY DEF TypeOK, ExecRow

LEMMA TypesMove ==
  ASSUME TypeOK, NEW e \in Execs, NEW x, Moves(e, x)
  PROVE  TypeOK'
<1>1. exec' \in [Execs -> ExecRow]  BY ExecTyped DEF Moves
<1>2. UNCHANGED <<runVars, run, link, task, due, leaving, extra, faults>>  BY DEF Moves
<1>3. /\ DOMAIN step' = Runs /\ DOMAIN charged' = Runs /\ DOMAIN late' = Runs
      /\ \A q \in Runs : /\ step'[q] \in [Steps(q) -> StepStatus]
                         /\ charged'[q] \in [Steps(q) -> Nat] /\ late'[q] \in [Steps(q) -> Nat]
  BY DEF Moves
<1>. QED  BY ONLY TypeOK, <1>1, <1>2, <1>3 DEF TypeOK, ExecRow, runVars, Steps

LEMMA TypesLeave ==
  ASSUME TypeOK, NEW e \in Execs, Leaves(e)
  PROVE  TypeOK'
<1>1. exec' \in [Execs -> ExecRow]  BY ExecTyped, IdleTyped DEF Leaves
<1>2. UNCHANGED <<runVars, link, task, due, leaving, charged, late, extra>>  BY DEF Leaves
<1>3. /\ DOMAIN step' = Runs /\ \A q \in Runs : step'[q] \in [Steps(q) -> StepStatus]
      /\ run' \in [Runs -> RunStatus] /\ faults' \in 0..MaxFaults
  BY DEF Leaves
<1>. QED  BY ONLY TypeOK, <1>1, <1>2, <1>3 DEF TypeOK, ExecRow, runVars, Steps

LEMMA TypesOpen ==
  ASSUME TypeOK, NEW e \in Execs, OpenTask(e)
  PROVE  TypeOK'
<1>1. exec' \in [Execs -> ExecRow]  BY ExecTyped, IdleTyped DEF OpenTask, Ends
<1>2. PICK r \in Runs, i \in 1..exec[e].at, t \in Tasks :
        link' = [link EXCEPT ![r][i] = t] /\ task' = [task EXCEPT ![t] = "open"]
  BY DEF OpenTask
<1>3. UNCHANGED <<runVars, run, step, due, leaving, charged, late, extra, faults>>  BY DEF OpenTask
<1>4. DOMAIN link' = Runs /\ \A q \in Runs : link'[q] \in [Steps(q) -> Tasks \cup {None}]
  <2>1. DOMAIN link = Runs /\ \A q \in Runs : link[q] \in [Steps(q) -> Tasks \cup {None}]  BY DEF TypeOK
  <2>. QED  BY ONLY <1>2, <2>1
<1>5. task' \in [Tasks -> {"none", "open", "completed", "cancelled"}]  BY <1>2 DEF TypeOK
<1>. QED  BY ONLY TypeOK, <1>1, <1>3, <1>4, <1>5 DEF TypeOK, ExecRow, runVars, Steps

LEMMA TypesHuman ==
  ASSUME TypeOK, NEW t \in Tasks, Human(t) \/ ResumeUnknown(t)
  PROVE  TypeOK'
<1>1. UNCHANGED <<runVars, run, step, link, exec, leaving, charged, late, faults>>
  BY DEF Human, CompleteTask, ApproveTask, ReopenTask, CancelTask, ResumeUnknown
<1>2. task' \in [Tasks -> {"none", "open", "completed", "cancelled"}]
  BY DEF TypeOK, Human, CompleteTask, ApproveTask, ReopenTask, CancelTask, ResumeUnknown
<1>3. due' \in [Tasks -> Nat]
  <2>1. due \in [Tasks -> Nat] /\ due[t] + 1 \in Nat /\ (due[t] > 0 => due[t] - 1 \in Nat)  BY DEF TypeOK
  <2>2. CASE due' = due  BY <2>1, <2>2
  <2>3. CASE due' = [due EXCEPT ![t] = @ + 1]  BY ONLY <2>1, <2>3, t \in Tasks
  <2>4. CASE Called(t)  BY ONLY <2>1, <2>4, t \in Tasks DEF Called
  <2>. QED  BY <2>2, <2>3, <2>4 DEF Human, CompleteTask, ApproveTask, ReopenTask, CancelTask, ResumeUnknown
<1>4. extra' \in [Runs -> Nat]
  <2>1. CASE UNCHANGED extra  BY <2>1 DEF TypeOK
  <2>2. CASE Extra(t)
    <3>1. \A r \in Runs : extra[r] \in Nat /\ extra[r] + 1 \in Nat  BY DEF TypeOK
    <3>. QED  BY <2>2, <3>1 DEF Extra
  <2>. QED  BY <2>1, <2>2 DEF Human, CompleteTask, ApproveTask, ReopenTask, CancelTask, ResumeUnknown, Repeats
<1>. QED  BY ONLY TypeOK, <1>1, <1>2, <1>3, <1>4 DEF TypeOK, runVars, Steps

LEMMA TypesResume ==
  ASSUME TypeOK, NEW t \in Tasks, NEW e \in Execs, Resume(t, e)
  PROVE  TypeOK'
<1>0. PICK r \in Owner(t) : \E i \in Steps(r) :
        /\ step' = [step EXCEPT ![r][i] = "completed"]
        /\ IF Resumable(r) THEN Free(e) /\ Spawn(e, r, After(r, i)) ELSE exec' = exec
  BY DEF Resume
<1>1. PICK i \in Steps(r) :
        /\ step' = [step EXCEPT ![r][i] = "completed"]
        /\ IF Resumable(r) THEN Free(e) /\ Spawn(e, r, After(r, i)) ELSE exec' = exec
  BY <1>0
<1>2. r \in Runs  BY DEF Owner
<1>3. exec' \in [Execs -> ExecRow]
  <2>1. CASE exec' = exec  BY <2>1 DEF TypeOK, ExecRow
  <2>2. CASE Spawn(e, r, After(r, i))
    <3>1. After(r, i) \in Nat  BY <1>2, AfterGoesOn
    <3>. QED  BY <1>2, <2>2, <3>1, SpawnedRow, ExecTyped DEF Spawn
  <2>. QED  BY <1>1, <2>1, <2>2
<1>4. DOMAIN step' = Runs /\ \A q \in Runs : step'[q] \in [Steps(q) -> StepStatus]
  <2>1. DOMAIN step = Runs /\ \A q \in Runs : step[q] \in [Steps(q) -> StepStatus]  BY DEF TypeOK
  <2>2. "completed" \in StepStatus  BY DEF StepStatus
  <2>. QED  BY ONLY <1>1, <2>1, <2>2
<1>5. due' \in [Tasks -> Nat]  BY DEF TypeOK, Resume, Called
<1>6. UNCHANGED <<runVars, run, link, task, leaving, charged, late, extra, faults>>  BY DEF Resume
<1>. QED  BY ONLY TypeOK, <1>3, <1>4, <1>5, <1>6 DEF TypeOK, ExecRow, runVars, Steps

(* A run is made. *)
Makes(r, d, how, from, status, e, at, steps) ==
  /\ run[r] = "none" /\ exec[e] = Idle
  /\ def' = [def EXCEPT ![r] = d] /\ origin' = [origin EXCEPT ![r] = how]
  /\ parent' = [parent EXCEPT ![r] = from] /\ run' = [run EXCEPT ![r] = status]
  /\ step' = [step EXCEPT ![r] = steps]
  /\ link' = [link EXCEPT ![r] = [i \in DOMAIN d |-> None]]
  /\ charged' = [charged EXCEPT ![r] = [i \in DOMAIN d |-> 0]]
  /\ late' = [late EXCEPT ![r] = [i \in DOMAIN d |-> 0]]
  /\ UNCHANGED <<task, due, leaving, extra, faults>>
  /\ Spawn(e, r, at)
  /\ d \in Definitions \cup {<<>>} /\ steps \in [DOMAIN d -> StepStatus] /\ at \in Nat
  /\ \/ how \in {"owner", "trigger"} /\ from = NoRun /\ at = 1 /\ (how = "owner" <=> status = "running")
     \/ /\ how = "owner" /\ status = "running" /\ at = ResumeFrom(from) /\ d = def[from]
        /\ from \in Runs /\ run[from] \in Ended
        /\ steps = [i \in DOMAIN d |-> IF i < ResumeFrom(from) THEN step[from][i] ELSE "pending"]
  /\ status \in {"running", "uncommitted"}

Making(r) == \E e \in Execs : \E d, how, from, status, at, steps : Makes(r, d, how, from, status, e, at, steps)

LEMMA RunsMade ==
  ASSUME TypeOK, NEW r \in Runs, Owns(r)
  PROVE  \/ \E n \in Runs : Making(n)
         \/ CommitTrigger(r) \/ ReadToCancel(r) \/ Cancel(r)
<1>1. ASSUME NEW d \in Definitions, NEW e \in Execs, StartRun(r, d, e) PROVE Making(r)
  <2>1. Pending(d) \in [DOMAIN d -> StepStatus]  BY DEF Pending, StepStatus
  <2>2. Makes(r, d, "owner", NoRun, "running", e, 1, Pending(d))
    BY <1>1, <2>1 DEF Makes, StartRun, NewRun, Free
  <2>. QED  BY <2>2, Zenon DEF Making
<1>2. ASSUME NEW d \in Definitions, NEW e \in Execs, FireTrigger(r, d, e) PROVE Making(r)
  <2>1. Pending(d) \in [DOMAIN d -> StepStatus]  BY DEF Pending, StepStatus
  <2>2. Makes(r, d, "trigger", NoRun, "uncommitted", e, 1, Pending(d))
    BY <1>2, <2>1 DEF Makes, FireTrigger, NewRun, Free
  <2>. QED  BY <2>2, Zenon DEF Making
<1>3. ASSUME NEW n \in Runs, NEW e \in Execs, Retry(r, n, e) PROVE Making(n)
  <2>. DEFINE st == [i \in Steps(r) |-> IF i < ResumeFrom(r) THEN step[r][i] ELSE "pending"]
  <2>1. st \in [Steps(r) -> StepStatus]
    <3>1. step[r] \in [Steps(r) -> StepStatus]  BY DEF TypeOK
    <3>. QED  BY ONLY <3>1 DEF StepStatus
  <2>2. ResumeFrom(r) \in Nat /\ def[r] \in Definitions \cup {<<>>}  BY ResumePoint DEF TypeOK
  <2>3. Makes(n, def[r], "owner", r, "running", e, ResumeFrom(r), st)
    BY <1>3, <2>1, <2>2 DEF Makes, Retry, NewRun, Free, Steps, Ended
  <2>. QED  BY <2>3, Zenon DEF Making
<1>. QED  BY <1>1, <1>2, <1>3 DEF Owns

LEMMA TypesMake ==
  ASSUME TypeOK, NEW r \in Runs, Making(r)
  PROVE  TypeOK'
<1>0. PICK e \in Execs : \E d, how, from, status, at, steps : Makes(r, d, how, from, status, e, at, steps)
  BY DEF Making
<1>1. PICK d, how, from, status, at, steps : Makes(r, d, how, from, status, e, at, steps)
  BY <1>0
<1>2. exec' \in [Execs -> ExecRow]
  BY <1>1, SpawnedRow, ExecTyped DEF Makes, Spawn
<1>3. /\ def' \in [Runs -> Definitions \cup {<<>>}] /\ \A q \in Runs : q # r => def'[q] = def[q]
      /\ def'[r] = d
  BY <1>1 DEF Makes, TypeOK
<1>4. /\ origin' \in [Runs -> {"none", "owner", "trigger"}] /\ run' \in [Runs -> RunStatus]
      /\ parent' \in [Runs -> Runs \cup {NoRun}]
  BY <1>1 DEF Makes, TypeOK, RunStatus
<1>5. DOMAIN step' = Runs /\ \A q \in Runs : step'[q] \in [DOMAIN def'[q] -> StepStatus]
  BY <1>1, <1>3 DEF Makes, TypeOK, Steps
<1>6. DOMAIN link' = Runs /\ \A q \in Runs : link'[q] \in [DOMAIN def'[q] -> Tasks \cup {None}]
  <2>1. [i \in DOMAIN d |-> None] \in [DOMAIN d -> Tasks \cup {None}]  OBVIOUS
  <2>. QED  BY <1>1, <1>3, <2>1 DEF Makes, TypeOK, Steps
<1>7. /\ DOMAIN charged' = Runs /\ \A q \in Runs : charged'[q] \in [DOMAIN def'[q] -> Nat]
      /\ DOMAIN late' = Runs /\ \A q \in Runs : late'[q] \in [DOMAIN def'[q] -> Nat]
  <2>1. [i \in DOMAIN d |-> 0] \in [DOMAIN d -> Nat]  OBVIOUS
  <2>. QED  BY <1>1, <1>3, <2>1 DEF Makes, TypeOK, Steps
<1>8. UNCHANGED <<task, due, leaving, extra, faults>>  BY <1>1 DEF Makes
<1>. QED  BY ONLY TypeOK, <1>2, <1>3, <1>4, <1>5, <1>6, <1>7, <1>8 DEF TypeOK, ExecRow, Steps

LEMMA TypesQuiet ==
  ASSUME TypeOK, NEW r \in Runs, CommitTrigger(r) \/ ReadToCancel(r) \/ Cancel(r)
  PROVE  TypeOK'
<1>1. run' \in [Runs -> RunStatus] /\ leaving' \in [Runs -> BOOLEAN]
  BY DEF CommitTrigger, ReadToCancel, Cancel, TypeOK, RunStatus
<1>2. UNCHANGED <<runVars, step, link, task, due, exec, charged, late, extra, faults>>
  BY DEF CommitTrigger, ReadToCancel, Cancel
<1>. QED  BY ONLY TypeOK, <1>1, <1>2 DEF TypeOK, runVars, Steps

LEMMA TypesCrash ==
  ASSUME TypeOK, Crash
  PROVE  TypeOK'
<1>1. exec' \in [Execs -> ExecRow]  BY IdleTyped DEF Crash
<1>2. due' \in [Tasks -> Nat] /\ leaving' \in [Runs -> BOOLEAN]  BY DEF Crash
<1>3. run' \in [Runs -> RunStatus]  BY DEF Crash, TypeOK, RunStatus
<1>4. faults' \in 0..MaxFaults  BY BoundsAssumption DEF Crash, Fault, TypeOK
<1>5. UNCHANGED <<runVars, step, link, task, charged, late, extra>>  BY DEF Crash
<1>. QED  BY ONLY TypeOK, <1>1, <1>2, <1>3, <1>4, <1>5 DEF TypeOK, ExecRow, runVars, Steps

(* Every step is of one of these kinds. *)
LEMMA StepKinds ==
  ASSUME TypeOK, Shape, Next
  PROVE  \/ \E e \in Execs : OpenTask(e) \/ Leaves(e) \/ \E x : Moves(e, x)
         \/ \E t \in Tasks : Human(t) \/ ResumeUnknown(t)
         \/ \E t \in Tasks, e \in Execs : Resume(t, e)
         \/ \E r \in Runs : Making(r)
         \/ \E r \in Runs : CommitTrigger(r) \/ ReadToCancel(r) \/ Cancel(r)
         \/ Crash
<1>1. CASE \E e \in Execs : ExecutorStep(e) \/ ExecutorErrs(e)  BY <1>1, ExecutorSteps
<1>2. CASE \E r \in Runs : Owns(r)  BY <1>2, RunsMade
<1>3. CASE \E t \in Tasks : Human(t) \/ Resumes(t)  BY <1>3 DEF Resumes
<1>. QED  BY <1>1, <1>2, <1>3 DEF Next

LEMMA TypesKept == TypeOK /\ Shape /\ [Next]_vars => TypeOK'
<1>1. ASSUME TypeOK, Shape, Next PROVE TypeOK'
  BY <1>1, StepKinds, TypesMove, TypesLeave, TypesOpen, TypesHuman, TypesResume, TypesMake, TypesQuiet, TypesCrash
<1>2. ASSUME TypeOK, UNCHANGED vars PROVE TypeOK'
  BY <1>2 DEF TypeOK, vars, runVars, Steps
<1>. QED  BY <1>1, <1>2

---------------------------------------------------------------------------
(* The shape is kept *)

LEMMA ExecStays ==
  ASSUME NEW f \in Execs, ExecKept(f), exec'[f] = exec[f],
         \A q \in Runs : run[q] # "none" => /\ def'[q] = def[q] /\ run'[q] # "none"
                                            /\ run[q] # "uncommitted" => run'[q] # "uncommitted"
                                            /\ run[q] \in Ended => run'[q] \in Ended
  PROVE  ExecKept(f)'
<1>1. CASE exec[f].phase = "idle"
  BY <1>1 DEF ExecKept, Started
<1>2. CASE exec[f].phase # "idle"
  <2>1. PICK q \in Runs : q = exec[f].run  BY <1>2 DEF ExecKept
  <2>2. run[q] # "none"  BY <1>2, <2>1 DEF ExecKept
  <2>3. Steps(q)' = Steps(q) /\ def'[q] = def[q]  BY <2>2 DEF Steps
  <2>4. Visible(q) => Visible(q)'  BY <2>2 DEF Visible
  <2>5. exec[f].phase \in Started /\ exec[f].seen \in Ended => run'[q] \in Ended
    BY <2>1, <2>2 DEF ExecKept
  <2>6. run'[q] # "none"  BY <2>2
  <2>. QED  BY <1>2, <2>1, <2>3, <2>4, <2>5, <2>6 DEF ExecKept
<1>. QED  BY <1>1, <1>2

LEMMA IdleKept ==
  ASSUME NEW f \in Execs, exec'[f] = Idle PROVE ExecKept(f)'
BY IdleFields DEF ExecKept, Started

LEMMA RunsStay ==
  ASSUME TypeOK, Shape, UNCHANGED runVars,
         \A q \in Runs : /\ Visible(q) => Visible(q)'
                         /\ run[q] \in Ended => run'[q] \in Ended
                         /\ ~Visible(q) => link'[q] = link[q] /\ ~leaving'[q]
  PROVE  \A r \in Runs : RunShape(r)'
<1>. SUFFICES ASSUME NEW r \in Runs PROVE RunShape(r)'
  OBVIOUS
<1>1. RunShape(r) /\ parent' = parent /\ def' = def /\ origin' = origin  BY DEF Shape, runVars
<1>2. Steps(r)' = Steps(r)  BY <1>1 DEF Steps
<1>3. ~Visible(r)' => /\ \A i \in Steps(r) : link'[r][i] = None
                      /\ origin'[r] # "owner" /\ parent'[r] = NoRun /\ ~leaving'[r]
  BY <1>1 DEF RunShape
<1>4. parent'[r] # NoRun => /\ parent'[r] \in Runs /\ run'[parent[r]] \in Ended
                            /\ def'[r] = def'[parent[r]]
  BY <1>1 DEF RunShape
<1>. QED  BY <1>1, <1>2, <1>3, <1>4 DEF RunShape

LEMMA LinksStay ==
  ASSUME Shape, UNCHANGED <<def, link>>, \A t \in Tasks : task[t] # "none" => task'[t] # "none", TypeOK
  PROVE  LinksApart' /\ LinksMade'
<1>1. LinksApart'  BY DEF Shape, LinksApart, Steps
<1>2. \A r \in Runs : Steps(r)' = Steps(r)  BY DEF Steps
<1>3. ASSUME NEW r \in Runs, NEW i \in Steps(r), link[r][i] # None PROVE task'[link[r][i]] # "none"
  BY <1>3, RunFields DEF Shape, LinksMade
<1>. QED  BY <1>1, <1>2, <1>3 DEF LinksMade

LEMMA ShapeMove ==
  ASSUME TypeOK, Shape, NEW e \in Execs, NEW x, Moves(e, x)
  PROVE  Shape'
<1>1. UNCHANGED <<runVars, run, link, task, due, leaving>> /\ x \in ExecRow /\ exec' = [exec EXCEPT ![e] = x]
  BY DEF Moves
<1>2. ASSUME NEW f \in Execs PROVE ExecKept(f)'
  <2>1. CASE f = e  BY <2>1 DEF Moves
  <2>2. CASE f # e  BY <1>1, <2>2, ExecTyped, ExecStays DEF Shape, runVars
  <2>. QED  BY <2>1, <2>2
<1>3. \A r \in Runs : RunShape(r)'
  BY <1>1, RunsStay DEF Visible, Shape, RunShape
<1>4. LinksApart' /\ LinksMade'  BY <1>1, LinksStay DEF runVars
<1>5. TasksMade' /\ IsFiniteSet(AllCalls)'  BY <1>1 DEF Shape, TasksMade, AllCalls
<1>. QED  BY <1>2, <1>3, <1>4, <1>5 DEF Shape

LEMMA LeavesRuns ==
  ASSUME TypeOK, Shape, NEW e \in Execs, Leaves(e)
  PROVE  \A q \in Runs : /\ Visible(q) => Visible(q)'
                         /\ ~Visible(q) => run'[q] = run[q]
                         /\ run[q] # "none" => run'[q] # "none"
                         /\ run[q] # "uncommitted" => run'[q] # "uncommitted"
                         /\ run[q] \in Ended => run'[q] \in Ended
<1>. SUFFICES ASSUME NEW q \in Runs, run'[q] # run[q]
              PROVE  Visible(q) /\ run'[q] \in {"failed", "completed"}
  BY DEF Visible, Ended
<1>1. q = exec[e].run /\ exec[e].phase \in Started /\ run'[q] \in {"failed", "completed"}  BY DEF Leaves
<1>. QED  BY <1>1 DEF Shape, ExecKept

LEMMA ShapeLeave ==
  ASSUME TypeOK, Shape, NEW e \in Execs, Leaves(e)
  PROVE  Shape'
<1>1. UNCHANGED <<runVars, link, task, due, leaving>> /\ exec' = [exec EXCEPT ![e] = Idle]
  BY DEF Leaves
<1>2. ASSUME NEW f \in Execs PROVE ExecKept(f)'
  <2>1. CASE f = e  BY <1>1, <2>1, IdleTyped, ExecTyped, IdleKept
  <2>2. CASE f # e  BY <1>1, <2>2, IdleTyped, ExecTyped, ExecStays, LeavesRuns DEF Shape, runVars
  <2>. QED  BY <2>1, <2>2
<1>3. \A r \in Runs : RunShape(r)'
  BY <1>1, RunsStay, LeavesRuns DEF Shape, RunShape
<1>4. LinksApart' /\ LinksMade'  BY <1>1, LinksStay DEF runVars
<1>5. TasksMade' /\ IsFiniteSet(AllCalls)'  BY <1>1 DEF Shape, TasksMade, AllCalls
<1>. QED  BY <1>2, <1>3, <1>4, <1>5 DEF Shape

(* What opening a task does, with its run, step and task in hand. *)
Opens(e, r, i, t) ==
  /\ exec[e].run = r /\ exec[e].at = i /\ exec[e].phase = "opening" /\ Visible(r) /\ i \in Steps(r)
  /\ task[t] = "none"
  /\ task' = [task EXCEPT ![t] = "open"] /\ link' = [link EXCEPT ![r][i] = t]
  /\ exec' = [exec EXCEPT ![e] = Idle]
  /\ UNCHANGED <<runVars, run, step, due, leaving, charged, late, extra, faults>>

LEMMA TaskOpened ==
  ASSUME TypeOK, Shape, NEW e \in Execs, OpenTask(e)
  PROVE  \E r \in Runs, i \in Nat, t \in Tasks : Opens(e, r, i, t)
<1>0. PICK r \in Runs, i \in 1..exec[e].at, t \in Tasks :
        /\ Cursor(e, r, i)
        /\ exec[e].phase = "opening"
        /\ task[t] = "none" /\ \A u \in Tasks : u < t => task[u] # "none"
        /\ task' = [task EXCEPT ![t] = "open"]
        /\ link' = [link EXCEPT ![r][i] = t]
        /\ Ends(e)
        /\ UNCHANGED <<runVars, run, step, due, leaving, charged, late, extra, faults>>
  BY DEF OpenTask
<1>1. /\ exec[e].run = r /\ exec[e].at = i /\ exec[e].phase = "opening" /\ task[t] = "none"
      /\ task' = [task EXCEPT ![t] = "open"] /\ link' = [link EXCEPT ![r][i] = t]
      /\ exec' = [exec EXCEPT ![e] = Idle]
  BY <1>0 DEF Cursor, OpenTask, Ends
<1>2. UNCHANGED <<runVars, run, step, due, leaving, charged, late, extra, faults>>  BY DEF OpenTask
<1>3. Visible(r) /\ i \in Steps(r) /\ i \in Nat
  <2>1. ExecKept(e) /\ exec[e].phase \in Started /\ exec[e].at \in Nat  BY <1>1, ExecFields DEF Shape, Started
  <2>. QED  BY <1>1, <2>1 DEF ExecKept
<1>4. Opens(e, r, i, t)  BY <1>1, <1>2, <1>3 DEF Opens
<1>. QED  BY <1>3, <1>4

LEMMA LinkOpened ==
  ASSUME TypeOK, NEW e \in Execs, NEW r \in Runs, NEW i \in Nat, NEW t \in Tasks, Opens(e, r, i, t)
  PROVE  /\ link'[r][i] = t /\ t # None
         /\ \A q \in Runs : \A j \in Steps(q) : q # r \/ j # i => link'[q][j] = link[q][j]
         /\ \A q \in Runs : Steps(q)' = Steps(q)
         /\ exec'[e] = Idle /\ \A f \in Execs : f # e => exec'[f] = exec[f]
         /\ task'[t] = "open" /\ \A u \in Tasks : u # t => task'[u] = task[u]
<1>1. DOMAIN link = Runs /\ link[r] \in [Steps(r) -> Tasks \cup {None}] /\ i \in Steps(r)  BY DEF TypeOK, Opens
<1>2. link' = [link EXCEPT ![r][i] = t] /\ def' = def  BY DEF Opens, runVars
<1>3. /\ link'[r][i] = t
      /\ \A q \in Runs : \A j \in Steps(q) : q # r \/ j # i => link'[q][j] = link[q][j]
  BY ONLY <1>1, <1>2, r \in Runs
<1>4. exec'[e] = Idle /\ \A f \in Execs : f # e => exec'[f] = exec[f]
  BY IdleTyped, ExecTyped DEF Opens
<1>5. task'[t] = "open" /\ \A u \in Tasks : u # t => task'[u] = task[u]  BY DEF Opens, TypeOK
<1>. QED  BY <1>2, <1>3, <1>4, <1>5, IdsAssumption DEF Steps

LEMMA ShapeOpen ==
  ASSUME TypeOK, Shape, NEW e \in Execs, OpenTask(e)
  PROVE  Shape'
<1>1. PICK r \in Runs, i \in Nat, t \in Tasks : Opens(e, r, i, t)  BY TaskOpened
<1>2. UNCHANGED <<runVars, run, due, leaving>> /\ Visible(r) /\ task[t] = "none" /\ i \in Steps(r)  BY <1>1 DEF Opens
<1>. USE LinkOpened
<1>3. ASSUME NEW f \in Execs PROVE ExecKept(f)'
  <2>1. CASE f = e  BY <1>1, <2>1, IdleKept
  <2>2. CASE f # e  BY <1>1, <1>2, <2>2, ExecStays DEF Shape, runVars
  <2>. QED  BY <2>1, <2>2
<1>4. \A q \in Runs : RunShape(q)'
  <2>1. ASSUME NEW q \in Runs, ~Visible(q) PROVE link'[q] = link[q]
    <3>1. DOMAIN link = Runs /\ q # r  BY <1>2, <2>1 DEF TypeOK
    <3>. QED  BY <1>1, <3>1 DEF Opens
  <2>. QED  BY <1>2, <2>1, RunsStay DEF Visible, Shape, RunShape
<1>5. LinksMade'
  <2>1. ASSUME NEW q \in Runs, NEW j \in Steps(q), link'[q][j] # None PROVE task'[link'[q][j]] # "none"
    <3>1. CASE q = r /\ j = i  BY <1>1, <3>1
    <3>2. CASE ~(q = r /\ j = i)
      <4>1. link'[q][j] = link[q][j] /\ link[q][j] \in Tasks /\ task[link[q][j]] # "none"
        BY <1>1, <2>1, <3>2, RunFields DEF Shape, LinksMade
      <4>. QED  BY <1>1, <1>2, <4>1
    <3>. QED  BY <3>1, <3>2
  <2>. QED  BY <1>1, <2>1 DEF LinksMade
<1>6. LinksApart'
  <2>1. ASSUME NEW q \in Runs, NEW j \in Steps(q) PROVE link[q][j] # t
    BY <1>2, LinkOpened, <1>1 DEF Shape, LinksMade
  <2>2. ASSUME NEW q \in Runs, NEW j \in Steps(q), NEW p \in Runs, NEW k \in Steps(p),
               link'[q][j] # None, link'[q][j] = link'[p][k]
        PROVE  q = p /\ j = k
    <3>1. CASE q = r /\ j = i  BY <1>1, <2>1, <2>2, <3>1
    <3>2. CASE p = r /\ k = i  BY <1>1, <2>1, <2>2, <3>2
    <3>3. CASE ~(q = r /\ j = i) /\ ~(p = r /\ k = i)
      <4>1. link'[q][j] = link[q][j] /\ link'[p][k] = link[p][k]  BY <1>1, <3>3
      <4>2. LinksApart  BY DEF Shape
      <4>3. link[q][j] # None /\ link[q][j] = link[p][k]  BY ONLY <2>2, <4>1
      <4>. QED  BY ONLY <4>2, <4>3, q \in Runs, p \in Runs, j \in Steps(q), k \in Steps(p) DEF LinksApart
    <3>. QED  BY <3>1, <3>2, <3>3
  <2>. QED  BY <1>1, <2>2 DEF LinksApart
<1>7. TasksMade' /\ IsFiniteSet(AllCalls)'
  BY <1>1, <1>2 DEF Shape, TasksMade, AllCalls
<1>. QED  BY <1>3, <1>4, <1>5, <1>6, <1>7 DEF Shape

LEMMA CallsAdded ==
  ASSUME TypeOK, IsFiniteSet(AllCalls), NEW t \in Tasks,
         \A u \in Tasks : u # t => due'[u] <= due[u], due'[t] <= due[t] + 1, due' \in [Tasks -> Nat]
  PROVE  IsFiniteSet(AllCalls)'
<1>1. AllCalls' \subseteq AllCalls \cup {<<t, due[t] + 1>>}
  <2>1. ASSUME NEW u \in Tasks, NEW n \in Nat, n \in 1..due'[u] PROVE n \in 1..due[u] \/ (u = t /\ n = due[t] + 1)
    BY <2>1 DEF TypeOK
  <2>2. ASSUME NEW c \in Tasks \X Nat, c[2] \in 1..due'[c[1]] PROVE c \in AllCalls \cup {<<t, due[t] + 1>>}
    <3>1. PICK u \in Tasks, n \in Nat : c = <<u, n>>  OBVIOUS
    <3>2. n \in 1..due[u] \/ (u = t /\ n = due[t] + 1)  BY <2>1, <2>2, <3>1
    <3>. QED  BY <3>1, <3>2 DEF AllCalls
  <2>. QED  BY <2>2 DEF AllCalls
<1>2. IsFiniteSet(AllCalls')  BY <1>1, CardMore
<1>. QED  BY <1>2

(* What workers and owners do to a task, and what is left of a call whose   *)
(* step has a newer task.                                                   *)
LEMMA TaskTouched ==
  ASSUME TypeOK, NEW t \in Tasks, Human(t) \/ ResumeUnknown(t)
  PROVE  /\ UNCHANGED <<runVars, run, step, link, exec, leaving, charged, late, faults>>
         /\ \A u \in Tasks : u # t => task'[u] = task[u] /\ due'[u] = due[u]
         /\ task[t] # "none" => task'[t] # "none"
         /\ task'[t] = "none" => task[t] = "none" /\ due'[t] <= due[t]
         /\ due'[t] <= due[t] + 1 /\ due'[t] \in Nat /\ due[t] \in Nat
<1>1. UNCHANGED <<runVars, run, step, link, exec, leaving, charged, late, faults>>
  BY DEF Human, CompleteTask, ApproveTask, ReopenTask, CancelTask, ResumeUnknown
<1>2. due \in [Tasks -> Nat] /\ due' \in [Tasks -> Nat]  BY TypesHuman DEF TypeOK
<1>3. DOMAIN task = Tasks  BY DEF TypeOK
<1>4. CASE CompleteTask(t)  BY <1>1, <1>2, <1>3, <1>4 DEF CompleteTask
<1>5. CASE ApproveTask(t)  BY <1>1, <1>2, <1>3, <1>5 DEF ApproveTask, Repeats
<1>6. CASE ReopenTask(t)  BY <1>1, <1>2, <1>3, <1>6 DEF ReopenTask, Repeats
<1>7. CASE CancelTask(t)  BY <1>1, <1>2, <1>3, <1>7 DEF CancelTask
<1>8. CASE ResumeUnknown(t)  BY <1>1, <1>2, <1>3, <1>8 DEF ResumeUnknown, Called
<1>. QED  BY <1>4, <1>5, <1>6, <1>7, <1>8 DEF Human

LEMMA ShapeHuman ==
  ASSUME TypeOK, Shape, NEW t \in Tasks, Human(t) \/ ResumeUnknown(t)
  PROVE  Shape'
<1>1. UNCHANGED <<runVars, run, step, link, exec, leaving>>  BY TaskTouched
<1>2. \A f \in Execs : ExecKept(f)'  BY <1>1, ExecStays DEF Shape, runVars
<1>3. \A r \in Runs : RunShape(r)'
  BY <1>1, RunsStay DEF Visible, Shape, RunShape
<1>4. LinksApart' /\ LinksMade'  BY <1>1, TaskTouched, LinksStay DEF runVars
<1>5. TasksMade'
  <2>1. ASSUME NEW u \in Tasks, task'[u] = "none" PROVE due'[u] = 0
    <3>1. task[u] = "none" /\ due'[u] <= due[u] /\ due[u] \in Nat /\ due'[u] \in Nat
      <4>1. due[u] \in Nat  BY DEF TypeOK
      <4>. QED  BY <2>1, <4>1, TaskTouched
    <3>2. due[u] = 0  BY <3>1 DEF Shape, TasksMade
    <3>. QED  BY ONLY <3>1, <3>2
  <2>. QED  BY <2>1 DEF TasksMade
<1>6. IsFiniteSet(AllCalls)'
  <2>1. \A u \in Tasks : due[u] \in Nat  BY DEF TypeOK
  <2>2. \A u \in Tasks : u # t => due'[u] <= due[u]  BY <2>1, TaskTouched
  <2>3. due' \in [Tasks -> Nat]  BY TypesHuman DEF TypeOK
  <2>. QED  BY <2>2, <2>3, TaskTouched, CallsAdded DEF Shape
<1>. QED  BY <1>2, <1>3, <1>4, <1>5, <1>6 DEF Shape

(* A resumption, with its run and step in hand. *)
Resumed(t, e, r, i) ==
  /\ link[r][i] = t /\ due[t] > 0 /\ due' = [due EXCEPT ![t] = due[t] - 1]
  /\ step' = [step EXCEPT ![r][i] = "completed"]
  /\ \/ run[r] \in Ended /\ exec' = exec
     \/ /\ run[r] \notin Ended /\ exec[e] = Idle
        /\ exec' = [exec EXCEPT ![e] = [Idle EXCEPT !.run = r, !.phase = "starting", !.at = After(r, i)]]
  /\ UNCHANGED <<runVars, run, link, task, leaving, charged, late, extra, faults>>

LEMMA CallMade ==
  ASSUME TypeOK, NEW t \in Tasks, NEW e \in Execs, Resume(t, e)
  PROVE  \E r \in Runs : \E i \in Steps(r) : Resumed(t, e, r, i)
<1>1. PICK r \in Owner(t) : \E i \in Steps(r) :
         /\ Called(t)
         /\ link[r][i] = t
         /\ step' = [step EXCEPT ![r][i] = "completed"]
         /\ IF Resumable(r) THEN Free(e) /\ Spawn(e, r, After(r, i)) ELSE exec' = exec
         /\ UNCHANGED <<runVars, run, link, task, leaving, charged, late, extra, faults>>
  BY DEF Resume
<1>2. PICK i \in Steps(r) :
         /\ Called(t)
         /\ link[r][i] = t
         /\ step' = [step EXCEPT ![r][i] = "completed"]
         /\ IF Resumable(r) THEN Free(e) /\ Spawn(e, r, After(r, i)) ELSE exec' = exec
         /\ UNCHANGED <<runVars, run, link, task, leaving, charged, late, extra, faults>>
  BY <1>1
<1>3. due[t] > 0 /\ due' = [due EXCEPT ![t] = due[t] - 1]  BY <1>2 DEF Called, TypeOK
<1>4. \/ run[r] \in Ended /\ exec' = exec
      \/ /\ run[r] \notin Ended /\ exec[e] = Idle
         /\ exec' = [exec EXCEPT ![e] = [Idle EXCEPT !.run = r, !.phase = "starting", !.at = After(r, i)]]
  BY <1>2 DEF Resumable, Free, Spawn
<1>5. Resumed(t, e, r, i)  BY <1>2, <1>3, <1>4 DEF Resumed
<1>6. r \in Runs  BY DEF Owner
<1>. QED  BY <1>5, <1>6

LEMMA ResumedFacts ==
  ASSUME TypeOK, Shape, NEW t \in Tasks, NEW e \in Execs, NEW r \in Runs, NEW i \in Steps(r), Resumed(t, e, r, i)
  PROVE  /\ UNCHANGED <<runVars, run, link, task, leaving, charged, late, extra, faults>>
         /\ Visible(r) /\ link[r][i] = t /\ t # None /\ due[t] > 0 /\ due[t] \in Nat
         /\ due'[t] = due[t] - 1 /\ \A u \in Tasks : u # t => due'[u] = due[u]
         /\ step'[r][i] = "completed"
         /\ \A q \in Runs : \A j \in Steps(q) : q # r \/ j # i => step'[q][j] = step[q][j]
         /\ \A f \in Execs : f # e => exec'[f] = exec[f]
         /\ \/ run[r] \in Ended /\ exec'[e] = exec[e]
            \/ /\ run[r] \notin Ended /\ exec[e] = Idle
               /\ exec'[e].run = r /\ exec'[e].phase = "starting" /\ exec'[e].at = After(r, i)
<1>1. UNCHANGED <<runVars, run, link, task, leaving, charged, late, extra, faults>>
      /\ link[r][i] = t /\ due[t] > 0  BY DEF Resumed
<1>2. t # None /\ due \in [Tasks -> Nat]  BY IdsAssumption DEF TypeOK
<1>3. Visible(r)  BY <1>1, <1>2 DEF Shape, RunShape
<1>4. due'[t] = due[t] - 1 /\ \A u \in Tasks : u # t => due'[u] = due[u]
  <2>1. due' = [due EXCEPT ![t] = due[t] - 1]  BY DEF Resumed
  <2>. QED  BY ONLY <1>2, <2>1, t \in Tasks
<1>5. /\ step'[r][i] = "completed"
      /\ \A q \in Runs : \A j \in Steps(q) : q # r \/ j # i => step'[q][j] = step[q][j]
  <2>1. DOMAIN step = Runs /\ \A q \in Runs : step[q] \in [Steps(q) -> StepStatus]  BY DEF TypeOK
  <2>2. step' = [step EXCEPT ![r][i] = "completed"]  BY DEF Resumed
  <2>. QED  BY ONLY <2>1, <2>2, r \in Runs, i \in Steps(r)
<1>6. /\ \A f \in Execs : f # e => exec'[f] = exec[f]
      /\ \/ run[r] \in Ended /\ exec'[e] = exec[e]
         \/ /\ run[r] \notin Ended /\ exec[e] = Idle
            /\ exec'[e].run = r /\ exec'[e].phase = "starting" /\ exec'[e].at = After(r, i)
  <2>1. CASE run[r] \in Ended /\ exec' = exec  BY <2>1
  <2>2. CASE /\ run[r] \notin Ended /\ exec[e] = Idle
             /\ exec' = [exec EXCEPT ![e] = [Idle EXCEPT !.run = r, !.phase = "starting", !.at = After(r, i)]]
    <3>0. PICK n \in Nat : n = After(r, i)  BY AfterGoesOn
    <3>1. PICK x : x = [Idle EXCEPT !.run = r, !.phase = "starting", !.at = n]  OBVIOUS
    <3>2. x \in ExecRow /\ x.run = r /\ x.phase = "starting" /\ x.at = n
      BY <3>1, SpawnedRow
    <3>3. exec' = [exec EXCEPT ![e] = x]  BY <2>2, <3>0, <3>1
    <3>4. exec'[e] = x /\ \A f \in Execs : f # e => exec'[f] = exec[f]  BY <3>2, <3>3, ExecTyped
    <3>. QED  BY <2>2, <3>0, <3>2, <3>4
  <2>. QED  BY <2>1, <2>2 DEF Resumed
<1>. QED  BY <1>1, <1>2, <1>3, <1>4, <1>5, <1>6

LEMMA ShapeResume ==
  ASSUME TypeOK, Shape, NEW t \in Tasks, NEW e \in Execs, Resume(t, e)
  PROVE  Shape'
<1>1. PICK r \in Runs : \E i \in Steps(r) : Resumed(t, e, r, i)  BY CallMade
<1>2. PICK i \in Steps(r) : Resumed(t, e, r, i)  BY <1>1
<1>. DEFINE Facts ==
       /\ UNCHANGED <<runVars, run, link, task, leaving>> /\ Visible(r)
       /\ due'[t] = due[t] - 1 /\ \A u \in Tasks : u # t => due'[u] = due[u]
<1>3. Facts  BY <1>2, ResumedFacts
<1>4. ASSUME NEW f \in Execs PROVE ExecKept(f)'
  <2>1. CASE exec'[f] = exec[f]  BY <1>3, <2>1, ExecStays DEF Shape, runVars
  <2>2. CASE exec'[f] # exec[f]
    <3>1. exec'[f].run = r /\ exec'[f].phase = "starting"  BY <1>2, <2>2, ResumedFacts
    <3>. QED  BY <1>3, <3>1 DEF ExecKept, Visible, Started
  <2>. QED  BY <2>1, <2>2
<1>5. \A q \in Runs : RunShape(q)'
  BY <1>3, RunsStay DEF Visible, Shape, RunShape
<1>6. LinksApart' /\ LinksMade'  BY <1>3, LinksStay DEF runVars
<1>7. \A u \in Tasks : due[u] \in Nat /\ due'[u] \in Nat /\ due'[u] <= due[u]
  <2>1. \A u \in Tasks : due[u] \in Nat  BY DEF TypeOK
  <2>2. due[t] > 0  BY <1>2, ResumedFacts
  <2>. QED  BY <1>3, <2>1, <2>2
<1>8. TasksMade'
  <2>1. ASSUME NEW u \in Tasks, task'[u] = "none" PROVE due'[u] = 0
    <3>1. due[u] = 0  BY <1>3, <2>1 DEF Shape, TasksMade
    <3>. QED  BY <1>7, <3>1
  <2>. QED  BY <2>1 DEF TasksMade
<1>9. IsFiniteSet(AllCalls)'
  <2>1. due' \in [Tasks -> Nat]  BY TypesResume DEF TypeOK
  <2>2. due'[t] <= due[t] + 1  BY <1>7
  <2>. QED  BY <1>7, <2>1, <2>2, CallsAdded DEF Shape
<1>. QED  BY <1>4, <1>5, <1>6, <1>8, <1>9 DEF Shape

(* A run as it is made. *)
Made(r, e) ==
  /\ run[r] = "none" /\ exec[e] = Idle
  /\ \A q \in Runs : q # r => /\ def'[q] = def[q] /\ origin'[q] = origin[q] /\ parent'[q] = parent[q]
                              /\ run'[q] = run[q] /\ step'[q] = step[q] /\ link'[q] = link[q]
                              /\ charged'[q] = charged[q] /\ late'[q] = late[q]
  /\ \A i \in DOMAIN def'[r] : link'[r][i] = None /\ charged'[r][i] = 0 /\ late'[r][i] = 0
  /\ run'[r] \in {"running", "uncommitted"} /\ (origin'[r] = "owner" <=> run'[r] = "running")
  /\ exec'[e].run = r /\ exec'[e].phase = "starting" /\ \A f \in Execs : f # e => exec'[f] = exec[f]
  /\ \/ parent'[r] = NoRun /\ exec'[e].at = 1
     \/ /\ parent'[r] \in Runs /\ parent'[r] # r /\ run[parent'[r]] \in Ended /\ run'[r] = "running"
        /\ def'[r] = def[parent'[r]] /\ exec'[e].at = ResumeFrom(parent'[r])
        /\ \A j \in DOMAIN def'[r] : j < exec'[e].at => step'[r][j] = step[parent'[r]][j]
  /\ UNCHANGED <<task, due, leaving, extra, faults>>

LEMMA MadeFacts ==
  ASSUME TypeOK, Shape, NEW r \in Runs, Making(r)
  PROVE  \E e \in Execs : Made(r, e)
<1>0. PICK e \in Execs : \E d, how, from, status, at, steps : Makes(r, d, how, from, status, e, at, steps)
  BY DEF Making
<1>1. PICK d, how, from, status, at, steps : Makes(r, d, how, from, status, e, at, steps)
  BY <1>0
<1>2. /\ DOMAIN def = Runs /\ DOMAIN origin = Runs /\ DOMAIN parent = Runs /\ DOMAIN run = Runs
      /\ DOMAIN step = Runs /\ DOMAIN link = Runs /\ DOMAIN charged = Runs /\ DOMAIN late = Runs
  BY DEF TypeOK
<1>3. \A q \in Runs : q # r => /\ def'[q] = def[q] /\ origin'[q] = origin[q] /\ parent'[q] = parent[q]
                               /\ run'[q] = run[q] /\ step'[q] = step[q] /\ link'[q] = link[q]
                               /\ charged'[q] = charged[q] /\ late'[q] = late[q]
  BY <1>1, <1>2 DEF Makes
<1>4. /\ def'[r] = d /\ origin'[r] = how /\ parent'[r] = from /\ run'[r] = status /\ step'[r] = steps
      /\ link'[r] = [i \in DOMAIN d |-> None] /\ charged'[r] = [i \in DOMAIN d |-> 0]
      /\ late'[r] = [i \in DOMAIN d |-> 0]
  BY <1>1, <1>2 DEF Makes
<1>5. \A i \in DOMAIN def'[r] : link'[r][i] = None /\ charged'[r][i] = 0 /\ late'[r][i] = 0
  BY <1>4
<1>6. PICK x : x = [Idle EXCEPT !.run = r, !.phase = "starting", !.at = at]  OBVIOUS
<1>7. x \in ExecRow /\ x.run = r /\ x.phase = "starting" /\ x.at = at
  BY <1>1, <1>6, SpawnedRow DEF Makes
<1>8. exec'[e] = x /\ \A f \in Execs : f # e => exec'[f] = exec[f]
  BY <1>1, <1>6, <1>7, ExecTyped DEF Makes, Spawn
<1>9. \/ how \in {"owner", "trigger"} /\ from = NoRun /\ at = 1 /\ (how = "owner" <=> status = "running")
      \/ /\ how = "owner" /\ status = "running" /\ at = ResumeFrom(from) /\ d = def[from]
         /\ from \in Runs /\ run[from] \in Ended
         /\ steps = [i \in DOMAIN d |-> IF i < ResumeFrom(from) THEN step[from][i] ELSE "pending"]
  BY <1>1 DEF Makes
<1>10. /\ run[r] = "none" /\ exec[e] = Idle /\ status \in {"running", "uncommitted"}
       /\ UNCHANGED <<task, due, leaving, extra, faults>>
  BY <1>1 DEF Makes
<1>11. origin'[r] = "owner" <=> run'[r] = "running"  BY <1>4, <1>9
<1>12. \/ parent'[r] = NoRun /\ exec'[e].at = 1
       \/ /\ parent'[r] \in Runs /\ parent'[r] # r /\ run[parent'[r]] \in Ended /\ run'[r] = "running"
          /\ def'[r] = def[parent'[r]] /\ exec'[e].at = ResumeFrom(parent'[r])
          /\ \A j \in DOMAIN def'[r] : j < exec'[e].at => step'[r][j] = step[parent'[r]][j]
  <2>1. CASE from = NoRun /\ at = 1  BY <1>4, <1>7, <1>8, <2>1
  <2>2. CASE /\ how = "owner" /\ status = "running" /\ at = ResumeFrom(from) /\ d = def[from]
             /\ from \in Runs /\ run[from] \in Ended
             /\ steps = [i \in DOMAIN d |-> IF i < ResumeFrom(from) THEN step[from][i] ELSE "pending"]
    <3>1. from # r  BY <1>10, <2>2 DEF Ended
    <3>2. \A j \in DOMAIN d : j < at => steps[j] = step[from][j]  BY <2>2
    <3>. QED  BY <1>4, <1>7, <1>8, <2>2, <3>1, <3>2
  <2>. QED  BY <1>9, <2>1, <2>2
<1>13. Made(r, e)  BY <1>3, <1>4, <1>5, <1>7, <1>8, <1>10, <1>11, <1>12 DEF Made
<1>. QED  BY <1>13

LEMMA ShapeMake ==
  ASSUME TypeOK, Shape, NEW r \in Runs, Making(r)
  PROVE  Shape'
<1>0. PICK e \in Execs : Made(r, e)  BY MadeFacts
<1>1. /\ run[r] = "none" /\ exec[e] = Idle
      /\ \A q \in Runs : q # r => /\ def'[q] = def[q] /\ origin'[q] = origin[q] /\ parent'[q] = parent[q]
                                  /\ run'[q] = run[q] /\ step'[q] = step[q] /\ link'[q] = link[q]
      /\ \A i \in DOMAIN def'[r] : link'[r][i] = None
      /\ run'[r] \in {"running", "uncommitted"} /\ (origin'[r] = "owner" <=> run'[r] = "running")
      /\ exec'[e].run = r /\ exec'[e].phase = "starting" /\ \A f \in Execs : f # e => exec'[f] = exec[f]
      /\ \/ parent'[r] = NoRun
         \/ /\ parent'[r] \in Runs /\ parent'[r] # r /\ run[parent'[r]] \in Ended /\ run'[r] = "running"
            /\ def'[r] = def[parent'[r]]
      /\ UNCHANGED <<task, due, leaving>>
  BY <1>0 DEF Made
<1>2. ASSUME NEW f \in Execs PROVE ExecKept(f)'
  <2>1. CASE f = e  BY <1>1, <2>1 DEF ExecKept, Started
  <2>2. CASE f # e
    <3>1. ExecKept(f) /\ exec'[f] = exec[f]  BY <1>1, <2>2 DEF Shape
    <3>2. \A q \in Runs : run[q] # "none" => /\ def'[q] = def[q] /\ run'[q] # "none"
                                             /\ run[q] # "uncommitted" => run'[q] # "uncommitted"
                                             /\ run[q] \in Ended => run'[q] \in Ended
      BY <1>1
    <3>. QED  BY <3>1, <3>2, ExecStays
  <2>. QED  BY <2>1, <2>2
<1>3. ASSUME NEW q \in Runs PROVE RunShape(q)'
  <2>1. CASE q = r
    <3>1. ~leaving[r]  BY <1>1 DEF Shape, RunShape, Visible
    <3>2. ~Visible(r)' => origin'[r] # "owner" /\ parent'[r] = NoRun  BY <1>1 DEF Visible
    <3>3. parent'[r] # NoRun => /\ parent'[r] \in Runs /\ run'[parent'[r]] \in Ended
                                /\ def'[r] = def'[parent'[r]]
      BY <1>1
    <3>4. \A i \in DOMAIN def'[r] : link'[r][i] = None  BY <1>1
    <3>. QED  BY <1>1, <2>1, <3>1, <3>2, <3>3, <3>4 DEF RunShape, Steps
  <2>2. CASE q # r
    <3>1. RunShape(q) /\ def'[q] = def[q] /\ origin'[q] = origin[q] /\ parent'[q] = parent[q]
          /\ run'[q] = run[q] /\ link'[q] = link[q] /\ leaving'[q] = leaving[q]
      BY <1>1, <2>2 DEF Shape
    <3>2. parent[q] # NoRun => /\ parent[q] # r /\ run'[parent[q]] \in Ended /\ def[q] = def'[parent[q]]
                               /\ parent[q] \in Runs
      BY <1>1, <3>1 DEF RunShape, Ended
    <3>. QED  BY <3>1, <3>2 DEF RunShape, Steps, Visible
  <2>. QED  BY <2>1, <2>2
<1>4. \A q \in Runs : \A j \in DOMAIN def'[q] : link'[q][j] # None =>
        q # r /\ j \in Steps(q) /\ link'[q][j] = link[q][j]
  BY <1>1 DEF Steps
<1>5. LinksApart'
  BY <1>4 DEF Shape, LinksApart, Steps
<1>6. LinksMade'
  <2>1. LinksMade /\ task' = task  BY <1>1 DEF Shape
  <2>. QED  BY <1>4, <2>1 DEF LinksMade, Steps
<1>7. TasksMade' /\ IsFiniteSet(AllCalls)'  BY <1>1 DEF Shape, TasksMade, AllCalls
<1>. QED  BY <1>2, <1>3, <1>5, <1>6, <1>7 DEF Shape

LEMMA ShapeQuiet ==
  ASSUME TypeOK, Shape, NEW r \in Runs, CommitTrigger(r) \/ ReadToCancel(r) \/ Cancel(r)
  PROVE  Shape'
<1>1. UNCHANGED <<runVars, step, link, task, due, exec>>
  BY DEF CommitTrigger, ReadToCancel, Cancel
<1>2. \A q \in Runs : /\ Visible(q) => Visible(q)'
                      /\ run[q] \in Ended => run'[q] \in Ended
                      /\ run[q] # "none" => run'[q] # "none"
                      /\ run[q] # "uncommitted" => run'[q] # "uncommitted"
                      /\ ~Visible(q) => ~leaving'[q]
  <2>1. run \in [Runs -> RunStatus] /\ leaving \in [Runs -> BOOLEAN]  BY DEF TypeOK
  <2>2. \A q \in Runs : ~Visible(q) => ~leaving[q]  BY DEF Shape, RunShape
  <2>3. CASE CommitTrigger(r)  BY <2>1, <2>2, <2>3 DEF CommitTrigger, Visible, Ended
  <2>4. CASE ReadToCancel(r)  BY <2>1, <2>2, <2>4 DEF ReadToCancel, Visible, Ended
  <2>5. CASE Cancel(r)  BY <2>1, <2>2, <2>5 DEF Cancel, Visible, Ended
  <2>. QED  BY <2>3, <2>4, <2>5
<1>3. \A f \in Execs : ExecKept(f)'  BY <1>1, <1>2, ExecStays DEF Shape, runVars
<1>4. \A q \in Runs : RunShape(q)'  BY <1>1, <1>2, RunsStay
<1>5. LinksApart' /\ LinksMade'  BY <1>1, LinksStay DEF runVars
<1>6. TasksMade' /\ IsFiniteSet(AllCalls)'  BY <1>1 DEF Shape, TasksMade, AllCalls
<1>. QED  BY <1>3, <1>4, <1>5, <1>6 DEF Shape

LEMMA ShapeCrash ==
  ASSUME TypeOK, Shape, Crash
  PROVE  Shape'
<1>1. UNCHANGED <<runVars, step, link, task>>  BY DEF Crash
<1>2. \A f \in Execs : ExecKept(f)'  BY IdleKept DEF Crash
<1>3. \A q \in Runs : RunShape(q)'
  <2>1. \A q \in Runs : /\ Visible(q) => Visible(q)'
                        /\ run[q] \in Ended => run'[q] \in Ended
                        /\ ~leaving'[q]
    BY DEF Crash, Visible, Ended
  <2>. QED  BY <1>1, <2>1, RunsStay
<1>4. LinksApart' /\ LinksMade'  BY <1>1, LinksStay DEF runVars
<1>5. TasksMade'  BY DEF Crash, TasksMade
<1>6. IsFiniteSet(AllCalls)'
  <2>1. AllCalls' = {}
    <3>1. \A u \in Tasks : due'[u] = 0  BY DEF Crash
    <3>2. \A c \in Tasks \X Nat : c[1] \in Tasks /\ c[2] \notin 1..0  OBVIOUS
    <3>. QED  BY <3>1, <3>2 DEF AllCalls
  <2>2. IsFiniteSet({})  BY FS_EmptySet
  <2>. QED  BY <2>1, <2>2
<1>. QED  BY <1>2, <1>3, <1>4, <1>5, <1>6 DEF Shape

LEMMA ShapeKept == TypeOK /\ Shape /\ [Next]_vars => Shape'
<1>1. ASSUME TypeOK, Shape, Next PROVE Shape'
  BY <1>1, StepKinds, ShapeMove, ShapeLeave, ShapeOpen, ShapeHuman, ShapeResume, ShapeMake, ShapeQuiet, ShapeCrash
<1>2. ASSUME TypeOK, Shape, UNCHANGED vars PROVE Shape'
  <2>1. \A f \in Execs : ExecKept(f)'  BY <1>2, ExecStays DEF Shape, vars, runVars
  <2>2. \A q \in Runs : RunShape(q)'
    <3>1. UNCHANGED <<runVars, run, link, leaving>>  BY <1>2 DEF vars, runVars
    <3>2. \A q \in Runs : ~Visible(q) => ~leaving[q]  BY <1>2 DEF Shape, RunShape
    <3>. QED  BY <1>2, <3>1, <3>2, RunsStay DEF Visible
  <2>3. LinksApart' /\ LinksMade'  BY <1>2, LinksStay DEF vars, runVars
  <2>4. TasksMade' /\ IsFiniteSet(AllCalls)'  BY <1>2 DEF Shape, TasksMade, AllCalls, vars
  <2>. QED  BY <2>1, <2>2, <2>3, <2>4 DEF Shape
<1>. QED  BY <1>1, <1>2

---------------------------------------------------------------------------
(* The threads of a run after each kind of step *)

LEMMA FiniteTokens ==
  ASSUME IsFiniteSet(AllCalls), NEW A, A \subseteq Execs, NEW O, O \subseteq Tasks, NEW C, C \subseteq AllCalls
  PROVE  IsFiniteSet(Tokens(A, O, C))
<1>1. IsFiniteSet(A) /\ IsFiniteSet(O) /\ IsFiniteSet(C)  BY IdsAssumption, CardSub
<1>2. IsFiniteSet({"executor"}) /\ IsFiniteSet({"task"}) /\ IsFiniteSet({"call"})  BY FS_Singleton
<1>3. IsFiniteSet({"executor"} \X A) /\ IsFiniteSet({"task"} \X O) /\ IsFiniteSet({"call"} \X C)
  BY <1>1, <1>2, FS_Product
<1>. QED  BY <1>3, FS_Union DEF Tokens

LEMMA CountNext ==
  ASSUME NEW q, NEW P
  PROVE  N(q, P)' = Cardinality(Tokens(At(q, P)', OpenAt(q, P)', CallAt(q, P)'))
BY DEF N

LEMMA LinkedStays ==
  ASSUME UNCHANGED <<def, link>>, NEW q, NEW P, NEW t
  PROVE  LinkedAt(q, t, P)' <=> LinkedAt(q, t, P)
BY DEF LinkedAt, Steps

LEMMA TasksStay ==
  ASSUME UNCHANGED <<def, link, task, due>>, NEW q, NEW P
  PROVE  OpenAt(q, P)' = OpenAt(q, P) /\ CallAt(q, P)' = CallAt(q, P)
<1>1. \A t : LinkedAt(q, t, P)' <=> LinkedAt(q, t, P)  BY LinkedStays
<1>2. AllCalls' = AllCalls  BY DEF AllCalls
<1>. QED  BY <1>1, <1>2 DEF OpenAt, CallAt

LEMMA MoveTokens ==
  ASSUME TypeOK, Shape, NEW e \in Execs, NEW x, Moves(e, x), NEW q \in Runs, NEW P, Onward(q, P)
  PROVE  /\ N(q, P)' \in Nat /\ N(q, P) \in Nat /\ N(q, P)' <= N(q, P)
         /\ exec[e].run = q /\ exec[e].at \in P /\ x.at \notin P => N(q, P)' + 1 <= N(q, P)
<1>1. OpenAt(q, P)' = OpenAt(q, P) /\ CallAt(q, P)' = CallAt(q, P)  BY TasksStay DEF Moves, runVars
<1>2. exec'[e] = x /\ (\A f \in Execs : f # e => exec'[f] = exec[f]) /\ x.run = exec[e].run /\ x.at \in Nat
  BY ExecTyped DEF Moves, ExecRow
<1>3. At(q, P)' \subseteq At(q, P)
  <2>1. ASSUME NEW f \in Execs, f \in At(q, P)' PROVE f \in At(q, P)
    <3>1. CASE f # e  BY <1>2, <2>1, <3>1 DEF At
    <3>2. CASE f = e
      <4>1. x.run = q /\ x.at \in P  BY <1>2, <2>1, <3>2 DEF At
      <4>2. exec[e].at \in Nat  BY ExecFields
      <4>3. Forward(def[q]) => exec[e].at <= x.at  BY <1>2, <4>1, <4>2 DEF Moves, GoesTo
      <4>4. exec[e].at \in P  BY <4>1, <4>2, <4>3 DEF Onward, Down
      <4>. QED  BY <1>2, <3>2, <4>1, <4>4 DEF At
    <3>. QED  BY <3>1, <3>2
  <2>. QED  BY <2>1 DEF At
<1>4. IsFiniteSet(Tokens(At(q, P), OpenAt(q, P), CallAt(q, P)))  BY TokensFinite DEF Shape
<1>5. N(q, P)' \in Nat /\ N(q, P) \in Nat /\ N(q, P)' <= N(q, P)
  BY <1>1, <1>3, <1>4, CountNext, TokensSub DEF N
<1>6. ASSUME exec[e].run = q, exec[e].at \in P, x.at \notin P PROVE N(q, P)' + 1 <= N(q, P)
  <2>1. e \in At(q, P) /\ e \notin At(q, P)'  BY <1>2, <1>6 DEF At
  <2>. QED  BY <1>1, <1>3, <1>4, <2>1, CountNext, TokenLost DEF N
<1>. QED  BY <1>5, <1>6

LEMMA LeaveTokens ==
  ASSUME TypeOK, Shape, NEW e \in Execs, Leaves(e), NEW q \in Runs, NEW P
  PROVE  /\ N(q, P)' \in Nat /\ N(q, P) \in Nat /\ N(q, P)' <= N(q, P)
         /\ exec[e].run = q /\ exec[e].at \in P => N(q, P)' + 1 <= N(q, P)
<1>1. OpenAt(q, P)' = OpenAt(q, P) /\ CallAt(q, P)' = CallAt(q, P)  BY TasksStay DEF Leaves, runVars
<1>2. exec'[e] = Idle /\ (\A f \in Execs : f # e => exec'[f] = exec[f]) /\ Idle.run # q
  BY ExecTyped, IdleTyped, IdleFields, IdsAssumption DEF Leaves
<1>3. At(q, P)' \subseteq At(q, P) /\ e \notin At(q, P)'  BY <1>2 DEF At
<1>4. IsFiniteSet(Tokens(At(q, P), OpenAt(q, P), CallAt(q, P)))  BY TokensFinite DEF Shape
<1>5. N(q, P)' \in Nat /\ N(q, P) \in Nat /\ N(q, P)' <= N(q, P)
  BY <1>1, <1>3, <1>4, CountNext, TokensSub DEF N
<1>6. ASSUME exec[e].run = q, exec[e].at \in P PROVE N(q, P)' + 1 <= N(q, P)
  <2>1. e \in At(q, P)  BY <1>6 DEF At
  <2>. QED  BY <1>1, <1>3, <1>4, <2>1, CountNext, TokenLost DEF N
<1>. QED  BY <1>5, <1>6

LEMMA OpenTokens ==
  ASSUME TypeOK, Shape, NEW e \in Execs, NEW r \in Runs, NEW i \in Nat, NEW t \in Tasks, Opens(e, r, i, t),
         NEW q \in Runs, NEW P, Down(P)
  PROVE  /\ N(q, P)' \in Nat /\ N(q, P) \in Nat /\ N(q, P)' <= N(q, P)
         /\ q = r /\ i \in P /\ i + 1 \notin P => N(q, P)' + 1 <= N(q, P)
<1>1. /\ exec[e].run = r /\ exec[e].at = i /\ task[t] = "none" /\ due' = due
      /\ Idle.run # q
  BY IdleFields, IdsAssumption DEF Opens
<1>2. At(q, P)' \subseteq At(q, P) \ {e}  BY <1>1, LinkOpened DEF At
<1>3. CallAt(q, P)' \subseteq CallAt(q, P)
  <2>1. ASSUME NEW c \in AllCalls', LinkedAt(q, c[1], P)' PROVE c \in CallAt(q, P)
    <3>1. c \in AllCalls /\ c[1] \in Tasks /\ due[c[1]] # 0  BY <1>1, <2>1 DEF AllCalls
    <3>2. c[1] # t  BY <1>1, <3>1 DEF Shape, TasksMade
    <3>3. PICK j \in Steps(q) : link'[q][j] = c[1] /\ j + 1 \in P  BY <2>1, LinkOpened DEF LinkedAt
    <3>4. link[q][j] = c[1]  BY <3>2, <3>3, LinkOpened
    <3>. QED  BY <3>1, <3>3, <3>4 DEF CallAt, LinkedAt
  <2>. QED  BY <2>1 DEF CallAt
<1>4. /\ OpenAt(q, P)' \subseteq OpenAt(q, P) \cup {t}
      /\ q # r \/ i + 1 \notin P => OpenAt(q, P)' \subseteq OpenAt(q, P)
  <2>1. ASSUME NEW u \in Tasks, task'[u] = "open", LinkedAt(q, u, P)', u \notin OpenAt(q, P)
        PROVE  u = t /\ q = r /\ i + 1 \in P
    <3>1. PICK j \in Steps(q) : link'[q][j] = u /\ j + 1 \in P  BY <2>1, LinkOpened DEF LinkedAt
    <3>2. CASE q = r /\ j = i  BY <3>1, <3>2, LinkOpened
    <3>3. CASE ~(q = r /\ j = i)
      <4>1. link[q][j] = u  BY <3>1, <3>3, LinkOpened
      <4>2. task[u] # "none"  BY <4>1, IdsAssumption DEF Shape, LinksMade
      <4>3. task[u] = "open"  BY <1>1, <2>1, <4>2, LinkOpened
      <4>. QED  BY <2>1, <3>1, <4>1, <4>3 DEF OpenAt, LinkedAt
    <3>. QED  BY <3>2, <3>3
  <2>. QED  BY <2>1 DEF OpenAt
<1>5. IsFiniteSet(Tokens(At(q, P), OpenAt(q, P), CallAt(q, P)))  BY TokensFinite DEF Shape
<1>6. CASE q = r /\ i + 1 \in P
  <2>1. e \in At(q, P)  BY <1>1, <1>6 DEF At, Down
  <2>2. N(q, P)' \in Nat /\ N(q, P) \in Nat /\ N(q, P)' <= N(q, P)
    BY <1>2, <1>3, <1>4, <1>5, <2>1, CountNext, TokenSwap DEF N
  <2>. QED  BY <1>6, <2>2
<1>7. CASE ~(q = r /\ i + 1 \in P)
  <2>1. N(q, P)' \in Nat /\ N(q, P) \in Nat /\ N(q, P)' <= N(q, P)
    BY <1>2, <1>3, <1>4, <1>5, <1>7, CountNext, TokensSub DEF N
  <2>2. ASSUME q = r, i \in P PROVE N(q, P)' + 1 <= N(q, P)
    <3>1. e \in At(q, P)  BY <1>1, <2>2 DEF At
    <3>. QED  BY <1>2, <1>3, <1>4, <1>5, <1>7, <3>1, CountNext, TokenLost DEF N
  <2>. QED  BY <2>1, <2>2
<1>. QED  BY <1>6, <1>7

LEMMA HumanTokens ==
  ASSUME TypeOK, Shape, NEW t \in Tasks, Human(t) \/ ResumeUnknown(t), NEW q \in Runs, NEW P
  PROVE  /\ N(q, P)' \in Nat /\ N(q, P) \in Nat /\ extra[q] \in Nat /\ extra'[q] \in Nat
         /\ extra[q] <= extra'[q] /\ N(q, P)' + extra[q] <= N(q, P) + extra'[q]
         /\ CancelTask(t) /\ t \in OpenAt(q, P) => N(q, P)' + 1 <= N(q, P)
<1>. DEFINE A == At(q, P)   O == OpenAt(q, P)   C == CallAt(q, P)
<1>1. At(q, P)' = A  BY TaskTouched DEF At
<1>2. \A u : LinkedAt(q, u, P)' <=> LinkedAt(q, u, P)  BY TaskTouched, LinkedStays DEF runVars
<1>3. O' \subseteq O \cup {t} /\ (~LinkedAt(q, t, P) => O' \subseteq O) /\ (task'[t] # "open" => O' \subseteq O \ {t})
      /\ (task'[t] = task[t] => O' \subseteq O)
  BY <1>2, TaskTouched DEF OpenAt
<1>4. /\ C' \subseteq C \cup {<<t, due[t] + 1>>} /\ (~LinkedAt(q, t, P) => C' \subseteq C)
      /\ due'[t] <= due[t] => C' \subseteq C
  <2>1. ASSUME NEW c \in AllCalls', LinkedAt(q, c[1], P), c \notin C
        PROVE  c = <<t, due[t] + 1>> /\ LinkedAt(q, t, P) /\ ~(due'[t] <= due[t])
    <3>1. PICK u \in Tasks, n \in Nat : c = <<u, n>>  BY <2>1 DEF AllCalls
    <3>2. n \in 1..due'[u] /\ LinkedAt(q, u, P)  BY <2>1, <3>1 DEF AllCalls
    <3>3. n \notin 1..due[u]  BY <2>1, <3>1, <3>2 DEF AllCalls, CallAt
    <3>4. u = t  BY <3>2, <3>3, TaskTouched
    <3>5. n = due[t] + 1 /\ ~(due'[t] <= due[t])
      <4>1. due'[t] \in Nat /\ due[t] \in Nat /\ due'[t] <= due[t] + 1  BY TaskTouched
      <4>2. n \in 1..due'[t] /\ n \notin 1..due[t]  BY <3>2, <3>3, <3>4
      <4>. QED  BY ONLY <4>1, <4>2
    <3>. QED  BY <3>1, <3>2, <3>4, <3>5
  <2>. QED  BY <1>2, <2>1 DEF CallAt
<1>5. IsFiniteSet(Tokens(A, O, C))  BY TokensFinite DEF Shape
<1>6. extra[q] \in Nat /\ extra'[q] \in Nat /\ due[t] \in Nat  BY TypesHuman DEF TypeOK
<1>7. LinkedAt(q, t, P) => q \in Owner(t)
  BY IdsAssumption DEF LinkedAt, Owner, Linked
<1>8. N(q, P) = Cardinality(Tokens(A, O, C)) /\ N(q, P)' = Cardinality(Tokens(A', O', C'))
  BY CountNext DEF N
<1>9. ASSUME O' \subseteq O, C' \subseteq C, extra[q] <= extra'[q]
      PROVE  /\ N(q, P)' \in Nat /\ N(q, P) \in Nat /\ N(q, P)' + extra[q] <= N(q, P) + extra'[q]
  <2>1. N(q, P)' \in Nat /\ N(q, P) \in Nat /\ N(q, P)' <= N(q, P)  BY <1>1, <1>5, <1>8, <1>9, TokensSub
  <2>. QED  BY ONLY <1>6, <1>9, <2>1
<1>10. CASE CompleteTask(t)
  <2>1. extra' = extra /\ task[t] = "open" /\ task'[t] # "open" /\ ~CancelTask(t)
    BY <1>10 DEF CompleteTask, CancelTask, TypeOK
  <2>2. CASE LinkedAt(q, t, P)
    <3>1. t \in O  BY <2>1, <2>2 DEF OpenAt
    <3>2. N(q, P)' \in Nat /\ N(q, P) \in Nat /\ N(q, P)' <= N(q, P)
      BY <1>1, <1>3, <1>4, <1>5, <1>8, <2>1, <3>1, TokenSwap
    <3>. QED  BY <1>6, <2>1, <3>2
  <2>3. CASE ~LinkedAt(q, t, P)  BY <1>3, <1>4, <1>6, <1>9, <2>1, <2>3
  <2>. QED  BY <2>2, <2>3
<1>11. CASE ApproveTask(t) \/ ReopenTask(t)
  <2>1. /\ extra' = [r \in Runs |-> IF r \in Owner(t) THEN extra[r] + 1 ELSE extra[r]]
        /\ task'[t] = task[t] \/ due'[t] = due[t]
    BY <1>11 DEF ApproveTask, ReopenTask, Repeats, Extra
  <2>2. extra[q] <= extra'[q]  BY <1>6, <2>1
  <2>3. ~CancelTask(t)  BY <1>11 DEF ApproveTask, ReopenTask, Repeats, CancelTask
  <2>4. CASE q \in Owner(t)
    <3>1. extra'[q] = extra[q] + 1  BY <2>1, <2>4
    <3>2. PICK c : c = <<t, due[t] + 1>>  OBVIOUS
    <3>3. (O' \subseteq O \cup {t} /\ C' \subseteq C) \/ (O' \subseteq O /\ C' \subseteq C \cup {c})
      BY <1>3, <1>4, <1>6, <2>1, <3>2
    <3>4. A' \subseteq A  BY <1>1
    <3>5. N(q, P)' \in Nat /\ N(q, P) \in Nat /\ N(q, P)' <= N(q, P) + 1
      <4>. HIDE DEF A, O, C
      <4>. QED  BY ONLY <1>5, <1>8, <3>3, <3>4, TokenMore
    <3>. QED  BY <1>6, <2>2, <2>3, <3>1, <3>5
  <2>5. CASE q \notin Owner(t)  BY <1>3, <1>4, <1>6, <1>7, <1>9, <2>2, <2>3, <2>5
  <2>. QED  BY <2>4, <2>5
<1>12. CASE CancelTask(t)
  <2>1. extra' = extra /\ task'[t] # "open" /\ due' = due  BY <1>12 DEF CancelTask, TypeOK
  <2>2. O' \subseteq O \ {t} /\ C' \subseteq C  BY <1>3, <1>4, <1>6, <2>1
  <2>3. t \in O => N(q, P)' + 1 <= N(q, P)  BY <1>1, <1>5, <1>8, <2>2, TokenLost
  <2>. QED  BY <1>6, <1>9, <2>1, <2>2, <2>3
<1>13. CASE ResumeUnknown(t)
  <2>1. extra' = extra /\ task' = task /\ Owner(t) = {} /\ ~CancelTask(t)
    <3>1. DOMAIN task = Tasks  BY DEF TypeOK
    <3>. QED  BY <1>13, <3>1 DEF ResumeUnknown, CancelTask
  <2>. QED  BY <1>3, <1>4, <1>6, <1>7, <1>9, <2>1
<1>. QED  BY <1>10, <1>11, <1>12, <1>13 DEF Human

LEMMA ResumeTokens ==
  ASSUME TypeOK, Shape, NEW t \in Tasks, NEW e \in Execs, NEW r \in Runs, NEW i \in Steps(r), Resumed(t, e, r, i),
         NEW q \in Runs, NEW P, Onward(q, P)
  PROVE  /\ N(q, P)' \in Nat /\ N(q, P) \in Nat /\ N(q, P)' <= N(q, P)
         /\ q = r /\ i + 1 \in P /\ run[r] \in Ended => N(q, P)' + 1 <= N(q, P)
<1>. DEFINE A == At(q, P)   O == OpenAt(q, P)   C == CallAt(q, P)   c == <<t, due[t]>>
<1>1. UNCHANGED <<runVars, link, task>> /\ link[r][i] = t /\ due[t] > 0 /\ due[t] \in Nat /\ i \in Nat
  BY ResumedFacts, StepsKnown
<1>2. \A u : LinkedAt(q, u, P)' <=> LinkedAt(q, u, P)  BY <1>1, LinkedStays DEF runVars
<1>3. O' \subseteq O  BY <1>1, <1>2 DEF OpenAt
<1>4. C' \subseteq C \ {c}
  <2>1. ASSUME NEW d \in AllCalls' PROVE d \in AllCalls /\ d # c
    <3>1. PICK u \in Tasks, n \in Nat : d = <<u, n>>  BY <2>1 DEF AllCalls
    <3>2. n \in 1..due'[u]  BY <2>1, <3>1 DEF AllCalls
    <3>3. due[u] \in Nat /\ due'[t] = due[t] - 1 /\ (u # t => due'[u] = due[u])  BY ResumedFacts DEF TypeOK
    <3>4. n \in 1..due[u] /\ ~(u = t /\ n = due[t])
      <4>1. CASE u = t  BY ONLY <1>1, <3>2, <3>3, <4>1
      <4>2. CASE u # t  BY <3>2, <3>3, <4>2
      <4>. QED  BY <4>1, <4>2
    <3>. QED  BY <3>1, <3>4 DEF AllCalls
  <2>. QED  BY <1>2, <2>1 DEF CallAt
<1>5. A' \subseteq A \cup {e} /\ (q # r \/ run[r] \in Ended => A' \subseteq A)
      /\ (A' \subseteq A \/ After(r, i) \in P)
  BY ResumedFacts DEF At
<1>6. IsFiniteSet(Tokens(A, O, C))  BY TokensFinite DEF Shape
<1>7. q = r /\ i + 1 \in P => c \in C
  <2>1. ASSUME q = r, i + 1 \in P PROVE c \in C
    <3>1. LinkedAt(q, t, P)  BY <1>1, <2>1 DEF LinkedAt
    <3>2. c \in AllCalls  BY <1>1 DEF AllCalls
    <3>. QED  BY <3>1, <3>2 DEF CallAt
  <2>. QED  BY <2>1
<1>8. q = r /\ After(r, i) \in P => i + 1 \in P
  <2>1. ASSUME q = r, After(r, i) \in P PROVE i + 1 \in P
    <3>1. After(r, i) \in Nat /\ (Forward(def[r]) => i + 1 <= After(r, i))  BY <1>1, AfterGoesOn
    <3>2. i + 1 \in Nat  BY <1>1
    <3>. QED  BY <2>1, <3>1, <3>2 DEF Onward, Down
  <2>. QED  BY <2>1
<1>9. N(q, P) = Cardinality(Tokens(A, O, C)) /\ N(q, P)' = Cardinality(Tokens(A', O', C'))
  BY CountNext DEF N
<1>. HIDE DEF A, O, C, c
<1>10. CASE A' \subseteq A
  <2>1. N(q, P)' \in Nat /\ N(q, P) \in Nat /\ N(q, P)' <= N(q, P)
    BY <1>3, <1>4, <1>6, <1>9, <1>10, TokensSub
  <2>2. c \in C => N(q, P)' + 1 <= N(q, P)
    BY <1>3, <1>4, <1>6, <1>9, <1>10, TokenLost
  <2>. QED  BY <1>7, <2>1, <2>2
<1>11. CASE ~(A' \subseteq A)
  <2>1. q = r /\ run[r] \notin Ended /\ c \in C  BY <1>5, <1>7, <1>8, <1>11
  <2>2. N(q, P)' \in Nat /\ N(q, P) \in Nat /\ N(q, P)' <= N(q, P)
    BY <1>3, <1>4, <1>5, <1>6, <1>9, <2>1, TokenSwap
  <2>. QED  BY <2>1, <2>2
<1>. QED  BY <1>10, <1>11

LEMMA StayTokens ==
  ASSUME UNCHANGED <<def, link, task, due, exec>>, NEW q, NEW P
  PROVE  N(q, P)' = N(q, P)
<1>1. At(q, P)' = At(q, P)  BY DEF At
<1>. QED  BY <1>1, TasksStay, CountNext DEF N

LEMMA CrashTokens ==
  ASSUME TypeOK, Shape, Crash, NEW q \in Runs, NEW P
  PROVE  /\ N(q, P)' \in Nat /\ N(q, P) \in Nat /\ N(q, P)' <= N(q, P)
         /\ At(q, P) # {} \/ CallAt(q, P) # {} => N(q, P)' + 1 <= N(q, P)
<1>1. At(q, P)' = {}  BY IdleFields, IdsAssumption DEF At, Crash
<1>2. AllCalls' = {}
  <2>1. \A u \in Tasks : due'[u] = 0  BY DEF Crash
  <2>2. \A c \in Tasks \X Nat : c[1] \in Tasks /\ c[2] \notin 1..0  OBVIOUS
  <2>. QED  BY <2>1, <2>2 DEF AllCalls
<1>3. CallAt(q, P)' = {}  BY <1>2 DEF CallAt
<1>4. \A u : LinkedAt(q, u, P)' <=> LinkedAt(q, u, P)  BY LinkedStays DEF Crash, runVars
<1>5. OpenAt(q, P)' = OpenAt(q, P)  BY <1>4 DEF OpenAt, Crash
<1>6. IsFiniteSet(Tokens(At(q, P), OpenAt(q, P), CallAt(q, P)))  BY TokensFinite DEF Shape
<1>7. N(q, P)' \in Nat /\ N(q, P) \in Nat /\ N(q, P)' <= N(q, P)
  BY <1>1, <1>3, <1>5, <1>6, CountNext, TokensSub DEF N
<1>8. At(q, P) # {} \/ CallAt(q, P) # {} => N(q, P)' + 1 <= N(q, P)
  BY <1>1, <1>3, <1>5, <1>6, CountNext, TokenLost DEF N
<1>. QED  BY <1>7, <1>8

LEMMA MakeTokens ==
  ASSUME TypeOK, Shape, NEW r \in Runs, NEW e \in Execs, Made(r, e), NEW q \in Runs, NEW P
  PROVE  /\ q # r => N(q, P)' \in Nat /\ N(q, P) \in Nat /\ N(q, P)' <= N(q, P)
         /\ q = r => N(q, P)' \in Nat /\ N(q, P)' <= 1 /\ (exec'[e].at \notin P => N(q, P)' = 0)
<1>1. AllCalls' = AllCalls  BY DEF AllCalls, Made
<1>2. CASE q # r
  <2>1. def'[q] = def[q] /\ link'[q] = link[q]  BY <1>2 DEF Made
  <2>2. \A u : LinkedAt(q, u, P)' <=> LinkedAt(q, u, P)  BY <2>1 DEF LinkedAt, Steps
  <2>3. OpenAt(q, P)' = OpenAt(q, P) /\ CallAt(q, P)' = CallAt(q, P)
    BY <1>1, <2>2 DEF OpenAt, CallAt, Made
  <2>4. At(q, P)' \subseteq At(q, P)  BY <1>2 DEF At, Made
  <2>5. IsFiniteSet(Tokens(At(q, P), OpenAt(q, P), CallAt(q, P)))  BY TokensFinite DEF Shape
  <2>6. N(q, P)' \in Nat /\ N(q, P) \in Nat /\ N(q, P)' <= N(q, P)
    BY <2>3, <2>4, <2>5, CountNext, TokensSub DEF N
  <2>. QED  BY <1>2, <2>6
<1>3. CASE q = r
  <2>1. \A u \in Tasks : ~LinkedAt(q, u, P)'  BY <1>3, IdsAssumption DEF LinkedAt, Steps, Made
  <2>2. \A c \in AllCalls : c[1] \in Tasks  BY DEF AllCalls
  <2>3. OpenAt(q, P)' = {} /\ CallAt(q, P)' = {}  BY <1>1, <2>1, <2>2 DEF OpenAt, CallAt
  <2>4. \A f \in Execs : exec[f].run # r
    <3>1. Idle.run # r  BY IdleFields, IdsAssumption
    <3>. QED  BY <3>1 DEF Shape, ExecKept, Made
  <2>5. At(q, P)' \subseteq {e} /\ (exec'[e].at \notin P => At(q, P)' = {})
    BY <1>3, <2>4 DEF At, Made
  <2>6. /\ Tokens(At(q, P)', OpenAt(q, P)', CallAt(q, P)') \subseteq {<<"executor", e>>}
        /\ exec'[e].at \notin P => Tokens(At(q, P)', OpenAt(q, P)', CallAt(q, P)') = {}
    BY <2>3, <2>5 DEF Tokens
  <2>7. IsFiniteSet({<<"executor", e>>}) /\ Cardinality({<<"executor", e>>}) = 1  BY FS_Singleton
  <2>8. N(q, P)' \in Nat /\ N(q, P)' <= 1  BY <2>6, <2>7, CountNext, CardSub
  <2>9. exec'[e].at \notin P => N(q, P)' = 0  BY <2>6, CountNext, FS_EmptySet
  <2>. QED  BY <1>3, <2>8, <2>9
<1>. QED  BY <1>2, <1>3

---------------------------------------------------------------------------
(* Threads and charges are counted *)

(* A step adds to a run's threads and to what they paid no more than to the *)
(* completions that were repeated.                                          *)
Less(q, P) == /\ N(q, P) \in Nat /\ N(q, P)' \in Nat /\ extra[q] \in Nat /\ extra'[q] \in Nat
              /\ extra[q] <= extra'[q] /\ N(q, P)' + extra[q] <= N(q, P) + extra'[q]
Paid(q, i) == /\ Less(q, 0..i)
              /\ charged[q][i] \in Nat /\ charged'[q][i] \in Nat
              /\ charged'[q][i] + N(q, 0..i)' + extra[q] <= charged[q][i] + N(q, 0..i) + extra'[q]
Fewer(q) == Less(q, Nat) /\ (Forward(def[q]) => \A i \in Steps(q) : Paid(q, i))

LEMMA Onwards ==
  ASSUME TypeOK, NEW q \in Runs
  PROVE  /\ Onward(q, Nat) /\ Down(Nat)
         /\ \A i \in Steps(q) : i \in Nat /\ Down(0..i) /\ (Forward(def[q]) => Onward(q, 0..i))
<1>1. \A i \in Steps(q) : i \in Nat  BY StepsKnown
<1>. QED  BY <1>1, Downs DEF Onward

LEMMA FewerAs ==
  ASSUME TypeOK, NEW q \in Runs, extra'[q] = extra[q], N(q, Nat) \in Nat, N(q, Nat)' \in Nat, N(q, Nat)' <= N(q, Nat),
         charged'[q] = charged[q],
         Forward(def[q]) => \A i \in Steps(q) :
           N(q, 0..i) \in Nat /\ N(q, 0..i)' \in Nat /\ N(q, 0..i)' <= N(q, 0..i)
  PROVE  Fewer(q)
<1>1. extra[q] \in Nat  BY DEF TypeOK
<1>2. Less(q, Nat)  BY <1>1 DEF Less
<1>3. ASSUME Forward(def[q]), NEW i \in Steps(q) PROVE Paid(q, i)
  <2>1. N(q, 0..i) \in Nat /\ N(q, 0..i)' \in Nat /\ N(q, 0..i)' <= N(q, 0..i)  BY <1>3
  <2>2. Less(q, 0..i)  BY <1>1, <2>1 DEF Less
  <2>3. charged[q][i] \in Nat /\ charged'[q][i] = charged[q][i]  BY RunFields
  <2>. QED  BY <1>1, <2>1, <2>2, <2>3 DEF Paid
<1>. QED  BY <1>2, <1>3 DEF Fewer

LEMMA FewerMove ==
  ASSUME TypeOK, Shape, NEW e \in Execs, NEW x, Moves(e, x), NEW q \in Runs
  PROVE  Fewer(q)
<1>1. extra[q] \in Nat /\ extra'[q] = extra[q]  BY DEF TypeOK, Moves
<1>2. Less(q, Nat)  BY <1>1, Onwards, MoveTokens DEF Less
<1>3. ASSUME Forward(def[q]), NEW i \in Steps(q) PROVE Paid(q, i)
  <2>1. i \in Nat /\ Onward(q, 0..i)  BY <1>3, Onwards
  <2>2. /\ N(q, 0..i)' \in Nat /\ N(q, 0..i) \in Nat /\ N(q, 0..i)' <= N(q, 0..i)
        /\ exec[e].run = q /\ exec[e].at \in 0..i /\ x.at \notin 0..i => N(q, 0..i)' + 1 <= N(q, 0..i)
    BY <2>1, MoveTokens
  <2>3. Less(q, 0..i)  BY <1>1, <2>2 DEF Less
  <2>4. charged[q][i] \in Nat  BY RunFields
  <2>5. CASE charged'[q][i] = charged[q][i]  BY <1>1, <2>2, <2>3, <2>4, <2>5 DEF Paid
  <2>6. CASE PaysFor(e, x, q, i)
    <3>1. exec[e].run = q /\ exec[e].at = i /\ x.at > i /\ charged'[q][i] = charged[q][i] + 1 /\ x.at \in Nat
      BY <1>3, <2>6 DEF PaysFor, Moves, ExecRow
    <3>2. exec[e].at \in 0..i /\ x.at \notin 0..i  BY <2>1, <3>1
    <3>. QED  BY <1>1, <2>2, <2>3, <2>4, <3>1, <3>2 DEF Paid
  <2>. QED  BY <2>5, <2>6 DEF Moves
<1>. QED  BY <1>2, <1>3 DEF Fewer

LEMMA FewerExec ==
  ASSUME TypeOK, Shape, NEW e \in Execs, Leaves(e) \/ OpenTask(e), NEW q \in Runs
  PROVE  Fewer(q)
<1>1. CASE Leaves(e)
  BY <1>1, LeaveTokens, FewerAs DEF Leaves
<1>2. CASE OpenTask(e)
  <2>1. PICK r \in Runs, i \in Nat, t \in Tasks : Opens(e, r, i, t)  BY <1>2, TaskOpened
  <2>. QED  BY <2>1, Onwards, OpenTokens, FewerAs DEF Opens
<1>. QED  BY <1>1, <1>2

LEMMA FewerHuman ==
  ASSUME TypeOK, Shape, NEW t \in Tasks, Human(t) \/ ResumeUnknown(t), NEW q \in Runs
  PROVE  Fewer(q)
<1>1. Less(q, Nat) /\ \A i \in Steps(q) : Less(q, 0..i)  BY HumanTokens DEF Less
<1>2. ASSUME NEW i \in Steps(q) PROVE Paid(q, i)
  <2>1. charged[q][i] \in Nat /\ charged'[q][i] = charged[q][i]  BY TaskTouched, RunFields
  <2>. QED  BY <1>1, <2>1 DEF Paid, Less
<1>. QED  BY <1>1, <1>2 DEF Fewer

LEMMA FewerResume ==
  ASSUME TypeOK, Shape, NEW t \in Tasks, NEW e \in Execs, Resume(t, e), NEW q \in Runs
  PROVE  Fewer(q)
<1>1. PICK r \in Runs : \E i \in Steps(r) : Resumed(t, e, r, i)  BY CallMade
<1>2. PICK i \in Steps(r) : Resumed(t, e, r, i)  BY <1>1
<1>3. extra' = extra /\ charged' = charged  BY <1>2, ResumedFacts
<1>4. N(q, Nat) \in Nat /\ N(q, Nat)' \in Nat /\ N(q, Nat)' <= N(q, Nat)  BY <1>2, Onwards, ResumeTokens
<1>5. ASSUME Forward(def[q]), NEW j \in Steps(q)
      PROVE  N(q, 0..j) \in Nat /\ N(q, 0..j)' \in Nat /\ N(q, 0..j)' <= N(q, 0..j)
  BY <1>2, <1>5, Onwards, ResumeTokens
<1>. QED  BY <1>3, <1>4, <1>5, FewerAs

LEMMA FewerMake ==
  ASSUME TypeOK, Shape, NEW r \in Runs, NEW e \in Execs, Made(r, e), NEW q \in Runs, q # r
  PROVE  Fewer(q)
BY MakeTokens, FewerAs DEF Made

LEMMA FewerQuiet ==
  ASSUME TypeOK, Shape, UNCHANGED <<def, link, task, due, exec, charged, extra>>, NEW q \in Runs
  PROVE  Fewer(q)
<1>1. N(q, Nat)' = N(q, Nat) /\ N(q, Nat) \in Nat  BY StayTokens, TokensFinite DEF Shape
<1>2. \A i \in Steps(q) : N(q, 0..i)' = N(q, 0..i) /\ N(q, 0..i) \in Nat  BY StayTokens, TokensFinite DEF Shape
<1>3. N(q, Nat)' <= N(q, Nat) /\ \A i \in Steps(q) : N(q, 0..i)' <= N(q, 0..i)  BY <1>1, <1>2
<1>. QED  BY <1>1, <1>2, <1>3, FewerAs

LEMMA FewerCrash ==
  ASSUME TypeOK, Shape, Crash, NEW q \in Runs
  PROVE  Fewer(q)
BY CrashTokens, FewerAs DEF Crash

LEMMA CountsKept ==
  ASSUME TypeOK, ThreadsCounted, ChargesCounted, NEW q \in Runs, def'[q] = def[q], Fewer(q)
  PROVE  /\ N(q, Nat)' <= 1 + extra'[q]
         /\ Forward(def'[q]) => \A i \in Steps(q)' : charged'[q][i] + N(q, 0..i)' <= 1 + extra'[q]
<1>1. N(q, Nat)' <= 1 + extra'[q]
  <2>1. N(q, Nat) <= 1 + extra[q]  BY DEF ThreadsCounted
  <2>. QED  BY <2>1 DEF Fewer, Less
<1>2. ASSUME Forward(def'[q]), NEW i \in Steps(q)' PROVE charged'[q][i] + N(q, 0..i)' <= 1 + extra'[q]
  <2>1. i \in Steps(q) /\ Forward(def[q])  BY <1>2 DEF Steps
  <2>2. Paid(q, i)  BY <2>1 DEF Fewer
  <2>3. charged[q][i] + N(q, 0..i) <= 1 + extra[q]  BY <2>1 DEF ChargesCounted
  <2>4. /\ charged[q][i] \in Nat /\ N(q, 0..i) \in Nat /\ extra[q] \in Nat
        /\ charged'[q][i] \in Nat /\ N(q, 0..i)' \in Nat /\ extra'[q] \in Nat
        /\ charged'[q][i] + N(q, 0..i)' + extra[q] <= charged[q][i] + N(q, 0..i) + extra'[q]
    BY <2>2 DEF Paid, Less
  <2>5. PICK n : n = N(q, 0..i)  OBVIOUS
  <2>6. PICK m : m = N(q, 0..i)'  OBVIOUS
  <2>7. charged'[q][i] + m <= 1 + extra'[q]
    <3>1. /\ charged[q][i] \in Nat /\ n \in Nat /\ extra[q] \in Nat
          /\ charged'[q][i] \in Nat /\ m \in Nat /\ extra'[q] \in Nat
          /\ charged'[q][i] + m + extra[q] <= charged[q][i] + n + extra'[q]
          /\ charged[q][i] + n <= 1 + extra[q]
      BY <2>3, <2>4, <2>5, <2>6
    <3>. QED  BY ONLY <3>1
  <2>. QED  BY <2>6, <2>7
<1>. QED  BY <1>1, <1>2

LEMMA StaysFull ==
  ASSUME TypeOK, ChargesCounted, NEW q \in Runs, def'[q] = def[q], Fewer(q), Forward(def[q]),
         NEW i \in Steps(q), Full(q, i)'
  PROVE  Full(q, i) /\ (charged'[q][i] = charged[q][i] /\ extra'[q] = extra[q] => N(q, 0..i)' = N(q, 0..i))
<1>1. Paid(q, i)  BY DEF Fewer
<1>2. charged[q][i] + N(q, 0..i) <= 1 + extra[q]  BY DEF ChargesCounted
<1>3. charged'[q][i] + N(q, 0..i)' = 1 + extra'[q]  BY DEF Full
<1>4. /\ charged[q][i] \in Nat /\ N(q, 0..i) \in Nat /\ extra[q] \in Nat
      /\ charged'[q][i] \in Nat /\ N(q, 0..i)' \in Nat /\ extra'[q] \in Nat
      /\ charged'[q][i] + N(q, 0..i)' + extra[q] <= charged[q][i] + N(q, 0..i) + extra'[q]
  BY <1>1 DEF Paid, Less
<1>5. PICK n : n = N(q, 0..i)  OBVIOUS
<1>6. PICK m : m = N(q, 0..i)'  OBVIOUS
<1>7. /\ charged[q][i] + n = 1 + extra[q]
      /\ charged'[q][i] = charged[q][i] /\ extra'[q] = extra[q] => m = n
  <2>1. /\ charged[q][i] \in Nat /\ n \in Nat /\ extra[q] \in Nat
        /\ charged'[q][i] \in Nat /\ m \in Nat /\ extra'[q] \in Nat
        /\ charged'[q][i] + m + extra[q] <= charged[q][i] + n + extra'[q]
        /\ charged[q][i] + n <= 1 + extra[q]
        /\ charged'[q][i] + m = 1 + extra'[q]
    BY <1>2, <1>3, <1>4, <1>5, <1>6
  <2>. QED  BY ONLY <2>1
<1>. QED  BY <1>5, <1>6, <1>7 DEF Full

---------------------------------------------------------------------------
(* Late charges are counted *)

LEMMA TokensHold ==
  ASSUME NEW A, NEW O, NEW C, IsFiniteSet(Tokens(A, O, C)), IsFiniteSet(A), NEW S, S \subseteq A
  PROVE  /\ Cardinality(S) \in Nat /\ Cardinality(Tokens(A, O, C)) \in Nat
         /\ Cardinality(S) <= Cardinality(Tokens(A, O, C))
<1>1. IsFiniteSet(S) /\ Cardinality(S) \in Nat  BY CardSub
<1>2. IsFiniteSet({"executor"}) /\ Cardinality({"executor"}) = 1  BY FS_Singleton
<1>3. Cardinality({"executor"} \X S) = 1 * Cardinality(S)  BY <1>1, <1>2, FS_Product
<1>4. {"executor"} \X S \subseteq Tokens(A, O, C)  BY DEF Tokens
<1>5. Cardinality({"executor"} \X S) <= Cardinality(Tokens(A, O, C)) /\ Cardinality(Tokens(A, O, C)) \in Nat
  BY <1>4, CardSub
<1>. QED  BY ONLY <1>1, <1>3, <1>5

LEMMA StillCounted ==
  ASSUME TypeOK', Shape', NEW q \in Runs, NEW i
  PROVE  Cardinality(Still(q, i)') \in Nat /\ N(q, Nat)' \in Nat /\ Cardinality(Still(q, i)') <= N(q, Nat)'
<1>1. Still(q, i)' \subseteq At(q, Nat)'  BY DEF Still, At, TypeOK
<1>2. At(q, Nat)' \subseteq Execs /\ OpenAt(q, Nat)' \subseteq Tasks /\ CallAt(q, Nat)' \subseteq AllCalls'
  BY DEF At, OpenAt, CallAt
<1>3. IsFiniteSet(At(q, Nat)') /\ IsFiniteSet(OpenAt(q, Nat)') /\ IsFiniteSet(CallAt(q, Nat)')
  BY <1>2, IdsAssumption, CardSub DEF Shape
<1>4. IsFiniteSet({"executor"}) /\ IsFiniteSet({"task"}) /\ IsFiniteSet({"call"})  BY FS_Singleton
<1>5. /\ IsFiniteSet({"executor"} \X At(q, Nat)') /\ IsFiniteSet({"task"} \X OpenAt(q, Nat)')
      /\ IsFiniteSet({"call"} \X CallAt(q, Nat)')
  BY <1>3, <1>4, FS_Product
<1>6. IsFiniteSet(Tokens(At(q, Nat)', OpenAt(q, Nat)', CallAt(q, Nat)'))  BY <1>5, FS_Union DEF Tokens
<1>. QED  BY <1>1, <1>3, <1>6, CountNext, TokensHold

LEMMA LateAs ==
  ASSUME TypeOK, TypeOK', Shape', LateCounted, ThreadsCounted', NEW q \in Runs, NEW i \in Steps(q), def'[q] = def[q],
         late'[q][i] = late[q][i], Still(q, i)' \subseteq Still(q, i), extra[q] <= extra'[q],
         run[q] \in Ended => run'[q] \in Ended
  PROVE  LateFor(q, i)'
<1>1. late[q][i] \in Nat /\ extra[q] \in Nat /\ extra'[q] \in Nat  BY DEF TypeOK
<1>2. LateFor(q, i)  BY DEF LateCounted
<1>3. Cardinality(Still(q, i)') \in Nat /\ N(q, Nat)' \in Nat /\ Cardinality(Still(q, i)') <= N(q, Nat)'
  BY StillCounted
<1>4. N(q, Nat)' <= 1 + extra'[q]  BY DEF ThreadsCounted
<1>5. CASE run[q] \in Ended
  <2>1. Still(q, i) \subseteq Execs  BY DEF Still
  <2>2. /\ Cardinality(Still(q, i)) \in Nat /\ Cardinality(Still(q, i)') <= Cardinality(Still(q, i))
    BY <2>1, IdsAssumption, CardSub
  <2>3. late[q][i] + Cardinality(Still(q, i)) <= 1 + extra[q]  BY <1>2, <1>5 DEF LateFor
  <2>4. late'[q][i] + Cardinality(Still(q, i)') <= 1 + extra'[q]  BY <1>1, <1>3, <2>2, <2>3
  <2>. QED  BY <1>5, <2>4 DEF LateFor
<1>6. CASE run[q] \notin Ended
  <2>1. late'[q][i] = 0  BY <1>2, <1>6 DEF LateFor
  <2>2. late'[q][i] + Cardinality(Still(q, i)') <= 1 + extra'[q]  BY <1>1, <1>3, <1>4, <2>1
  <2>. QED  BY <2>1, <2>2 DEF LateFor
<1>. QED  BY <1>5, <1>6

LEMMA LateMove ==
  ASSUME TypeOK, Shape, TypeOK', Shape', LateCounted, ThreadsCounted', NEW e \in Execs, NEW x, Moves(e, x),
         NEW q \in Runs, NEW i \in Steps(q)
  PROVE  LateFor(q, i)'
<1>1. extra' = extra /\ run' = run /\ def' = def  BY DEF Moves, runVars
<1>2. \A f \in Execs : f # e => exec'[f] = exec[f]  BY ExecTyped DEF Moves
<1>3. \A f \in Execs : f # e /\ f \in Still(q, i)' => f \in Still(q, i)  BY <1>2 DEF Still
<1>4. run[q] \in Ended /\ e \in Still(q, i)' => e \in Still(q, i)  BY DEF Moves
<1>5. late[q][i] \in Nat /\ extra[q] \in Nat  BY DEF TypeOK
<1>6. LateFor(q, i)  BY DEF LateCounted
<1>7. Still(q, i)' \subseteq Execs /\ Still(q, i) \subseteq Execs /\ IsFiniteSet(Still(q, i))
  <2>1. Still(q, i)' \subseteq Execs /\ Still(q, i) \subseteq Execs  BY DEF Still
  <2>. QED  BY <2>1, IdsAssumption, CardSub
<1>8. CASE run[q] \notin Ended
  <2>1. late'[q][i] = late[q][i]  BY <1>8 DEF Moves, PaysFor
  <2>. QED  BY <1>1, <1>6, <1>8, <2>1 DEF LateFor
<1>9. CASE run[q] \in Ended /\ late'[q][i] = late[q][i]
  <2>1. Still(q, i)' \subseteq Still(q, i)  BY <1>3, <1>4, <1>7, <1>9
  <2>2. extra[q] <= extra'[q]  BY <1>1, <1>5
  <2>. QED  BY <1>1, <1>9, <2>1, <2>2, LateAs
<1>10. CASE run[q] \in Ended /\ PaysFor(e, x, q, i)
  <2>1. e \in Still(q, i) /\ e \notin Still(q, i)' /\ late'[q][i] = late[q][i] + 1  BY <1>10 DEF PaysFor
  <2>2. Still(q, i)' \subseteq Still(q, i) \ {e}  BY <1>3, <1>7, <2>1
  <2>3. /\ Cardinality(Still(q, i)') \in Nat /\ Cardinality(Still(q, i)) \in Nat
        /\ Cardinality(Still(q, i)') + 1 <= Cardinality(Still(q, i))
    BY <1>7, <2>1, <2>2, CardLess
  <2>4. late[q][i] + Cardinality(Still(q, i)) <= 1 + extra[q]  BY <1>6, <1>10 DEF LateFor
  <2>5. late'[q][i] + Cardinality(Still(q, i)') <= 1 + extra'[q]  BY <1>1, <1>5, <2>1, <2>3, <2>4
  <2>. QED  BY <1>1, <1>10, <2>5 DEF LateFor
<1>. QED  BY <1>8, <1>9, <1>10 DEF Moves

(* Nothing else pays, and nothing else lets an executor start anew.         *)
LEMMA LateRest ==
  ASSUME TypeOK, Shape, TypeOK', Shape', LateCounted, ThreadsCounted', NEW q \in Runs, NEW i \in Steps(q),
         def'[q] = def[q], late'[q] = late[q], extra[q] <= extra'[q], run[q] \in Ended => run'[q] \in Ended,
         \A f \in Execs : exec'[f] = exec[f] \/ exec'[f].phase \notin Started
  PROVE  LateFor(q, i)'
<1>1. Still(q, i)' \subseteq Still(q, i)  BY DEF Still
<1>. QED  BY <1>1, LateAs

LEMMA QuietFacts ==
  ASSUME TypeOK, NEW r \in Runs, CommitTrigger(r) \/ ReadToCancel(r) \/ Cancel(r)
  PROVE  /\ UNCHANGED <<runVars, step, link, task, due, exec, charged, late, extra, faults>>
         /\ \A q \in Runs : /\ run[q] \in Ended => run'[q] \in Ended
                            /\ run'[q] = "running" => run[q] = "running" \/ run[q] = "uncommitted"
<1>1. CASE CommitTrigger(r)  BY <1>1 DEF CommitTrigger, TypeOK, Ended
<1>2. CASE ReadToCancel(r)  BY <1>2 DEF ReadToCancel, TypeOK, Ended
<1>3. CASE Cancel(r)  BY <1>3 DEF Cancel, TypeOK, Ended
<1>. QED  BY <1>1, <1>2, <1>3

LEMMA FewerNext ==
  ASSUME TypeOK, Shape, [Next]_vars
  PROVE  (def' = def /\ \A q \in Runs : Fewer(q)) \/ \E r \in Runs : \E e \in Execs : Made(r, e)
<1>1. CASE \E e \in Execs : \E x : Moves(e, x)  BY <1>1, FewerMove DEF Moves, runVars
<1>2. CASE \E e \in Execs : Leaves(e) \/ OpenTask(e)
  BY <1>2, FewerExec DEF Leaves, OpenTask, runVars
<1>3. CASE \E t \in Tasks : Human(t) \/ ResumeUnknown(t)
  BY <1>3, FewerHuman, TaskTouched DEF runVars
<1>4. CASE \E t \in Tasks, e \in Execs : Resume(t, e)
  BY <1>4, FewerResume DEF Resume, runVars
<1>5. CASE \E r \in Runs : Making(r)  BY <1>5, MadeFacts
<1>6. CASE \E r \in Runs : CommitTrigger(r) \/ ReadToCancel(r) \/ Cancel(r)
  <2>1. UNCHANGED <<def, link, task, due, exec, charged, extra>>  BY <1>6, QuietFacts DEF runVars
  <2>. QED  BY <2>1, FewerQuiet
<1>7. CASE Crash  BY <1>7, FewerCrash DEF Crash, runVars
<1>8. CASE UNCHANGED vars
  <2>1. UNCHANGED <<def, link, task, due, exec, charged, extra>>  BY <1>8 DEF vars
  <2>. QED  BY <2>1, FewerQuiet
<1>. QED  BY <1>1, <1>2, <1>3, <1>4, <1>5, <1>6, <1>7, <1>8, StepKinds

LEMMA CountedNext ==
  ASSUME TypeOK, Shape, ThreadsCounted, ChargesCounted, [Next]_vars
  PROVE  ThreadsCounted' /\ ChargesCounted'
<1>. SUFFICES ASSUME NEW q \in Runs
              PROVE  /\ N(q, Nat)' <= 1 + extra'[q]
                     /\ Forward(def'[q]) => \A i \in Steps(q)' : charged'[q][i] + N(q, 0..i)' <= 1 + extra'[q]
  BY DEF ThreadsCounted, ChargesCounted
<1>1. CASE def' = def /\ Fewer(q)  BY <1>1, CountsKept
<1>2. CASE \E r \in Runs : \E e \in Execs : Made(r, e)
  <2>1. PICK r \in Runs : \E e \in Execs : Made(r, e)  BY <1>2
  <2>2. PICK e \in Execs : Made(r, e)  BY <2>1
  <2>3. CASE q # r
    <3>1. def'[q] = def[q]  BY <2>2, <2>3 DEF Made
    <3>. QED  BY <2>2, <2>3, <3>1, FewerMake, CountsKept
  <2>4. CASE q = r
    <3>1. extra'[q] \in Nat  BY <2>2 DEF Made, TypeOK
    <3>2. N(q, Nat)' \in Nat /\ N(q, Nat)' <= 1 + extra'[q]  BY <2>2, <2>4, <3>1, MakeTokens
    <3>3. ASSUME NEW i \in Steps(q)' PROVE charged'[q][i] + N(q, 0..i)' <= 1 + extra'[q]
      <4>1. charged'[q][i] = 0  BY <2>2, <2>4 DEF Made, Steps
      <4>2. PICK n : n = N(q, 0..i)'  OBVIOUS
      <4>3. n \in Nat /\ n <= 1  BY <2>2, <2>4, <4>2, MakeTokens
      <4>4. charged'[q][i] + n <= 1 + extra'[q]  BY ONLY <3>1, <4>1, <4>3
      <4>. QED  BY <4>2, <4>4
    <3>. QED  BY <3>2, <3>3
  <2>. QED  BY <2>3, <2>4
<1>. QED  BY <1>1, <1>2, FewerNext

LEMMA LateNext ==
  ASSUME TypeOK, Shape, LateCounted, [Next]_vars, TypeOK', Shape', ThreadsCounted'
  PROVE  LateCounted'
<1>. SUFFICES ASSUME NEW q \in Runs, NEW i \in Steps(q)' PROVE LateFor(q, i)'
  BY DEF LateCounted
<1>0. extra[q] \in Nat /\ extra'[q] \in Nat  BY DEF TypeOK
<1>. DEFINE Rest == /\ def'[q] = def[q] /\ late'[q] = late[q] /\ extra[q] <= extra'[q]
                    /\ run[q] \in Ended => run'[q] \in Ended
                    /\ \A f \in Execs : exec'[f] = exec[f] \/ exec'[f].phase \notin Started
<1>1. ASSUME Rest PROVE LateFor(q, i)'
  <2>1. i \in Steps(q)  BY <1>1 DEF Steps
  <2>. QED  BY <1>1, <2>1, LateRest
<1>2. ASSUME NEW e \in Execs, NEW x, Moves(e, x) PROVE LateFor(q, i)'
  <2>1. i \in Steps(q)  BY <1>2 DEF Moves, runVars, Steps
  <2>. QED  BY <1>2, <2>1, LateMove
<1>3. ASSUME NEW e \in Execs, Leaves(e) PROVE LateFor(q, i)'
  <2>1. /\ UNCHANGED <<def, late, extra>>
        /\ \A f \in Execs : exec'[f] = exec[f] \/ exec'[f] = Idle
    BY <1>3, ExecTyped, IdleTyped DEF Leaves, runVars
  <2>2. Rest  BY <1>0, <1>3, <2>1, IdleFields, LeavesRuns DEF Started
  <2>. QED  BY <1>1, <2>2
<1>4. ASSUME NEW e \in Execs, OpenTask(e) PROVE LateFor(q, i)'
  <2>1. /\ UNCHANGED <<def, run, late, extra>>
        /\ \A f \in Execs : exec'[f] = exec[f] \/ exec'[f] = Idle
    BY <1>4, ExecTyped, IdleTyped DEF OpenTask, Ends, runVars
  <2>2. Rest  BY <1>0, <2>1, IdleFields DEF Started
  <2>. QED  BY <1>1, <2>2
<1>5. ASSUME NEW t \in Tasks, Human(t) \/ ResumeUnknown(t) PROVE LateFor(q, i)'
  <2>1. UNCHANGED <<def, run, late, exec>>  BY <1>5, TaskTouched DEF runVars
  <2>2. Rest  BY <1>5, <2>1, HumanTokens
  <2>. QED  BY <1>1, <2>2
<1>6. ASSUME NEW t \in Tasks, NEW e \in Execs, Resume(t, e) PROVE LateFor(q, i)'
  <2>1. PICK r \in Runs : \E j \in Steps(r) : Resumed(t, e, r, j)  BY <1>6, CallMade
  <2>2. PICK j \in Steps(r) : Resumed(t, e, r, j)  BY <2>1
  <2>3. UNCHANGED <<def, run, late, extra>>  BY <2>2, ResumedFacts DEF runVars
  <2>4. \A f \in Execs : exec'[f] = exec[f] \/ exec'[f].phase \notin Started
    BY <2>2, ResumedFacts DEF Started
  <2>5. Rest  BY <1>0, <2>3, <2>4
  <2>. QED  BY <1>1, <2>5
<1>7. ASSUME NEW r \in Runs, Making(r) PROVE LateFor(q, i)'
  <2>1. PICK e \in Execs : Made(r, e)  BY <1>7, MadeFacts
  <2>2. CASE q = r
    <3>1. late'[q][i] = 0 /\ run'[q] \notin Ended  BY <2>1, <2>2 DEF Made, Steps, Ended
    <3>. QED  BY <3>1 DEF LateFor
  <2>3. CASE q # r
    <3>1. Rest  BY <1>0, <2>1, <2>3 DEF Made, Started
    <3>. QED  BY <1>1, <3>1
  <2>. QED  BY <2>2, <2>3
<1>8. ASSUME NEW r \in Runs, CommitTrigger(r) \/ ReadToCancel(r) \/ Cancel(r) PROVE LateFor(q, i)'
  <2>1. Rest  BY <1>0, <1>8, QuietFacts DEF runVars
  <2>. QED  BY <1>1, <2>1
<1>9. ASSUME Crash PROVE LateFor(q, i)'
  <2>1. UNCHANGED <<def, late, extra>> /\ \A f \in Execs : exec'[f] = Idle  BY <1>9 DEF Crash, runVars
  <2>2. run[q] \in Ended => run'[q] \in Ended  BY <1>9 DEF Crash, Ended
  <2>3. Rest  BY <1>0, <2>1, <2>2, IdleFields DEF Started
  <2>. QED  BY <1>1, <2>3
<1>10. ASSUME UNCHANGED vars PROVE LateFor(q, i)'
  <2>1. Rest  BY <1>0, <1>10 DEF vars
  <2>. QED  BY <1>1, <2>1
<1>. HIDE DEF Rest
<1>. QED  BY <1>2, <1>3, <1>4, <1>5, <1>6, <1>7, <1>8, <1>9, <1>10, StepKinds

---------------------------------------------------------------------------
(* A run that says running is held *)

LEMMA StillHeld ==
  ASSUME TypeOK, NEW q \in Runs, Held(q), def'[q] = def[q], link'[q] = link[q],
         \A f \in Execs : exec[f].run = q => exec'[f].run = q,
         \A i \in Steps(q) : link[q][i] # None =>
           (Moving(link[q][i]) \/ task[link[q][i]] = "cancelled" =>
              task'[link[q][i]] = "open" \/ due'[link[q][i]] > 0 \/ task'[link[q][i]] = "cancelled")
  PROVE  Held(q)'
<1>1. CASE Live(q) # {}
  <2>1. PICK f \in Execs : exec[f].run = q  BY <1>1 DEF Live
  <2>2. exec'[f].run = q  BY <2>1
  <2>. QED  BY <2>2 DEF Held, Live
<1>2. CASE \E i \in Steps(q) : link[q][i] # None /\ (Moving(link[q][i]) \/ task[link[q][i]] = "cancelled")
  <2>1. PICK i \in Steps(q) : link[q][i] # None /\ (Moving(link[q][i]) \/ task[link[q][i]] = "cancelled")  BY <1>2
  <2>2. i \in Steps(q)' /\ link'[q][i] # None /\ link'[q][i] = link[q][i]  BY <2>1 DEF Steps
  <2>3. task'[link[q][i]] = "open" \/ due'[link[q][i]] > 0 \/ task'[link[q][i]] = "cancelled"  BY <2>1
  <2>4. (Moving(link[q][i]) \/ task[link[q][i]] = "cancelled")'  BY <2>2, <2>3 DEF Moving
  <2>. QED  BY <2>2, <2>4 DEF Held
<1>. QED  BY <1>1, <1>2 DEF Held

LEMMA HeldByExec ==
  ASSUME NEW q \in Runs, NEW f \in Execs, exec'[f].run = q
  PROVE  Held(q)'
BY DEF Held, Live

LEMMA WaitsNext ==
  ASSUME TypeOK, Shape, Waits, [Next]_vars
  PROVE  Waits'
<1>. SUFFICES ASSUME NEW q \in Runs, run'[q] = "running", origin'[q] = "owner", faults' = 0
              PROVE  Held(q)'
  BY DEF Waits
<1>0. \A i \in Steps(q) : link[q][i] # None => link[q][i] \in Tasks  BY RunFields
<1>1. ASSUME NEW e \in Execs, NEW x, Moves(e, x) PROVE Held(q)'
  <2>1. UNCHANGED <<def, run, origin, link, task, due, faults>>  BY <1>1 DEF Moves, runVars
  <2>2. \A f \in Execs : exec'[f].run = exec[f].run  BY <1>1, ExecTyped DEF Moves
  <2>3. Held(q)  BY <2>1 DEF Waits
  <2>. QED  BY <2>1, <2>2, <2>3, StillHeld DEF Moving
<1>2. ASSUME NEW e \in Execs, Leaves(e) PROVE Held(q)'
  <2>1. UNCHANGED <<def, origin, link, task, due>>  BY <1>2 DEF Leaves, runVars
  <2>2. faults = 0  BY <1>2 DEF Leaves, TypeOK
  <2>3. exec[e].run # q  BY <1>2, <2>1 DEF Leaves
  <2>4. run[q] = "running"  BY <1>2, <2>3 DEF Leaves
  <2>5. Held(q)  BY <2>1, <2>2, <2>4 DEF Waits
  <2>6. \A f \in Execs : exec[f].run = q => exec'[f].run = q  BY <1>2, <2>3, ExecTyped, IdleTyped DEF Leaves
  <2>. QED  BY <2>1, <2>5, <2>6, StillHeld DEF Moving
<1>3. ASSUME NEW e \in Execs, OpenTask(e) PROVE Held(q)'
  <2>1. PICK r \in Runs, i \in Nat, t \in Tasks : Opens(e, r, i, t)  BY <1>3, TaskOpened
  <2>2. UNCHANGED <<def, run, origin, due, faults>> /\ i \in Steps(r)  BY <2>1 DEF Opens, runVars
  <2>3. CASE q = r
    <3>1. i \in Steps(q)' /\ link'[q][i] = t /\ t # None /\ task'[t] = "open"  BY <2>1, <2>2, <2>3, LinkOpened
    <3>2. Moving(link[q][i])'  BY <3>1 DEF Moving
    <3>. QED  BY <3>1, <3>2 DEF Held
  <2>4. CASE q # r
    <3>1. Held(q)  BY <2>2 DEF Waits
    <3>2. DOMAIN link = Runs /\ link' = [link EXCEPT ![r][i] = t]  BY <2>1 DEF TypeOK, Opens
    <3>3. link'[q] = link[q]  BY <2>4, <3>2
    <3>4. exec[e].run = r  BY <2>1 DEF Opens
    <3>5. \A f \in Execs : exec[f].run = q => exec'[f].run = q  BY <2>1, <2>4, <3>4, LinkOpened
    <3>6. \A j \in Steps(q) : link[q][j] # None => task'[link[q][j]] = task[link[q][j]]
      <4>1. \A j \in Steps(q) : link[q][j] # None => link[q][j] # t  BY <2>1 DEF Shape, LinksMade, Opens
      <4>. QED  BY <1>0, <2>1, <4>1, LinkOpened
    <3>. QED  BY <2>2, <3>1, <3>3, <3>5, <3>6, StillHeld DEF Moving
  <2>. QED  BY <2>3, <2>4
<1>4. ASSUME NEW t \in Tasks, Human(t) \/ ResumeUnknown(t) PROVE Held(q)'
  <2>1. UNCHANGED <<def, run, origin, link, exec, faults>>  BY <1>4, TaskTouched DEF runVars
  <2>2. Held(q)  BY <2>1 DEF Waits
  <2>3. ASSUME NEW i \in Steps(q), link[q][i] # None, Moving(link[q][i]) \/ task[link[q][i]] = "cancelled"
        PROVE  task'[link[q][i]] = "open" \/ due'[link[q][i]] > 0 \/ task'[link[q][i]] = "cancelled"
    <3>1. CASE link[q][i] # t  BY <1>0, <1>4, <2>3, <3>1, TaskTouched DEF Moving
    <3>2. CASE link[q][i] = t
      <4>1. due[t] \in Nat /\ DOMAIN due = Tasks /\ DOMAIN task = Tasks  BY DEF TypeOK
      <4>2. q \in Owner(t)  BY <2>3, <3>2 DEF Owner, Linked
      <4>3. CASE CompleteTask(t)
        <5>1. due'[t] = due[t] + 1  BY <4>1, <4>3 DEF CompleteTask
        <5>. QED  BY <3>2, <4>1, <5>1
      <4>4. CASE ApproveTask(t)
        <5>1. due'[t] = due[t] + 1  BY <4>1, <4>4 DEF ApproveTask
        <5>. QED  BY <3>2, <4>1, <5>1
      <4>5. CASE ReopenTask(t)  BY <3>2, <4>1, <4>5 DEF ReopenTask
      <4>6. CASE CancelTask(t)  BY <3>2, <4>1, <4>6 DEF CancelTask
      <4>7. ~ResumeUnknown(t)  BY <4>2 DEF ResumeUnknown
      <4>. QED  BY <1>4, <4>3, <4>4, <4>5, <4>6, <4>7 DEF Human
    <3>. QED  BY <3>1, <3>2
  <2>. QED  BY <2>1, <2>2, <2>3, StillHeld
<1>5. ASSUME NEW t \in Tasks, NEW e \in Execs, Resume(t, e) PROVE Held(q)'
  <2>1. PICK r \in Runs : \E i \in Steps(r) : Resumed(t, e, r, i)  BY <1>5, CallMade
  <2>2. PICK i \in Steps(r) : Resumed(t, e, r, i)  BY <2>1
  <2>3. UNCHANGED <<def, run, origin, link, task, faults>>  BY <2>2, ResumedFacts DEF runVars
  <2>4. CASE q = r
    <3>1. exec'[e].run = q  BY <2>2, <2>3, <2>4, ResumedFacts DEF Ended
    <3>. QED  BY <3>1, HeldByExec
  <2>5. CASE q # r
    <3>1. Held(q)  BY <2>3 DEF Waits
    <3>2. \A f \in Execs : exec[f].run = q => exec'[f].run = q
      <4>1. Idle.run # q  BY IdleFields, IdsAssumption
      <4>. QED  BY <2>2, <4>1, ResumedFacts
    <3>3. \A j \in Steps(q) : link[q][j] # None => due'[link[q][j]] = due[link[q][j]]
      <4>1. \A j \in Steps(q) : link[q][j] # None => link[q][j] # t
        BY <2>2, <2>5, ResumedFacts DEF Shape, LinksApart
      <4>. QED  BY <1>0, <2>2, <4>1, ResumedFacts
    <3>. QED  BY <2>3, <3>1, <3>2, <3>3, StillHeld DEF Moving
  <2>. QED  BY <2>4, <2>5
<1>6. ASSUME NEW r \in Runs, Making(r) PROVE Held(q)'
  <2>1. PICK e \in Execs : Made(r, e)  BY <1>6, MadeFacts
  <2>2. CASE q = r  BY <2>1, <2>2, HeldByExec DEF Made
  <2>3. CASE q # r
    <3>1. Held(q)  BY <2>1, <2>3 DEF Waits, Made
    <3>2. \A f \in Execs : exec[f].run = q => exec'[f].run = q
      <4>1. Idle.run # q  BY IdleFields, IdsAssumption
      <4>. QED  BY <2>1, <4>1 DEF Made
    <3>3. UNCHANGED <<task, due>> /\ def'[q] = def[q] /\ link'[q] = link[q]  BY <2>1, <2>3 DEF Made
    <3>. QED  BY <3>1, <3>2, <3>3, StillHeld DEF Moving
  <2>. QED  BY <2>2, <2>3
<1>7. ASSUME NEW r \in Runs, CommitTrigger(r) \/ ReadToCancel(r) \/ Cancel(r) PROVE Held(q)'
  <2>1. UNCHANGED <<def, origin, link, task, due, exec, faults>>  BY <1>7, QuietFacts DEF runVars
  <2>2. run[q] # "uncommitted"  BY <2>1 DEF Shape, RunShape, Visible
  <2>3. Held(q)  BY <1>7, <2>1, <2>2, QuietFacts DEF Waits
  <2>. QED  BY <2>1, <2>3, StillHeld DEF Moving
<1>8. ASSUME Crash PROVE Held(q)'
  <2>1. faults' = faults + 1 /\ faults \in Nat  BY <1>8, BoundsAssumption DEF Crash, Fault, TypeOK
  <2>. QED  BY <2>1
<1>9. ASSUME UNCHANGED vars PROVE Held(q)'
  <2>1. UNCHANGED <<def, run, origin, link, task, due, exec, faults>>  BY <1>9 DEF vars, runVars
  <2>2. Held(q)  BY <2>1 DEF Waits
  <2>. QED  BY <2>1, <2>2, StillHeld DEF Moving
<1>. QED  BY <1>1, <1>2, <1>3, <1>4, <1>5, <1>6, <1>7, <1>8, <1>9, StepKinds

---------------------------------------------------------------------------
(* The steps run in order *)

LEMMA OneThread ==
  ASSUME TypeOK, Shape, ThreadsCounted, NEW q \in Runs, extra[q] = 0, NEW e \in Execs, exec[e].run = q
  PROVE  /\ \A f \in Execs : exec[f].run = q => f = e
         /\ \A i \in Steps(q) : link[q][i] # None => ~Moving(link[q][i])
<1>. DEFINE A == At(q, Nat)   O == OpenAt(q, Nat)   C == CallAt(q, Nat)
<1>1. /\ IsFiniteSet(Tokens(A, O, C)) /\ Cardinality(Tokens(A, O, C)) \in Nat /\ Cardinality(Tokens(A, O, C)) <= 1
  BY TokensFinite DEF N, ThreadsCounted, Shape
<1>2. \A f \in Execs : exec[f].run = q => f \in A  BY ExecFields DEF At
<1>3. \A i \in Steps(q) : link[q][i] # None /\ Moving(link[q][i]) => O # {} \/ C # {}
  <2>1. \A i \in Steps(q) : i + 1 \in Nat  BY StepsKnown
  <2>. QED  BY <2>1, MovingHeld
<1>. HIDE DEF A, O, C
<1>4. A = {e} /\ O = {} /\ C = {}
  <2>1. e \in A  BY <1>2
  <2>2. IsFiniteSet(Tokens({e}, {}, {}))  BY <2>1, <1>1, CardSub DEF Tokens
  <2>3. Cardinality(Tokens({}, {}, {})) \in Nat /\ Cardinality(Tokens({}, {}, {})) + 1 <= Cardinality(Tokens({e}, {}, {}))
        /\ Cardinality(Tokens({e}, {}, {})) \in Nat
    BY <2>2, TokenLost
  <2>4. ~(Cardinality(Tokens({e}, {}, {})) + 1 <= Cardinality(Tokens(A, O, C)))  BY <1>1, <2>3
  <2>. QED  BY <1>1, <2>1, <2>4, TokenLost
<1>. QED  BY <1>2, <1>3, <1>4

LEMMA OrderStays ==
  ASSUME TypeOK, TypeOK', NEW q \in Runs, OrderedFor(q), def'[q] = def[q], link'[q] = link[q], extra[q] <= extra'[q],
         \A j \in Steps(q) : step[q][j] \in Done => step'[q][j] \in Done,
         \A f \in Execs : exec'[f].run = q => exec'[f] = exec[f],
         \A i \in Steps(q) : link[q][i] # None /\ extra'[q] = 0 /\ Moving(link[q][i])' => Moving(link[q][i])
  PROVE  OrderedFor(q)'
<1>. SUFFICES ASSUME Linear(def[q]), extra'[q] = 0
              PROVE  /\ \A e \in Live(q)' : Passed(q, e)'
                     /\ \A i \in Steps(q) : Reached(q, i)'
  BY DEF OrderedFor, Steps
<1>1. extra[q] = 0
  <2>1. extra[q] \in Nat  BY DEF TypeOK
  <2>. QED  BY <2>1
<1>2. Steps(q)' = Steps(q)  BY DEF Steps
<1>3. ASSUME NEW f \in Live(q)' PROVE Passed(q, f)'
  <2>1. f \in Execs /\ exec'[f] = exec[f] /\ f \in Live(q)  BY <1>3 DEF Live
  <2>2. Passed(q, f)  BY <1>1, <2>1 DEF OrderedFor
  <2>. QED  BY <1>2, <2>1, <2>2 DEF Passed
<1>4. ASSUME NEW i \in Steps(q) PROVE Reached(q, i)'
  <2>1. ASSUME link'[q][i] # None, Moving(link[q][i])', NEW j \in Steps(q), j < i PROVE step'[q][j] \in Done
    <3>1. Moving(link[q][i])
      <4>1. task'[link'[q][i]] = "open" \/ due'[link'[q][i]] > 0  BY <2>1 DEF Moving
      <4>2. link'[q][i] = link[q][i]  OBVIOUS
      <4>. QED  BY <2>1, <4>2
    <3>2. Reached(q, i)  BY <1>1 DEF OrderedFor
    <3>. QED  BY <2>1, <3>1, <3>2 DEF Reached
  <2>. QED  BY <1>2, <2>1 DEF Reached
<1>. QED  BY <1>3, <1>4

LEMMA OrderMove ==
  ASSUME TypeOK, Shape, ThreadsCounted, TypeOK', NEW e \in Execs, NEW x, Moves(e, x), NEW q \in Runs, OrderedFor(q)
  PROVE  OrderedFor(q)'
<1>1. UNCHANGED <<def, link, task, due, extra>>  BY DEF Moves, runVars
<1>2. exec'[e] = x /\ x.run = exec[e].run /\ \A f \in Execs : f # e => exec'[f] = exec[f]
  BY ExecTyped DEF Moves
<1>3. extra[q] \in Nat  BY DEF TypeOK
<1>4. CASE q # exec[e].run
  <2>1. \A j \in Steps(q) : step'[q][j] = step[q][j]  BY <1>4 DEF Moves
  <2>2. \A f \in Execs : exec'[f].run = q => exec'[f] = exec[f]  BY <1>2, <1>4
  <2>. QED  BY <1>1, <1>3, <2>1, <2>2, OrderStays DEF Moving
<1>5. CASE q = exec[e].run
  <2>. SUFFICES ASSUME Linear(def[q]), extra[q] = 0
                PROVE  /\ \A f \in Live(q)' : Passed(q, f)'
                       /\ \A i \in Steps(q) : Reached(q, i)'
    BY <1>1 DEF OrderedFor, Steps
  <2>1. /\ \A f \in Execs : exec[f].run = q => f = e
        /\ \A i \in Steps(q) : link[q][i] # None => ~Moving(link[q][i])
    BY <1>5, OneThread
  <2>2. \A i \in Steps(q) : Reached(q, i)'  BY <1>1, <2>1 DEF Reached, Moving
  <2>3. \A f \in Live(q)' : f = e  BY <1>2, <2>1 DEF Live
  <2>4. Passed(q, e)  BY <1>5 DEF OrderedFor, Live
  <2>. DEFINE a == exec[e].at
  <2>5. a \in Nat /\ \A j \in Steps(q) : j \in Nat  BY ExecFields, StepsKnown
  <2>6. \A j \in Steps(q) : j # a => step'[q][j] = step[q][j]  BY <1>5 DEF Moves
  <2>7. ASSUME NEW j \in Steps(q)
        PROVE  /\ j < x.at => step'[q][j] \in Done
               /\ x.mine[j] \in Done => step'[q][j] \in Done
    <3>1. CASE exec[e].phase = "starting"
      <4>1. x.at = a /\ x.mine = step[q] /\ step' = step  BY <1>2, <1>5, <3>1 DEF Moves, GoesTo
      <4>. QED  BY <2>4, <4>1 DEF Passed
    <3>2. CASE exec[e].phase # "starting" /\ x.at = a /\ x.mine[a] \notin Done
      <4>1. exec[e].phase \in Started  BY <3>2 DEF Moves, GoesTo
      <4>2. j # a => x.mine[j] = exec[e].mine[j]  BY <1>2, <1>5, <3>2 DEF Moves, GoesTo
      <4>3. CASE j = a  BY <2>5, <3>2, <4>3
      <4>4. CASE j # a  BY <2>4, <2>6, <3>2, <4>1, <4>2, <4>4 DEF Passed
      <4>. QED  BY <4>3, <4>4
    <3>3. CASE /\ exec[e].phase # "starting"
               /\ x.at = a + 1 /\ x.mine[a] \in Done
               /\ \/ step'[q][a] \in Done
                  \/ step'[q][a] = step[q][a] /\ exec[e].mine[a] \in Done
      <4>1. exec[e].phase \in Started /\ a \in Steps(q)  BY <1>2, <1>5, <3>3 DEF Moves, GoesTo
      <4>2. j # a => x.mine[j] = exec[e].mine[j]  BY <1>2, <1>5, <3>3 DEF Moves, GoesTo
      <4>3. step'[q][a] \in Done  BY <2>4, <3>3, <4>1 DEF Passed
      <4>4. CASE j = a  BY <4>3, <4>4
      <4>5. CASE j # a
        <5>1. j < x.at => j < a  BY <2>5, <3>3, <4>5
        <5>. QED  BY <2>4, <2>6, <4>1, <4>2, <4>5, <5>1 DEF Passed
      <4>. QED  BY <4>4, <4>5
    <3>. QED  BY <1>2, <1>5, <3>1, <3>2, <3>3 DEF Moves, GoesTo
  <2>8. Passed(q, e)'  BY <1>1, <1>2, <2>7 DEF Passed, Steps
  <2>. QED  BY <2>2, <2>3, <2>8
<1>. QED  BY <1>4, <1>5

LEMMA OrderLeave ==
  ASSUME TypeOK, Shape, ThreadsCounted, TypeOK', NEW e \in Execs, Leaves(e), NEW q \in Runs, OrderedFor(q)
  PROVE  OrderedFor(q)'
<1>1. UNCHANGED <<def, link, task, due, extra>>  BY DEF Leaves, runVars
<1>2. exec'[e] = Idle /\ (\A f \in Execs : f # e => exec'[f] = exec[f]) /\ Idle.run # q
  BY ExecTyped, IdleTyped, IdleFields, IdsAssumption DEF Leaves
<1>3. extra[q] \in Nat  BY DEF TypeOK
<1>4. CASE q # exec[e].run
  <2>1. \A j \in Steps(q) : step'[q][j] = step[q][j]  BY <1>4 DEF Leaves
  <2>2. \A f \in Execs : exec'[f].run = q => exec'[f] = exec[f]  BY <1>2
  <2>. QED  BY <1>1, <1>3, <2>1, <2>2, OrderStays DEF Moving
<1>5. CASE q = exec[e].run
  <2>. SUFFICES ASSUME Linear(def[q]), extra[q] = 0
                PROVE  /\ \A f \in Live(q)' : Passed(q, f)'
                       /\ \A i \in Steps(q) : Reached(q, i)'
    BY <1>1 DEF OrderedFor, Steps
  <2>1. /\ \A f \in Execs : exec[f].run = q => f = e
        /\ \A i \in Steps(q) : link[q][i] # None => ~Moving(link[q][i])
    BY <1>5, OneThread
  <2>2. \A i \in Steps(q) : Reached(q, i)'  BY <1>1, <2>1 DEF Reached, Moving
  <2>3. Live(q)' = {}  BY <1>2, <2>1 DEF Live
  <2>. QED  BY <2>2, <2>3
<1>. QED  BY <1>4, <1>5

LEMMA OrderOpen ==
  ASSUME TypeOK, Shape, TypeOK', NEW e \in Execs, OpenTask(e), NEW q \in Runs, OrderedFor(q)
  PROVE  OrderedFor(q)'
<1>1. PICK r \in Runs, i \in Nat, t \in Tasks : Opens(e, r, i, t)  BY TaskOpened
<1>2. UNCHANGED <<def, run, step, due, extra>> /\ i \in Steps(r) /\ exec[e].at = i /\ exec[e].run = r
  BY <1>1 DEF Opens, runVars
<1>3. extra[q] \in Nat  BY DEF TypeOK
<1>4. \A f \in Execs : exec'[f].run = q => exec'[f] = exec[f]
  <2>1. Idle.run # q  BY IdleFields, IdsAssumption
  <2>. QED  BY <1>1, <2>1, LinkOpened
<1>5. \A p \in Runs : \A j \in Steps(p) : link[p][j] # None => link[p][j] # t /\ task'[link[p][j]] = task[link[p][j]]
  <2>1. \A p \in Runs : \A j \in Steps(p) : link[p][j] # None => link[p][j] # t
    BY <1>1 DEF Shape, LinksMade, Opens
  <2>2. \A p \in Runs : \A j \in Steps(p) : link[p][j] # None => link[p][j] \in Tasks  BY RunFields
  <2>. QED  BY <1>1, <2>1, <2>2, LinkOpened
<1>6. CASE q # r
  <2>1. DOMAIN link = Runs /\ link' = [link EXCEPT ![r][i] = t]  BY <1>1 DEF TypeOK, Opens
  <2>2. link'[q] = link[q]  BY <1>6, <2>1
  <2>. QED  BY <1>2, <1>3, <1>4, <1>5, <2>2, OrderStays DEF Moving
<1>7. CASE q = r
  <2>. SUFFICES ASSUME Linear(def[q]), extra[q] = 0
                PROVE  /\ \A f \in Live(q)' : Passed(q, f)'
                       /\ \A j \in Steps(q) : Reached(q, j)'
    BY <1>2 DEF OrderedFor, Steps
  <2>1. ASSUME NEW f \in Live(q)' PROVE Passed(q, f)'
    <3>1. f \in Execs /\ exec'[f] = exec[f] /\ f \in Live(q)  BY <1>4, <2>1 DEF Live
    <3>2. Passed(q, f)  BY <3>1 DEF OrderedFor
    <3>. QED  BY <1>2, <3>1, <3>2 DEF Passed, Steps
  <2>2. ASSUME NEW j \in Steps(q), link'[q][j] # None, Moving(link[q][j])', NEW k \in Steps(q), k < j
        PROVE  step'[q][k] \in Done
    <3>1. CASE j = i
      <4>1. Passed(q, e)  BY <1>2, <1>7 DEF OrderedFor, Live
      <4>. QED  BY <1>2, <2>2, <3>1, <4>1 DEF Passed
    <3>2. CASE j # i
      <4>1. link'[q][j] = link[q][j]  BY <1>1, <3>2, LinkOpened
      <4>2. Moving(link[q][j])  BY <1>2, <1>5, <2>2, <4>1 DEF Moving
      <4>3. Reached(q, j)  BY DEF OrderedFor
      <4>. QED  BY <1>2, <2>2, <4>1, <4>2, <4>3 DEF Reached
    <3>. QED  BY <3>1, <3>2
  <2>3. \A j \in Steps(q) : Reached(q, j)'  BY <1>2, <2>2 DEF Reached, Steps
  <2>. QED  BY <2>1, <2>3
<1>. QED  BY <1>6, <1>7

(* A human step's task moves again only by a repeated completion.           *)
LEMMA HumanMoves ==
  ASSUME TypeOK, NEW t \in Tasks, Human(t) \/ ResumeUnknown(t), NEW q \in Runs, NEW i \in Steps(q),
         link[q][i] # None, extra'[q] = 0, Moving(link[q][i])'
  PROVE  Moving(link[q][i])
<1>1. link[q][i] \in Tasks /\ link' = link /\ extra[q] \in Nat  BY TaskTouched, RunFields
<1>2. task'[link[q][i]] = "open" \/ due'[link[q][i]] > 0  BY <1>1 DEF Moving
<1>3. CASE link[q][i] # t  BY <1>1, <1>2, <1>3, TaskTouched DEF Moving
<1>4. CASE link[q][i] = t
  <2>1. q \in Owner(t)  BY <1>4 DEF Owner, Linked
  <2>2. due[t] \in Nat /\ DOMAIN due = Tasks /\ DOMAIN task = Tasks  BY DEF TypeOK
  <2>3. ~ApproveTask(t) /\ ~ReopenTask(t)
    <3>1. ~Extra(t)  BY <1>1, <2>1 DEF Extra
    <3>. QED  BY <3>1 DEF ApproveTask, ReopenTask, Repeats
  <2>4. ~ResumeUnknown(t)  BY <2>1 DEF ResumeUnknown
  <2>5. CASE CompleteTask(t)  BY <1>4, <2>5 DEF CompleteTask, Moving
  <2>6. CASE CancelTask(t)  BY <1>4, <2>6 DEF CancelTask, Moving
  <2>. QED  BY <2>3, <2>4, <2>5, <2>6 DEF Human
<1>. QED  BY <1>3, <1>4

LEMMA OrderHuman ==
  ASSUME TypeOK, Shape, TypeOK', NEW t \in Tasks, Human(t) \/ ResumeUnknown(t), NEW q \in Runs, OrderedFor(q)
  PROVE  OrderedFor(q)'
<1>1. UNCHANGED <<def, step, link, exec>>  BY TaskTouched DEF runVars
<1>2. extra[q] <= extra'[q]  BY HumanTokens
<1>. QED  BY <1>1, <1>2, HumanMoves, OrderStays

LEMMA ResumedMoves ==
  ASSUME TypeOK, Shape, NEW t \in Tasks, NEW e \in Execs, NEW r \in Runs, NEW i \in Steps(r), Resumed(t, e, r, i),
         NEW q \in Runs, NEW j \in Steps(q), link[q][j] # None, Moving(link[q][j])'
  PROVE  Moving(link[q][j])
<1>1. link[q][j] \in Tasks /\ link' = link /\ task' = task  BY RunFields, ResumedFacts
<1>2. task[link[q][j]] = "open" \/ due'[link[q][j]] > 0  BY <1>1 DEF Moving
<1>3. due[t] > 0 /\ \A u \in Tasks : u # t => due'[u] = due[u]  BY ResumedFacts
<1>. QED  BY <1>1, <1>2, <1>3 DEF Moving

LEMMA OrderResume ==
  ASSUME TypeOK, Shape, TypeOK', NEW t \in Tasks, NEW e \in Execs, Resume(t, e), NEW q \in Runs, OrderedFor(q)
  PROVE  OrderedFor(q)'
<1>1. PICK r \in Runs : \E i \in Steps(r) : Resumed(t, e, r, i)  BY CallMade
<1>2. PICK i \in Steps(r) : Resumed(t, e, r, i)  BY <1>1
<1>3. UNCHANGED <<def, link, extra>>  BY <1>2, ResumedFacts DEF runVars
<1>4. extra[q] \in Nat  BY DEF TypeOK
<1>5. \A j \in Steps(q) : step[q][j] \in Done => step'[q][j] \in Done  BY <1>2, ResumedFacts DEF Done
<1>6. CASE \A f \in Execs : exec'[f].run = q => exec'[f] = exec[f]
  BY <1>2, <1>3, <1>4, <1>5, <1>6, ResumedMoves, OrderStays
<1>7. CASE ~(\A f \in Execs : exec'[f].run = q => exec'[f] = exec[f])
  <2>1. /\ q = r /\ exec'[e].run = r /\ exec'[e].phase = "starting" /\ exec'[e].at = After(r, i)
        /\ \A f \in Execs : f # e => exec'[f] = exec[f]
    BY <1>2, <1>7, ResumedFacts
  <2>. SUFFICES ASSUME Linear(def[q]), extra[q] = 0
                PROVE  /\ \A f \in Live(q)' : Passed(q, f)'
                       /\ \A j \in Steps(q) : Reached(q, j)'
    BY <1>3 DEF OrderedFor, Steps
  <2>2. Reached(q, i) /\ link[q][i] # None /\ Moving(link[q][i])
    BY <1>2, <2>1, ResumedFacts DEF OrderedFor, Moving
  <2>3. ASSUME NEW f \in Live(q)' PROVE Passed(q, f)'
    <3>1. CASE f # e
      <4>1. exec'[f] = exec[f] /\ f \in Live(q)  BY <2>1, <2>3, <3>1 DEF Live
      <4>2. Passed(q, f)  BY <4>1 DEF OrderedFor
      <4>. QED  BY <1>3, <1>5, <4>1, <4>2 DEF Passed, Steps
    <3>2. CASE f = e
      <4>1. exec'[e].at = i + 1 /\ i \in Nat /\ \A j \in Steps(q) : j \in Nat  BY <2>1, AfterGoesOn, StepsKnown
      <4>2. ASSUME NEW j \in Steps(q), j < i + 1 PROVE step'[q][j] \in Done
        <5>1. CASE j = i
          <6>1. step'[r][i] = "completed"  BY <1>2, ResumedFacts
          <6>. QED  BY <2>1, <5>1, <6>1 DEF Done
        <5>2. CASE j < i  BY <1>5, <2>2, <5>2 DEF Reached
        <5>3. j = i \/ j < i
          <6>1. j \in Nat /\ i \in Nat /\ j < i + 1  BY <4>1, <4>2
          <6>. QED  BY ONLY <6>1
        <5>. QED  BY <5>1, <5>2, <5>3
      <4>. QED  BY <1>3, <2>1, <3>2, <4>1, <4>2 DEF Passed, Steps, Started
    <3>. QED  BY <3>1, <3>2
  <2>4. ASSUME NEW j \in Steps(q), link'[q][j] # None, Moving(link[q][j])', NEW k \in Steps(q), k < j
        PROVE  step'[q][k] \in Done
    <3>1. link[q][j] # None /\ Moving(link[q][j])  BY <1>2, <1>3, <2>4, ResumedMoves
    <3>2. Reached(q, j)  BY DEF OrderedFor
    <3>. QED  BY <1>5, <2>4, <3>1, <3>2 DEF Reached
  <2>5. \A j \in Steps(q) : Reached(q, j)'  BY <1>3, <2>4 DEF Reached, Steps
  <2>. QED  BY <2>3, <2>5
<1>. QED  BY <1>6, <1>7

(* A retry begins after what the retried run had done. *)
LEMMA MadeAfter ==
  ASSUME TypeOK, TypeOK', NEW r \in Runs, NEW e \in Execs, Made(r, e), NEW j \in Steps(r)', j < exec'[e].at
  PROVE  step'[r][j] \in Done
<1>1. CASE exec'[e].at = 1
  <2>1. j \in 1..Len(def'[r])
    <3>1. def'[r] \in Definitions \cup {<<>>}  BY DEF TypeOK
    <3>2. def'[r] \in Seq(StepDef)  BY <3>1, DefinitionsAssumption, EmptySeq
    <3>. QED  BY <3>2 DEF Steps
  <2>. QED  BY <1>1, <2>1
<1>2. CASE /\ parent'[r] \in Runs /\ def'[r] = def[parent'[r]] /\ exec'[e].at = ResumeFrom(parent'[r])
           /\ \A k \in DOMAIN def'[r] : k < exec'[e].at => step'[r][k] = step[parent'[r]][k]
  <2>1. PICK p \in Runs : p = parent'[r]  BY <1>2
  <2>2. j \in Steps(p) /\ j < ResumeFrom(p) /\ step'[r][j] = step[p][j]  BY <1>2, <2>1 DEF Steps
  <2>. QED  BY <2>2, ResumePoint
<1>. QED  BY <1>1, <1>2 DEF Made

LEMMA OrderMake ==
  ASSUME TypeOK, Shape, TypeOK', NEW r \in Runs, NEW e \in Execs, Made(r, e), NEW q \in Runs, OrderedFor(q)
  PROVE  OrderedFor(q)'
<1>1. CASE q # r
  <2>1. /\ def'[q] = def[q] /\ link'[q] = link[q] /\ step'[q] = step[q] /\ UNCHANGED <<task, due, extra>>
        /\ \A f \in Execs : exec'[f].run = q => exec'[f] = exec[f]
    BY <1>1 DEF Made
  <2>2. extra[q] <= extra'[q]  BY <2>1 DEF TypeOK
  <2>3. \A i \in Steps(q) : Moving(link[q][i])' => Moving(link[q][i])  BY <2>1 DEF Moving
  <2>. QED  BY <2>1, <2>2, <2>3, OrderStays
<1>2. CASE q = r
  <2>1. \A i \in Steps(q)' : Reached(q, i)'  BY <1>2 DEF Reached, Made, Steps
  <2>2. \A f \in Live(q)' : f = e
    <3>1. Idle.run # q  BY IdleFields, IdsAssumption
    <3>2. \A f \in Execs : exec[f].run # q  BY <1>2, <3>1 DEF Shape, ExecKept, Made
    <3>. QED  BY <1>2, <3>2 DEF Live, Made
  <2>3. \A j \in Steps(q)' : j < exec'[e].at => step'[q][j] \in Done  BY <1>2, MadeAfter
  <2>4. Passed(q, e)'
    <3>1. exec'[e].phase \notin Started  BY DEF Made, Started
    <3>. QED  BY <2>3, <3>1 DEF Passed
  <2>. QED  BY <2>1, <2>2, <2>4 DEF OrderedFor
<1>. QED  BY <1>1, <1>2

LEMMA OrderNext ==
  ASSUME TypeOK, Shape, ThreadsCounted, Ordered, [Next]_vars, TypeOK'
  PROVE  Ordered'
<1>. SUFFICES ASSUME NEW q \in Runs PROVE OrderedFor(q)'
  BY DEF Ordered
<1>0. OrderedFor(q) /\ extra[q] \in Nat /\ Idle.run # q  BY IdleFields, IdsAssumption DEF Ordered, TypeOK
<1>1. CASE \E e \in Execs : OpenTask(e) \/ Leaves(e) \/ \E x : Moves(e, x)
  BY <1>0, <1>1, OrderMove, OrderLeave, OrderOpen
<1>2. CASE \E t \in Tasks : Human(t) \/ ResumeUnknown(t)  BY <1>0, <1>2, OrderHuman
<1>3. CASE \E t \in Tasks, e \in Execs : Resume(t, e)  BY <1>0, <1>3, OrderResume
<1>4. CASE \E r \in Runs : Making(r)  BY <1>0, <1>4, MadeFacts, OrderMake
<1>5. CASE UNCHANGED <<def, step, link, task, due, exec, extra>>
  <2>1. \A i \in Steps(q) : Moving(link[q][i])' => Moving(link[q][i])  BY <1>5 DEF Moving
  <2>. QED  BY <1>0, <1>5, <2>1, OrderStays
<1>6. CASE \E r \in Runs : CommitTrigger(r) \/ ReadToCancel(r) \/ Cancel(r)
  BY <1>5, <1>6, QuietFacts DEF runVars
<1>7. CASE Crash
  <2>1. UNCHANGED <<def, step, link, task, extra>> /\ \A f \in Execs : exec'[f] = Idle  BY <1>7 DEF Crash, runVars
  <2>2. \A u \in Tasks : due'[u] = 0  BY <1>7 DEF Crash
  <2>3. \A i \in Steps(q) : link[q][i] # None /\ Moving(link[q][i])' => Moving(link[q][i])
    <3>1. \A i \in Steps(q) : link[q][i] # None => link[q][i] \in Tasks  BY RunFields
    <3>. QED  BY <2>1, <2>2, <3>1 DEF Moving
  <2>. QED  BY <1>0, <2>1, <2>3, OrderStays
<1>8. CASE UNCHANGED vars  BY <1>5, <1>8 DEF vars
<1>. QED  BY <1>1, <1>2, <1>3, <1>4, <1>6, <1>7, <1>8, StepKinds

---------------------------------------------------------------------------
(* What has been paid for is done, or will be written *)

LEMMA AccountAs ==
  ASSUME TypeOK, ChargesCounted, NEW q \in Runs, AccountedFor(q), def'[q] = def[q], Fewer(q),
         \A i \in Steps(q) : \A j \in Steps(q) :
           Linear(def[q]) /\ Full(q, i) /\ Full(q, i)' /\ j <= i /\ (step[q][j] \in Done \/ Pushed(q, j, i))
             => step'[q][j] \in Done \/ Pushed(q, j, i)'
  PROVE  AccountedFor(q)'
<1>1. Steps(q)' = Steps(q)  BY DEF Steps
<1>2. ASSUME Linear(def[q]), NEW i \in Steps(q), Full(q, i)', NEW j \in 1..i
      PROVE  step'[q][j] \in Done \/ Pushed(q, j, i)'
  <2>1. Forward(def[q]) /\ j \in Steps(q) /\ j <= i
    <3>1. Steps(q) = 1..Len(def[q]) /\ Len(def[q]) \in Nat /\ Steps(q) \subseteq Nat  BY StepsKnown
    <3>. QED  BY <1>2, <3>1, LinearGoesOn DEF Steps
  <2>2. Full(q, i)  BY <1>2, <2>1, StaysFull
  <2>3. step[q][j] \in Done \/ Pushed(q, j, i)  BY <1>2, <2>2 DEF AccountedFor
  <2>. QED  BY <1>2, <2>1, <2>2, <2>3
<1>. QED  BY <1>1, <1>2 DEF AccountedFor

LEMMA PushByStays ==
  ASSUME NEW q, NEW j, NEW i, NEW f \in Execs, PushedBy(q, j, f), exec'[f] = exec[f]
  PROVE  Pushed(q, j, i)'
<1>1. PushedBy(q, j, f)'  BY DEF PushedBy
<1>. QED  BY <1>1 DEF Pushed

LEMMA PushFromStays ==
  ASSUME NEW q, NEW j, NEW i, NEW k \in Steps(q), PushedFrom(q, j, i, k), def'[q] = def[q], link'[q][k] = link[q][k],
         task'[link[q][k]] = "open" \/ due'[link[q][k]] > 0
  PROVE  Pushed(q, j, i)'
<1>1. Moving(link[q][k])'  BY DEF Moving
<1>2. PushedFrom(q, j, i, k)'  BY <1>1 DEF PushedFrom
<1>3. k \in Steps(q)'  BY DEF Steps
<1>. QED  BY <1>2, <1>3 DEF Pushed

LEMMA AccountMove ==
  ASSUME TypeOK, Shape, ChargesCounted, NEW e \in Execs, NEW x, Moves(e, x), NEW q \in Runs, AccountedFor(q)
  PROVE  AccountedFor(q)'
<1>1. UNCHANGED <<def, link, task, due, extra>>  BY DEF Moves, runVars
<1>2. exec'[e] = x /\ x.run = exec[e].run /\ \A f \in Execs : f # e => exec'[f] = exec[f]
  BY ExecTyped DEF Moves
<1>. DEFINE a == exec[e].at
<1>3. a \in Nat  BY ExecFields
<1>4. ASSUME NEW i \in Steps(q), NEW j \in Steps(q), Linear(def[q]), step[q][j] \in Done \/ Pushed(q, j, i)
      PROVE  step'[q][j] \in Done \/ Pushed(q, j, i)'
  <2>0. j \in Nat  BY StepsKnown
  <2>1. ASSUME q = x.run, x.at <= j, x.mine[j] \notin Done PROVE Pushed(q, j, i)'
    <3>1. PushedBy(q, j, e)'  BY <1>2, <2>1 DEF PushedBy
    <3>. QED  BY <3>1 DEF Pushed
  <2>2. CASE step[q][j] \in Done
    <3>1. CASE step'[q][j] = step[q][j]  BY <2>2, <3>1
    <3>2. CASE step'[q][j] # step[q][j]
      <4>1. q = x.run /\ j = a  BY <1>2, <3>2 DEF Moves
      <4>2. exec[e].phase # "starting"  BY <3>2 DEF Moves, GoesTo
      <4>3. CASE x.at = a /\ x.mine[a] \notin Done  BY <1>3, <2>1, <4>1, <4>3
      <4>4. CASE step'[q][a] \in Done  BY <4>1, <4>4
      <4>. QED  BY <1>4, <3>2, <4>1, <4>2, <4>3, <4>4 DEF Moves, GoesTo
    <3>. QED  BY <3>1, <3>2
  <2>3. CASE \E f \in Execs : f # e /\ PushedBy(q, j, f)  BY <1>2, <2>3, PushByStays
  <2>4. CASE \E k \in Steps(q) : PushedFrom(q, j, i, k)
    <3>1. PICK k \in Steps(q) : PushedFrom(q, j, i, k)  BY <2>4
    <3>2. task'[link[q][k]] = "open" \/ due'[link[q][k]] > 0  BY <1>1, <3>1 DEF PushedFrom, Moving
    <3>. QED  BY <1>1, <3>1, <3>2, PushFromStays
  <2>5. CASE PushedBy(q, j, e)
    <3>1. exec[e].run = q /\ a <= j /\ (exec[e].phase \in Started => exec[e].mine[j] \notin Done)
      BY <2>5 DEF PushedBy
    <3>2. CASE exec[e].phase = "starting"
      <4>1. x.at = a /\ x.mine = step[q] /\ step' = step  BY <1>2, <3>1, <3>2 DEF Moves, GoesTo
      <4>. QED  BY <1>2, <2>1, <3>1, <4>1
    <3>3. CASE exec[e].phase # "starting"
      <4>1. exec[e].phase \in Started /\ exec[e].mine[j] \notin Done  BY <3>1, <3>3 DEF Moves, GoesTo
      <4>2. j # a => x.mine[j] = exec[e].mine[j]  BY <1>2, <3>1, <3>3 DEF Moves, GoesTo
      <4>3. CASE x.at = a /\ x.mine[a] \notin Done
        BY <1>2, <2>1, <3>1, <4>1, <4>2, <4>3
      <4>4. CASE /\ x.at = a + 1
                 /\ \/ step'[q][a] \in Done
                    \/ step'[q][a] = step[q][a] /\ exec[e].mine[a] \in Done
        <5>1. CASE j = a  BY <4>1, <4>4, <5>1
        <5>2. CASE j # a
          <6>1. x.at <= j  BY <1>3, <2>0, <3>1, <4>4, <5>2
          <6>. QED  BY <1>2, <2>1, <3>1, <4>1, <4>2, <5>2, <6>1
        <5>. QED  BY <5>1, <5>2
      <4>. QED  BY <1>2, <1>4, <3>1, <3>3, <4>3, <4>4 DEF Moves, GoesTo
    <3>. QED  BY <3>2, <3>3
  <2>. QED  BY <1>4, <2>2, <2>3, <2>4, <2>5 DEF Pushed
<1>5. def'[q] = def[q] /\ Fewer(q)  BY <1>1, FewerMove
<1>. QED  BY <1>4, <1>5, AccountAs

LEMMA AccountLeave ==
  ASSUME TypeOK, Shape, ChargesCounted, NEW e \in Execs, Leaves(e), NEW q \in Runs, AccountedFor(q)
  PROVE  AccountedFor(q)'
<1>1. UNCHANGED <<def, link, task, due, charged, extra>>  BY DEF Leaves, runVars
<1>2. \A f \in Execs : f # e => exec'[f] = exec[f]  BY ExecTyped, IdleTyped DEF Leaves
<1>3. def'[q] = def[q] /\ Fewer(q)  BY <1>1, FewerExec
<1>4. ASSUME NEW i \in Steps(q), NEW j \in Steps(q), Linear(def[q]), Full(q, i)', j <= i,
             step[q][j] \in Done \/ Pushed(q, j, i)
      PROVE  step'[q][j] \in Done \/ Pushed(q, j, i)'
  <2>0. i \in Nat /\ j \in Nat /\ exec[e].at \in Nat /\ Steps(q) \subseteq Nat  BY StepsKnown, ExecFields
  <2>1. exec[e].run = q => exec[e].at > i
    <3>1. Forward(def[q])  BY <1>4, <2>0, LinearGoesOn DEF Steps
    <3>2. N(q, 0..i)' = N(q, 0..i)  BY <1>1, <1>3, <1>4, <3>1, StaysFull
    <3>3. PICK n : n = N(q, 0..i)  OBVIOUS
    <3>4. n \in Nat /\ (exec[e].run = q /\ exec[e].at \in 0..i => n + 1 <= n)  BY <3>2, <3>3, LeaveTokens
    <3>. QED  BY <2>0, <3>4
  <2>2. CASE step[q][j] \in Done
    <3>1. step'[q][j] = step[q][j] \/ (q = exec[e].run /\ j = exec[e].at)  BY DEF Leaves
    <3>. QED  BY <1>4, <2>0, <2>1, <2>2, <3>1
  <2>3. CASE \E f \in Execs : PushedBy(q, j, f)
    <3>1. PICK f \in Execs : PushedBy(q, j, f)  BY <2>3
    <3>2. f # e  BY <1>4, <2>0, <2>1, <3>1 DEF PushedBy
    <3>. QED  BY <1>2, <3>1, <3>2, PushByStays
  <2>4. CASE \E k \in Steps(q) : PushedFrom(q, j, i, k)
    <3>1. PICK k \in Steps(q) : PushedFrom(q, j, i, k)  BY <2>4
    <3>2. task'[link[q][k]] = "open" \/ due'[link[q][k]] > 0  BY <1>1, <3>1 DEF PushedFrom, Moving
    <3>. QED  BY <1>1, <3>1, <3>2, PushFromStays
  <2>. QED  BY <1>4, <2>2, <2>3, <2>4 DEF Pushed
<1>. QED  BY <1>3, <1>4, AccountAs

LEMMA AccountOpen ==
  ASSUME TypeOK, Shape, ChargesCounted, NEW e \in Execs, OpenTask(e), NEW q \in Runs, AccountedFor(q)
  PROVE  AccountedFor(q)'
<1>1. PICK r \in Runs, a \in Nat, t \in Tasks : Opens(e, r, a, t)  BY TaskOpened
<1>2. UNCHANGED <<def, step, due, charged, extra>> /\ a \in Steps(r) /\ exec[e].at = a /\ exec[e].run = r
  BY <1>1 DEF Opens, runVars
<1>3. def'[q] = def[q] /\ Fewer(q)  BY <1>2, FewerExec
<1>4. \A f \in Execs : f # e => exec'[f] = exec[f]  BY <1>1, LinkOpened
<1>5. ASSUME NEW i \in Steps(q), NEW j \in Steps(q), Linear(def[q]), Full(q, i)', j <= i,
             step[q][j] \in Done \/ Pushed(q, j, i)
      PROVE  step'[q][j] \in Done \/ Pushed(q, j, i)'
  <2>0. i \in Nat /\ j \in Nat /\ Steps(q) \subseteq Nat  BY StepsKnown
  <2>1. CASE step[q][j] \in Done  BY <1>2, <2>1
  <2>2. CASE \E f \in Execs : f # e /\ PushedBy(q, j, f)  BY <1>4, <2>2, PushByStays
  <2>3. CASE PushedBy(q, j, e)
    <3>1. q = r /\ a <= j  BY <1>2, <2>3 DEF PushedBy
    <3>2. a # i
      <4>1. Forward(def[q])  BY <1>5, <2>0, LinearGoesOn DEF Steps
      <4>2. N(q, 0..i)' = N(q, 0..i)  BY <1>2, <1>3, <1>5, <4>1, StaysFull
      <4>3. PICK n : n = N(q, 0..i)  OBVIOUS
      <4>4. a = i => a \in 0..i /\ a + 1 \notin 0..i  BY <2>0
      <4>5. n \in Nat /\ (a = i => n + 1 <= n)  BY <1>1, <2>0, <3>1, <4>2, <4>3, <4>4, Downs, OpenTokens
      <4>. QED  BY <4>5
    <3>3. a < i  BY <1>5, <2>0, <3>1, <3>2
    <3>4. link'[q][a] = t /\ t # None /\ task'[t] = "open"  BY <1>1, <3>1, LinkOpened
    <3>5. Moving(link[q][a])'  BY <3>4 DEF Moving
    <3>6. PushedFrom(q, j, i, a)'  BY <3>1, <3>3, <3>4, <3>5 DEF PushedFrom
    <3>7. a \in Steps(q)'  BY <1>2, <3>1 DEF Steps
    <3>. QED  BY <3>6, <3>7 DEF Pushed
  <2>4. CASE \E k \in Steps(q) : PushedFrom(q, j, i, k)
    <3>1. PICK k \in Steps(q) : PushedFrom(q, j, i, k)  BY <2>4
    <3>2. k <= j /\ k < i /\ link[q][k] # None /\ Moving(link[q][k])  BY <3>1 DEF PushedFrom
    <3>3. CASE q = r /\ k = a
      <4>1. link'[q][k] = t /\ t # None /\ task'[t] = "open"  BY <1>1, <3>3, LinkOpened
      <4>2. Moving(link[q][k])'  BY <4>1 DEF Moving
      <4>3. PushedFrom(q, j, i, k)'  BY <3>2, <4>1, <4>2 DEF PushedFrom
      <4>4. k \in Steps(q)'  BY <1>2 DEF Steps
      <4>. QED  BY <4>3, <4>4 DEF Pushed
    <3>4. CASE ~(q = r /\ k = a)
      <4>1. link'[q][k] = link[q][k]  BY <1>1, <3>4, LinkOpened
      <4>2. link[q][k] \in Tasks /\ link[q][k] # t  BY <1>1, <3>2, RunFields DEF Shape, LinksMade, Opens
      <4>3. task'[link[q][k]] = task[link[q][k]]  BY <1>1, <4>2, LinkOpened
      <4>4. task'[link[q][k]] = "open" \/ due'[link[q][k]] > 0  BY <1>2, <3>2, <4>3 DEF Moving
      <4>. QED  BY <1>3, <3>1, <4>1, <4>4, PushFromStays
    <3>. QED  BY <3>3, <3>4
  <2>. QED  BY <1>5, <2>1, <2>2, <2>3, <2>4 DEF Pushed
<1>. QED  BY <1>3, <1>5, AccountAs

LEMMA AccountHuman ==
  ASSUME TypeOK, Shape, ChargesCounted, NEW t \in Tasks, Human(t) \/ ResumeUnknown(t), NEW q \in Runs, AccountedFor(q)
  PROVE  AccountedFor(q)'
<1>1. UNCHANGED <<def, step, link, exec, charged>>  BY TaskTouched DEF runVars
<1>2. def'[q] = def[q] /\ Fewer(q)  BY <1>1, FewerHuman
<1>3. ASSUME NEW i \in Steps(q), NEW j \in Steps(q), Linear(def[q]), Full(q, i)', j <= i,
             step[q][j] \in Done \/ Pushed(q, j, i)
      PROVE  step'[q][j] \in Done \/ Pushed(q, j, i)'
  <2>0. i \in Nat /\ j \in Nat /\ Steps(q) \subseteq Nat  BY StepsKnown
  <2>1. CASE step[q][j] \in Done  BY <1>1, <2>1
  <2>2. CASE \E f \in Execs : PushedBy(q, j, f)  BY <1>1, <2>2, PushByStays
  <2>3. CASE \E k \in Steps(q) : PushedFrom(q, j, i, k)
    <3>1. PICK k \in Steps(q) : PushedFrom(q, j, i, k)  BY <2>3
    <3>2. k <= j /\ k < i /\ link[q][k] # None /\ Moving(link[q][k]) /\ link[q][k] \in Tasks
      BY <3>1, RunFields DEF PushedFrom
    <3>3. task'[link[q][k]] = "open" \/ due'[link[q][k]] > 0
      <4>1. CASE link[q][k] # t  BY <3>2, <4>1, TaskTouched DEF Moving
      <4>2. CASE link[q][k] = t
        <5>1. q \in Owner(t)  BY <3>2, <4>2 DEF Owner, Linked
        <5>2. due \in [Tasks -> Nat] /\ DOMAIN task = Tasks  BY DEF TypeOK
        <5>3. CASE CompleteTask(t)  BY <4>2, <5>2, <5>3 DEF CompleteTask
        <5>4. CASE ApproveTask(t)  BY <4>2, <5>2, <5>4 DEF ApproveTask
        <5>5. CASE ReopenTask(t)  BY <4>2, <5>2, <5>5 DEF ReopenTask
        <5>6. CASE CancelTask(t)
          <6>1. extra' = extra /\ task[t] = "open"  BY <5>6 DEF CancelTask
          <6>2. Forward(def[q])  BY <1>3, <2>0, LinearGoesOn DEF Steps
          <6>3. N(q, 0..i)' = N(q, 0..i)  BY <1>1, <1>2, <1>3, <6>1, <6>2, StaysFull
          <6>4. k + 1 \in 0..i  BY <2>0, <3>2
          <6>5. t \in OpenAt(q, 0..i)  BY <4>2, <6>1, <6>4 DEF OpenAt, LinkedAt
          <6>6. PICK n : n = N(q, 0..i)  OBVIOUS
          <6>7. n \in Nat /\ n + 1 <= n  BY <5>6, <6>3, <6>5, <6>6, HumanTokens
          <6>. QED  BY <6>7
        <5>7. ~ResumeUnknown(t)  BY <5>1 DEF ResumeUnknown
        <5>. QED  BY <5>3, <5>4, <5>5, <5>6, <5>7 DEF Human
      <4>. QED  BY <4>1, <4>2
    <3>. QED  BY <1>1, <3>1, <3>3, PushFromStays
  <2>. QED  BY <1>3, <2>1, <2>2, <2>3 DEF Pushed
<1>. QED  BY <1>2, <1>3, AccountAs

LEMMA AccountResume ==
  ASSUME TypeOK, Shape, ChargesCounted, NEW t \in Tasks, NEW e \in Execs, Resume(t, e), NEW q \in Runs, AccountedFor(q)
  PROVE  AccountedFor(q)'
<1>1. PICK r \in Runs : \E i \in Steps(r) : Resumed(t, e, r, i)  BY CallMade
<1>2. PICK a \in Steps(r) : Resumed(t, e, r, a)  BY <1>1
<1>3. UNCHANGED <<def, link, task, charged, extra>>  BY <1>2, ResumedFacts DEF runVars
<1>4. def'[q] = def[q] /\ Fewer(q)  BY <1>3, FewerResume
<1>5. a \in Nat /\ link[r][a] = t /\ t # None /\ \A u \in Tasks : u # t => due'[u] = due[u]
  BY <1>2, ResumedFacts, StepsKnown
<1>6. \A f \in Execs : exec[f] # Idle => exec'[f] = exec[f]  BY <1>2, ResumedFacts
<1>7. ASSUME NEW i \in Steps(q), NEW j \in Steps(q), Linear(def[q]), Full(q, i)', j <= i,
             step[q][j] \in Done \/ Pushed(q, j, i)
      PROVE  step'[q][j] \in Done \/ Pushed(q, j, i)'
  <2>0. i \in Nat /\ j \in Nat /\ Steps(q) \subseteq Nat  BY StepsKnown
  <2>1. CASE step[q][j] \in Done  BY <1>2, <2>1, ResumedFacts DEF Done
  <2>2. CASE \E f \in Execs : PushedBy(q, j, f)
    <3>1. PICK f \in Execs : PushedBy(q, j, f)  BY <2>2
    <3>2. exec[f] # Idle  BY <3>1, IdleFields, IdsAssumption DEF PushedBy
    <3>. QED  BY <1>6, <3>1, <3>2, PushByStays
  <2>3. CASE \E k \in Steps(q) : PushedFrom(q, j, i, k)
    <3>1. PICK k \in Steps(q) : PushedFrom(q, j, i, k)  BY <2>3
    <3>2. k <= j /\ k < i /\ link[q][k] # None /\ Moving(link[q][k]) /\ link[q][k] \in Tasks /\ k \in Nat
      BY <2>0, <3>1, RunFields DEF PushedFrom
    <3>3. CASE link[q][k] # t
      <4>1. task'[link[q][k]] = "open" \/ due'[link[q][k]] > 0  BY <1>3, <1>5, <3>2, <3>3 DEF Moving
      <4>. QED  BY <1>3, <3>1, <4>1, PushFromStays
    <3>4. CASE link[q][k] = t
      <4>1. q = r /\ k = a  BY <1>5, <3>4 DEF Shape, LinksApart
      <4>2. CASE j = a  BY <1>2, <4>1, <4>2, ResumedFacts DEF Done
      <4>3. CASE j # a
        <5>1. a + 1 <= j /\ a + 1 \in 0..i  BY <1>5, <2>0, <3>2, <4>1, <4>3
        <5>2. Forward(def[q])  BY <1>7, <2>0, LinearGoesOn DEF Steps
        <5>3. N(q, 0..i)' = N(q, 0..i)  BY <1>3, <1>4, <1>7, <5>2, StaysFull
        <5>4. run[r] \notin Ended
          <6>1. PICK n : n = N(q, 0..i)  OBVIOUS
          <6>2. Onward(q, 0..i)  BY <5>2, Onwards
          <6>3. n \in Nat /\ (run[r] \in Ended => n + 1 <= n)  BY <1>2, <4>1, <5>1, <5>3, <6>1, <6>2, ResumeTokens
          <6>. QED  BY <6>3
        <5>5. exec'[e].run = q /\ exec'[e].phase = "starting" /\ exec'[e].at = a + 1
          BY <1>2, <1>7, <4>1, <5>4, ResumedFacts, AfterGoesOn
        <5>6. PushedBy(q, j, e)'  BY <5>1, <5>5 DEF PushedBy, Started
        <5>. QED  BY <5>6 DEF Pushed
      <4>. QED  BY <4>2, <4>3
    <3>. QED  BY <3>3, <3>4
  <2>. QED  BY <1>7, <2>1, <2>2, <2>3 DEF Pushed
<1>. QED  BY <1>4, <1>7, AccountAs

LEMMA AccountMake ==
  ASSUME TypeOK, Shape, ChargesCounted, TypeOK', NEW r \in Runs, NEW e \in Execs, Made(r, e),
         NEW q \in Runs, AccountedFor(q)
  PROVE  AccountedFor(q)'
<1>1. CASE q # r
  <2>1. /\ def'[q] = def[q] /\ link'[q] = link[q] /\ step'[q] = step[q] /\ UNCHANGED <<task, due>>
        /\ exec[e] = Idle /\ \A f \in Execs : f # e => exec'[f] = exec[f]
    BY <1>1 DEF Made
  <2>2. ASSUME NEW i \in Steps(q), NEW j \in Steps(q), step[q][j] \in Done \/ Pushed(q, j, i)
        PROVE  step'[q][j] \in Done \/ Pushed(q, j, i)'
    <3>1. CASE step[q][j] \in Done  BY <2>1, <3>1
    <3>2. CASE \E f \in Execs : PushedBy(q, j, f)
      <4>1. PICK f \in Execs : PushedBy(q, j, f)  BY <3>2
      <4>2. f # e  BY <2>1, <4>1, IdleFields, IdsAssumption DEF PushedBy
      <4>. QED  BY <2>1, <4>1, <4>2, PushByStays
    <3>3. CASE \E k \in Steps(q) : PushedFrom(q, j, i, k)
      <4>1. PICK k \in Steps(q) : PushedFrom(q, j, i, k)  BY <3>3
      <4>2. task'[link[q][k]] = "open" \/ due'[link[q][k]] > 0  BY <2>1, <4>1 DEF PushedFrom, Moving
      <4>. QED  BY <2>1, <4>1, <4>2, PushFromStays
    <3>. QED  BY <2>2, <3>1, <3>2, <3>3 DEF Pushed
  <2>. QED  BY <1>1, <2>1, <2>2, FewerMake, AccountAs
<1>2. CASE q = r
  <2>1. ASSUME NEW i \in Steps(q)', Full(q, i)', NEW j \in 1..i
        PROVE  step'[q][j] \in Done \/ Pushed(q, j, i)'
    <3>0. i \in Nat /\ j \in Nat /\ j \in Steps(q)' /\ j <= i /\ exec'[e].at \in Nat
      <4>1. def'[q] \in Definitions \cup {<<>>}  BY DEF TypeOK
      <4>2. def'[q] \in Seq(StepDef)  BY <4>1, DefinitionsAssumption, EmptySeq
      <4>3. Steps(q)' = 1..Len(def'[q]) /\ Len(def'[q]) \in Nat  BY <4>2 DEF Steps
      <4>4. exec'[e].at \in Nat  BY DEF TypeOK
      <4>. QED  BY <4>3, <4>4
    <3>1. exec'[e].at \in 0..i
      <4>1. charged'[q][i] = 0 /\ extra'[q] \in Nat  BY <1>2 DEF Made, Steps, TypeOK
      <4>2. PICK m : m = N(q, 0..i)'  OBVIOUS
      <4>3. m \in Nat /\ (exec'[e].at \notin 0..i => m = 0)  BY <1>2, <4>2, MakeTokens
      <4>4. charged'[q][i] + m = 1 + extra'[q]  BY <2>1, <4>2 DEF Full
      <4>. QED  BY <4>1, <4>3, <4>4
    <3>2. CASE j < exec'[e].at  BY <1>2, <3>0, <3>2, MadeAfter
    <3>3. CASE exec'[e].at <= j
      <4>1. exec'[e].run = q /\ exec'[e].phase = "starting"  BY <1>2 DEF Made
      <4>2. PushedBy(q, j, e)'  BY <3>3, <4>1 DEF PushedBy, Started
      <4>. QED  BY <4>2 DEF Pushed
    <3>. QED  BY <3>0, <3>2, <3>3
  <2>. QED  BY <2>1 DEF AccountedFor
<1>. QED  BY <1>1, <1>2

LEMMA AccountQuiet ==
  ASSUME TypeOK, Shape, ChargesCounted, UNCHANGED <<def, step, link, task, due, exec, charged, extra>>,
         NEW q \in Runs, AccountedFor(q)
  PROVE  AccountedFor(q)'
<1>1. def'[q] = def[q] /\ Fewer(q)  BY FewerQuiet
<1>2. ASSUME NEW i \in Steps(q), NEW j \in Steps(q), step[q][j] \in Done \/ Pushed(q, j, i)
      PROVE  step'[q][j] \in Done \/ Pushed(q, j, i)'
  <2>1. CASE step[q][j] \in Done  BY <2>1
  <2>2. CASE \E f \in Execs : PushedBy(q, j, f)  BY <2>2, PushByStays
  <2>3. CASE \E k \in Steps(q) : PushedFrom(q, j, i, k)
    <3>1. PICK k \in Steps(q) : PushedFrom(q, j, i, k)  BY <2>3
    <3>2. task'[link[q][k]] = "open" \/ due'[link[q][k]] > 0  BY <3>1 DEF PushedFrom, Moving
    <3>. QED  BY <3>1, <3>2, PushFromStays
  <2>. QED  BY <1>2, <2>1, <2>2, <2>3 DEF Pushed
<1>. QED  BY <1>1, <1>2, AccountAs

LEMMA AccountCrash ==
  ASSUME TypeOK, Shape, ChargesCounted, Crash, NEW q \in Runs, AccountedFor(q)
  PROVE  AccountedFor(q)'
<1>1. UNCHANGED <<def, step, link, task, charged, extra>>  BY DEF Crash, runVars
<1>2. def'[q] = def[q] /\ Fewer(q)  BY <1>1, FewerCrash
<1>3. ASSUME NEW i \in Steps(q), NEW j \in Steps(q), Linear(def[q]), Full(q, i)', j <= i,
             step[q][j] \in Done \/ Pushed(q, j, i)
      PROVE  step'[q][j] \in Done \/ Pushed(q, j, i)'
  <2>0. i \in Nat /\ j \in Nat /\ Steps(q) \subseteq Nat  BY StepsKnown
  <2>1. At(q, 0..i) = {} /\ CallAt(q, 0..i) = {}
    <3>1. Forward(def[q])  BY <1>3, <2>0, LinearGoesOn DEF Steps
    <3>2. N(q, 0..i)' = N(q, 0..i)  BY <1>1, <1>2, <1>3, <3>1, StaysFull
    <3>3. PICK n : n = N(q, 0..i)  OBVIOUS
    <3>4. n \in Nat /\ (At(q, 0..i) # {} \/ CallAt(q, 0..i) # {} => n + 1 <= n)  BY <3>2, <3>3, CrashTokens
    <3>. QED  BY <3>4
  <2>2. CASE step[q][j] \in Done  BY <1>1, <2>2
  <2>3. ASSUME NEW f \in Execs, PushedBy(q, j, f) PROVE FALSE
    <3>1. exec[f].run = q /\ exec[f].at \in 0..i  BY <1>3, <2>0, <2>3, ExecFields DEF PushedBy
    <3>. QED  BY <2>1, <3>1 DEF At
  <2>4. CASE \E k \in Steps(q) : PushedFrom(q, j, i, k)
    <3>1. PICK k \in Steps(q) : PushedFrom(q, j, i, k)  BY <2>4
    <3>2. k < i /\ link[q][k] # None /\ Moving(link[q][k]) /\ link[q][k] \in Tasks
      BY <3>1, RunFields DEF PushedFrom
    <3>3. ~(due[link[q][k]] > 0)
      <4>1. SUFFICES ASSUME due[link[q][k]] > 0 PROVE FALSE  OBVIOUS
      <4>2. due[link[q][k]] \in Nat /\ k + 1 \in 0..i  BY <2>0, <3>2 DEF TypeOK
      <4>3. <<link[q][k], 1>> \in AllCalls  BY <3>2, <4>1, <4>2 DEF AllCalls
      <4>4. LinkedAt(q, link[q][k], 0..i)  BY <4>2 DEF LinkedAt
      <4>. QED  BY <2>1, <4>3, <4>4 DEF CallAt
    <3>4. task'[link[q][k]] = "open"  BY <1>1, <3>2, <3>3 DEF Moving
    <3>. QED  BY <1>1, <3>1, <3>4, PushFromStays
  <2>. QED  BY <1>3, <2>2, <2>3, <2>4 DEF Pushed
<1>. QED  BY <1>2, <1>3, AccountAs

LEMMA AccountNext ==
  ASSUME TypeOK, Shape, ChargesCounted, Accounted, [Next]_vars, TypeOK'
  PROVE  Accounted'
<1>. SUFFICES ASSUME NEW q \in Runs PROVE AccountedFor(q)'
  BY DEF Accounted
<1>0. AccountedFor(q)  BY DEF Accounted
<1>1. CASE \E e \in Execs : OpenTask(e) \/ Leaves(e) \/ \E x : Moves(e, x)
  BY <1>0, <1>1, AccountMove, AccountLeave, AccountOpen
<1>2. CASE \E t \in Tasks : Human(t) \/ ResumeUnknown(t)  BY <1>0, <1>2, AccountHuman
<1>3. CASE \E t \in Tasks, e \in Execs : Resume(t, e)  BY <1>0, <1>3, AccountResume
<1>4. CASE \E r \in Runs : Making(r)  BY <1>0, <1>4, MadeFacts, AccountMake
<1>5. CASE \E r \in Runs : CommitTrigger(r) \/ ReadToCancel(r) \/ Cancel(r)
  BY <1>0, <1>5, QuietFacts, AccountQuiet DEF runVars
<1>6. CASE Crash  BY <1>0, <1>6, AccountCrash
<1>7. CASE UNCHANGED vars  BY <1>0, <1>7, AccountQuiet DEF vars
<1>. QED  BY <1>1, <1>2, <1>3, <1>4, <1>5, <1>6, <1>7, StepKinds

---------------------------------------------------------------------------
(* A retry pays the rest *)

(* What will write a step is counted up to it. *)
LEMMA PushedCounts ==
  ASSUME TypeOK, Shape, NEW q \in Runs, NEW i \in Steps(q), NEW j \in Steps(q), j <= i, Pushed(q, j, i)
  PROVE  N(q, 0..i) # 0
<1>0. i \in Nat /\ j \in Nat /\ Steps(q) \subseteq Nat  BY StepsKnown
<1>1. CASE \E f \in Execs : PushedBy(q, j, f)
  <2>1. PICK f \in Execs : PushedBy(q, j, f)  BY <1>1
  <2>2. exec[f].run = q /\ exec[f].at \in 0..i  BY <1>0, <2>1, ExecFields DEF PushedBy
  <2>3. f \in At(q, 0..i)  BY <2>2 DEF At
  <2>. QED  BY <2>3, ThreadsCount
<1>2. CASE \E k \in Steps(q) : PushedFrom(q, j, i, k)
  <2>1. PICK k \in Steps(q) : PushedFrom(q, j, i, k)  BY <1>2
  <2>2. link[q][k] # None /\ Moving(link[q][k]) /\ k + 1 \in 0..i  BY <1>0, <2>1 DEF PushedFrom
  <2>. QED  BY <2>2, MovingHeld, ThreadsCount
<1>. QED  BY <1>1, <1>2 DEF Pushed

(* What an ended run is charged is late. *)
LEMMA ChargesLate ==
  ASSUME TypeOK, Shape, [Next]_vars, NEW p \in Runs, run[p] \in Ended, NEW i \in Steps(p)
  PROVE  /\ charged[p][i] \in Nat /\ late[p][i] \in Nat /\ extra[p] \in Nat
         /\ charged'[p][i] \in Nat /\ late'[p][i] \in Nat /\ extra'[p] \in Nat
         /\ charged'[p][i] + late[p][i] <= charged[p][i] + late'[p][i]
         /\ extra[p] <= extra'[p]
<1>1. charged[p][i] \in Nat /\ late[p][i] \in Nat /\ extra[p] \in Nat  BY RunFields
<1>2. CASE \E e \in Execs : \E x : Moves(e, x)
  <2>1. PICK e \in Execs : \E x : Moves(e, x)  BY <1>2
  <2>2. PICK x : Moves(e, x)  BY <2>1
  <2>3. extra' = extra  BY <2>2 DEF Moves
  <2>4. \/ charged'[p][i] = charged[p][i] /\ late'[p][i] = late[p][i]
        \/ charged'[p][i] = charged[p][i] + 1 /\ late'[p][i] = late[p][i] + 1
    BY <2>2 DEF Moves, PaysFor
  <2>. QED  BY ONLY <1>1, <2>3, <2>4
<1>3. CASE charged'[p] = charged[p] /\ late'[p] = late[p] /\ extra' = extra  BY <1>1, <1>3
<1>4. CASE \E e \in Execs : Leaves(e) \/ OpenTask(e)  BY <1>3, <1>4 DEF Leaves, OpenTask
<1>5. CASE \E t \in Tasks : Human(t) \/ ResumeUnknown(t)
  <2>1. charged' = charged /\ late' = late /\ extra[p] <= extra'[p] /\ extra'[p] \in Nat
    BY <1>5, TaskTouched, HumanTokens
  <2>. QED  BY <1>1, <2>1
<1>6. CASE \E t \in Tasks, e \in Execs : Resume(t, e)  BY <1>3, <1>6 DEF Resume
<1>7. CASE \E r \in Runs : Making(r)
  <2>1. PICK r \in Runs : \E e \in Execs : Made(r, e)  BY <1>7, MadeFacts
  <2>2. r # p  BY <2>1 DEF Made, Ended
  <2>. QED  BY <1>3, <2>1, <2>2 DEF Made
<1>8. CASE \E r \in Runs : CommitTrigger(r) \/ ReadToCancel(r) \/ Cancel(r)  BY <1>3, <1>8, QuietFacts
<1>9. CASE Crash  BY <1>3, <1>9 DEF Crash
<1>10. CASE UNCHANGED vars  BY <1>3, <1>10 DEF vars
<1>. QED  BY <1>2, <1>4, <1>5, <1>6, <1>7, <1>8, <1>9, <1>10, StepKinds

LEMMA BeyondAs ==
  ASSUME NEW n \in Runs, NEW i, Beyond(n, i), charged'[n][i] = charged[n][i],
         \A f \in Execs : exec'[f].run = n => exec'[f] = exec[f] \/ exec'[f].at > i,
         \A j \in 1..i : link'[n][j] = link[n][j]
  PROVE  Beyond(n, i)'
BY DEF Beyond, Live

LEMMA StaysBeyond ==
  ASSUME TypeOK, Shape, [Next]_vars, NEW n \in Runs, def'[n] = def[n], run[n] # "none", Linear(def[n]),
         NEW i \in Steps(n), Beyond(n, i)
  PROVE  Beyond(n, i)'
<1>0. i \in Nat /\ Forward(def[n]) /\ Idle.run # n
  BY StepsKnown, LinearGoesOn, IdleFields, IdsAssumption DEF Steps
<1>1. \A j \in 1..i : j \in Steps(n) /\ link[n][j] = None
  BY StepsKnown DEF Beyond
<1>2. CASE \E e \in Execs : \E x : Moves(e, x)
  <2>1. PICK e \in Execs : \E x : Moves(e, x)  BY <1>2
  <2>2. PICK x : Moves(e, x)  BY <2>1
  <2>3. exec'[e] = x /\ x.run = exec[e].run /\ x.at \in Nat /\ \A f \in Execs : f # e => exec'[f] = exec[f]
    BY <2>2, ExecTyped DEF Moves, ExecRow
  <2>4. exec[e].run = n => exec[e].at > i /\ exec[e].at \in Nat  BY ExecFields DEF Beyond, Live
  <2>5. charged'[n][i] = charged[n][i]
    <3>1. ~PaysFor(e, x, n, i)  BY <1>0, <2>3, <2>4 DEF PaysFor
    <3>. QED  BY <2>2, <3>1 DEF Moves
  <2>6. exec[e].run = n => x.at > i
    <3>1. exec[e].run = n => x.at = exec[e].at \/ x.at > exec[e].at  BY <1>0, <2>2, <2>3 DEF Moves, GoesTo
    <3>. QED  BY <1>0, <2>3, <2>4, <3>1
  <2>7. link' = link  BY <2>2 DEF Moves
  <2>. QED  BY <2>3, <2>5, <2>6, <2>7, BeyondAs
<1>3. CASE /\ charged'[n] = charged[n] /\ link'[n] = link[n]
           /\ \A f \in Execs : exec'[f].run = n => exec'[f] = exec[f]
  BY <1>3, BeyondAs
<1>4. CASE \E e \in Execs : Leaves(e)
  <2>1. PICK e \in Execs : Leaves(e)  BY <1>4
  <2>2. exec'[e] = Idle /\ (\A f \in Execs : f # e => exec'[f] = exec[f])
    BY <2>1, ExecTyped, IdleTyped DEF Leaves
  <2>. QED  BY <1>0, <1>3, <2>1, <2>2 DEF Leaves
<1>5. CASE \E e \in Execs : OpenTask(e)
  <2>1. PICK e \in Execs : OpenTask(e)  BY <1>5
  <2>2. PICK r \in Runs, a \in Nat, t \in Tasks : Opens(e, r, a, t)  BY <2>1, TaskOpened
  <2>3. exec[e].run = r /\ exec[e].at = a /\ charged' = charged  BY <2>2 DEF Opens
  <2>4. \A f \in Execs : exec'[f].run = n => exec'[f] = exec[f]  BY <1>0, <2>2, LinkOpened
  <2>5. ASSUME NEW j \in 1..i PROVE link'[n][j] = link[n][j]
    <3>1. n = r => a > i  BY <2>3 DEF Beyond, Live
    <3>2. n # r \/ j # a  BY <1>0, <3>1
    <3>. QED  BY <1>1, <2>2, <3>2, LinkOpened
  <2>. QED  BY <2>3, <2>4, <2>5, BeyondAs
<1>6. CASE \E t \in Tasks : Human(t) \/ ResumeUnknown(t)  BY <1>3, <1>6, TaskTouched
<1>7. CASE \E t \in Tasks, e \in Execs : Resume(t, e)
  <2>1. PICK t \in Tasks, e \in Execs : Resume(t, e)  BY <1>7
  <2>2. PICK r \in Runs : \E a \in Steps(r) : Resumed(t, e, r, a)  BY <2>1, CallMade
  <2>3. PICK a \in Steps(r) : Resumed(t, e, r, a)  BY <2>2
  <2>4. UNCHANGED <<charged, link>> /\ link[r][a] # None /\ \A f \in Execs : f # e => exec'[f] = exec[f]
    BY <2>3, ResumedFacts
  <2>5. ASSUME exec'[e].run = n, exec'[e] # exec[e] PROVE exec'[e].at > i
    <3>1. r = n /\ exec'[e].at = After(r, a)  BY <2>3, <2>5, ResumedFacts
    <3>2. exec'[e].at = a + 1 /\ a \in Nat  BY <3>1, AfterGoesOn
    <3>3. a \notin 1..i  BY <1>1, <2>4, <3>1
    <3>4. a >= 1  BY <3>1, StepsKnown
    <3>. QED  BY <1>0, <3>2, <3>3, <3>4
  <2>. QED  BY <2>4, <2>5, BeyondAs
<1>8. CASE \E r \in Runs : Making(r)
  <2>1. PICK r \in Runs : \E e \in Execs : Made(r, e)  BY <1>8, MadeFacts
  <2>2. PICK e \in Execs : Made(r, e)  BY <2>1
  <2>3. r # n  BY <2>2 DEF Made
  <2>. QED  BY <1>3, <2>2, <2>3 DEF Made
<1>9. CASE \E r \in Runs : CommitTrigger(r) \/ ReadToCancel(r) \/ Cancel(r)  BY <1>3, <1>9, QuietFacts
<1>10. CASE Crash  BY <1>0, <1>3, <1>10 DEF Crash
<1>11. CASE UNCHANGED vars  BY <1>3, <1>11 DEF vars
<1>. QED  BY <1>2, <1>4, <1>5, <1>6, <1>7, <1>8, <1>9, <1>10, <1>11, StepKinds

LEMMA RetriedMake ==
  ASSUME TypeOK, Shape, ChargesCounted, Accounted, NEW n \in Runs, NEW e \in Execs, Made(n, e),
         parent'[n] # NoRun, NEW p \in Runs, p = parent'[n], Linear(def[p]), NEW i \in Steps(p),
         ~(charged[p][i] <= extra[p] + late[p][i])
  PROVE  Beyond(n, i)'
<1>1. /\ def'[n] = def[p] /\ exec'[e].at = ResumeFrom(p) /\ exec'[e].run = n
      /\ \A f \in Execs : f # e => exec'[f] = exec[f]
      /\ \A j \in DOMAIN def'[n] : link'[n][j] = None /\ charged'[n][j] = 0
  BY DEF Made
<1>2. Steps(p) = 1..Len(def[p]) /\ Len(def[p]) \in Nat /\ Forward(def[p]) /\ Steps(p) \subseteq Nat
  BY StepsKnown, LinearGoesOn DEF Steps
<1>3. N(p, 0..i) = 0 /\ Full(p, i)
  <2>1. PICK m : m = N(p, 0..i)  OBVIOUS
  <2>2. m \in Nat /\ charged[p][i] \in Nat /\ extra[p] \in Nat /\ late[p][i] \in Nat
    BY <2>1, RunFields, TokensFinite DEF Shape
  <2>3. charged[p][i] + m <= 1 + extra[p]  BY <1>2, <2>1 DEF ChargesCounted
  <2>4. m = 0 /\ charged[p][i] + m = 1 + extra[p]  BY ONLY <2>2, <2>3, ~(charged[p][i] <= extra[p] + late[p][i])
  <2>. QED  BY <2>1, <2>4 DEF Full
<1>4. ASSUME NEW j \in 1..i PROVE step[p][j] \in Done
  <2>1. j \in Steps(p) /\ j <= i  BY <1>2
  <2>2. step[p][j] \in Done \/ Pushed(p, j, i)  BY <1>3 DEF Accounted, AccountedFor
  <2>. QED  BY <1>3, <2>1, <2>2, PushedCounts
<1>5. i < ResumeFrom(p)  BY <1>4, ResumePoint
<1>6. \A f \in Live(n)' : f = e
  <2>1. Idle.run # n  BY IdleFields, IdsAssumption
  <2>2. \A f \in Execs : exec[f].run # n  BY <2>1 DEF Shape, ExecKept, Made
  <2>. QED  BY <1>1, <2>2 DEF Live
<1>7. \A f \in Live(n)' : exec'[f].at > i
  <2>1. ResumeFrom(p) \in Nat /\ i \in Nat  BY <1>2, ResumePoint
  <2>. QED  BY <1>1, <1>5, <1>6, <2>1
<1>8. charged'[n][i] = 0 /\ \A j \in 1..i : link'[n][j] = None
  <2>1. DOMAIN def'[n] = Steps(p)  BY <1>1 DEF Steps
  <2>2. \A j \in 1..i : j \in Steps(p)  BY <1>2
  <2>. QED  BY <1>1, <2>1, <2>2
<1>. QED  BY <1>7, <1>8 DEF Beyond

LEMMA RetriedNext ==
  ASSUME TypeOK, Shape, ChargesCounted, Accounted, Retried, [Next]_vars
  PROVE  Retried'
<1>. SUFFICES ASSUME NEW n \in Runs, parent'[n] # NoRun, Linear(def'[n]), NEW i \in Steps(n)'
              PROVE  \/ Beyond(n, i)'
                     \/ charged'[parent'[n]][i] <= extra'[parent'[n]] + late'[parent'[n]][i]
  BY DEF Retried
<1>1. CASE def'[n] = def[n] /\ parent'[n] = parent[n] /\ run[n] # "none"
  <2>1. PICK p \in Runs : p = parent[n] /\ run[p] \in Ended /\ def[n] = def[p]
    BY <1>1 DEF Shape, RunShape
  <2>2. i \in Steps(n) /\ i \in Steps(p)  BY <1>1, <2>1 DEF Steps
  <2>3. CASE Beyond(n, i)  BY <1>1, <2>2, <2>3, StaysBeyond
  <2>4. CASE charged[p][i] <= extra[p] + late[p][i]
    <3>1. /\ charged[p][i] \in Nat /\ late[p][i] \in Nat /\ extra[p] \in Nat
          /\ charged'[p][i] \in Nat /\ late'[p][i] \in Nat /\ extra'[p] \in Nat
          /\ charged'[p][i] + late[p][i] <= charged[p][i] + late'[p][i]
          /\ extra[p] <= extra'[p]
      BY <2>1, <2>2, ChargesLate
    <3>2. charged'[p][i] <= extra'[p] + late'[p][i]  BY ONLY <2>4, <3>1
    <3>. QED  BY <1>1, <2>1, <3>2
  <2>. QED  BY <1>1, <2>1, <2>2, <2>3, <2>4 DEF Retried
<1>2. CASE \E e \in Execs : Made(n, e)
  <2>1. PICK e \in Execs : Made(n, e)  BY <1>2
  <2>2. PICK p \in Runs : p = parent'[n] /\ p # n /\ def'[n] = def[p]  BY <2>1 DEF Made
  <2>3. charged'[p] = charged[p] /\ late'[p] = late[p] /\ extra' = extra  BY <2>1, <2>2 DEF Made
  <2>4. i \in Steps(p)  BY <2>2 DEF Steps
  <2>5. CASE charged[p][i] <= extra[p] + late[p][i]  BY <2>2, <2>3, <2>5
  <2>6. CASE ~(charged[p][i] <= extra[p] + late[p][i])  BY <2>1, <2>2, <2>4, <2>6, RetriedMake
  <2>. QED  BY <2>5, <2>6
<1>3. CASE UNCHANGED runVars
  <2>1. def'[n] = def[n] /\ parent'[n] = parent[n]  BY <1>3 DEF runVars
  <2>2. run[n] # "none"  BY <2>1 DEF Shape, RunShape, Visible
  <2>. QED  BY <1>1, <2>1, <2>2
<1>4. CASE \E r \in Runs : \E e \in Execs : Made(r, e)
  <2>1. PICK r \in Runs : \E e \in Execs : Made(r, e)  BY <1>4
  <2>2. CASE r = n  BY <1>2, <2>1, <2>2
  <2>3. CASE r # n
    <3>1. def'[n] = def[n] /\ parent'[n] = parent[n]  BY <2>1, <2>3 DEF Made
    <3>2. run[n] # "none"  BY <3>1 DEF Shape, RunShape, Visible
    <3>. QED  BY <1>1, <3>1, <3>2
  <2>. QED  BY <2>2, <2>3
<1>5. UNCHANGED runVars \/ \E r \in Runs : \E e \in Execs : Made(r, e)
  <2>1. CASE \E e \in Execs : OpenTask(e) \/ Leaves(e) \/ \E x : Moves(e, x)
    BY <2>1 DEF OpenTask, Leaves, Moves
  <2>2. CASE \E t \in Tasks : Human(t) \/ ResumeUnknown(t)  BY <2>2, TaskTouched
  <2>3. CASE \E t \in Tasks, e \in Execs : Resume(t, e)  BY <2>3 DEF Resume
  <2>4. CASE \E r \in Runs : Making(r)  BY <2>4, MadeFacts
  <2>5. CASE \E r \in Runs : CommitTrigger(r) \/ ReadToCancel(r) \/ Cancel(r)  BY <2>5, QuietFacts
  <2>6. CASE Crash  BY <2>6 DEF Crash
  <2>7. CASE UNCHANGED vars  BY <2>7 DEF vars, runVars
  <2>. QED  BY <2>1, <2>2, <2>3, <2>4, <2>5, <2>6, <2>7, StepKinds
<1>. QED  BY <1>3, <1>4, <1>5

---------------------------------------------------------------------------
(* The invariant holds, and what it says *)

LEMMA EmptyRows == \A S : DOMAIN <<>> = {} /\ <<>> \in [{} -> S] /\ <<>> \in Seq(S)
<1>1. \A S : <<>> \in Seq(S)  BY EmptySeq
<1>2. DOMAIN <<>> = {}  BY EmptySeq
<1>3. \A S : <<>> \in [{} -> S]  BY <1>2
<1>. QED  BY <1>1, <1>2, <1>3

LEMMA InitTyped == Init => TypeOK
<1>. SUFFICES ASSUME Init PROVE TypeOK  OBVIOUS
<1>1. \A r \in Runs : Steps(r) = {} /\ step[r] = <<>> /\ link[r] = <<>> /\ charged[r] = <<>> /\ late[r] = <<>>
  BY EmptyRows DEF Init, Steps
<1>2. \A r \in Runs : /\ step[r] \in [Steps(r) -> StepStatus] /\ link[r] \in [Steps(r) -> Tasks \cup {None}]
                      /\ charged[r] \in [Steps(r) -> Nat] /\ late[r] \in [Steps(r) -> Nat]
  BY <1>1, EmptyRows
<1>3. exec \in [Execs -> ExecRow]  BY IdleTyped DEF Init
<1>4. faults \in 0..MaxFaults  BY BoundsAssumption DEF Init
<1>. QED  BY <1>2, <1>3, <1>4 DEF Init, TypeOK, ExecRow, RunStatus

LEMMA InitKept == Init => RunInv
<1>. SUFFICES ASSUME Init PROVE RunInv  OBVIOUS
<1>1. TypeOK  BY InitTyped
<1>2. /\ \A r \in Runs : /\ Steps(r) = {} /\ run[r] = "none" /\ origin[r] = "none" /\ parent[r] = NoRun
                         /\ ~leaving[r] /\ extra[r] = 0
      /\ \A e \in Execs : exec[e] = Idle
      /\ \A t \in Tasks : task[t] = "none" /\ due[t] = 0
  BY EmptyRows DEF Init, Steps
<1>3. AllCalls = {}
  <2>1. \A c \in Tasks \X Nat : c[1] \in Tasks /\ c[2] \notin 1..0  OBVIOUS
  <2>. QED  BY <1>2, <2>1 DEF AllCalls
<1>4. Shape
  <2>1. \A e \in Execs : ExecKept(e)  BY <1>2, IdleFields DEF ExecKept, Started
  <2>2. \A r \in Runs : RunShape(r)  BY <1>2 DEF RunShape
  <2>3. LinksApart /\ LinksMade /\ TasksMade  BY <1>2 DEF LinksApart, LinksMade, TasksMade
  <2>. QED  BY <1>3, <2>1, <2>2, <2>3, FS_EmptySet DEF Shape
<1>5. ThreadsCounted
  <2>1. ASSUME NEW r \in Runs PROVE N(r, Nat) <= 1 + extra[r]
    <3>1. At(r, Nat) = {} /\ OpenAt(r, Nat) = {} /\ CallAt(r, Nat) = {}
      BY <1>2, <1>3, IdleFields, IdsAssumption DEF At, OpenAt, CallAt
    <3>2. Tokens(At(r, Nat), OpenAt(r, Nat), CallAt(r, Nat)) = {}  BY <3>1 DEF Tokens
    <3>3. N(r, Nat) = 0  BY <3>2, FS_EmptySet DEF N
    <3>. QED  BY <1>2, <3>3
  <2>. QED  BY <2>1 DEF ThreadsCounted
<1>6. ChargesCounted /\ LateCounted  BY <1>2 DEF ChargesCounted, LateCounted
<1>7. Waits  BY <1>2 DEF Waits
<1>8. Ordered
  <2>1. \A r \in Runs : Live(r) = {}  BY <1>2, IdleFields, IdsAssumption DEF Live
  <2>. QED  BY <1>2, <2>1 DEF Ordered, OrderedFor
<1>9. Accounted /\ Retried  BY <1>2 DEF Accounted, AccountedFor, Retried
<1>. QED  BY <1>1, <1>4, <1>5, <1>6, <1>7, <1>8, <1>9 DEF RunInv

LEMMA InvKept == RunInv /\ [Next]_vars => RunInv'
<1>. SUFFICES ASSUME RunInv, [Next]_vars PROVE RunInv'  OBVIOUS
<1>1. /\ TypeOK /\ Shape /\ ThreadsCounted /\ ChargesCounted
      /\ LateCounted /\ Waits /\ Ordered /\ Accounted /\ Retried
  BY DEF RunInv
<1>2. TypeOK' /\ Shape'  BY <1>1, TypesKept, ShapeKept
<1>3. ThreadsCounted' /\ ChargesCounted'  BY <1>1, CountedNext
<1>4. LateCounted'  BY <1>1, <1>2, <1>3, LateNext
<1>5. Waits'  BY <1>1, <1>2, WaitsNext
<1>6. Ordered'  BY <1>1, <1>2, OrderNext
<1>7. Accounted'  BY <1>1, <1>2, AccountNext
<1>8. Retried'  BY <1>1, RetriedNext
<1>. QED  BY <1>2, <1>3, <1>4, <1>5, <1>6, <1>7, <1>8 DEF RunInv

LEMMA TokensAdd ==
  ASSUME NEW A, NEW O, NEW C, IsFiniteSet(A), IsFiniteSet(O), IsFiniteSet(C)
  PROVE  Cardinality(Tokens(A, O, C)) = Cardinality(A) + Cardinality(O) + Cardinality(C)
<1>1. /\ IsFiniteSet({"executor"}) /\ Cardinality({"executor"}) = 1
      /\ IsFiniteSet({"task"}) /\ Cardinality({"task"}) = 1
      /\ IsFiniteSet({"call"}) /\ Cardinality({"call"}) = 1
  BY FS_Singleton
<1>2. Cardinality(A) \in Nat /\ Cardinality(O) \in Nat /\ Cardinality(C) \in Nat  BY FS_CardinalityType
<1>. DEFINE X == {"executor"} \X A   Y == {"task"} \X O   Z == {"call"} \X C
<1>3. IsFiniteSet(X) /\ Cardinality(X) = 1 * Cardinality(A)  BY <1>1, FS_Product
<1>4. IsFiniteSet(Y) /\ Cardinality(Y) = 1 * Cardinality(O)  BY <1>1, FS_Product
<1>5. IsFiniteSet(Z) /\ Cardinality(Z) = 1 * Cardinality(C)  BY <1>1, FS_Product
<1>6. X \cap Y = {} /\ (X \cup Y) \cap Z = {}  OBVIOUS
<1>7. Tokens(A, O, C) = (X \cup Y) \cup Z  BY DEF Tokens
<1>. HIDE DEF X, Y, Z
<1>8. Cardinality({}) = 0  BY FS_EmptySet
<1>9. IsFiniteSet(X \cup Y) /\ Cardinality(X \cup Y) = Cardinality(X) + Cardinality(Y) - Cardinality(X \cap Y)
  BY <1>3, <1>4, FS_Union
<1>10. Cardinality((X \cup Y) \cup Z) = Cardinality(X \cup Y) + Cardinality(Z) - Cardinality((X \cup Y) \cap Z)
  BY <1>5, <1>9, FS_Union
<1>11. Cardinality(X \cup Y) = Cardinality(A) + Cardinality(O)
  <2>1. Cardinality(X \cap Y) = 0  BY <1>6, <1>8
  <2>. QED  BY ONLY <1>2, <1>3, <1>4, <1>9, <2>1
<1>12. Cardinality((X \cup Y) \cup Z) = Cardinality(A) + Cardinality(O) + Cardinality(C)
  <2>1. Cardinality((X \cup Y) \cap Z) = 0  BY <1>6, <1>8
  <2>. QED  BY ONLY <1>2, <1>5, <1>10, <1>11, <2>1
<1>. QED  BY <1>7, <1>12

LEMMA ThreadsAreTokens ==
  ASSUME TypeOK, Shape, NEW r \in Runs
  PROVE  Threads(r) = N(r, Nat) /\ N(r, Nat) \in Nat
<1>1. Live(r) = At(r, Nat)  BY ExecFields DEF Live, At
<1>2. \A t \in Tasks : t \in Linked(r) <=> LinkedAt(r, t, Nat)
  <2>1. \A j \in Steps(r) : j + 1 \in Nat  BY StepsKnown
  <2>. QED  BY <2>1, IdsAssumption DEF Linked, LinkedAt
<1>3. Linked(r) \subseteq Tasks  BY RunFields DEF Linked
<1>4. {t \in Linked(r) : task[t] = "open"} = OpenAt(r, Nat)  BY <1>2, <1>3 DEF OpenAt
<1>5. Calls(r) = CallAt(r, Nat)
  <2>1. ASSUME NEW c \in Calls(r) PROVE c \in CallAt(r, Nat)
    <3>1. PICK t \in Linked(r) : c \in {t} \X (1..due[t])  BY <2>1 DEF Calls
    <3>2. t \in Tasks /\ due[t] \in Nat  BY <1>3, <3>1 DEF TypeOK
    <3>3. c \in AllCalls /\ c[1] = t  BY <3>1, <3>2 DEF AllCalls
    <3>. QED  BY <1>2, <3>2, <3>3 DEF CallAt
  <2>2. ASSUME NEW c \in CallAt(r, Nat) PROVE c \in Calls(r)
    <3>1. c \in Tasks \X Nat /\ c[2] \in 1..due[c[1]] /\ c[1] \in Linked(r)
      BY <1>2, <2>2 DEF CallAt, AllCalls
    <3>2. c \in {c[1]} \X (1..due[c[1]])  BY <3>1
    <3>. QED  BY <3>1, <3>2 DEF Calls
  <2>. QED  BY <2>1, <2>2
<1>6. IsFiniteSet(At(r, Nat)) /\ IsFiniteSet(OpenAt(r, Nat)) /\ IsFiniteSet(CallAt(r, Nat))
  <2>1. At(r, Nat) \subseteq Execs /\ OpenAt(r, Nat) \subseteq Tasks /\ CallAt(r, Nat) \subseteq AllCalls
    BY DEF At, OpenAt, CallAt
  <2>. QED  BY <2>1, IdsAssumption, CardSub DEF Shape
<1>7. N(r, Nat) \in Nat  BY TokensFinite DEF Shape
<1>. QED  BY <1>1, <1>4, <1>5, <1>6, <1>7, TokensAdd DEF Threads, N

LEMMA InvThreaded == RunInv => Threaded
<1>. SUFFICES ASSUME RunInv, NEW r \in Runs
              PROVE  /\ Threads(r) <= 1 + extra[r]
                     /\ run[r] = "running" /\ origin[r] = "owner" /\ faults = 0 => Threads(r) > 0 \/ TaskWithdrawn(r)
  BY DEF Threaded
<1>1. TypeOK /\ Shape /\ Threads(r) = N(r, Nat) /\ N(r, Nat) \in Nat  BY ThreadsAreTokens DEF RunInv
<1>2. Threads(r) <= 1 + extra[r]  BY <1>1 DEF RunInv, ThreadsCounted
<1>3. ASSUME Held(r) PROVE Threads(r) > 0 \/ TaskWithdrawn(r)
  <2>1. CASE Live(r) # {}
    <3>1. At(r, Nat) # {}  BY <1>1, <2>1, ExecFields DEF Live, At
    <3>. QED  BY <1>1, <3>1, ThreadsCount
  <2>2. CASE \E i \in Steps(r) : link[r][i] # None /\ Moving(link[r][i])
    <3>1. PICK i \in Steps(r) : link[r][i] # None /\ Moving(link[r][i])  BY <2>2
    <3>2. i + 1 \in Nat  BY <1>1, StepsKnown
    <3>3. N(r, Nat) # 0  BY <1>1, <3>1, <3>2, MovingHeld, ThreadsCount
    <3>. QED  BY <1>1, <3>3
  <2>3. CASE \E i \in Steps(r) : link[r][i] # None /\ task[link[r][i]] = "cancelled"
    BY <2>3 DEF TaskWithdrawn, Linked
  <2>. QED  BY <1>3, <2>1, <2>2, <2>3 DEF Held
<1>. QED  BY <1>2, <1>3 DEF RunInv, Waits

LEMMA InvCharged == RunInv => ChargedPerThread
<1>. SUFFICES ASSUME RunInv, NEW r \in Runs, NEW i \in Steps(r)
              PROVE  /\ Forward(def[r]) => charged[r][i] <= 1 + extra[r]
                     /\ late[r][i] <= 1 + extra[r]
  BY DEF ChargedPerThread
<1>1. /\ TypeOK /\ Shape /\ charged[r][i] \in Nat /\ late[r][i] \in Nat /\ extra[r] \in Nat
  BY RunFields DEF RunInv
<1>2. ASSUME Forward(def[r]) PROVE charged[r][i] <= 1 + extra[r]
  <2>1. PICK n : n = N(r, 0..i)  OBVIOUS
  <2>2. n \in Nat /\ charged[r][i] + n <= 1 + extra[r]
    BY <1>1, <1>2, <2>1, TokensFinite DEF RunInv, ChargesCounted, Shape
  <2>. QED  BY ONLY <1>1, <2>2
<1>3. late[r][i] <= 1 + extra[r]
  <2>1. Still(r, i) \subseteq Execs  BY DEF Still
  <2>2. PICK n : n = Cardinality(Still(r, i))  OBVIOUS
  <2>3. n \in Nat  BY <2>1, <2>2, IdsAssumption, CardSub
  <2>4. late[r][i] = 0 \/ late[r][i] + n <= 1 + extra[r]  BY <2>2 DEF RunInv, LateCounted, LateFor
  <2>. QED  BY ONLY <1>1, <2>3, <2>4
<1>. QED  BY <1>2, <1>3

LEMMA InvRetried == RunInv => RetryPaysTheRest
<1>. SUFFICES ASSUME RunInv, NEW r \in Runs, Linear(def[r]), NEW n \in Runs, NEW i \in Steps(r), parent[n] = r
              PROVE  charged[r][i] + charged[n][i] <= 1 + extra[r] + extra[n] + late[r][i]
  BY DEF RetryPaysTheRest
<1>1. TypeOK /\ Shape /\ parent[n] # NoRun  BY IdsAssumption DEF RunInv
<1>2. def[n] = def[r] /\ i \in Steps(n)  BY <1>1 DEF Shape, RunShape, Steps
<1>3. Forward(def[r])  BY <1>1, StepsKnown, LinearGoesOn DEF Steps
<1>4. /\ charged[r][i] \in Nat /\ late[r][i] \in Nat /\ extra[r] \in Nat
      /\ charged[n][i] \in Nat /\ extra[n] \in Nat
  BY <1>1, <1>2, RunFields
<1>5. charged[r][i] <= 1 + extra[r] /\ charged[n][i] <= 1 + extra[n]
  BY <1>2, <1>3, InvCharged DEF ChargedPerThread
<1>6. charged[n][i] = 0 \/ charged[r][i] <= extra[r] + late[r][i]
  BY <1>1, <1>2 DEF RunInv, Retried, Beyond
<1>. QED  BY ONLY <1>4, <1>5, <1>6

LEMMA InvInOrder == RunInv => InOrder
<1>. SUFFICES ASSUME RunInv, NEW e \in Execs, exec[e].phase \in {"working", "opening"},
                     Linear(def[exec[e].run]), extra[exec[e].run] = 0, NEW j \in 1..(exec[e].at - 1)
              PROVE  step[exec[e].run][j] \in Done
  BY DEF InOrder
<1>1. TypeOK /\ Shape /\ Ordered  BY DEF RunInv
<1>2. exec[e].phase \in Started  BY DEF Started
<1>3. PICK r \in Runs : r = exec[e].run /\ exec[e].at \in Steps(r)  BY <1>1, <1>2, CursorKnown
<1>4. j \in Steps(r) /\ j < exec[e].at  BY <1>1, <1>3, StepsKnown
<1>5. Passed(r, e)  BY <1>1, <1>3 DEF Ordered, OrderedFor, Live
<1>. QED  BY <1>3, <1>4, <1>5 DEF Passed

(* Every variable of the runs keeps its type, whatever the pipelines and    *)
(* however many runs, executors and tasks there are: a run's steps, links   *)
(* and charges keep the shape of its definition (pipeline_executor.py).     *)
THEOREM PipelinesTyped == Spec => []TypeOK
<1>1. RunInv => TypeOK  BY DEF RunInv
<1>. QED  BY <1>1, InitKept, InvKept, PTL DEF Spec

(* For any pipelines and any overlap of executors, completions, cancels,    *)
(* retries and restarts: a run has one thread and one more for each         *)
(* repeated completion, and without faults an owner's running run has one   *)
(* unless its human task was cancelled; a step of a pipeline that only goes *)
(* forward is paid for once per thread; a retry of a linear one pays again  *)
(* only for what was charged late; and its steps run in order.              *)
THEOREM RunsKept == Spec => []RunKept
<1>1. RunInv => RunKept  BY InvThreaded, InvCharged, InvRetried, InvInOrder DEF RunKept
<1>. QED  BY <1>1, InitKept, InvKept, PTL DEF Spec
=============================================================================
