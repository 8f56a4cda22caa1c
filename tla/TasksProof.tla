----------------------------- MODULE TasksProof ----------------------------
(***************************************************************************)
(* Proofs about Tasks.tla, for every number of workers, spinners, rounds   *)
(* and ticks.                                                              *)
(***************************************************************************)
EXTENDS Tasks, FiniteSetTheorems, TLAPS

(* The types of the state.                                                 *)
TypeOK == /\ demo \in Coop \cup {"none", "arming", "spin"}
          /\ num_tasks \in 0..(Max0 + 1)
          /\ active \in [Tasks -> BOOLEAN]
          /\ current \in Tasks
          /\ esp \in [Tasks -> {"none", "new", "valid", "stale"}]
          /\ wild \in BOOLEAN
          /\ pc \in [Tasks -> {"idle", "loop", "lock", "read", "write", "dead"}]
          /\ left \in [Tasks -> 0..Iters]
          /\ t \in [Tasks -> Nat]
          /\ shared_counter \in Nat
          /\ locked \in BOOLEAN
          /\ tick \in 0..(TickMod - 1)
          /\ deadline \in 0..(TickMod - 1)
          /\ preempt_enabled \in BOOLEAN

(* While a demo runs, every task but the one that has the CPU has a stack  *)
(* pointer that can be loaded.  Nobody is preempted outside spin.          *)
Loadable == \A i \in 0..(num_tasks - 1) : i # current => esp[i] \in {"new", "valid"}

SwitchInv == /\ ~wild
             /\ preempt_enabled => demo = "spin"
             /\ demo # "none" => /\ num_tasks >= 1
                                 /\ current <= num_tasks - 1
                                 /\ Loadable

(* The workers of a cooperative demo: the flag says who has not exited,    *)
(* nobody exits or is inside a round without having one left to do or to   *)
(* finish, and the shell has the CPU back only after the last exit.        *)
Inside(i) == pc[i] \in {"read", "write"}

CoopInv == demo \in Coop =>
             /\ num_tasks = Workers + 1
             /\ \A i \in 1..Workers : /\ active[i] <=> pc[i] # "dead"
                                      /\ pc[i] = "dead" => left[i] = 0
                                      /\ Inside(i) => left[i] > 0
             /\ current = 0 => \A i \in 1..Workers : ~active[i]

(* Mutual exclusion: a worker inside its critical section holds the lock,  *)
(* there is one at most, and what it has read is still what the counter    *)
(* holds.                                                                  *)
MutexInv == demo = "mutex" =>
              /\ \A i \in 1..Workers : /\ Inside(i) => locked
                                       /\ pc[i] = "write" => t[i] = shared_counter
              /\ \A i, j \in 1..Workers : Inside(i) /\ Inside(j) => i = j

(* The inductive invariant.                                                *)
IndInv == TypeOK /\ SwitchInv /\ CoopInv /\ MutexInv /\ CounterExact

-----------------------------------------------------------------------------
LEMMA Sizes == /\ Max0 \in Nat /\ Max0 >= Workers /\ Max0 >= Spinners
               /\ Workers \in Nat \ {0} /\ Spinners \in Nat \ {0}
               /\ Iters \in Nat \ {0} /\ TickMod \in Nat \ {0} /\ Span \in Nat
               /\ 0 \in Tasks /\ 1 \in Tasks
               /\ 1..Workers \subseteq Tasks /\ 1..Spinners \subseteq Tasks
BY TasksAssumption DEF Max0, Tasks

(* A tick counter stays in its range, whatever is added to it.             *)
LEMMA ModRange == \A x \in Nat, n \in Nat \ {0} : x % n \in 0..(n - 1)
OBVIOUS

LEMMA InitIndInv == Init => IndInv
<1> SUFFICES ASSUME Init PROVE IndInv
  OBVIOUS
<1>1. TypeOK
  <2>1. 0 \in 0..(Max0 + 1) /\ 0 \in 0..Iters /\ 0 \in 0..(TickMod - 1) /\ 0 \in Tasks
    BY Sizes
  <2> QED BY <2>1 DEF Init, TypeOK
<1>2. SwitchInv /\ CoopInv /\ MutexInv /\ CounterExact
  BY DEF Init, SwitchInv, CoopInv, MutexInv, CounterExact, Coop
<1> QED BY <1>1, <1>2 DEF IndInv

-----------------------------------------------------------------------------
(* A switch from the running task to another one.                          *)
SwitchOK == /\ current' \in 0..(num_tasks - 1)
            /\ esp' \in [Tasks -> {"none", "new", "valid", "stale"}]
            /\ wild' = FALSE
            /\ \A i \in 0..(num_tasks - 1) : i # current' => esp'[i] \in {"new", "valid"}

LEMMA SwitchSafe ==
  ASSUME TypeOK, ~wild, Loadable, num_tasks >= 1, current <= num_tasks - 1,
         NEW to \in 0..(num_tasks - 1), to # current, context_switch(current, to)
  PROVE  SwitchOK
<1>1. 0..(num_tasks - 1) \subseteq Tasks
  BY Sizes DEF TypeOK, Tasks
<1>2. /\ current' = to /\ wild' = FALSE
      /\ esp' = [esp EXCEPT ![current] = "valid", ![to] = "stale"]
  BY DEF context_switch, Loadable
<1> QED BY <1>1, <1>2 DEF SwitchOK, TypeOK, Loadable

(* task_yield goes to another worker that is active, or back to the shell  *)
(* when there is none and the caller has exited, or nowhere.               *)
LEMMA YieldSafe ==
  ASSUME TypeOK, ~wild, Loadable, num_tasks >= 1, current <= num_tasks - 1,
         NEW act, task_yield(act)
  PROVE  /\ SwitchOK
         /\ \/ current' \in 1..(num_tasks - 1) /\ act[current']
            \/ current' = current /\ (current = 0 \/ act[current])
            \/ current' = 0 /\ \A i \in 1..(num_tasks - 1) : ~act[i]
<1>1. CASE \E i \in Others(current, act) : context_switch(current, i)
  <2>1. PICK i \in Others(current, act) : context_switch(current, i)
    BY <1>1
  <2>2. i \in 1..(num_tasks - 1) /\ act[i] /\ i # current /\ i \in 0..(num_tasks - 1)
    BY <2>1 DEF Others, TypeOK
  <2> QED BY <2>1, <2>2, SwitchSafe DEF context_switch
<1>2. CASE Others(current, act) = {} /\ current # 0 /\ ~act[current] /\ context_switch(current, 0)
  <2>1. 0 \in 0..(num_tasks - 1) /\ current' = 0
    BY <1>2 DEF TypeOK, context_switch
  <2>2. SwitchOK
    BY <1>2, <2>1, SwitchSafe
  <2> QED BY <1>2, <2>1, <2>2 DEF Others
<1>3. CASE (current = 0 \/ act[current]) /\ UNCHANGED cpuVars
  BY <1>3, Sizes DEF SwitchOK, Loadable, cpuVars, TypeOK, Tasks
<1> QED BY <1>1, <1>2, <1>3 DEF task_yield

(* What all steps of a cooperative worker have in common: everything but   *)
(* the worker's own fields, the mutex and the counter.                     *)
LEMMA CoopFrame ==
  ASSUME IndInv, CoopStep
  PROVE  /\ demo \in Coop /\ current \in 1..Workers /\ num_tasks = Workers + 1
         /\ current \in Tasks
         /\ ~wild /\ Loadable /\ num_tasks >= 1 /\ current <= num_tasks - 1
         /\ demo' = demo /\ num_tasks' = num_tasks /\ tick' = tick /\ deadline' = deadline
         /\ preempt_enabled' = preempt_enabled
<1>1. demo \in Coop /\ demo # "none" /\ current # 0
  BY DEF CoopStep, Coop
<1>2. current \in 1..Workers /\ num_tasks = Workers + 1
  BY <1>1, Sizes DEF IndInv, TypeOK, SwitchInv, CoopInv, Tasks
<1> QED BY <1>1, <1>2 DEF IndInv, TypeOK, SwitchInv, CoopStep, timeVars

(* A step of a worker, seen from the scheduler.                            *)
LEMMA CoopSwitch ==
  ASSUME IndInv, CoopStep
  PROVE  /\ SwitchOK
         /\ current' = 0 => \A i \in 1..Workers : ~active'[i]
<1>0. /\ current \in 1..Workers /\ ~wild /\ Loadable
      /\ num_tasks >= 1 /\ current <= num_tasks - 1
      /\ 1..(num_tasks - 1) = 1..Workers
  <2>1. num_tasks - 1 = Workers
    BY CoopFrame, Sizes
  <2> QED BY <2>1, CoopFrame
<1>1. TypeOK
  BY DEF IndInv
<1>2. CASE UNCHANGED cpuVars
  BY <1>0, <1>1, <1>2, Sizes DEF SwitchOK, Loadable, cpuVars, TypeOK
<1>3. CASE task_yield(active) /\ active' = active
  <2>1. SwitchOK
    BY <1>0, <1>1, <1>3, YieldSafe
  <2>2. current' = 0 => \A i \in 1..(num_tasks - 1) : ~active[i]
    BY <1>0, <1>1, <1>3, YieldSafe
  <2> QED BY <1>0, <1>3, <2>1, <2>2
<1>4. CASE task_yield(active')
  <2>1. SwitchOK
    BY <1>0, <1>1, <1>4, YieldSafe
  <2>2. current' = 0 => \A i \in 1..(num_tasks - 1) : ~active'[i]
    BY <1>0, <1>1, <1>4, YieldSafe
  <2> QED BY <1>0, <2>1, <2>2
<1> QED BY <1>2, <1>3, <1>4 DEF CoopStep, worker, Read, mutex_lock, Write, task_exit

(* The rounds that are done are finitely many, and a worker that does one  *)
(* adds one to them.                                                       *)
LEMMA RoundsFinite == IsFiniteSet(RoundsDone) /\ Cardinality(RoundsDone) \in Nat
<1>1. IsFiniteSet(1..Workers) /\ IsFiniteSet(1..Iters)
  BY Sizes, FS_Interval
<1>2. IsFiniteSet((1..Workers) \X (1..Iters))
  BY <1>1, FS_Product
<1>3. RoundsDone \in SUBSET ((1..Workers) \X (1..Iters))
  BY DEF RoundsDone
<1> QED BY <1>2, <1>3, FS_Subset, FS_CardinalityType

LEMMA RoundDoneCounts ==
  ASSUME TypeOK, current \in 1..Workers, left[current] > 0, RoundDone
  PROVE  Cardinality(RoundsDone') = Cardinality(RoundsDone) + 1
<1> DEFINE r == <<current, left[current]>>
<1>1. /\ current \in Tasks /\ left[current] \in 1..Iters
      /\ left' = [left EXCEPT ![current] = @ - 1]
      /\ \A i \in 1..Workers : i \in Tasks /\ left[i] \in Int
  BY Sizes DEF TypeOK, RoundDone
<1>2. r \notin RoundsDone
  BY <1>1 DEF RoundsDone
<1>3. ASSUME NEW i \in 1..Workers, NEW j \in 1..Iters
      PROVE  left'[i] < j <=> left[i] < j \/ <<i, j>> = r
  <2>1. CASE i = current
    <3>1. left'[i] = left[i] - 1
      BY <1>1, <2>1 DEF TypeOK
    <3> QED BY <1>1, <2>1, <3>1
  <2>2. CASE i # current
    BY <1>1, <2>2 DEF TypeOK
  <2> QED BY <2>1, <2>2
<1>4. RoundsDone' = RoundsDone \cup {r}
  BY <1>1, <1>3 DEF RoundsDone
<1> HIDE DEF r
<1> QED BY <1>2, <1>4, RoundsFinite, FS_AddElement

(* A step of a worker keeps the part of the invariant that is not about    *)
(* its body.                                                               *)
BodyTypes == /\ active' \in [Tasks -> BOOLEAN]
             /\ pc' \in [Tasks -> {"idle", "loop", "lock", "read", "write", "dead"}]
             /\ left' \in [Tasks -> 0..Iters]
             /\ t' \in [Tasks -> Nat]
             /\ shared_counter' \in Nat
             /\ locked' \in BOOLEAN

LEMMA CoopTypes ==
  ASSUME IndInv, CoopStep, BodyTypes
  PROVE  TypeOK' /\ SwitchInv'
<1>1. /\ demo' = demo /\ num_tasks' = num_tasks /\ tick' = tick /\ deadline' = deadline
      /\ preempt_enabled' = preempt_enabled /\ demo \in Coop /\ num_tasks = Workers + 1
  BY CoopFrame
<1>2. SwitchOK
  BY CoopSwitch
<1>3. current' \in Tasks
  BY <1>1, <1>2, Sizes DEF SwitchOK, Tasks
<1>4. TypeOK'
  BY <1>1, <1>2, <1>3 DEF IndInv, TypeOK, BodyTypes, SwitchOK
<1>5. SwitchInv'
  BY <1>1, <1>2, Sizes DEF IndInv, SwitchInv, SwitchOK, Loadable
<1> QED BY <1>4, <1>5

(* The fields of the other workers do not change.                          *)
LEMMA CoopKnown ==
  ASSUME IndInv, CoopStep
  PROVE  /\ demo' = demo /\ num_tasks' = num_tasks /\ num_tasks = Workers + 1
         /\ current \in 1..Workers /\ current \in Tasks
         /\ \A i \in 1..Workers : i \in Tasks
         /\ current' = 0 => \A i \in 1..Workers : ~active'[i]
         /\ \A i \in 1..Workers : /\ active[i] <=> pc[i] # "dead"
                                  /\ pc[i] = "dead" => left[i] = 0
                                  /\ Inside(i) => left[i] > 0
         /\ TypeOK /\ MutexInv /\ CounterExact
<1>1. demo \in Coop
  BY CoopFrame
<1> QED BY <1>1, CoopFrame, CoopSwitch, Sizes DEF IndInv, CoopInv

LEMMA WorkerPreserves == IndInv /\ CoopStep /\ worker => IndInv'
<1> SUFFICES ASSUME IndInv, CoopStep, worker PROVE IndInv'
  OBVIOUS
<1>0. /\ demo = "tasks" /\ pc[current] = "loop" /\ left[current] > 0
      /\ left' = [left EXCEPT ![current] = @ - 1]
      /\ active' = active /\ pc' = pc /\ t' = t
      /\ shared_counter' = shared_counter /\ locked' = locked
  BY DEF worker, RoundDone
<1>1. BodyTypes
  <2>1. left[current] \in 0..Iters
    BY CoopKnown DEF TypeOK
  <2>2. left[current] - 1 \in 0..Iters
    BY <1>0, <2>1, Sizes
  <2> QED BY <1>0, <2>2, CoopKnown DEF BodyTypes, TypeOK
<1>2. CoopInv'
  BY <1>0, CoopKnown DEF CoopInv, Inside, TypeOK
<1>3. MutexInv' /\ CounterExact'
  BY <1>0, CoopKnown DEF MutexInv, CounterExact
<1> QED BY <1>1, <1>2, <1>3, CoopTypes DEF IndInv

LEMMA ReadPreserves == IndInv /\ CoopStep /\ Read => IndInv'
<1> SUFFICES ASSUME IndInv, CoopStep, Read PROVE IndInv'
  OBVIOUS
<1>0. /\ \/ pc[current] = "loop" /\ left[current] > 0 /\ demo = "race"
         \/ pc[current] = "read" /\ demo = "mutex"
      /\ t' = [t EXCEPT ![current] = shared_counter]
      /\ pc' = [pc EXCEPT ![current] = "write"]
      /\ active' = active /\ left' = left
      /\ shared_counter' = shared_counter /\ locked' = locked
  BY DEF Read, Goto
<1>1. BodyTypes
  BY <1>0, CoopKnown DEF BodyTypes, TypeOK
<1>2. CoopInv'
  BY <1>0, CoopKnown DEF CoopInv, Inside, TypeOK
<1>3. MutexInv'
  BY <1>0, CoopKnown DEF MutexInv, Inside, TypeOK
<1>4. CounterExact'
  BY <1>0, CoopKnown DEF CounterExact, RoundsDone
<1> QED BY <1>1, <1>2, <1>3, <1>4, CoopTypes DEF IndInv

LEMMA LockPreserves == IndInv /\ CoopStep /\ mutex_lock => IndInv'
<1> SUFFICES ASSUME IndInv, CoopStep, mutex_lock PROVE IndInv'
  OBVIOUS
<1>0. /\ demo = "mutex" /\ pc[current] = "lock" /\ left[current] > 0
      /\ locked' = TRUE
      /\ \/ locked /\ pc' = pc
         \/ ~locked /\ pc' = [pc EXCEPT ![current] = "read"]
      /\ active' = active /\ left' = left /\ t' = t /\ shared_counter' = shared_counter
  BY DEF mutex_lock, Goto
<1>1. BodyTypes
  BY <1>0, CoopKnown DEF BodyTypes, TypeOK
<1>2. CoopInv'
  BY <1>0, CoopKnown DEF CoopInv, Inside, TypeOK
<1>3. MutexInv'
  BY <1>0, CoopKnown DEF MutexInv, Inside, TypeOK
<1>4. CounterExact'
  BY <1>0, CoopKnown DEF CounterExact, RoundsDone
<1> QED BY <1>1, <1>2, <1>3, <1>4, CoopTypes DEF IndInv

(* The write of the holder: what it read is still the counter.             *)
LEMMA WritePreserves == IndInv /\ CoopStep /\ Write => IndInv'
<1> SUFFICES ASSUME IndInv, CoopStep, Write PROVE IndInv'
  OBVIOUS
<1>0. /\ pc[current] = "write"
      /\ shared_counter' = t[current] + 1
      /\ left' = [left EXCEPT ![current] = @ - 1]
      /\ \/ demo = "mutex" /\ pc' = [pc EXCEPT ![current] = "lock"] /\ locked' = FALSE
         \/ demo # "mutex" /\ pc' = [pc EXCEPT ![current] = "loop"] /\ locked' = locked
      /\ active' = active /\ t' = t
  BY DEF Write, Goto, RoundDone
<1>1. Inside(current) /\ left[current] > 0
  BY <1>0, CoopKnown DEF Inside
<1>2. BodyTypes
  <2>1. left[current] \in 0..Iters /\ t[current] \in Nat
    BY CoopKnown DEF TypeOK
  <2>2. left[current] - 1 \in 0..Iters /\ t[current] + 1 \in Nat
    BY <1>1, <2>1, Sizes
  <2> QED BY <1>0, <2>2, CoopKnown DEF BodyTypes, TypeOK
<1>3. CoopInv'
  BY <1>0, <1>1, CoopKnown DEF CoopInv, Inside, TypeOK
<1>4. MutexInv'
  BY <1>0, <1>1, CoopKnown DEF MutexInv, Inside, TypeOK
<1>5. CounterExact'
  <2>1. Cardinality(RoundsDone') = Cardinality(RoundsDone) + 1
    BY <1>0, <1>1, CoopKnown, RoundDoneCounts DEF RoundDone
  <2> QED BY <1>0, <2>1, CoopKnown DEF CounterExact, MutexInv
<1> QED BY <1>2, <1>3, <1>4, <1>5, CoopTypes DEF IndInv

LEMMA ExitPreserves == IndInv /\ CoopStep /\ task_exit => IndInv'
<1> SUFFICES ASSUME IndInv, CoopStep, task_exit PROVE IndInv'
  OBVIOUS
<1>0. /\ pc[current] \in {"loop", "lock"} /\ left[current] = 0
      /\ active' = [active EXCEPT ![current] = FALSE]
      /\ pc' = [pc EXCEPT ![current] = "dead"]
      /\ left' = left /\ t' = t /\ shared_counter' = shared_counter /\ locked' = locked
  BY DEF task_exit, Goto
<1>1. BodyTypes
  BY <1>0, CoopKnown DEF BodyTypes, TypeOK
<1>2. CoopInv'
  BY <1>0, CoopKnown DEF CoopInv, Inside, TypeOK
<1>3. MutexInv'
  BY <1>0, CoopKnown DEF MutexInv, Inside, TypeOK
<1>4. CounterExact'
  BY <1>0, CoopKnown DEF CounterExact, RoundsDone
<1> QED BY <1>1, <1>2, <1>3, <1>4, CoopTypes DEF IndInv

LEMMA StartCoopPreserves == ASSUME IndInv, NEW d \in Coop, StartCoop(d) PROVE IndInv'
<1>0. /\ demo = "none" /\ demo' = d /\ num_tasks' = Workers + 1 /\ current' = 1
      /\ active' = [i \in Tasks |-> i \in 1..Workers]
      /\ esp' = [Stacks(Workers) EXCEPT ![0] = "valid", ![1] = "stale"]
      /\ pc' = [i \in Tasks |-> IF i \in 1..Workers
                                THEN IF d = "mutex" THEN "lock" ELSE "loop"
                                ELSE "idle"]
      /\ left' = [i \in Tasks |-> IF i \in 1..Workers THEN Iters ELSE 0]
      /\ t' = [i \in Tasks |-> 0]
      /\ shared_counter' = 0 /\ locked' = FALSE
      /\ wild' = wild /\ tick' = tick /\ deadline' = deadline
      /\ preempt_enabled' = preempt_enabled
  BY DEF StartCoop, Count, Created, timeVars
<1>1. /\ esp' \in [Tasks -> {"none", "new", "valid", "stale"}]
      /\ \A i \in 0..Workers : i # 1 => esp'[i] \in {"new", "valid"}
  <2>1. /\ Stacks(Workers) \in [Tasks -> {"none", "new", "valid", "stale"}]
        /\ \A i \in 1..Workers : Stacks(Workers)[i] = "new"
        /\ \A i \in 0..Workers : i \in Tasks /\ (i \in 1..Workers \/ i = 0)
    BY Sizes DEF Stacks
  <2>2. esp' = [Stacks(Workers) EXCEPT ![0] = "valid", ![1] = "stale"]
    BY <1>0
  <2> QED BY <2>1, <2>2, Sizes
<1>2. TypeOK'
  <2>1. Workers + 1 \in 0..(Max0 + 1) /\ Iters \in 0..Iters /\ 0 \in 0..Iters
    BY Sizes
  <2>2. active' \in [Tasks -> BOOLEAN]
    BY <1>0
  <2>3. /\ pc' \in [Tasks -> {"idle", "loop", "lock", "read", "write", "dead"}]
        /\ left' \in [Tasks -> 0..Iters] /\ t' \in [Tasks -> Nat]
    BY <1>0, <2>1
  <2> QED BY <1>0, <1>1, <2>1, <2>2, <2>3, Sizes DEF IndInv, TypeOK
<1>3. SwitchInv'
  <2>1. num_tasks' - 1 = Workers
    BY <1>0, Sizes
  <2> QED BY <1>0, <1>1, <2>1, Sizes DEF IndInv, SwitchInv, Loadable, Coop
<1>4. CoopInv'
  <2>1. \A i \in 1..Workers : /\ active'[i] = TRUE /\ left'[i] = Iters
                              /\ pc'[i] \in {"lock", "loop"}
    BY <1>0, Sizes
  <2>2. num_tasks' = Workers + 1 /\ current' = 1 /\ Iters > 0
    BY <1>0, Sizes
  <2> QED BY <2>1, <2>2 DEF CoopInv, Inside
<1>5. MutexInv'
  BY <1>0, Sizes DEF MutexInv, Inside
<1>6. CounterExact'
  <2>1. RoundsDone' = {}
    BY <1>0, Sizes DEF RoundsDone
  <2> QED BY <1>0, <2>1, FS_EmptySet DEF CounterExact
<1> QED BY <1>2, <1>3, <1>4, <1>5, <1>6 DEF IndInv

(* Steps in which no worker of a cooperative demo takes part, and none is  *)
(* begun.                                                                  *)
LEMMA NotCoop ==
  ASSUME IndInv, demo' \notin Coop \/ (demo' = demo /\ UNCHANGED <<taskVars, cpuVars, bodyVars>>)
  PROVE  CoopInv' /\ MutexInv' /\ CounterExact'
<1>1. CASE demo' \notin Coop
  BY <1>1 DEF CoopInv, MutexInv, CounterExact, Coop
<1>2. CASE demo' = demo /\ UNCHANGED <<taskVars, cpuVars, bodyVars>>
  <2>1. /\ demo' = demo /\ num_tasks' = num_tasks /\ active' = active /\ current' = current
        /\ pc' = pc /\ left' = left /\ t' = t
        /\ shared_counter' = shared_counter /\ locked' = locked
    BY <1>2 DEF taskVars, cpuVars, bodyVars
  <2>2. CoopInv'
    BY <2>1 DEF IndInv, CoopInv, Inside
  <2>3. MutexInv'
    BY <2>1 DEF IndInv, MutexInv, Inside
  <2>4. CounterExact'
    BY <2>1 DEF IndInv, CounterExact, RoundsDone
  <2> QED BY <2>2, <2>3, <2>4
<1> QED BY <1>1, <1>2

LEMMA SetSpinPreserves == IndInv /\ SetSpin => IndInv'
<1> SUFFICES ASSUME IndInv, SetSpin PROVE IndInv'
  OBVIOUS
<1>0. /\ demo = "none" /\ demo' = "arming" /\ num_tasks' = Spinners + 1 /\ current' = 0
      /\ active' = [i \in Tasks |-> i \in 1..Spinners]
      /\ esp' = Stacks(Spinners)
      /\ pc' = pc /\ left' = left /\ t' = t
      /\ shared_counter' = shared_counter /\ locked' = locked
      /\ wild' = wild /\ tick' = tick /\ deadline' = (tick + Span) % TickMod
      /\ preempt_enabled' = preempt_enabled
  BY DEF SetSpin, Count, Created, bodyVars
<1>1. /\ esp' \in [Tasks -> {"none", "new", "valid", "stale"}]
      /\ \A i \in 1..Spinners : esp'[i] = "new"
  BY <1>0, Sizes DEF Stacks
<1>2. TypeOK'
  <2>1. Spinners + 1 \in 0..(Max0 + 1)
    BY Sizes
  <2>2. deadline' \in 0..(TickMod - 1)
    <3>1. tick + Span \in Nat
      BY Sizes DEF IndInv, TypeOK
    <3> QED BY <1>0, <3>1, Sizes, ModRange
  <2> QED BY <1>0, <1>1, <2>1, <2>2, Sizes DEF IndInv, TypeOK
<1>3. SwitchInv'
  <2>1. num_tasks' - 1 = Spinners
    BY <1>0, Sizes
  <2> QED BY <1>0, <1>1, <2>1, Sizes DEF IndInv, SwitchInv, Loadable
<1>4. CoopInv' /\ MutexInv' /\ CounterExact'
  BY <1>0, NotCoop DEF Coop
<1> QED BY <1>2, <1>3, <1>4 DEF IndInv

(* The command moves on, or ends, and no task does anything.               *)
LEMMA ShellPreserves ==
  ASSUME IndInv, UNCHANGED <<taskVars, cpuVars, bodyVars, tick, deadline>>,
         \/ demo' = demo /\ preempt_enabled' = preempt_enabled
         \/ demo' = "none" /\ preempt_enabled' = preempt_enabled /\ ~preempt_enabled
         \/ demo = "arming" /\ demo' = "spin" /\ preempt_enabled' = TRUE
  PROVE  IndInv'
<1>0. /\ num_tasks' = num_tasks /\ active' = active /\ current' = current
      /\ esp' = esp /\ wild' = wild
      /\ pc' = pc /\ left' = left /\ t' = t
      /\ shared_counter' = shared_counter /\ locked' = locked
      /\ tick' = tick /\ deadline' = deadline
  BY DEF taskVars, cpuVars, bodyVars
<1>1. TypeOK'
  BY <1>0 DEF IndInv, TypeOK
<1>2. SwitchInv'
  BY <1>0 DEF IndInv, SwitchInv, Loadable
<1>3. CoopInv' /\ MutexInv' /\ CounterExact'
  BY NotCoop DEF Coop
<1> QED BY <1>1, <1>2, <1>3 DEF IndInv

LEMMA IrqPreserves == IndInv /\ irq_handler => IndInv'
<1> SUFFICES ASSUME IndInv, irq_handler PROVE IndInv'
  OBVIOUS
<1>0. /\ timer_callback /\ tick' = (tick + 1) % TickMod /\ preempt_tick(tick')
      /\ demo' = demo /\ num_tasks' = num_tasks /\ deadline' = deadline
      /\ pc' = pc /\ left' = left /\ t' = t
      /\ shared_counter' = shared_counter /\ locked' = locked
  BY DEF irq_handler, timer_callback, bodyVars
<1>1. tick' \in 0..(TickMod - 1)
  <2>1. tick + 1 \in Nat
    BY Sizes DEF IndInv, TypeOK
  <2> QED BY <1>0, <2>1, Sizes, ModRange
<1>2. CASE ~preempt_enabled
  <2>1. /\ preempt_enabled' = preempt_enabled /\ active' = active
        /\ current' = current /\ esp' = esp /\ wild' = wild
    BY <1>0, <1>2 DEF preempt_tick, cpuVars
  <2>2. TypeOK'
    BY <1>0, <1>1, <2>1 DEF IndInv, TypeOK
  <2>3. SwitchInv'
    BY <1>0, <2>1 DEF IndInv, SwitchInv, Loadable
  <2>4. CoopInv' /\ MutexInv' /\ CounterExact'
    BY <1>0, <2>1, NotCoop DEF taskVars, cpuVars, bodyVars
  <2> QED BY <2>2, <2>3, <2>4 DEF IndInv
<1>3. CASE preempt_enabled
  <2>1. /\ TypeOK /\ demo = "spin" /\ ~wild /\ Loadable
        /\ num_tasks >= 1 /\ current <= num_tasks - 1
        /\ num_tasks \in Nat /\ 0 \in 0..(num_tasks - 1)
    BY <1>3 DEF IndInv, SwitchInv, TypeOK
  <2>2. SwitchOK
    <3>1. CASE context_switch(current, 0) /\ current # 0
      BY <2>1, <3>1, SwitchSafe
    <3>2. CASE UNCHANGED cpuVars
      BY <2>1, <3>2, Sizes DEF SwitchOK, Loadable, cpuVars, TypeOK, Tasks
    <3>3. CASE task_yield(active)
      BY <2>1, <3>3, YieldSafe
    <3> QED BY <1>0, <1>3, <3>1, <3>2, <3>3 DEF preempt_tick
  <2>3. active' \in [Tasks -> BOOLEAN] /\ preempt_enabled' \in BOOLEAN
    <3>1. \/ active' = active /\ preempt_enabled' = preempt_enabled
          \/ /\ active' = [i \in Tasks |-> IF i \in 1..(num_tasks - 1) THEN FALSE ELSE active[i]]
             /\ preempt_enabled' = FALSE
      BY <1>0, <1>3 DEF preempt_tick
    <3> QED BY <2>1, <3>1 DEF TypeOK
  <2>4. current' \in Tasks
    BY <2>1, <2>2, Sizes DEF SwitchOK, TypeOK, Tasks
  <2>5. TypeOK'
    BY <1>0, <1>1, <2>1, <2>2, <2>3, <2>4 DEF TypeOK, SwitchOK
  <2>6. SwitchInv'
    BY <1>0, <2>1, <2>2 DEF SwitchInv, SwitchOK, Loadable
  <2>7. CoopInv' /\ MutexInv' /\ CounterExact'
    BY <1>0, <2>1, NotCoop DEF Coop
  <2> QED BY <2>5, <2>6, <2>7 DEF IndInv
<1> QED BY <1>2, <1>3

-----------------------------------------------------------------------------
LEMMA NextIndInv == IndInv /\ [Next]_vars => IndInv'
<1> SUFFICES ASSUME IndInv, [Next]_vars PROVE IndInv'
  OBVIOUS
<1>1. CASE \E d \in Coop : StartCoop(d)
  BY <1>1, StartCoopPreserves
<1>2. CASE CoopStep
  BY <1>2, WorkerPreserves, ReadPreserves, LockPreserves, WritePreserves, ExitPreserves
     DEF CoopStep
<1>3. CASE EndCoop
  <2>1. ~preempt_enabled
    BY <1>3 DEF EndCoop, IndInv, SwitchInv, Coop
  <2> QED BY <1>3, <2>1, ShellPreserves DEF EndCoop, timeVars
<1>4. CASE SetSpin
  BY <1>4, SetSpinPreserves
<1>5. CASE ArmSpin \/ pworker \/ EndSpin
  BY <1>5, ShellPreserves DEF ArmSpin, pworker, EndSpin, timeVars
<1>6. CASE irq_handler
  BY <1>6, IrqPreserves
<1>7. CASE UNCHANGED vars
  BY <1>7, ShellPreserves DEF vars, timeVars
<1> QED BY <1>1, <1>2, <1>3, <1>4, <1>5, <1>6, <1>7 DEF Next

LEMMA Invariant == Spec => []IndInv
BY InitIndInv, NextIndInv, PTL DEF Spec

(* Every switch loads a stack pointer that was saved or made by            *)
(* task_create, at a yield, at an exit and in the timer's interrupt.       *)
THEOREM SwitchesSafe == Spec => []NoWildSwitch
<1>1. IndInv => NoWildSwitch
  BY DEF IndInv, SwitchInv, NoWildSwitch
<1> QED BY <1>1, Invariant, PTL

(* Under the mutex the counter is the number of rounds done, whatever the  *)
(* workers' order.                                                         *)
THEOREM CounterCorrect == Spec => []CounterExact
<1>1. IndInv => CounterExact
  BY DEF IndInv
<1> QED BY <1>1, Invariant, PTL

(* When the shell has the CPU back after the threads demo, the counter is  *)
(* what it reports as expected: "the total comes out exactly right"        *)
(* (task.c:196-197).                                                       *)
TotalRight == demo = "mutex" /\ current = 0 => shared_counter = Workers * Iters

THEOREM TotalCorrect == Spec => []TotalRight
<1>1. IndInv => TotalRight
  <2> SUFFICES ASSUME IndInv, demo = "mutex", current = 0
               PROVE  shared_counter = Workers * Iters
    BY DEF TotalRight
  <2>1. \A i \in 1..Workers : left[i] = 0
    BY DEF IndInv, CoopInv, Coop
  <2>2. RoundsDone = (1..Workers) \X (1..Iters)
    BY <2>1 DEF RoundsDone
  <2>3. /\ IsFiniteSet(1..Workers) /\ IsFiniteSet(1..Iters)
        /\ Cardinality(1..Workers) = Workers /\ Cardinality(1..Iters) = Iters
    BY Sizes, FS_Interval
  <2>4. Cardinality((1..Workers) \X (1..Iters)) = Workers * Iters
    <3>1. Cardinality((1..Workers) \X (1..Iters)) = Cardinality(1..Workers) * Cardinality(1..Iters)
      BY <2>3, FS_Product
    <3> QED BY <2>3, <3>1
  <2> QED BY <2>2, <2>4 DEF IndInv, CounterExact
<1> QED BY <1>1, Invariant, PTL

-----------------------------------------------------------------------------
(* Spin.  The ticks from the one at which deadline was set count how far   *)
(* the round of the spinners has got: one may fall before preemption is    *)
(* armed, one takes the CPU from the shell, and each of the others counts  *)
(* for the spinner that it interrupts.                                     *)
SpinInv ==
  /\ demo \in {"arming", "spin"} => num_tasks = Spinners + 1 /\ deadline >= Span
  /\ demo = "arming" => /\ current = 0 /\ ran = {}
                        /\ \A i \in 1..Spinners : active[i]
                        /\ tick <= deadline - Span + 1
  /\ demo = "spin" /\ preempt_enabled =>
       /\ \A i \in 1..Spinners : active[i]
       /\ tick < deadline
       /\ \/ current = 0 /\ ran = {} /\ tick <= deadline - Span + 1
          \/ /\ current \in 1..Spinners /\ ran = 1..(current - 1)
             /\ tick <= deadline - Span + 1 + current
          \/ current \in 1..Spinners /\ ran = 1..Spinners
  /\ demo = "spin" /\ ~preempt_enabled => current = 0 /\ ran = 1..Spinners

LEMMA ModSmall == \A n \in Nat \ {0} : \A x \in 0..(n - 1) : x % n = x
OBVIOUS

LEMMA ModOnce == \A n \in Nat \ {0} : \A x \in n..(2 * n - 1) : x % n = x - n
OBVIOUS

LEMMA DistanceValue ==
  ASSUME num_tasks \in Nat \ {0}, NEW p \in 0..(num_tasks - 1), NEW i \in 0..(num_tasks - 1)
  PROVE  Distance(p, i) = IF p <= i THEN i - p ELSE i - p + num_tasks
<1>1. CASE p <= i
  <2>1. i - p + num_tasks \in num_tasks..(2 * num_tasks - 1)
    BY <1>1
  <2> QED BY <1>1, <2>1, ModOnce DEF Distance
<1>2. CASE p > i
  <2>1. i - p + num_tasks \in 0..(num_tasks - 1)
    BY <1>2
  <2> QED BY <1>2, <2>1, ModSmall DEF Distance
<1> QED BY <1>1, <1>2

(* With all spinners active, the CPU goes to the next one in turn.         *)
LEMMA YieldInTurn ==
  ASSUME TypeOK, num_tasks = Spinners + 1, \A i \in 1..Spinners : active[i],
         current \in 0..(Spinners - 1), task_yield(active)
  PROVE  current' = current + 1
<1>1. num_tasks \in Nat \ {0} /\ Others(current, active) = {i \in 1..Spinners : i # current}
  BY Sizes DEF Others
<1>2. current + 1 \in Others(current, active)
  BY <1>1, Sizes
<1>3. PICK i \in Others(current, active) :
        /\ \A j \in Others(current, active) : Distance(current, i) <= Distance(current, j)
        /\ context_switch(current, i)
  BY <1>2 DEF task_yield
<1>4. Distance(current, i) <= Distance(current, current + 1)
  BY <1>2, <1>3
<1>5. i \in 1..Spinners /\ i # current
  BY <1>1, <1>3
<1>6. /\ current \in 0..(num_tasks - 1) /\ i \in 0..(num_tasks - 1)
      /\ current + 1 \in 0..(num_tasks - 1)
  BY <1>5, Sizes
<1>7. /\ Distance(current, i) = IF current <= i THEN i - current ELSE i - current + num_tasks
      /\ Distance(current, current + 1) = 1
  BY <1>1, <1>6, DistanceValue
<1>8. i = current + 1
  BY <1>4, <1>5, <1>7, Sizes
<1> QED BY <1>3, <1>8 DEF context_switch

(* The conditions under which the round is complete at the deadline: the   *)
(* code's 100 ticks are enough for its 2 spinners, and the counter does    *)
(* not wrap before the deadline (497 days after the start).                *)
SpanEnough == Span >= Spinners + 2 /\ IdleTicks + Span < TickMod

LEMMA SetSpinSpins == ASSUME SpanEnough, IndInv, SetSpin PROVE SpinInv'
<1>1. /\ demo' = "arming" /\ num_tasks' = Spinners + 1 /\ current' = 0 /\ ran' = {}
      /\ active' = [i \in Tasks |-> i \in 1..Spinners]
      /\ tick' = tick /\ tick < IdleTicks /\ deadline' = (tick + Span) % TickMod
  BY DEF SetSpin, Count, Created
<1>2. tick + Span \in 0..(TickMod - 1)
  BY <1>1, Sizes, TasksAssumption DEF SpanEnough, IndInv, TypeOK
<1>3. deadline' = tick + Span
  BY <1>1, <1>2, Sizes, ModSmall
<1>4. \A i \in 1..Spinners : active'[i]
  BY <1>1, Sizes
<1>5. deadline' >= Span /\ tick' <= deadline' - Span + 1
  BY <1>1, <1>3, Sizes DEF IndInv, TypeOK
<1> QED BY <1>1, <1>4, <1>5 DEF SpinInv

LEMMA ArmSpinSpins == ASSUME SpanEnough, IndInv, SpinInv, ArmSpin PROVE SpinInv'
<1>1. /\ demo = "arming" /\ demo' = "spin" /\ preempt_enabled' = TRUE
      /\ num_tasks' = num_tasks /\ active' = active /\ current' = current
      /\ tick' = tick /\ deadline' = deadline /\ ran' = ran
  BY DEF ArmSpin, taskVars, cpuVars
<1>2. /\ current = 0 /\ ran = {} /\ tick <= deadline - Span + 1
      /\ num_tasks = Spinners + 1 /\ deadline >= Span
      /\ \A i \in 1..Spinners : active[i]
  BY <1>1 DEF SpinInv
<1>3. tick < deadline
  BY <1>2, Sizes DEF SpanEnough, IndInv, TypeOK
<1> QED BY <1>1, <1>2, <1>3 DEF SpinInv

(* A tick while the spinners run, and the last one.                        *)
LEMMA TickSpins ==
  ASSUME SpanEnough, IndInv, SpinInv, irq_handler, demo = "spin", preempt_enabled
  PROVE  SpinInv'
<1>1. /\ TypeOK /\ ~wild /\ Loadable /\ num_tasks >= 1 /\ current <= num_tasks - 1
      /\ num_tasks = Spinners + 1 /\ deadline >= Span /\ tick < deadline
      /\ \A i \in 1..Spinners : active[i]
  BY DEF IndInv, SwitchInv, SpinInv
<1>2. tick \in Nat /\ deadline \in Nat /\ tick + 1 \in 0..(TickMod - 1)
  BY <1>1, Sizes DEF TypeOK
<1>3. /\ tick' = (tick + 1) % TickMod /\ preempt_tick(tick')
      /\ ran' = IF current # 0 THEN ran \cup {current} ELSE ran
      /\ demo' = "spin" /\ num_tasks' = num_tasks /\ deadline' = deadline
  BY DEF irq_handler, timer_callback
<1>4. tick' = tick + 1
  BY <1>2, <1>3, Sizes, ModSmall
<1>5. CASE tick + 1 >= deadline
  <2>1. /\ preempt_enabled' = FALSE
        /\ current' = 0
    <3>1. tick' >= deadline /\ ~(tick' < deadline)
      BY <1>2, <1>4, <1>5
    <3> QED BY <1>3, <3>1 DEF preempt_tick, context_switch, cpuVars
  <2>2. ran' = 1..Spinners
    <3>1. CASE current = 0 /\ tick <= deadline - Span + 1
      BY <1>1, <1>2, <1>5, <3>1, Sizes DEF SpanEnough
    <3>2. CASE /\ current \in 1..Spinners /\ ran = 1..(current - 1)
               /\ tick <= deadline - Span + 1 + current
      <4>1. current = Spinners
        BY <1>1, <1>2, <1>5, <3>2, Sizes DEF SpanEnough
      <4> QED BY <1>3, <3>2, <4>1, Sizes
    <3>3. CASE current \in 1..Spinners /\ ran = 1..Spinners
      BY <1>3, <3>3
    <3> QED BY <3>1, <3>2, <3>3 DEF SpinInv
  <2> QED BY <1>1, <1>3, <2>1, <2>2 DEF SpinInv
<1>6. CASE tick + 1 < deadline
  <2>1. /\ preempt_enabled' = preempt_enabled /\ active' = active
        /\ task_yield(active)
    <3>1. tick' < deadline /\ ~(tick' >= deadline)
      BY <1>2, <1>4, <1>6
    <3> QED BY <1>3, <3>1 DEF preempt_tick
  <2>2. \/ current' = 0 /\ ran' = {} /\ tick' <= deadline - Span + 1
        \/ /\ current' \in 1..Spinners /\ ran' = 1..(current' - 1)
           /\ tick' <= deadline - Span + 1 + current'
        \/ current' \in 1..Spinners /\ ran' = 1..Spinners
    <3>1. CASE current = 0 /\ ran = {} /\ tick <= deadline - Span + 1
      <4>1. current' = 1
        BY <1>1, <2>1, <3>1, YieldInTurn, Sizes
      <4>2. ran' = {} /\ 1..(1 - 1) = {} /\ 1 \in 1..Spinners
        BY <1>3, <3>1, Sizes
      <4>3. tick' <= deadline - Span + 1 + 1
        BY <1>2, <1>4, <3>1, Sizes
      <4> QED BY <4>1, <4>2, <4>3
    <3>2. CASE /\ current \in 1..Spinners /\ current # Spinners /\ ran = 1..(current - 1)
               /\ tick <= deadline - Span + 1 + current
      <4>1. current' = current + 1
        BY <1>1, <2>1, <3>2, YieldInTurn, Sizes
      <4>2. ran' = 1..((current + 1) - 1) /\ current + 1 \in 1..Spinners
        <5>1. 1..(current - 1) \cup {current} = 1..current
          BY <3>2, Sizes
        <5>2. (current + 1) - 1 = current /\ current # 0 /\ current + 1 \in 1..Spinners
          BY <3>2, Sizes
        <5> QED BY <1>3, <3>2, <5>1, <5>2
      <4>3. tick' <= deadline - Span + 1 + (current + 1)
        BY <1>2, <1>4, <3>2, Sizes
      <4> QED BY <4>1, <4>2, <4>3
    <3>3. CASE /\ current \in 1..Spinners
               /\ ran = 1..Spinners \/ (current = Spinners /\ ran = 1..(current - 1))
      <4>1. ran' = 1..Spinners
        <5>1. current # 0 /\ 1..(current - 1) \cup {current} = 1..current
          BY <3>3, Sizes
        <5> QED BY <1>3, <3>3, <5>1
      <4>2. /\ current' \in 1..(num_tasks - 1) \/ current' = current
               \/ \A i \in 1..(num_tasks - 1) : ~active[i]
        BY <1>1, <2>1, YieldSafe
      <4>3. current' \in 1..Spinners
        BY <1>1, <3>3, <4>2, Sizes
      <4> QED BY <4>1, <4>3
    <3> QED BY <3>1, <3>2, <3>3 DEF SpinInv
  <2>3. tick' < deadline
    BY <1>4, <1>6
  <2> QED BY <1>1, <1>3, <2>1, <2>2, <2>3 DEF SpinInv
<1> QED BY <1>2, <1>5, <1>6

(* A tick at any other time.                                               *)
LEMMA IdleTickSpins ==
  ASSUME SpanEnough, IndInv, SpinInv, irq_handler, ~preempt_enabled
  PROVE  SpinInv'
<1>1. /\ preempt_enabled' = preempt_enabled /\ active' = active /\ current' = current
      /\ demo' = demo /\ num_tasks' = num_tasks /\ deadline' = deadline
      /\ tick' = (tick + 1) % TickMod
      /\ demo = "arming" => deadline = (tick + Span) % TickMod /\ tick < IdleTicks
      /\ ran' = IF demo = "spin" /\ current # 0 THEN ran \cup {current} ELSE ran
  BY DEF irq_handler, timer_callback, preempt_tick, cpuVars
<1>2. CASE demo = "arming"
  <2>1. tick + Span \in 0..(TickMod - 1) /\ tick + 1 \in 0..(TickMod - 1)
    BY <1>1, <1>2, Sizes, TasksAssumption DEF SpanEnough, IndInv, TypeOK
  <2>2. deadline = tick + Span /\ tick' = tick + 1
    BY <1>1, <1>2, <2>1, Sizes, ModSmall
  <2>3. tick' <= deadline' - Span + 1
    BY <1>1, <2>1, <2>2, Sizes DEF IndInv, TypeOK
  <2> QED BY <1>1, <1>2, <2>3 DEF SpinInv
<1>3. CASE demo # "arming"
  BY <1>1, <1>3 DEF SpinInv
<1> QED BY <1>2, <1>3

(* The CPU goes round among the spinners, none of which ever gives it      *)
(* away: every one of them has had it for a tick when spin reports.        *)
THEOREM AllSpinnersRan == ASSUME SpanEnough PROVE Spec => []AllSpun
<1>1. Init => SpinInv
  BY DEF Init, SpinInv
<1>2. IndInv /\ SpinInv /\ [Next]_vars => SpinInv'
  <2> SUFFICES ASSUME IndInv, SpinInv, [Next]_vars PROVE SpinInv'
    OBVIOUS
  <2>1. CASE (\E d \in Coop : StartCoop(d)) \/ EndCoop \/ CoopStep \/ EndSpin
    <3>1. demo' \in Coop \cup {"none"}
      BY <2>1 DEF StartCoop, EndCoop, CoopStep, EndSpin
    <3> QED BY <3>1 DEF SpinInv, Coop
  <2>2. CASE SetSpin
    BY <2>2, SetSpinSpins
  <2>3. CASE ArmSpin
    BY <2>3, ArmSpinSpins
  <2>4. CASE pworker \/ UNCHANGED vars
    BY <2>4 DEF SpinInv, pworker, vars, taskVars, cpuVars, timeVars
  <2>5. CASE irq_handler
    <3>1. CASE preempt_enabled
      <4>1. demo = "spin"
        BY <3>1 DEF IndInv, SwitchInv
      <4> QED BY <2>5, <3>1, <4>1, TickSpins
    <3>2. CASE ~preempt_enabled
      BY <2>5, <3>2, IdleTickSpins
    <3> QED BY <3>1, <3>2
  <2> QED BY <2>1, <2>2, <2>3, <2>4, <2>5 DEF Next
<1>3. SpinInv => AllSpun
  BY DEF SpinInv, AllSpun
<1> QED BY <1>1, <1>2, <1>3, Invariant, PTL DEF Spec
=============================================================================
