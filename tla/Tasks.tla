------------------------------- MODULE Tasks -------------------------------
(***************************************************************************)
(* Kernel tasks: the round-robin scheduler and its preemptive mode         *)
(* (kernel/task.c, kernel/switch.asm), the mutex (kernel/sync.c) and the   *)
(* timer interrupt that drives them (kernel/timer.c, kernel/isr.c,         *)
(* kernel/interrupt.asm), under the three shell commands that use them:    *)
(* tasks, spin and threads (its two halves, race and mutex).               *)
(*                                                                         *)
(* Task 0 is the shell, the others run the demo's worker.  The saved stack *)
(* pointer of a task is "new" from task_create on, "valid" from the switch *)
(* away from it to the next switch to it, "stale" after that, and "none"   *)
(* while it is still the 0 that the demo put there: context_switch loads   *)
(* whatever it finds.  A cooperative worker runs from one task_yield to    *)
(* the next in one step, a worker of spin can be interrupted anywhere.     *)
(*                                                                         *)
(* The timer ticks at any moment; the CPU takes the interrupt when IF is   *)
(* set and the PIC has no earlier one in service.  A task that was         *)
(* switched away inside the handler comes back there, and its iret sets IF *)
(* again; a new task starts with IF clear.                                 *)
(***************************************************************************)
EXTENDS Integers, FiniteSets

CONSTANTS Workers,     \* worker tasks of a cooperative demo (3)
          Spinners,    \* worker tasks of spin (2)
          Iters,       \* rounds of a worker (5, THREAD_ITERS)
          Span,        \* ticks that spin runs for (100)
          TickMod,     \* tick is a uint32_t: 2^32
          IdleTicks    \* bound: no spin starts and no tick is counted outside
                       \* spin from this tick on

ASSUME TasksAssumption == /\ Workers \in Nat \ {0}
                          /\ Spinners \in Nat \ {0}
                          /\ Iters \in Nat \ {0}
                          /\ Span \in Nat
                          /\ TickMod \in Nat \ {0}
                          /\ IdleTicks \in Nat

Coop == {"tasks", "race", "mutex"}
Max0 == IF Workers > Spinners THEN Workers ELSE Spinners
Tasks == 0..Max0

VARIABLES demo,              \* the command that is running, or "none"
          num_tasks, current,
          active, esp,       \* the fields of tasks[]
          pc, left, t,       \* a worker's next step, rounds left, and its t
          shared_counter, locked,
          tick, deadline, preempt_enabled,
          IF_flag,           \* the interrupt flag of the CPU
          in_service,        \* the PIC waits for the End-Of-Interrupt of IRQ 0
          ran,               \* the spinners that counted up to some tick
          wild               \* a context_switch loaded an esp that is not valid

taskVars == <<num_tasks, active>>
cpuVars == <<current, esp, wild>>
bodyVars == <<pc, left, t, shared_counter, locked>>
timeVars == <<deadline, preempt_enabled>>
irqVars == <<IF_flag, in_service>>
vars == <<demo, taskVars, cpuVars, bodyVars, tick, timeVars, irqVars, ran>>

Init == /\ demo = "none"
        /\ num_tasks = 0
        /\ active = [i \in Tasks |-> FALSE]
        /\ current = 0
        /\ esp = [i \in Tasks |-> "none"]
        /\ wild = FALSE
        /\ pc = [i \in Tasks |-> "idle"]
        /\ left = [i \in Tasks |-> 0]
        /\ t = [i \in Tasks |-> 0]
        /\ shared_counter = 0
        /\ locked = FALSE
        /\ tick = 0
        /\ deadline = 0
        /\ preempt_enabled = FALSE
        /\ IF_flag = TRUE /\ in_service = FALSE
        /\ ran = {}

-----------------------------------------------------------------------------
(* context_switch: save where prev is, go on where to was.                 *)
context_switch(prev, to) ==
  /\ current' = to
  /\ wild' = (wild \/ esp[to] \notin {"valid", "new"})
  /\ esp' = [esp EXCEPT ![prev] = "valid", ![to] = "stale"]

(* The active workers other than prev, and which comes first after it.     *)
Others_SelfToo(prev, act) == {i \in 1..(num_tasks - 1) : act[i]}

Others(prev, act) == {i \in 1..(num_tasks - 1) : act[i] /\ i # prev}

Distance(prev, i) == (i - prev + num_tasks) % num_tasks

(* task_yield, with the active flags as they are when it is called.        *)
task_yield(act) ==
  \/ \E i \in Others(current, act) :
       /\ \A j \in Others(current, act) : Distance(current, i) <= Distance(current, j)
       /\ context_switch(current, i)
  \/ /\ Others(current, act) = {}
     /\ current # 0 /\ ~act[current]
     /\ context_switch(current, 0)
  \/ /\ Others(current, act) = {}
     /\ current = 0 \/ act[current]
     /\ UNCHANGED cpuVars

(* task_create for each worker, with task 0 the scheduler.                 *)
Count(n) == n + 1
Created(n) == [i \in Tasks |-> i \in 1..n]
Stacks(n) == [i \in Tasks |-> IF i \in 1..n THEN "new" ELSE "none"]

-----------------------------------------------------------------------------
(* tasking_demo and spawn_three: the tasks are created and the shell dives *)
(* into the first of them.                                                 *)
StartCoop(d) ==
  /\ demo = "none"
  /\ demo' = d
  /\ num_tasks' = Count(Workers)
  /\ active' = Created(Workers)
  /\ current' = 1
  /\ esp' = [Stacks(Workers) EXCEPT ![0] = "valid", ![1] = "stale"]
  /\ pc' = [i \in Tasks |-> IF i \in 1..Workers
                            THEN IF d = "mutex" THEN "lock" ELSE "loop"
                            ELSE "idle"]
  /\ left' = [i \in Tasks |-> IF i \in 1..Workers THEN Iters ELSE 0]
  /\ t' = [i \in Tasks |-> 0]
  /\ shared_counter' = 0
  /\ locked' = FALSE
  /\ UNCHANGED <<wild, tick, timeVars, irqVars, ran>>

Goto(l) == pc' = [pc EXCEPT ![current] = l]
RoundDone == left' = [left EXCEPT ![current] = @ - 1]

(* worker: print, yield.                                                   *)
worker == /\ demo = "tasks" /\ pc[current] = "loop" /\ left[current] > 0
          /\ RoundDone
          /\ task_yield(active)
          /\ UNCHANGED <<active, pc, t, shared_counter, locked>>

(* The increment of racer and of safe_worker: read, yield, write.          *)
Read == /\ \/ demo = "race" /\ pc[current] = "loop" /\ left[current] > 0
           \/ demo = "mutex" /\ pc[current] = "read"
        /\ t' = [t EXCEPT ![current] = shared_counter]
        /\ Goto("write")
        /\ task_yield(active)
        /\ UNCHANGED <<active, left, shared_counter, locked>>

mutex_lock_Unlocked == /\ demo = "mutex" /\ pc[current] = "lock" /\ left[current] > 0
                       /\ Goto("read")
                       /\ UNCHANGED <<active, cpuVars, left, t, shared_counter, locked>>

(* mutex_lock: xchg, and yield while it was locked.                        *)
mutex_lock == /\ demo = "mutex" /\ pc[current] = "lock" /\ left[current] > 0
              /\ locked' = TRUE
              /\ \/ locked /\ task_yield(active) /\ UNCHANGED pc
                 \/ ~locked /\ Goto("read") /\ UNCHANGED cpuVars
              /\ UNCHANGED <<active, left, t, shared_counter>>

Write == /\ pc[current] = "write"
         /\ shared_counter' = t[current] + 1
         /\ RoundDone
         /\ IF demo = "mutex" THEN Goto("lock") /\ locked' = FALSE   \* mutex_unlock
            ELSE Goto("loop") /\ UNCHANGED locked
         /\ UNCHANGED <<active, cpuVars, t>>

task_exit == /\ pc[current] \in {"loop", "lock"} /\ left[current] = 0
             /\ active' = [active EXCEPT ![current] = FALSE]
             /\ Goto("dead")
             /\ task_yield(active')
             /\ UNCHANGED <<left, t, shared_counter, locked>>

CoopStep == /\ demo \in Coop /\ current # 0
            /\ worker \/ Read \/ mutex_lock \/ Write \/ task_exit
            /\ UNCHANGED <<demo, num_tasks, tick, timeVars, irqVars, ran>>

(* The shell is back from the workers.                                     *)
EndCoop == /\ demo \in Coop /\ current = 0
           /\ demo' = "none"
           /\ UNCHANGED <<taskVars, cpuVars, bodyVars, tick, timeVars, irqVars, ran>>

-----------------------------------------------------------------------------
(* preempt_demo: create the spinners and set the deadline, then arm.       *)
SetSpin == /\ demo = "none"
           /\ tick < IdleTicks
           /\ demo' = "arming"
           /\ ran' = {}
           /\ num_tasks' = Count(Spinners)
           /\ active' = Created(Spinners)
           /\ current' = 0
           /\ esp' = Stacks(Spinners)
           /\ deadline' = (tick + Span) % TickMod
           /\ UNCHANGED <<wild, bodyVars, tick, preempt_enabled, irqVars>>

ArmSpin == /\ demo = "arming"
           /\ demo' = "spin"
           /\ preempt_enabled' = TRUE
           /\ UNCHANGED <<taskVars, cpuVars, bodyVars, tick, deadline, irqVars, ran>>

(* pworker_a, pworker_b: sti, then count for ever.                         *)
pworker == /\ demo = "spin" /\ current # 0
           /\ IF_flag' = TRUE
           /\ UNCHANGED <<demo, taskVars, cpuVars, bodyVars, tick, timeVars,
                          in_service, ran>>

preempt_tick_NoRotation(now) ==
  \/ ~preempt_enabled /\ UNCHANGED <<preempt_enabled, active, cpuVars>>
  \/ /\ preempt_enabled /\ now >= deadline
     /\ preempt_enabled' = FALSE
     /\ active' = [i \in Tasks |-> IF i \in 1..(num_tasks - 1) THEN FALSE ELSE active[i]]
     /\ IF current # 0 THEN context_switch(current, 0) ELSE UNCHANGED cpuVars
  \/ /\ preempt_enabled /\ now < deadline
     /\ IF current = 0 THEN task_yield(active) ELSE UNCHANGED cpuVars
     /\ UNCHANGED <<preempt_enabled, active>>

(* preempt_tick, from the timer interrupt.                                 *)
preempt_tick(now) ==
  \/ ~preempt_enabled /\ UNCHANGED <<preempt_enabled, active, cpuVars>>
  \/ /\ preempt_enabled /\ now >= deadline
     /\ preempt_enabled' = FALSE
     /\ active' = [i \in Tasks |-> IF i \in 1..(num_tasks - 1) THEN FALSE ELSE active[i]]
     /\ IF current # 0 THEN context_switch(current, 0) ELSE UNCHANGED cpuVars
  \/ /\ preempt_enabled /\ now < deadline
     /\ task_yield(active)
     /\ UNCHANGED <<preempt_enabled, active>>

(* At most one tick falls between the two stores of preempt_demo.          *)
timer_callback == /\ preempt_enabled \/ tick < IdleTicks
                  /\ demo = "arming" => deadline = (tick + Span) % TickMod
                  /\ tick' = (tick + 1) % TickMod
                  /\ preempt_tick(tick')
                  /\ ran' = IF demo = "spin" /\ current # 0 THEN ran \cup {current}
                            ELSE ran
                  /\ UNCHANGED <<demo, num_tasks, bodyVars, deadline>>

(* The handler ends with an iret, unless it has switched to a new task.    *)
ToNewTask == current' # current /\ esp[current'] = "new"

irq_handler_EoiLast == /\ IF_flag /\ ~in_service
                       /\ timer_callback
                       /\ in_service' = ToNewTask
                       /\ IF_flag' = ~ToNewTask

(* IRQ 0: the End-Of-Interrupt goes out before the driver is called.       *)
irq_handler == /\ IF_flag /\ ~in_service
               /\ in_service' = FALSE
               /\ timer_callback
               /\ IF_flag' = ~ToNewTask

(* The shell leaves its hlt loop.                                          *)
EndSpin == /\ demo = "spin" /\ current = 0 /\ ~preempt_enabled
           /\ demo' = "none"
           /\ UNCHANGED <<taskVars, cpuVars, bodyVars, tick, timeVars, irqVars, ran>>

Next == \/ \E d \in Coop : StartCoop(d)
        \/ CoopStep
        \/ EndCoop
        \/ SetSpin \/ ArmSpin \/ pworker \/ EndSpin
        \/ irq_handler

(* The CPU executes the task that has it, and the timer keeps ticking.     *)
Spec == /\ Init /\ [][Next]_vars
        /\ WF_vars(CoopStep \/ EndCoop)
        /\ WF_vars(ArmSpin \/ pworker \/ EndSpin)
        /\ WF_vars(irq_handler)

-----------------------------------------------------------------------------

(* context_switch never loads a stack pointer that is stale or was never   *)
(* saved: "switching to self would reload a stale stack pointer"           *)
(* (task.c:60-62), "its esp gets filled in on the first switch"            *)
(* (task.c:110-111).                                                       *)
NoWildSwitch == ~wild

(* The rounds that the workers have done: the r-th last of worker i is     *)
(* done when it has fewer than r left.                                     *)
RoundsDone == {r \in (1..Workers) \X (1..Iters) : left[r[1]] < r[2]}

(* Under the mutex no update is ever lost, although the thread in the      *)
(* critical section gives the CPU away between its read and its write: the *)
(* counter is the number of rounds done at every moment, and "the total    *)
(* comes out exactly right" (task.c:196-197).                              *)
CounterExact == demo = "mutex" => shared_counter = Cardinality(RoundsDone)

(* When spin reports, every spinner has had the CPU for at least a tick,   *)
(* though none of them ever yields (task.c:136-137, 187).                  *)
AllSpun == demo = "spin" /\ ~preempt_enabled => ran = 1..Spinners

(* Every command comes back to the shell: all workers of a cooperative     *)
(* demo get to exit, waiting for the mutex does not block the holder, and  *)
(* the timer takes the CPU back from tasks that never yield, although the  *)
(* interrupts that switch to a worker for the first time never return.     *)
DemoEnds == (demo # "none") ~> (demo = "none")
=============================================================================
