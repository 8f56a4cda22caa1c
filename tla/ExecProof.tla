------------------------------ MODULE ExecProof ----------------------------
(***************************************************************************)
(* Proofs about Exec.tla, for every layout of the user zone, every set of  *)
(* images and command lines, and everything a program may store or pass to *)
(* the kernel.                                                             *)
(***************************************************************************)
EXTENDS Exec, TLAPS, WellFoundedInduction

(* The control state: where each saved context belongs, and that the       *)
(* interrupt flag comes back with it.                                      *)
Places == {"shell", "elf", "flat", "loaded", "refused", "args", "protect", "enter",
           "ring3", "returned", "verdict", "finish", "arm", "probe", "recovered",
           "disarm"}

RunContext == [frame |-> "run", eflags |-> TRUE]
CommandContext == [frame |-> "command", eflags |-> TRUE]

ControlInv ==
  /\ pc \in Places
  /\ armed \in BOOLEAN /\ faulted \in BOOLEAN /\ halted \in BOOLEAN
  /\ ~halted => intr = TRUE
  /\ armed => pc \in {"ring3", "returned", "probe"}
  /\ pc \in {"ring3", "probe"} => armed
  /\ pc \in {"ring3", "returned"} => kctx = RunContext /\ fctx = RunContext
  /\ pc = "probe" => fctx = CommandContext

(* The flag that run_user_at_sp looks at says how the program ended.       *)
VerdictInv ==
  /\ pc = "ring3" => ~faulted
  /\ pc \in {"returned", "verdict"} => ended = IF faulted THEN "fault" ELSE "exit"
  /\ pc \notin {"ring3", "returned", "verdict"} => report = ended

(* From the load to the argument block all of the zone is writable.        *)
PermInv == pc \in {"loaded", "args"} => wr = ZonePages

CtlInv == ControlInv /\ VerdictInv /\ PermInv

-----------------------------------------------------------------------------
(* The kernel's own stores, with the whole zone writable, do not fault.    *)
LEMMA AllWritable == \A cells : Obeys(cells, ZonePages)
BY DEF Obeys, ZonePages

LEMMA StoreGoesThrough ==
  ASSUME NEW new, NEW next, KernelStore(new, ZonePages, next)
  PROVE  /\ pc' = next /\ UNCHANGED faultVars
         /\ mem' = Stored(mem, new, DOMAIN new)
BY AllWritable DEF KernelStore

(* A fault of the kernel that is not recovered from: nothing armed, or the *)
(* handler faults in its own prints.                                       *)
Stuck == halted' = TRUE /\ intr' = FALSE /\ UNCHANGED <<pc, armed, faulted>>

LEMMA UnarmedFault ==
  ASSUME armed = FALSE, faulted \in BOOLEAN, NEW m, NEW w, isr_handler(m, w)
  PROVE  Stuck
<1>1. CASE Obeys(Video, w)
  <2>1. /\ armed' = FALSE /\ faulted' = (faulted \/ armed) /\ halted' = ~armed
        /\ intr' = FALSE /\ pc' = pc
    BY <1>1 DEF isr_handler
  <2>2. halted' = TRUE /\ faulted' = faulted
    BY ONLY <2>1, armed = FALSE, faulted \in BOOLEAN, Zenon
  <2> QED BY <2>1, <2>2 DEF Stuck
<1>2. CASE ~Obeys(Video, w)
  BY <1>2 DEF isr_handler, Stuck
<1> QED BY <1>1, <1>2

LEMMA ArmedFault ==
  ASSUME armed = TRUE, NEW m, NEW w, isr_handler(m, w)
  PROVE  \/ ~Obeys(Video, w) /\ Stuck
         \/ /\ Obeys(Video, w) /\ restore_context(fctx)
            /\ armed' = FALSE /\ faulted' = TRUE /\ halted' = FALSE
<1>1. CASE Obeys(Video, w)
  <2>1. /\ armed' = FALSE /\ faulted' = (faulted \/ armed) /\ halted' = ~armed
        /\ restore_context(fctx)
    BY <1>1 DEF isr_handler
  <2>2. halted' = FALSE /\ faulted' = TRUE
    BY ONLY <2>1, armed = TRUE, Zenon
  <2> QED BY <1>1, <2>1, <2>2
<1>2. CASE ~Obeys(Video, w)
  BY <1>2 DEF isr_handler, Stuck
<1> QED BY <1>1, <1>2

LEMMA UnarmedStore ==
  ASSUME armed = FALSE, faulted \in BOOLEAN, NEW new, NEW w, NEW next,
         KernelStore(new, w, next)
  PROVE  (pc' = next /\ UNCHANGED faultVars) \/ Stuck
BY UnarmedFault DEF KernelStore

LEMMA UnarmedPrint ==
  ASSUME armed = FALSE, faulted \in BOOLEAN, NEW next, kprint(next)
  PROVE  (pc' = next /\ UNCHANGED faultVars) \/ Stuck
BY UnarmedStore DEF kprint

(* A fault while a program runs brings the kernel back to run_user_at_sp.  *)
LEMMA FaultReturns ==
  ASSUME CtlInv, pc = "ring3", NEW m, NEW w, isr_handler(m, w)
  PROVE  \/ Stuck
         \/ /\ pc' = "returned" /\ armed' = FALSE /\ faulted' = TRUE
            /\ halted' = FALSE /\ intr' = TRUE
<1>1. armed = TRUE /\ fctx.frame = "run" /\ fctx.eflags = TRUE
  BY DEF CtlInv, ControlInv, RunContext
<1>2. CASE Stuck
  BY <1>2
<1>3. CASE /\ restore_context(fctx)
           /\ armed' = FALSE /\ faulted' = TRUE /\ halted' = FALSE
  BY <1>1, <1>3 DEF restore_context, Resumed
<1> QED BY <1>1, <1>2, <1>3, ArmedFault

LEMMA StuckCtl ==
  ASSUME CtlInv, Stuck, UNCHANGED <<wr, fctx, kctx, report>>,
         ended' = ended \/ pc = "ring3"
  PROVE  CtlInv'
BY DEF Stuck, CtlInv, ControlInv, VerdictInv, PermInv, Places

LEMMA InitCtl == Init => CtlInv
BY DEF Init, CtlInv, ControlInv, VerdictInv, PermInv, Places

LEMMA CommandCtl ==
  ASSUME CtlInv, (\E f \in Images, l \in Lines : Exec(f, l)) \/ User \/ FaultCommand \/ PrintOnly
  PROVE  CtlInv'
<1>1. ASSUME NEW f \in Images, NEW l \in Lines, Exec(f, l) PROVE CtlInv'
  BY <1>1 DEF Exec, CtlInv, ControlInv, VerdictInv, PermInv, Places, faultVars, ctxVars, obsVars
<1>2. CASE User \/ FaultCommand \/ PrintOnly
  <2>1. pc = "shell" /\ UNCHANGED <<wr, fctx, kctx, report, ended>>
    BY <1>2 DEF User, FaultCommand, PrintOnly, ctxVars, obsVars
  <2>2. armed = FALSE /\ faulted \in BOOLEAN
    BY <2>1 DEF CtlInv, ControlInv
  <2>3. (pc' \in {"flat", "arm", "shell"} /\ UNCHANGED faultVars) \/ Stuck
    BY <1>2, <2>2, UnarmedPrint, UnarmedStore DEF User, FaultCommand, PrintOnly
  <2>4. CASE pc' \in {"flat", "arm", "shell"} /\ UNCHANGED faultVars
    BY <2>1, <2>4 DEF CtlInv, ControlInv, VerdictInv, PermInv, Places, faultVars
  <2> QED BY <2>1, <2>3, <2>4, StuckCtl
<1> QED BY <1>1, <1>2

LEMMA LoadCtl == ASSUME CtlInv, ElfLoad \/ FlatLoad PROVE CtlInv'
<1>1. /\ wr' = ZonePages /\ pc' \in {"loaded", "args", "refused"} /\ pc \in {"elf", "flat"}
      /\ UNCHANGED <<faultVars, ctxVars, obsVars>>
  <2>1. CASE ElfLoad
    <3>1. wr' = ZonePages
      BY <2>1 DEF ElfLoad, paging_reset_user_zone
    <3>2. CASE Loadable(cmd.image)
      <4>1. KernelStore(LoadedElf(cmd.image), ZonePages, "loaded")
        BY <2>1, <3>1, <3>2 DEF ElfLoad
      <4> QED BY <2>1, <3>1, <4>1, StoreGoesThrough DEF ElfLoad
    <3>3. CASE ~Loadable(cmd.image)
      BY <2>1, <3>1, <3>3 DEF ElfLoad
    <3> QED BY <3>2, <3>3
  <2>2. CASE FlatLoad
    <3>1. wr' = ZonePages
      BY <2>2 DEF FlatLoad, paging_reset_user_zone
    <3>2. KernelStore(LoadedFlat(cmd.image), ZonePages, AfterFlat)
      BY <2>2, <3>1 DEF FlatLoad
    <3>3. AfterFlat \in {"args", "loaded"}
      BY DEF AfterFlat
    <3> QED BY <2>2, <3>1, <3>2, <3>3, StoreGoesThrough DEF FlatLoad
  <2> QED BY <2>1, <2>2
<1> QED BY <1>1 DEF CtlInv, ControlInv, VerdictInv, PermInv, Places, faultVars, ctxVars, obsVars

LEMMA ArgsEffect ==
  ASSUME CtlInv, BuildArgs
  PROVE  /\ pc = "args" /\ pc' = IF elf_validate(cmd.image) THEN "protect" ELSE "enter"
         /\ mem' = [c \in Cells |-> IF c \in {ArgCell} \ Rom
                                    THEN args_build(cmd.line) ELSE mem[c]]
         /\ wr = ZonePages
         /\ UNCHANGED <<cmd, wr, faultVars, ctxVars, procVars, obsVars>>
<1> DEFINE new == [c \in {ArgCell} |-> args_build(cmd.line)]
<1>1. pc = "args" /\ wr = ZonePages
  BY DEF BuildArgs, CtlInv, PermInv
<1>2. KernelStore(new, ZonePages, IF elf_validate(cmd.image) THEN "protect" ELSE "enter")
  BY <1>1 DEF BuildArgs
<1>3. DOMAIN new = {ArgCell} /\ \A c \in {ArgCell} : new[c] = args_build(cmd.line)
  OBVIOUS
<1> HIDE DEF new
<1>4. /\ pc' = IF elf_validate(cmd.image) THEN "protect" ELSE "enter"
      /\ UNCHANGED faultVars
      /\ mem' = [c \in Cells |-> IF c \in DOMAIN new \ Rom THEN new[c] ELSE mem[c]]
  BY <1>2, StoreGoesThrough DEF Stored
<1> QED BY <1>1, <1>3, <1>4 DEF BuildArgs

(* The steps that only print.                                              *)
LEMMA PrintingCtl == ASSUME CtlInv, Announce \/ LeaveUser \/ Recovered PROVE CtlInv'
<1>1. /\ pc \in {"loaded", "refused", "verdict", "recovered"}
      /\ UNCHANGED <<wr, fctx, kctx, ended>>
  BY DEF Announce, LeaveUser, Recovered, ctxVars, obsVars
<1>2. armed = FALSE /\ faulted \in BOOLEAN /\ halted = FALSE
  BY <1>1 DEF CtlInv, ControlInv, Announce, LeaveUser, Recovered
<1>3. CASE Announce \/ Recovered
  <2>1. report' = report
    BY <1>3 DEF Announce, Recovered, obsVars
  <2>2. (pc' = (IF pc = "recovered" THEN "disarm" ELSE IF pc = "loaded" THEN "args" ELSE "finish")
         /\ UNCHANGED faultVars) \/ Stuck
    BY <1>2, <1>3, UnarmedPrint DEF Announce, Recovered
  <2>3. CASE /\ pc' = (IF pc = "recovered" THEN "disarm" ELSE IF pc = "loaded" THEN "args" ELSE "finish")
             /\ UNCHANGED faultVars
    <3>1. pc # "verdict"
      BY <1>3 DEF Announce, Recovered
    <3> QED BY <1>1, <2>1, <2>3, <3>1
            DEF CtlInv, ControlInv, VerdictInv, PermInv, Places, faultVars
  <2> QED BY <1>1, <2>1, <2>2, <2>3, StuckCtl
<1>4. CASE LeaveUser
  <2>1. /\ pc = "verdict"
        /\ report' = IF halted' THEN report ELSE IF faulted THEN "fault" ELSE "exit"
    BY <1>4 DEF LeaveUser
  <2>2. (pc' \in {"finish", "shell"} /\ UNCHANGED faultVars) \/ Stuck
    BY <1>2, <1>4, UnarmedPrint DEF LeaveUser
  <2>3. CASE pc' \in {"finish", "shell"} /\ UNCHANGED faultVars
    <3>1. report' = IF faulted THEN "fault" ELSE "exit"
      BY <1>2, <2>1, <2>3 DEF faultVars
    <3>2. report' = ended'
      BY <1>1, <2>1, <3>1 DEF CtlInv, VerdictInv
    <3> QED BY <1>1, <1>2, <2>3, <3>2
            DEF CtlInv, ControlInv, VerdictInv, PermInv, Places, faultVars
  <2>4. CASE Stuck
    <3>1. report' = report
      BY <2>1, <2>4 DEF Stuck
    <3> QED BY <1>1, <2>4, <3>1, StuckCtl
  <2> QED BY <2>2, <2>3, <2>4
<1> QED BY <1>3, <1>4

LEMMA KernelCtl == ASSUME CtlInv, Kernel PROVE CtlInv'
<1> USE DEF CtlInv, ControlInv, VerdictInv, PermInv, Places
<1>1. CASE ElfLoad \/ FlatLoad
  BY <1>1, LoadCtl
<1>2. CASE BuildArgs
  <2>1. /\ pc' \in {"protect", "enter"} /\ pc = "args"
        /\ UNCHANGED <<faultVars, ctxVars, obsVars>>
    BY <1>2, ArgsEffect
  <2> QED BY <2>1 DEF faultVars, ctxVars, obsVars
<1>3. CASE Protect
  BY <1>3 DEF Protect, faultVars, ctxVars, obsVars
<1>4. CASE EnterUser
  BY <1>4 DEF EnterUser, save_context, RunContext, obsVars
<1>5. CASE fault_disarm
  <2>1. /\ pc \in {"returned", "disarm"} /\ armed' = FALSE
        /\ pc' = IF pc = "returned" THEN "verdict" ELSE "shell"
        /\ UNCHANGED <<faulted, halted, intr, fctx, kctx, ended, report>>
    BY <1>5 DEF fault_disarm, ctxVars, obsVars
  <2>2. CASE pc = "returned"
    BY <2>1, <2>2
  <2>3. CASE pc = "disarm"
    BY <2>1, <2>3
  <2> QED BY <2>1, <2>2, <2>3
<1>6. CASE Finish
  BY <1>6 DEF Finish, faultVars, ctxVars, obsVars
<1>7. CASE Arm
  BY <1>7 DEF Arm, save_context, CommandContext, obsVars
<1>8. CASE Probe
  <2>1. /\ armed = TRUE /\ fctx.frame = "command" /\ fctx.eflags = TRUE /\ pc = "probe"
        /\ UNCHANGED <<wr, fctx, kctx, report, ended>>
    BY <1>8 DEF Probe, CommandContext, ctxVars, obsVars
  <2>2. CASE Stuck
    BY <2>1, <2>2, StuckCtl
  <2>3. CASE restore_context(fctx) /\ armed' = FALSE /\ faulted' = TRUE /\ halted' = FALSE
    <3>1. pc' = "recovered" /\ intr' = TRUE
      BY <2>1, <2>3 DEF restore_context, Resumed
    <3> QED BY <2>1, <2>3, <3>1
  <2> QED BY <1>8, <2>1, <2>2, <2>3, ArmedFault DEF Probe
<1>9. CASE Announce \/ LeaveUser \/ Recovered
  BY <1>9, PrintingCtl
<1>10. CASE Halt
  BY <1>10 DEF Halt, vars, faultVars, ctxVars, obsVars
<1> QED BY <1>1, <1>2, <1>3, <1>4, <1>5, <1>6, <1>7, <1>8, <1>9, <1>10 DEF Kernel

(* A step of the program goes on in ring 3, or ends it: by SYS_EXIT, or by *)
(* a fault of its own or of the kernel on its behalf, or the kernel with   *)
(* it.                                                                     *)
Outcome ==
  /\ pc = "ring3" /\ UNCHANGED <<wr, cmd, ctxVars, report>>
  /\ \/ pc' = "ring3" /\ UNCHANGED <<faultVars, ended>>
     \/ /\ pc' = "returned" /\ armed' = FALSE /\ faulted' = TRUE
        /\ halted' = FALSE /\ intr' = TRUE /\ ended' = "fault"
     \/ /\ pc' = "returned" /\ UNCHANGED <<armed, faulted, halted>>
        /\ intr' = TRUE /\ ended' = "exit"
     \/ Stuck

LEMMA ProgramEffect == ASSUME CtlInv, Program PROVE Outcome
<1>1. ASSUME NEW c \in Stores, Store(c) PROVE Outcome
  BY <1>1, FaultReturns DEF Store, InRing3, Outcome
<1>2. CASE SysExit
  BY <1>2 DEF SysExit, InRing3, restore_context, Resumed, CtlInv, ControlInv, RunContext, Outcome
<1>3. CASE \/ \E p, b \in Pointers, n \in Lengths : SysFwrite(p, b, n)
           \/ \E n \in Lengths : SysSbrk(n)
  BY <1>3 DEF SysFwrite, SysSbrk, InRing3, obsVars, Outcome
<1>4. ASSUME NEW new, KernelStore(new, wr, "ring3"), pc = "ring3"
      PROVE  \/ pc' = "ring3" /\ UNCHANGED faultVars
             \/ /\ pc' = "returned" /\ armed' = FALSE /\ faulted' = TRUE
                /\ halted' = FALSE /\ intr' = TRUE
             \/ Stuck
  BY <1>4, FaultReturns DEF KernelStore
<1>5. ASSUME NEW p \in Pointers, NEW b \in Pointers, NEW n \in Lengths, SysFread(p, b, n)
      PROVE  Outcome
  BY <1>4, <1>5 DEF SysFread, InRing3, Outcome
<1>6. ASSUME NEW p \in Pointers, SysWrite(p) PROVE Outcome
  <2>1. /\ pc = "ring3" /\ UNCHANGED <<wr, cmd, ctxVars, report>>
        /\ ended' = IF pc' = "ring3" THEN ended ELSE "fault"
    BY <1>6 DEF SysWrite, InRing3
  <2>2. kprint("ring3") \/ UNCHANGED <<pc, faultVars>>
    BY <1>6 DEF SysWrite
  <2>3. \/ pc' = "ring3" /\ UNCHANGED faultVars
        \/ /\ pc' = "returned" /\ armed' = FALSE /\ faulted' = TRUE
           /\ halted' = FALSE /\ intr' = TRUE
        \/ Stuck
    BY <1>4, <2>1, <2>2 DEF kprint
  <2> QED BY <2>1, <2>3 DEF Outcome
<1> QED BY <1>1, <1>2, <1>3, <1>5, <1>6 DEF Program

LEMMA ProgramCtl == ASSUME CtlInv, Program PROVE CtlInv'
<1>1. /\ pc = "ring3" /\ fctx' = fctx /\ kctx' = kctx /\ report' = report /\ wr' = wr
      /\ Outcome
  BY ProgramEffect DEF ctxVars, Outcome
<1>2. CASE pc' = "ring3" /\ UNCHANGED <<faultVars, ended>>
  BY <1>1, <1>2 DEF CtlInv, ControlInv, VerdictInv, PermInv, Places, faultVars
<1>3. CASE /\ pc' = "returned" /\ armed' = FALSE /\ faulted' = TRUE
           /\ halted' = FALSE /\ intr' = TRUE /\ ended' = "fault"
  BY <1>1, <1>3 DEF CtlInv, ControlInv, VerdictInv, PermInv, Places
<1>4. CASE /\ pc' = "returned" /\ UNCHANGED <<armed, faulted, halted>>
           /\ intr' = TRUE /\ ended' = "exit"
  <2>1. ~faulted /\ faulted' = faulted
    BY <1>1, <1>4 DEF CtlInv, VerdictInv
  <2>2. ~faulted'
    BY <2>1, Zenon
  <2>3. faulted' \in BOOLEAN /\ armed' \in BOOLEAN /\ halted' \in BOOLEAN
    BY <1>4 DEF CtlInv, ControlInv
  <2> QED BY <1>1, <1>4, <2>2, <2>3 DEF CtlInv, ControlInv, VerdictInv, PermInv, Places
<1>5. CASE Stuck
  BY <1>1, <1>5, StuckCtl
<1> QED BY <1>1, <1>2, <1>3, <1>4, <1>5 DEF Outcome

LEMMA NextCtl == CtlInv /\ [Next]_vars => CtlInv'
<1> SUFFICES ASSUME CtlInv, [Next]_vars PROVE CtlInv'
  OBVIOUS
<1>1. CASE UNCHANGED vars
  BY <1>1 DEF vars, faultVars, ctxVars, obsVars, CtlInv, ControlInv, VerdictInv, PermInv
<1> QED BY <1>1, CommandCtl, KernelCtl, ProgramCtl DEF Next

LEMMA Control == Spec => []CtlInv
BY InitCtl, NextCtl, PTL DEF Spec

(* The shell and every program run with interrupts on, whichever way the   *)
(* last one came back.                                                     *)
THEOREM InterruptsComeBack == Spec => []InterruptsOn
<1>1. CtlInv => InterruptsOn
  BY DEF CtlInv, ControlInv, InterruptsOn
<1> QED BY <1>1, Control, PTL

(* Neither recovery nor SYS_EXIT ever jumps into a frame that has gone.    *)
THEOREM FramesLive == Spec => []RecoveryLive
<1>1. CtlInv => RecoveryLive
  BY DEF CtlInv, ControlInv, RecoveryLive, FrameLive, RunContext, CommandContext
<1> QED BY <1>1, Control, PTL

(* What is reported of a program is how it ended.                          *)
THEOREM ReportsTrue == Spec => []ReportTrue
<1>1. CtlInv => ReportTrue
  BY DEF CtlInv, VerdictInv, ReportTrue
<1> QED BY <1>1, Control, PTL

-----------------------------------------------------------------------------
(* Arithmetic.                                                             *)
LEMMA ModSmall == \A n \in Nat \ {0} : \A x \in 0..(n - 1) : x % n = x
OBVIOUS

LEMMA SizeTypes ==
  /\ Word \in Nat \ {0} /\ PageCells \in Nat \ {0}
  /\ ZoneStart \in Nat /\ ZoneEnd \in Nat /\ StackTop \in Nat
  /\ HeapBase \in Nat /\ HeapEnd \in Nat
  /\ 0 < ZoneStart /\ ZoneStart < HeapBase /\ HeapBase < HeapEnd
  /\ HeapEnd < StackTop /\ StackTop < ZoneEnd /\ ZoneEnd < Word
BY ExecAssumption

(* A range that ends within the address space does not wrap.               *)
LEMMA SpanPlain ==
  ASSUME NEW a \in Nat, NEW n \in Nat, a + n <= Word
  PROVE  Span(a, n) = a..(a + n - 1)
<1>1. \A k \in 0..(n - 1) : (a + k) % Word = a + k
  BY SizeTypes, ModSmall
<1>2. \A c \in a..(a + n - 1) : c - a \in 0..(n - 1) /\ a + (c - a) = c
  OBVIOUS
<1>3. Span(a, n) = {a + k : k \in 0..(n - 1)}
  BY <1>1 DEF Span
<1> QED BY <1>2, <1>3

LEMMA DivDefined ==
  ASSUME NEW p \in Nat \ {0}, NEW x \in Nat
  PROVE  /\ x \div p \in Nat
         /\ p * (x \div p) <= x /\ x < p * (x \div p) + p
OBVIOUS

LEMMA DivMonotone ==
  ASSUME NEW p \in Nat \ {0}, NEW x \in Nat, NEW y \in Nat, x <= y
  PROVE  x \div p <= y \div p
<1> DEFINE q == x \div p
<1> DEFINE r == y \div p
<1>1. q \in Nat /\ r \in Nat /\ p * q <= x /\ y < p * r + p
  BY DivDefined
<1> HIDE DEF q, r
<1>2. ASSUME q > r PROVE FALSE
  <2>1. PICK d \in Nat : q = r + 1 + d
    <3>1. q - r - 1 \in Nat /\ q = r + 1 + (q - r - 1)
      BY <1>1, <1>2
    <3> QED BY <3>1
  <2>2. p * q = p * r + p + p * d /\ p * d \in Nat
    BY <1>1, <2>1
  <2>3. p * r \in Nat /\ p * q \in Nat
    BY <1>1
  <2> QED BY <1>1, <2>2, <2>3
<1>3. q <= r
  BY <1>1, <1>2
<1> QED BY <1>3 DEF q, r

LEMMA DivNext ==
  ASSUME NEW p \in Nat \ {0}, NEW x \in Nat
  PROVE  (x + p) \div p = (x \div p) + 1
OBVIOUS

(* A set of numbers with an upper bound has a greatest element.            *)
LEMMA Greatest ==
  ASSUME NEW n \in Nat, NEW T \in SUBSET (1..n), T # {}
  PROVE  \E m \in T : \A t \in T : t <= m
<1> DEFINE D == {n - t : t \in T}
<1>1. D \subseteq Nat /\ D # {}
  <2>1. \A t \in T : n - t \in Nat
    OBVIOUS
  <2>2. PICK t0 \in T : TRUE
    OBVIOUS
  <2>3. n - t0 \in D
    BY <2>2
  <2> QED BY <2>1, <2>3
<1>2. \E x \in D : \A y \in D : ~(<<y, x>> \in OpToRel(<, Nat))
  BY <1>1, NatLessThanWellFounded, WFMin
<1>3. PICK x \in D : \A y \in D : ~(y < x)
  BY <1>1, <1>2 DEF OpToRel
<1>4. PICK m \in T : x = n - m
  OBVIOUS
<1>5. \A t \in T : ~(n - t < n - m)
  BY <1>3, <1>4
<1>6. \A t \in T : t <= m
  BY <1>5
<1> QED BY <1>6

-----------------------------------------------------------------------------
(* Where an image goes.                                                    *)
Files == Images \cup {Bundled}

LEMMA HeaderTypes ==
  ASSUME NEW f \in Files, NEW i \in Segments(f)
  PROVE  /\ f.ph[i].vaddr \in Nat /\ f.ph[i].memsz \in Nat
         /\ f.ph[i].filesz \in Nat /\ f.ph[i].offset \in Nat
BY ImagesAssumption DEF Files, Segments

(* An image that elf_load accepts lies in the window below StackTop.       *)
LEMMA SegmentInWindow ==
  ASSUME NEW f \in Files, Loadable(f), NEW i \in Segments(f)
  PROVE  /\ SegCells(f, i) = f.ph[i].vaddr..(f.ph[i].vaddr + f.ph[i].memsz - 1)
         /\ SegCells(f, i) \subseteq Zone
<1>1. InWindow(f, i)
  BY DEF Loadable
<1> DEFINE a == f.ph[i].vaddr
<1> DEFINE n == f.ph[i].memsz
<1>2. a \in Nat /\ n \in Nat
  BY HeaderTypes
<1>3. a >= ZoneStart /\ a + n <= StackTop
  BY <1>1 DEF InWindow
<1> HIDE DEF a, n
<1>4. Span(a, n) = a..(a + n - 1)
  BY <1>2, <1>3, SpanPlain, SizeTypes
<1>5. a..(a + n - 1) \subseteq Zone
  BY <1>2, <1>3, SizeTypes DEF Zone
<1> QED BY <1>4, <1>5 DEF SegCells, a, n

LEMMA FlatCells ==
  ASSUME NEW f \in Files, ~elf_validate(f)
  PROVE  DOMAIN Loaded(f) \subseteq ZoneStart..(HeapBase - 1)
<1>1. f.size \in Nat /\ ZoneStart + f.size <= HeapBase
  BY ImagesAssumption DEF Files
<1>2. Span(ZoneStart, f.size) = ZoneStart..(ZoneStart + f.size - 1)
  BY <1>1, SpanPlain, SizeTypes
<1>3. DOMAIN Loaded(f) = Span(ZoneStart, f.size)
  BY DEF Loaded, LoadedFlat
<1> QED BY <1>1, <1>2, <1>3, SizeTypes

LEMMA ElfCells ==
  ASSUME NEW f, elf_validate(f)
  PROVE  DOMAIN Loaded(f) = UNION {SegCells(f, i) : i \in Segments(f)}
<1>1. Loaded(f) = LoadedElf(f)
  BY DEF Loaded
<1>2. DOMAIN LoadedElf(f) = UNION {SegCells(f, i) : i \in Segments(f)}
  BY DEF LoadedElf
<1> QED BY <1>1, <1>2

LEMMA ImageInZone ==
  ASSUME NEW f \in Files, elf_validate(f) => Loadable(f)
  PROVE  DOMAIN Loaded(f) \subseteq Zone
<1>1. CASE elf_validate(f)
  <2>1. \A i \in Segments(f) : SegCells(f, i) \subseteq Zone
    BY <1>1, SegmentInWindow
  <2>2. DOMAIN Loaded(f) = UNION {SegCells(f, i) : i \in Segments(f)}
    BY <1>1, ElfCells
  <2> QED BY <2>1, <2>2
<1>2. CASE ~elf_validate(f)
  <2>1. DOMAIN Loaded(f) \subseteq ZoneStart..(HeapBase - 1)
    BY <1>2, FlatCells
  <2>2. ZoneStart..(HeapBase - 1) \subseteq Zone
    BY SizeTypes DEF Zone
  <2> QED BY <2>1, <2>2
<1> QED BY <1>1, <1>2

(* The .bss of an image is loaded as zeros: of the segments that cover a   *)
(* cell one is the last.                                                   *)
LEMMA BssIsZero ==
  ASSUME NEW f \in Files, elf_validate(f), Loadable(f), NEW c \in Bss(f)
  PROVE  c \in DOMAIN Loaded(f) /\ Loaded(f)[c] = Zeros
<1> DEFINE T == {i \in Segments(f) : c \in SegCells(f, i)}
<1>1. T # {}
  BY DEF Bss
<1>2. Len(f.ph) \in Nat /\ T \subseteq 1..Len(f.ph)
  BY ImagesAssumption DEF Files, Segments
<1>3. \E m \in T : \A t \in T : t <= m
  BY <1>1, <1>2, Greatest
<1> DEFINE last == CHOOSE i \in Segments(f) :
                     /\ c \in SegCells(f, i)
                     /\ \A j \in Segments(f) : c \in SegCells(f, j) => j <= i
<1>4. last \in Segments(f) /\ c \in SegCells(f, last)
  <2>1. \E i \in Segments(f) :
          /\ c \in SegCells(f, i)
          /\ \A j \in Segments(f) : c \in SegCells(f, j) => j <= i
    BY <1>3
  <2> QED BY <2>1
<1>5. c \in UNION {SegCells(f, i) : i \in Segments(f)}
  BY DEF Bss
<1>6. c \in DOMAIN Loaded(f) /\ Loaded(f)[c] = SegValue(f, last, c)
  <2>1. LoadedElf(f)[c] = SegValue(f, last, c)
    BY <1>5 DEF LoadedElf
  <2>2. Loaded(f) = LoadedElf(f)
    BY DEF Loaded
  <2> QED BY <1>5, <2>1, <2>2, ElfCells
<1> HIDE DEF last, T
<1> DEFINE a == f.ph[last].vaddr
<1> DEFINE n == f.ph[last].memsz
<1> DEFINE z == f.ph[last].filesz
<1>7. a \in Nat /\ n \in Nat /\ z \in Nat
  BY <1>4, HeaderTypes
<1>8. c \in a..(a + n - 1) /\ c \in Zone
  BY <1>4, SegmentInWindow
<1>9. c \notin Span(a, z)
  <2>1. c \notin UNION {Span(f.ph[i].vaddr, f.ph[i].filesz) : i \in Segments(f)}
    BY DEF Bss
  <2>2. \A i \in Segments(f) : c \notin Span(f.ph[i].vaddr, f.ph[i].filesz)
    BY <2>1
  <2> QED BY <1>4, <2>2
<1> HIDE DEF a, n, z
<1>10. (c - a) % Word = c - a /\ c - a \in Nat
  BY <1>7, <1>8, ModSmall, SizeTypes DEF Zone
<1>11. c % Word = c
  BY <1>8, ModSmall, SizeTypes DEF Zone
<1>12. ~(c - a < z)
  <2> SUFFICES ASSUME c - a < z PROVE FALSE
    OBVIOUS
  <2>1. c - a \in 0..(z - 1) /\ a + (c - a) = c
    BY <1>7, <1>8, <1>10
  <2>2. (a + (c - a)) % Word \in Span(a, z)
    BY <2>1 DEF Span
  <2> QED BY <1>9, <1>11, <2>1, <2>2
<1>13. SegValue(f, last, c) = Zeros
  BY <1>10, <1>12 DEF SegValue, a, z
<1> QED BY <1>6, <1>13

(* Every page that holds a cell of a read-only segment is protected, the   *)
(* last and partly used one included.                                      *)
LEMMA SegmentPages ==
  ASSUME NEW f \in Files, Loadable(f), NEW i \in Segments(f), NEW c \in SegCells(f, i)
  PROVE  PageOf(c) \in PagesOf(f.ph[i].vaddr, f.ph[i].memsz)
<1> DEFINE a == f.ph[i].vaddr
<1> DEFINE n == f.ph[i].memsz
<1>1. a \in Nat /\ n \in Nat
  BY HeaderTypes
<1>2. c \in a..(a + n - 1) /\ c \in Zone
  BY SegmentInWindow
<1> HIDE DEF a, n
<1>3. c \in Nat /\ a <= c /\ c + PageCells <= a + n + PageCells - 1
      /\ a + n + PageCells - 1 \in Nat /\ c + PageCells \in Nat
  BY <1>1, <1>2, SizeTypes
<1>4. a \div PageCells <= c \div PageCells
  BY <1>1, <1>3, SizeTypes, DivMonotone
<1>5. (c + PageCells) \div PageCells <= (a + n + PageCells - 1) \div PageCells
  BY <1>1, <1>3, SizeTypes, DivMonotone
<1>6. (c + PageCells) \div PageCells = c \div PageCells + 1
  BY <1>3, SizeTypes, DivNext
<1>7. /\ c \div PageCells \in Nat /\ a \div PageCells \in Nat
      /\ (a + n + PageCells - 1) \div PageCells \in Nat
  BY <1>1, <1>3, SizeTypes, DivDefined
<1>8. /\ c \div PageCells >= a \div PageCells
      /\ c \div PageCells < (a + n + PageCells - 1) \div PageCells
  BY <1>4, <1>5, <1>6, <1>7
<1>9. PageOf(c) \in ZonePages
  BY <1>2 DEF ZonePages
<1> QED BY <1>8, <1>9 DEF PagesOf, PageOf, a, n

-----------------------------------------------------------------------------
(* The image of the command, and the path it takes through exec.           *)
ImageInv ==
  /\ cmd.image \in Files
  /\ pc = "elf" => IsElf
  /\ pc = "flat" => ~IsElf
  /\ pc = "protect" => IsElf
  /\ pc \in {"loaded", "args", "protect", "enter", "ring3"} /\ IsElf => Loadable(cmd.image)

MemInv == /\ mem = [c \in Cells |-> mem[c]]
          /\ strayed = FALSE
          /\ \A c \in Cells \ Zone : mem[c] = KernelData
          /\ \A c \in Rom : mem[c] = Bios

(* From the load on, the memory of the zone holds the image, and after     *)
(* args_build the arguments.                                               *)
FreshInv ==
  /\ pc \in {"loaded", "args"} =>
       \A c \in DOMAIN Loaded(cmd.image) \cap Ram : mem[c] = Loaded(cmd.image)[c]
  /\ pc \in {"protect", "enter"} =>
       /\ ArgCell \in Ram => mem[ArgCell] = args_build(cmd.line)
       /\ \A c \in DOMAIN Loaded(cmd.image) \cap Ram :
            c # ArgCell => mem[c] = Loaded(cmd.image)[c]

(* The cells that elf_protect promises to keep.                            *)
ReadOnlyCells == IF IsElf THEN UNION {SegCells(cmd.image, i) : i \in ReadOnlySegments(cmd.image)}
                          ELSE {}

LockInv == Running => \A c \in ReadOnlyCells : PageOf(c) \notin wr

KeptInv == Running => \A c \in ReadOnlyCells \cap Ram :
                        c # ArgCell => mem[c] = Loaded(cmd.image)[c]

DataInv == ImageInv /\ MemInv /\ FreshInv /\ LockInv /\ KeptInv

LEMMA Layout ==
  /\ ArgCell \in Zone /\ Zone \subseteq Cells
  /\ Video \subseteq Zone /\ Rom \subseteq Zone /\ Video \cap Rom = {}
  /\ Ram \subseteq Cells /\ Ram \cap Video = {} /\ Ram \cap Rom = {}
<1>1. ArgCell \in Zone /\ Zone \subseteq Cells
  BY SizeTypes DEF ArgCell, Zone, Cells
<1>2. Video \subseteq Zone /\ Rom \subseteq Zone \ Video
  BY HardwareAssumption
<1> QED BY <1>1, <1>2 DEF Ram

(* What steps do to memory: a step changes at most the screen, or also     *)
(* cells of writable pages.                                                *)
OnlyScreen == /\ mem' = [c \in Cells |-> mem'[c]]
              /\ \A c \in Cells \ Video : mem'[c] = mem[c]

OnlyWritable == /\ mem' = [c \in Cells |-> mem'[c]]
                /\ \A c \in Cells \ Video :
                     mem'[c] # mem[c] => c \in Zone \ Rom /\ PageOf(c) \in wr

LEMMA HandlerStores ==
  ASSUME NEW m, NEW w, m = [c \in Cells |-> m[c]], isr_handler(m, w)
  PROVE  /\ mem' = [c \in Cells |-> mem'[c]]
         /\ \A c \in Cells \ Video : mem'[c] = m[c]
<1>1. CASE Obeys(Video, w)
  <2>1. PICK new \in Shown(m) : mem' = Stored(m, new, Video)
    BY <1>1 DEF isr_handler
  <2> QED BY <2>1 DEF Stored
<1>2. CASE ~Obeys(Video, w)
  BY <1>2 DEF isr_handler
<1> QED BY <1>1, <1>2

LEMMA StoreEffect ==
  ASSUME MemInv, NEW new, NEW w, NEW next, KernelStore(new, w, next)
  PROVE  /\ mem' = [c \in Cells |-> mem'[c]]
         /\ \A c \in Cells \ Video :
              mem'[c] # mem[c] => c \in DOMAIN new /\ c \notin Rom /\ Obeys({c}, w)
<1>1. CASE Obeys(DOMAIN new, w)
  <2>1. mem' = [c \in Cells |-> IF c \in DOMAIN new \ Rom THEN new[c] ELSE mem[c]]
    BY <1>1 DEF KernelStore, Stored
  <2>2. \A c \in DOMAIN new : Obeys({c}, w)
    BY <1>1 DEF Obeys
  <2> QED BY <2>1, <2>2
<1>2. CASE ~Obeys(DOMAIN new, w)
  <2> DEFINE m == Stored(mem, new, Upto(new, w))
  <2>1. isr_handler(m, w)
    BY <1>2 DEF KernelStore
  <2>2. /\ m = [c \in Cells |-> m[c]]
        /\ \A c \in Cells : m[c] # mem[c] => c \in Upto(new, w) /\ c \notin Rom
    BY DEF Stored
  <2> HIDE DEF m
  <2>3. /\ mem' = [c \in Cells |-> mem'[c]]
        /\ \A c \in Cells \ Video : mem'[c] = m[c]
    BY <2>1, <2>2, HandlerStores
  <2>4. Cells \subseteq Int
    BY SizeTypes DEF Cells
  <2>5. \A c \in Cells : c \in Upto(new, w) => c \in DOMAIN new /\ Obeys({c}, w)
    BY <2>4 DEF Upto
  <2> QED BY <2>2, <2>3, <2>5
<1> QED BY <1>1, <1>2

LEMMA PrintEffect ==
  ASSUME MemInv, NEW new, DOMAIN new = Video, NEW w, NEW next, KernelStore(new, w, next)
  PROVE  OnlyScreen
BY StoreEffect DEF OnlyScreen

LEMMA KprintEffect == ASSUME MemInv, NEW next, kprint(next) PROVE OnlyScreen
<1>1. PICK new \in Shown(mem) : KernelStore(new, wr, next)
  BY DEF kprint
<1>2. DOMAIN new = Video
  BY DEF Shown
<1> QED BY <1>1, <1>2, PrintEffect

(* A string that ends within the zone is read within the zone.             *)
LEMMA StringInZone ==
  ASSUME NEW p \in Pointers, user_string_ok(p)
  PROVE  StringCells(p) \subseteq Zone
<1>1. p \in Nat /\ p >= ZoneStart
  BY ImagesAssumption DEF user_string_ok, in_user_zone
<1>2. PICK q \in p..(ZoneEnd - 1) : HasNul(mem[q])
  BY DEF user_string_ok
<1>3. ASSUME NEW c \in StringCells(p) PROVE c \in Zone
  <2>1. c \in p..(Word - 1) /\ \A r \in p..(c - 1) : ~HasNul(mem[r])
    BY <1>3 DEF StringCells
  <2>2. ~(q \in p..(c - 1))
    BY <1>2, <2>1
  <2>3. c \in Int /\ q \in Int /\ p <= c /\ c <= q /\ q <= ZoneEnd - 1
    BY <1>1, <1>2, <2>1, <2>2, SizeTypes
  <2> QED BY <1>1, <2>3, SizeTypes DEF Zone
<1> QED BY <1>3

(* So is one whose terminator the print itself overwrites: the ROM above   *)
(* the screen has another, which no store can change.                      *)
LEMMA PrintInZone ==
  ASSUME MemInv, NEW p \in Pointers, user_string_ok(p)
  PROVE  PrintedCells(p) \subseteq Zone
<1>1. p \in Nat /\ p >= ZoneStart
  BY ImagesAssumption DEF user_string_ok, in_user_zone
<1>2. PICK q \in p..(ZoneEnd - 1) : HasNul(mem[q])
  BY DEF user_string_ok
<1>3. PICK r \in p..(ZoneEnd - 1) : HasNul(mem[r]) /\ r \notin Video
  <2>1. CASE q \notin Video
    BY <1>2, <2>1
  <2>2. CASE q \in Video
    <3>1. PICK r \in Rom : \A c \in Video : c < r
      BY HardwareAssumption
    <3>2. r \in Zone /\ r \notin Video /\ q < r /\ mem[r] = Bios
      BY <2>2, <3>1, Layout DEF MemInv
    <3>3. r \in p..(ZoneEnd - 1)
      BY <1>1, <1>2, <3>2, SizeTypes DEF Zone
    <3>4. HasNul(mem[r])
      BY <3>2 DEF HasNul, Bios
    <3> QED BY <3>2, <3>3, <3>4
  <2> QED BY <2>1, <2>2
<1>4. ASSUME NEW c \in PrintedCells(p) PROVE c \in Zone
  <2>1. c \in p..(Word - 1) /\ \A d \in p..(c - 1) : d \in Video \/ ~HasNul(mem[d])
    BY <1>4 DEF PrintedCells
  <2>2. ~(r \in p..(c - 1))
    BY <1>3, <2>1
  <2>3. c \in Int /\ r \in Int /\ p <= c /\ c <= r /\ r <= ZoneEnd - 1
    BY <1>1, <1>3, <2>1, <2>2, SizeTypes
  <2> QED BY <1>1, <2>3, SizeTypes DEF Zone
<1> QED BY <1>4

LEMMA BufferInZone ==
  ASSUME NEW b \in Pointers, NEW len \in Lengths, in_user_zone(b, len), NEW n \in 0..len
  PROVE  Span(b, n) \subseteq Zone
<1>1. b \in Nat /\ n \in Nat /\ len \in Nat /\ n <= len
  BY ImagesAssumption
<1>2. b >= ZoneStart /\ b + len <= ZoneEnd
  BY DEF in_user_zone
<1>3. Span(b, n) = b..(b + n - 1)
  BY <1>1, <1>2, SpanPlain, SizeTypes
<1> QED BY <1>1, <1>2, <1>3, SizeTypes DEF Zone

(* A step of the program changes the screen and cells of writable pages.   *)
LEMMA ProgramStores ==
  ASSUME MemInv, Program
  PROVE  strayed' = FALSE /\ OnlyWritable
<1>1. strayed = FALSE /\ mem = [c \in Cells |-> mem[c]] /\ Zone \subseteq Cells
  BY Layout DEF MemInv
<1>2. ASSUME mem' = mem \/ OnlyScreen PROVE OnlyWritable
  BY <1>1, <1>2 DEF OnlyScreen, OnlyWritable
<1>3. ASSUME NEW cells, cells \subseteq Zone, touch(cells) PROVE strayed' = FALSE
  <2>1. strayed' = (strayed \/ ~(cells \subseteq Zone))
    BY <1>3 DEF touch
  <2> QED BY ONLY <1>1, <1>3, <2>1, Zenon
<1>4. ASSUME NEW c \in Stores, Store(c) PROVE strayed' = FALSE /\ OnlyWritable
  <2>1. strayed' = FALSE
    BY <1>1, <1>4 DEF Store
  <2>2. CASE c \in Zone /\ PageOf(c) \in wr
    <3>1. mem' = Stored(mem, [d \in {c} |-> Data], {c})
      BY <1>4, <2>2 DEF Store
    <3> QED BY <2>1, <2>2, <3>1 DEF Stored, OnlyWritable
  <2>3. CASE ~(c \in Zone /\ PageOf(c) \in wr)
    <3>1. isr_handler(mem, wr)
      BY <1>4, <2>3 DEF Store
    <3>2. OnlyScreen
      BY <1>1, <3>1, HandlerStores DEF OnlyScreen
    <3> QED BY <1>2, <2>1, <3>2
  <2> QED BY <2>2, <2>3
<1>5. CASE SysExit \/ \E n \in Lengths : SysSbrk(n)
  BY <1>1, <1>2, <1>5 DEF SysExit, SysSbrk, obsVars
<1>6. ASSUME NEW p \in Pointers, SysWrite(p) PROVE strayed' = FALSE /\ OnlyWritable
  <2>1. CASE user_string_ok(p)
    <3>1. touch(PrintedCells(p)) /\ (kprint("ring3") \/ mem' = mem)
      BY <1>6, <2>1 DEF SysWrite
    <3> QED BY <1>2, <1>3, <2>1, <3>1, PrintInZone, KprintEffect
  <2>2. CASE ~user_string_ok(p)
    BY <1>1, <1>2, <1>6, <2>2 DEF SysWrite
  <2> QED BY <2>1, <2>2
<1>7. ASSUME NEW p \in Pointers, NEW b \in Pointers, NEW n \in Lengths, SysFwrite(p, b, n)
      PROVE  strayed' = FALSE /\ OnlyWritable
  <2> DEFINE cells == IF user_string_ok(p) /\ in_user_zone(b, n)
                      THEN StringCells(p) \cup Span(b, n) ELSE {}
  <2>1. mem' = mem /\ touch(cells)
    BY <1>7 DEF SysFwrite
  <2>2. n \in 0..n
    BY ImagesAssumption
  <2>3. cells \subseteq Zone
    BY <2>2, StringInZone, BufferInZone
  <2> HIDE DEF cells
  <2> QED BY <1>2, <1>3, <2>1, <2>3
<1>8. ASSUME NEW p \in Pointers, NEW b \in Pointers, NEW len \in Lengths, SysFread(p, b, len)
      PROVE  strayed' = FALSE /\ OnlyWritable
  <2>1. CASE user_string_ok(p) /\ in_user_zone(b, len)
    <3>1. PICK n \in 0..len : /\ touch(StringCells(p) \cup Span(b, n))
                              /\ KernelStore([c \in Span(b, n) |-> Data], wr, "ring3")
      BY <1>8, <2>1 DEF SysFread
    <3>2. Span(b, n) \subseteq Zone /\ StringCells(p) \cup Span(b, n) \subseteq Zone
      BY <2>1, StringInZone, BufferInZone
    <3>3. strayed' = FALSE
      BY <1>3, <3>1, <3>2
    <3> DEFINE new == [c \in Span(b, n) |-> Data]
    <3>4. DOMAIN new = Span(b, n)
      OBVIOUS
    <3>5. KernelStore(new, wr, "ring3")
      BY <3>1
    <3> HIDE DEF new
    <3>6. /\ mem' = [c \in Cells |-> mem'[c]]
          /\ \A c \in Cells \ Video :
               mem'[c] # mem[c] => c \in DOMAIN new /\ c \notin Rom /\ Obeys({c}, wr)
      BY <3>5, StoreEffect
    <3>7. \A c \in Zone : Obeys({c}, wr) => PageOf(c) \in wr
      BY DEF Obeys
    <3> QED BY <3>2, <3>3, <3>4, <3>6, <3>7 DEF OnlyWritable
  <2>2. CASE ~(user_string_ok(p) /\ in_user_zone(b, len))
    BY <1>1, <1>2, <1>8, <2>2 DEF SysFread
  <2> QED BY <2>1, <2>2
<1> QED BY <1>4, <1>5, <1>6, <1>7, <1>8 DEF Program

LEMMA InitData == Init => DataInv
<1> SUFFICES ASSUME Init PROVE DataInv
  OBVIOUS
<1>1. pc = "shell" /\ cmd.image = Bundled /\ strayed = FALSE
  BY DEF Init, NoCommand
<1>2. mem = [c \in Cells |-> CASE c \in Video -> Text
                               [] c \in Rom -> Bios
                               [] c \in Zone \ (Video \cup Rom) -> Junk
                               [] c \notin Zone -> KernelData]
  BY DEF Init
<1>3. MemInv
  <2>1. mem = [c \in Cells |-> mem[c]]
    BY <1>2
  <2>2. ASSUME NEW c \in Cells \ Zone PROVE mem[c] = KernelData
    <3>1. c \notin Video /\ c \notin Rom /\ c \notin Zone
      BY Layout
    <3> QED BY <1>2, <3>1
  <2>3. ASSUME NEW c \in Rom PROVE mem[c] = Bios
    <3>1. c \in Cells /\ c \notin Video /\ c \in Zone
      BY Layout
    <3> QED BY <1>2, <3>1
  <2> QED BY <1>1, <2>1, <2>2, <2>3 DEF MemInv
<1> QED BY <1>1, <1>3 DEF DataInv, ImageInv, FreshInv, LockInv, KeptInv, Running, Files

(* What a print leaves alone.                                              *)
LEMMA ScreenMem ==
  ASSUME MemInv, mem' = mem \/ OnlyScreen, strayed' = strayed
  PROVE  MemInv' /\ \A c \in Ram : mem'[c] = mem[c]
<1>1. CASE mem' = mem
  BY <1>1 DEF MemInv
<1>2. CASE OnlyScreen
  <2>1. /\ mem' = [c \in Cells |-> mem'[c]]
        /\ \A c \in Cells \ Video : mem'[c] = mem[c]
    BY <1>2 DEF OnlyScreen
  <2>2. \A c \in Cells \ Zone : mem'[c] = KernelData
    BY <2>1, Layout DEF MemInv
  <2>3. \A c \in Rom : mem'[c] = Bios
    BY <2>1, Layout DEF MemInv
  <2>4. \A c \in Ram : mem'[c] = mem[c]
    BY <2>1, Layout
  <2>5. strayed' = FALSE
    BY DEF MemInv
  <2> QED BY <2>1, <2>2, <2>3, <2>4, <2>5 DEF MemInv
<1> QED BY <1>1, <1>2

(* A step that changes at most the screen and is not yet, or no longer, at *)
(* the program keeps what there is to keep.                                *)
LEMMA QuietData ==
  ASSUME DataInv, mem' = mem \/ OnlyScreen, strayed' = strayed, cmd'.image \in Files,
         pc' \in {"shell", "refused", "finish", "arm", "probe", "recovered", "disarm",
                  "returned", "verdict"}
  PROVE  DataInv'
<1>1. MemInv'
  BY ScreenMem DEF DataInv
<1> QED BY <1>1 DEF DataInv, ImageInv, FreshInv, LockInv, KeptInv, Running

(* So does one that stays where it is, or goes on from the announcement.   *)
LEMMA StaysData ==
  ASSUME DataInv, mem' = mem \/ OnlyScreen, strayed' = strayed, cmd' = cmd, wr' = wr,
         pc' = pc \/ (pc = "loaded" /\ pc' = "args")
  PROVE  DataInv'
<1>1. MemInv' /\ \A c \in Ram : mem'[c] = mem[c]
  BY ScreenMem DEF DataInv
<1>2. IsElf' = IsElf /\ ReadOnlyCells' = ReadOnlyCells /\ Ram' = Ram
  BY DEF ReadOnlyCells, IsElf
<1>3. ImageInv'
  BY <1>2 DEF DataInv, ImageInv
<1>4. FreshInv'
  BY <1>1 DEF DataInv, FreshInv
<1>5. LockInv' /\ KeptInv'
  BY <1>1, <1>2 DEF DataInv, LockInv, KeptInv, Running
<1> QED BY <1>1, <1>3, <1>4, <1>5 DEF DataInv

LEMMA CommandData ==
  ASSUME CtlInv, DataInv,
         (\E f \in Images, l \in Lines : Exec(f, l)) \/ User \/ FaultCommand \/ PrintOnly
  PROVE  DataInv'
<1>0. MemInv /\ Bundled \in Files
  BY DEF DataInv, Files
<1>1. ASSUME NEW f \in Images, NEW l \in Lines, Exec(f, l) PROVE DataInv'
  <2>1. /\ cmd' = [name |-> "exec", image |-> f, line |-> l]
        /\ pc' = IF elf_validate(f) THEN "elf" ELSE "flat"
        /\ mem' = mem /\ strayed' = strayed
    BY <1>1 DEF Exec, obsVars
  <2>2. cmd'.image = f /\ f \in Files
    BY <2>1 DEF Files
  <2>3. ImageInv'
    BY <2>1, <2>2 DEF ImageInv, IsElf
  <2>4. MemInv'
    BY <2>1 DEF DataInv, MemInv
  <2> QED BY <2>1, <2>3, <2>4 DEF DataInv, FreshInv, LockInv, KeptInv, Running
<1>2. CASE User
  <2>1. /\ cmd'.image = Bundled /\ pc = "shell" /\ strayed' = strayed /\ kprint("flat")
    BY <1>2 DEF User, obsVars
  <2>2. OnlyScreen
    BY <1>0, <2>1, KprintEffect
  <2>3. pc' = "flat" \/ pc' = "shell"
    BY <2>1, UnarmedPrint DEF CtlInv, ControlInv, Stuck
  <2>4. CASE pc' = "flat"
    <3>1. ImageInv'
      BY <2>1, <2>4, ImagesAssumption DEF ImageInv, IsElf, Files
    <3>2. MemInv'
      BY <1>0, <2>1, <2>2, ScreenMem
    <3> QED BY <2>4, <3>1, <3>2 DEF DataInv, FreshInv, LockInv, KeptInv, Running
  <2> QED BY <1>0, <2>1, <2>2, <2>3, <2>4, QuietData
<1>3. CASE FaultCommand
  <2>1. /\ cmd'.image = Bundled /\ pc = "shell" /\ strayed' = strayed /\ kprint("arm")
    BY <1>3 DEF FaultCommand, obsVars
  <2>2. pc' = "arm" \/ pc' = "shell"
    BY <2>1, UnarmedPrint DEF CtlInv, ControlInv, Stuck
  <2> QED BY <1>0, <2>1, <2>2, KprintEffect, QuietData
<1>4. CASE PrintOnly
  <2>1. /\ cmd' = cmd /\ pc = "shell" /\ strayed' = strayed
    BY <1>4 DEF PrintOnly, obsVars
  <2>2. PICK new \in [Video -> {Text, Zeros}] : KernelStore(new, wr, "shell")
    BY <1>4 DEF PrintOnly
  <2>3. DOMAIN new = Video
    OBVIOUS
  <2>4. OnlyScreen
    BY <1>0, <2>2, <2>3, PrintEffect
  <2>5. pc' = "shell"
    BY <2>1, <2>2, UnarmedStore DEF CtlInv, ControlInv, Stuck
  <2> QED BY <2>1, <2>4, <2>5, QuietData DEF DataInv, ImageInv
<1> QED BY <1>1, <1>2, <1>3, <1>4

(* What both ways of loading come to.                                      *)
LEMMA LoadEffect ==
  ASSUME CtlInv, ImageInv, ElfLoad \/ FlatLoad
  PROVE  /\ cmd' = cmd /\ strayed' = strayed
         /\ \/ pc' = "refused" /\ mem' = mem
            \/ /\ pc' \in {"loaded", "args"} /\ (IsElf => Loadable(cmd.image))
               /\ mem' = Stored(mem, Loaded(cmd.image), DOMAIN Loaded(cmd.image))
<1>1. CASE ElfLoad
  <2>1. IsElf /\ wr' = ZonePages /\ cmd' = cmd /\ strayed' = strayed
    BY <1>1 DEF ElfLoad, paging_reset_user_zone, ImageInv, obsVars
  <2>2. CASE Loadable(cmd.image)
    <3>1. KernelStore(LoadedElf(cmd.image), ZonePages, "loaded")
      BY <1>1, <2>1, <2>2 DEF ElfLoad
    <3>2. LoadedElf(cmd.image) = Loaded(cmd.image)
      BY <2>1 DEF Loaded, IsElf
    <3>3. KernelStore(Loaded(cmd.image), ZonePages, "loaded")
      BY <3>1, <3>2
    <3> QED BY <2>1, <2>2, <3>3, StoreGoesThrough
  <2>3. CASE ~Loadable(cmd.image)
    BY <1>1, <2>1, <2>3 DEF ElfLoad
  <2> QED BY <2>2, <2>3
<1>2. CASE FlatLoad
  <2>1. ~IsElf /\ wr' = ZonePages /\ cmd' = cmd /\ strayed' = strayed
    BY <1>2 DEF FlatLoad, paging_reset_user_zone, ImageInv, obsVars
  <2>2. KernelStore(LoadedFlat(cmd.image), ZonePages, AfterFlat)
    BY <1>2, <2>1 DEF FlatLoad
  <2>3. LoadedFlat(cmd.image) = Loaded(cmd.image)
    BY <2>1 DEF Loaded, IsElf
  <2>4. KernelStore(Loaded(cmd.image), ZonePages, AfterFlat)
    BY <2>2, <2>3
  <2>5. AfterFlat \in {"loaded", "args"}
    BY DEF AfterFlat
  <2> QED BY <2>1, <2>4, <2>5, StoreGoesThrough
<1> QED BY <1>1, <1>2

LEMMA LoadData == ASSUME CtlInv, DataInv, ElfLoad \/ FlatLoad PROVE DataInv'
<1>0. ImageInv /\ cmd.image \in Files
  BY DEF DataInv, ImageInv
<1>1. CASE pc' = "refused" /\ mem' = mem
  BY <1>0, <1>1, LoadEffect, QuietData
<1> DEFINE L == Loaded(cmd.image)
<1>2. CASE /\ pc' \in {"loaded", "args"} /\ (IsElf => Loadable(cmd.image))
           /\ mem' = Stored(mem, L, DOMAIN L)
  <2>1. cmd' = cmd /\ strayed' = strayed
    BY <1>0, LoadEffect
  <2>2. DOMAIN L \subseteq Zone
    BY <1>0, <1>2, ImageInZone DEF IsElf
  <2>3. ImageInv'
    BY <1>0, <1>2, <2>1 DEF ImageInv, IsElf
  <2> HIDE DEF L
  <2>4. mem' = [c \in Cells |-> IF c \in DOMAIN L \ Rom THEN L[c] ELSE mem[c]]
    BY <1>2 DEF Stored
  <2>5. MemInv'
    <3>1. strayed' = FALSE
      BY <2>1 DEF DataInv, MemInv
    <3>2. mem' = [c \in Cells |-> mem'[c]]
      BY <2>4
    <3>3. \A c \in Cells \ Zone : mem'[c] = KernelData
      BY <2>4, <2>2 DEF DataInv, MemInv
    <3>4. \A c \in Rom : mem'[c] = Bios
      BY <2>4, Layout DEF DataInv, MemInv
    <3> QED BY <3>1, <3>2, <3>3, <3>4 DEF MemInv
  <2>6. \A c \in DOMAIN L \cap Ram : mem'[c] = L[c]
    BY <2>4, Layout
  <2>7. FreshInv'
    BY <1>2, <2>1, <2>6 DEF FreshInv, L
  <2> QED BY <1>2, <2>3, <2>5, <2>7 DEF DataInv, LockInv, KeptInv, Running
<1> QED BY <1>0, <1>1, <1>2, LoadEffect

LEMMA ArgsData == ASSUME CtlInv, DataInv, BuildArgs PROVE DataInv'
<1>1. /\ pc = "args" /\ pc' = IF IsElf THEN "protect" ELSE "enter"
      /\ mem' = [c \in Cells |-> IF c \in {ArgCell} \ Rom
                                 THEN args_build(cmd.line) ELSE mem[c]]
      /\ cmd' = cmd /\ wr' = wr /\ strayed' = strayed
  BY ArgsEffect DEF IsElf, obsVars
<1>2. cmd.image \in Files /\ (IsElf => Loadable(cmd.image)) /\ IsElf' = IsElf
  BY <1>1 DEF DataInv, ImageInv, IsElf
<1>3. ImageInv'
  BY <1>1, <1>2 DEF ImageInv
<1>4. MemInv'
  <2>1. strayed' = FALSE
    BY <1>1 DEF DataInv, MemInv
  <2>2. mem' = [c \in Cells |-> mem'[c]]
    BY <1>1
  <2>3. \A c \in Cells \ Zone : mem'[c] = KernelData
    BY <1>1, Layout DEF DataInv, MemInv
  <2>4. \A c \in Rom : mem'[c] = Bios
    BY <1>1, Layout DEF DataInv, MemInv
  <2> QED BY <2>1, <2>2, <2>3, <2>4 DEF MemInv
<1>5. FreshInv'
  <2>1. ArgCell \in Ram => mem'[ArgCell] = args_build(cmd.line)
    BY <1>1, Layout
  <2>2. \A c \in Ram : c # ArgCell => mem'[c] = mem[c]
    BY <1>1, Layout
  <2>3. \A c \in DOMAIN Loaded(cmd.image) \cap Ram :
          c # ArgCell => mem'[c] = Loaded(cmd.image)[c]
    BY <1>1, <2>2 DEF DataInv, FreshInv
  <2> QED BY <1>1, <2>1, <2>3 DEF FreshInv
<1>6. (LockInv /\ KeptInv)'
  BY <1>1, <1>2 DEF LockInv, KeptInv, ReadOnlyCells, Running
<1> QED BY <1>3, <1>4, <1>5, <1>6 DEF DataInv

LEMMA ProtectData == ASSUME DataInv, Protect PROVE DataInv'
<1>1. /\ pc = "protect" /\ pc' = "enter" /\ wr' = elf_protect(cmd.image)
      /\ cmd' = cmd /\ mem' = mem /\ strayed' = strayed
  BY DEF Protect, obsVars
<1>2. cmd.image \in Files /\ IsElf /\ Loadable(cmd.image)
  BY <1>1 DEF DataInv, ImageInv
<1>3. ImageInv' /\ MemInv' /\ FreshInv'
  BY <1>1, <1>2 DEF DataInv, ImageInv, MemInv, FreshInv, IsElf
<1>4. ReadOnlyCells' = ReadOnlyCells
  BY <1>1 DEF ReadOnlyCells, IsElf
<1>5. ASSUME NEW c \in ReadOnlyCells
      PROVE  PageOf(c) \notin wr' /\ c \in DOMAIN Loaded(cmd.image)
  <2>1. PICK i \in ReadOnlySegments(cmd.image) : c \in SegCells(cmd.image, i)
    BY <1>2 DEF ReadOnlyCells
  <2>2. i \in Segments(cmd.image)
    BY DEF ReadOnlySegments
  <2>3. PageOf(c) \in PagesOf(cmd.image.ph[i].vaddr, cmd.image.ph[i].memsz)
    BY <1>2, <2>1, <2>2, SegmentPages
  <2>4. PageOf(c) \notin wr'
    BY <1>1, <2>3 DEF elf_protect
  <2>5. c \in DOMAIN Loaded(cmd.image)
    BY <1>2, <2>1, <2>2, ElfCells DEF IsElf
  <2> QED BY <2>4, <2>5
<1>6. LockInv'
  BY <1>4, <1>5 DEF LockInv
<1>7. KeptInv'
  <2>1. \A c \in ReadOnlyCells \cap Ram : c # ArgCell => mem[c] = Loaded(cmd.image)[c]
    BY <1>1, <1>5 DEF DataInv, FreshInv
  <2> QED BY <1>1, <1>4, <2>1 DEF KeptInv
<1> QED BY <1>3, <1>6, <1>7 DEF DataInv

LEMMA EnterData == ASSUME DataInv, EnterUser PROVE DataInv'
<1>1. /\ pc = "enter" /\ pc' = "ring3"
      /\ cmd' = cmd /\ mem' = mem /\ wr' = wr /\ strayed' = strayed
  BY DEF EnterUser, obsVars
<1>2. IsElf' = IsElf /\ ReadOnlyCells' = ReadOnlyCells
  BY <1>1 DEF ReadOnlyCells, IsElf
<1>3. ImageInv' /\ MemInv' /\ FreshInv'
  BY <1>1, <1>2 DEF DataInv, ImageInv, MemInv, FreshInv
<1>4. LockInv' /\ KeptInv'
  BY <1>1, <1>2 DEF DataInv, LockInv, KeptInv, Running
<1> QED BY <1>3, <1>4 DEF DataInv

LEMMA KernelKeeps == ASSUME CtlInv, DataInv, Kernel PROVE DataInv'
<1>0. cmd.image \in Files /\ NoCommand.image \in Files /\ MemInv
  BY DEF DataInv, ImageInv, NoCommand, Files
<1>1. CASE LeaveUser
  <2>1. /\ pc = "verdict" /\ strayed' = strayed /\ cmd'.image \in Files
        /\ \E next \in {"finish", "shell"} : kprint(next)
    BY <1>0, <1>1 DEF LeaveUser
  <2>2. pc' \in {"finish", "shell", "verdict"}
    BY <2>1, UnarmedPrint DEF CtlInv, ControlInv, Stuck
  <2> QED BY <1>0, <2>1, <2>2, KprintEffect, QuietData
<1>2. CASE Finish \/ Arm \/ fault_disarm
  BY <1>0, <1>2, QuietData DEF Finish, Arm, fault_disarm, obsVars
<1>3. CASE Probe
  <2>1. /\ pc = "probe" /\ cmd' = cmd /\ strayed' = strayed /\ isr_handler(mem, wr)
    BY <1>3 DEF Probe, obsVars
  <2>2. pc' \in {"probe", "recovered"}
    <3>1. armed = TRUE /\ fctx.frame = "command"
      BY <2>1 DEF CtlInv, ControlInv, CommandContext
    <3>2. Stuck \/ restore_context(fctx)
      BY <2>1, <3>1, ArmedFault
    <3> QED BY <2>1, <3>1, <3>2 DEF Stuck, restore_context, Resumed
  <2>3. OnlyScreen
    BY <1>0, <2>1, HandlerStores DEF MemInv, OnlyScreen
  <2> QED BY <1>0, <2>1, <2>2, <2>3, QuietData
<1>4. CASE Recovered
  <2>1. /\ pc = "recovered" /\ cmd' = cmd /\ strayed' = strayed /\ kprint("disarm")
    BY <1>4 DEF Recovered, obsVars
  <2>2. pc' \in {"recovered", "disarm"}
    BY <2>1, UnarmedPrint DEF CtlInv, ControlInv, Stuck
  <2> QED BY <1>0, <2>1, <2>2, KprintEffect, QuietData
<1>5. CASE Announce
  <2>1. /\ pc \in {"loaded", "refused"} /\ cmd' = cmd /\ wr' = wr /\ strayed' = strayed
        /\ kprint(IF pc = "loaded" THEN "args" ELSE "finish")
    BY <1>5 DEF Announce, obsVars
  <2>2. pc' = pc \/ pc' = IF pc = "loaded" THEN "args" ELSE "finish"
    BY <2>1, UnarmedPrint DEF CtlInv, ControlInv, Stuck
  <2>3. OnlyScreen
    BY <1>0, <2>1, KprintEffect
  <2>4. CASE pc = "loaded"
    BY <2>1, <2>2, <2>3, <2>4, StaysData
  <2>5. CASE pc = "refused"
    BY <1>0, <2>1, <2>2, <2>3, <2>5, QuietData
  <2> QED BY <2>1, <2>4, <2>5
<1>6. CASE Halt
  BY <1>6, StaysData DEF Halt, vars, obsVars
<1> QED BY <1>1, <1>2, <1>3, <1>4, <1>5, <1>6, LoadData, ArgsData, ProtectData, EnterData
        DEF Kernel

LEMMA ProgramData == ASSUME CtlInv, DataInv, Program PROVE DataInv'
<1>1. pc = "ring3" /\ cmd' = cmd /\ wr' = wr /\ pc' \in {"ring3", "returned"}
  BY ProgramEffect DEF Outcome, Stuck
<1>2. MemInv
  BY DEF DataInv
<1>3. /\ strayed' = FALSE /\ mem' = [c \in Cells |-> mem'[c]]
      /\ \A c \in Cells \ Video :
           mem'[c] # mem[c] => c \in Zone \ Rom /\ PageOf(c) \in wr
  BY <1>2, ProgramStores DEF OnlyWritable
<1>4. MemInv'
  <2>1. \A c \in Cells \ Zone : mem'[c] = KernelData
    BY <1>2, <1>3, Layout DEF MemInv
  <2>2. \A c \in Rom : mem'[c] = Bios
    BY <1>2, <1>3, Layout DEF MemInv
  <2> QED BY <1>3, <2>1, <2>2 DEF MemInv
<1>5. IsElf' = IsElf /\ ReadOnlyCells' = ReadOnlyCells
  BY <1>1 DEF ReadOnlyCells, IsElf
<1>6. ImageInv' /\ FreshInv'
  BY <1>1, <1>5 DEF DataInv, ImageInv, FreshInv
<1>7. LockInv'
  BY <1>1, <1>5 DEF DataInv, LockInv, Running
<1>8. KeptInv'
  <2>1. ASSUME NEW c \in ReadOnlyCells \cap Ram, c # ArgCell
        PROVE  mem'[c] = Loaded(cmd.image)[c]
    <3>1. mem[c] = Loaded(cmd.image)[c] /\ PageOf(c) \notin wr
      BY <1>1, <2>1 DEF DataInv, LockInv, KeptInv, Running
    <3>2. c \in Cells \ Video
      BY Layout
    <3> QED BY <1>3, <3>1, <3>2
  <2> QED BY <1>1, <1>5, <2>1 DEF KeptInv
<1> QED BY <1>4, <1>6, <1>7, <1>8 DEF DataInv

LEMMA NextData == CtlInv /\ DataInv /\ [Next]_vars => DataInv'
<1> SUFFICES ASSUME CtlInv, DataInv, [Next]_vars PROVE DataInv'
  OBVIOUS
<1>1. CASE UNCHANGED vars
  BY <1>1, StaysData DEF vars, obsVars
<1> QED BY <1>1, CommandData, KernelKeeps, ProgramData DEF Next

LEMMA Contents == Spec => []DataInv
<1>1. Init => CtlInv /\ DataInv
  BY InitCtl, InitData
<1>2. CtlInv /\ DataInv /\ [Next]_vars => (CtlInv /\ DataInv)'
  BY NextCtl, NextData
<1> QED BY <1>1, <1>2, PTL DEF Spec

(* Nothing outside the user zone is ever changed by an image, a store or a *)
(* system call, and no system call looks beyond it.                        *)
THEOREM ZoneConfines == Spec => []Confined
<1>1. DataInv => Confined
  BY DEF DataInv, MemInv, Confined
<1> QED BY <1>1, Contents, PTL

(* A program starts on its own image, on zeros in its .bss, and on the     *)
(* arguments of its own command line, in all of the zone that is memory,   *)
(* whatever the kernel printed since it loaded them.                       *)
THEOREM ImageFresh == Spec => []StartsFresh
<1>1. DataInv => StartsFresh
  <2> SUFFICES ASSUME DataInv, pc = "enter"
               PROVE  /\ \A c \in (DOMAIN Loaded(cmd.image) \cap Ram) \ {ArgCell} :
                           mem[c] = Loaded(cmd.image)[c]
                      /\ \A c \in (Bss(cmd.image) \cap Ram) \ {ArgCell} :
                           IsElf => mem[c] = Zeros
                      /\ ArgCell \in Ram =>
                           /\ mem[ArgCell] \in {<<"args", 0>>, <<"args", Argc(cmd.line)>>}
                           /\ ArgsFit(cmd.line) => mem[ArgCell] = <<"args", Argc(cmd.line)>>
    BY DEF StartsFresh
  <2>1. /\ cmd.image \in Files /\ (IsElf => Loadable(cmd.image))
        /\ ArgCell \in Ram => mem[ArgCell] = args_build(cmd.line)
    BY DEF DataInv, ImageInv, FreshInv
  <2>2. \A c \in DOMAIN Loaded(cmd.image) \cap Ram :
          c # ArgCell => mem[c] = Loaded(cmd.image)[c]
    BY DEF DataInv, FreshInv
  <2>3. ASSUME NEW c \in Bss(cmd.image) \cap Ram, c # ArgCell, IsElf PROVE mem[c] = Zeros
    BY <2>1, <2>2, <2>3, BssIsZero DEF IsElf
  <2> QED BY <2>1, <2>2, <2>3 DEF args_build, ArgBlock
<1> QED BY <1>1, Contents, PTL

(* What was loaded for a read-only segment stays there while the program   *)
(* runs, in all of it that is memory.                                      *)
THEOREM CodeKept == Spec => []CodeIntact
<1>1. DataInv => CodeIntact
  BY DEF DataInv, KeptInv, CodeIntact, ReadOnlyCells, ReadOnlySegments, OwnSegments, IsElf
<1> QED BY <1>1, Contents, PTL

-----------------------------------------------------------------------------
(* The kernel's survival.                                                  *)
ScreenWritable == Obeys(Video, wr)

HaltInv == halted => ~ScreenWritable

(* A store that does not fault, that faults with a recovery armed, or that *)
(* is a print leaves the kernel running, as far as the screen is writable. *)
LEMMA StoreSurvives ==
  ASSUME halted = FALSE, NEW new, NEW next, KernelStore(new, wr, next),
         armed = TRUE \/ Obeys(DOMAIN new, wr) \/ DOMAIN new = Video
  PROVE  halted' = FALSE \/ ~ScreenWritable
<1>1. CASE Obeys(DOMAIN new, wr)
  BY <1>1 DEF KernelStore, faultVars
<1>2. CASE ~Obeys(DOMAIN new, wr)
  BY <1>2, ArmedFault DEF KernelStore, ScreenWritable
<1> QED BY <1>1, <1>2

LEMMA PrintSurvives ==
  ASSUME halted = FALSE, NEW next, kprint(next)
  PROVE  halted' = FALSE \/ ~ScreenWritable
<1>1. PICK new \in Shown(mem) : KernelStore(new, wr, next)
  BY DEF kprint
<1>2. DOMAIN new = Video
  BY DEF Shown
<1> QED BY <1>1, <1>2, StoreSurvives

LEMMA ProgramSurvives ==
  ASSUME CtlInv, Program PROVE halted' = FALSE \/ ~ScreenWritable
<1>1. pc = "ring3" /\ armed = TRUE /\ halted = FALSE
  <2>1. pc = "ring3"
    BY ProgramEffect DEF Outcome
  <2>2. ~halted
    BY DEF Program, Store, SysExit, SysWrite, SysFwrite, SysFread, SysSbrk, InRing3
  <2> QED BY <2>1, <2>2 DEF CtlInv, ControlInv
<1>2. ASSUME NEW c \in Stores, Store(c) PROVE halted' = FALSE \/ ~ScreenWritable
  BY <1>1, <1>2, ArmedFault DEF Store, faultVars, ScreenWritable
<1>3. CASE SysExit
  BY <1>1, <1>3 DEF SysExit
<1>4. CASE \E n \in Lengths : SysSbrk(n)
  BY <1>1, <1>4 DEF SysSbrk, faultVars
<1>5. CASE \E p, b \in Pointers, n \in Lengths : SysFwrite(p, b, n)
  BY <1>1, <1>5 DEF SysFwrite, faultVars
<1>6. ASSUME NEW p \in Pointers, SysWrite(p) PROVE halted' = FALSE \/ ~ScreenWritable
  BY <1>1, <1>6, PrintSurvives DEF SysWrite, faultVars
<1>7. ASSUME NEW p \in Pointers, NEW b \in Pointers, NEW n \in Lengths, SysFread(p, b, n)
      PROVE  halted' = FALSE \/ ~ScreenWritable
  BY <1>1, <1>7, StoreSurvives DEF SysFread, faultVars
<1> QED BY <1>2, <1>3, <1>4, <1>5, <1>6, <1>7 DEF Program

LEMMA NextHalt == CtlInv /\ HaltInv /\ [Next]_vars => HaltInv'
<1> SUFFICES ASSUME CtlInv, HaltInv, [Next]_vars PROVE HaltInv'
  OBVIOUS
<1>1. ASSUME halted' = FALSE PROVE HaltInv'
  BY <1>1 DEF HaltInv
<1>2. ASSUME wr' = wr, halted' = FALSE \/ ~ScreenWritable PROVE HaltInv'
  BY <1>2 DEF HaltInv, ScreenWritable, Obeys
<1>3. CASE UNCHANGED vars \/ Halt
  BY <1>3 DEF Halt, vars, faultVars, HaltInv, ScreenWritable, Obeys
<1>4. ASSUME halted = FALSE, UNCHANGED halted PROVE HaltInv'
  BY <1>1, <1>4
<1>5. CASE \E f \in Images, l \in Lines : Exec(f, l)
  BY <1>4, <1>5 DEF Exec, faultVars, CtlInv, ControlInv
<1>6. CASE User \/ FaultCommand \/ Announce \/ LeaveUser \/ Recovered
  <2>1. wr' = wr /\ halted = FALSE /\ \E next : kprint(next)
    BY <1>6 DEF User, FaultCommand, Announce, LeaveUser, Recovered, CtlInv, ControlInv
  <2> QED BY <1>2, <2>1, PrintSurvives
<1>7. CASE PrintOnly
  <2>1. wr' = wr /\ halted = FALSE
    BY <1>7 DEF PrintOnly, CtlInv, ControlInv
  <2>2. PICK new \in [Video -> {Text, Zeros}] : KernelStore(new, wr, "shell")
    BY <1>7 DEF PrintOnly
  <2>3. DOMAIN new = Video
    OBVIOUS
  <2> QED BY <1>2, <2>1, <2>2, <2>3, StoreSurvives
<1>8. CASE ElfLoad \/ FlatLoad
  <2>1. wr' = ZonePages /\ halted = FALSE
    BY <1>8 DEF ElfLoad, FlatLoad, paging_reset_user_zone, CtlInv, ControlInv
  <2>2. \/ \E new, next : KernelStore(new, ZonePages, next)
        \/ UNCHANGED faultVars
    BY <1>8, <2>1 DEF ElfLoad, FlatLoad
  <2>3. halted' = FALSE
    BY <2>1, <2>2, StoreGoesThrough DEF faultVars
  <2> QED BY <1>1, <2>3
<1>9. CASE BuildArgs
  <2>1. halted = FALSE
    BY <1>9 DEF BuildArgs, CtlInv, ControlInv
  <2> QED BY <1>4, <1>9, <2>1, ArgsEffect DEF faultVars
<1>10. CASE Protect \/ EnterUser \/ fault_disarm \/ Finish \/ Arm
  BY <1>4, <1>10
     DEF Protect, EnterUser, fault_disarm, Finish, Arm, faultVars, CtlInv, ControlInv
<1>11. CASE Probe
  <2>1. armed = TRUE /\ isr_handler(mem, wr) /\ wr' = wr
    BY <1>11 DEF Probe, CtlInv, ControlInv
  <2> QED BY <1>2, <2>1, ArmedFault DEF ScreenWritable
<1>12. CASE Program
  BY <1>2, <1>12, ProgramSurvives, ProgramEffect DEF Outcome
<1> QED BY <1>3, <1>5, <1>6, <1>7, <1>8, <1>9, <1>10, <1>11, <1>12 DEF Next, Kernel

LEMMA Halts == Spec => []HaltInv
<1>1. Init => CtlInv /\ HaltInv
  <2>1. Init => HaltInv
    BY DEF Init, HaltInv
  <2> QED BY <2>1, InitCtl
<1>2. CtlInv /\ HaltInv /\ [Next]_vars => (CtlInv /\ HaltInv)'
  BY NextCtl, NextHalt
<1> QED BY <1>1, <1>2, PTL DEF Spec

(* Only a read-only screen can stop the kernel, whatever images and        *)
(* programs ran before.                                                    *)
THEOREM HaltsLocked == Spec => []HaltsOnlyLocked
<1>1. HaltInv => HaltsOnlyLocked
  BY DEF HaltInv, HaltsOnlyLocked, ScreenWritable, Obeys
<1> QED BY <1>1, Halts, PTL

(* An image that leaves the screen writable: none of its read-only         *)
(* segments has a part of the screen's page.  elf_load does not check it   *)
(* (the run MCExecScreen).                                                 *)
KeepsOffScreen(f) ==
  elf_validate(f) =>
    \A i \in ReadOnlySegments(f) : \A c \in Video :
      PageOf(c) \notin PagesOf(f.ph[i].vaddr, f.ph[i].memsz)

LEMMA NextWritable ==
  ASSUME \A f \in Images : KeepsOffScreen(f), CtlInv, DataInv, ScreenWritable, [Next]_vars
  PROVE  ScreenWritable'
<1>1. CASE wr' = wr
  BY <1>1 DEF ScreenWritable, Obeys
<1>2. CASE ElfLoad \/ FlatLoad
  BY <1>2, AllWritable DEF ElfLoad, FlatLoad, paging_reset_user_zone, ScreenWritable
<1>3. CASE Protect
  <2>1. pc = "protect" /\ wr' = elf_protect(cmd.image)
    BY <1>3 DEF Protect
  <2>2. elf_validate(cmd.image) /\ cmd.image \in Images
    BY <2>1, ImagesAssumption DEF DataInv, ImageInv, IsElf, Files
  <2>3. \A i \in ReadOnlySegments(cmd.image) : \A c \in Video :
          PageOf(c) \notin PagesOf(cmd.image.ph[i].vaddr, cmd.image.ph[i].memsz)
    BY <2>2 DEF KeepsOffScreen
  <2>4. \A c \in Video : PageOf(c) \in wr => PageOf(c) \in wr'
    BY <2>1, <2>3 DEF elf_protect
  <2> QED BY <2>4 DEF ScreenWritable, Obeys
<1>4. CASE \/ UNCHANGED vars \/ User \/ FaultCommand \/ PrintOnly
           \/ \E f \in Images, l \in Lines : Exec(f, l)
  BY <1>1, <1>4 DEF vars, User, FaultCommand, PrintOnly, Exec
<1>5. CASE \/ Announce \/ BuildArgs \/ EnterUser \/ fault_disarm \/ LeaveUser \/ Finish
           \/ Arm \/ Probe \/ Recovered \/ Halt
  BY <1>1, <1>5 DEF Announce, BuildArgs, EnterUser, fault_disarm, LeaveUser, Finish, Arm,
                    Probe, Recovered, Halt, vars
<1>6. CASE Program
  BY <1>1, <1>6, ProgramEffect DEF Outcome
<1> QED BY <1>2, <1>3, <1>4, <1>5, <1>6 DEF Next, Kernel

(* If no image locks the screen, the kernel survives every program,        *)
(* whatever else the images and programs do.                               *)
THEOREM KernelSurvives ==
  ASSUME \A f \in Images : KeepsOffScreen(f)
  PROVE  Spec => []NeverHalts
<1>1. Init => CtlInv /\ DataInv /\ ScreenWritable
  <2>1. Init => ScreenWritable
    BY AllWritable DEF Init, ScreenWritable
  <2> QED BY <2>1, InitCtl, InitData
<1>2. CtlInv /\ DataInv /\ ScreenWritable /\ [Next]_vars
      => (CtlInv /\ DataInv /\ ScreenWritable)'
  BY NextCtl, NextData, NextWritable
<1>3. HaltInv /\ ScreenWritable => NeverHalts
  BY DEF HaltInv, NeverHalts
<1> QED BY <1>1, <1>2, <1>3, Halts, PTL DEF Spec

-----------------------------------------------------------------------------
(* The heap of a program.                                                  *)
HeapInv == self \in {0, 1} /\ brk \in [{0, 1} -> 0..HeapEnd]

LEMMA GrownBound ==
  ASSUME HeapInv, NEW n \in Lengths, Grown(n)
  PROVE  (Break + n) % Word \in 0..HeapEnd
<1>1. Break \in Nat /\ n \in Nat /\ HeapEnd \in Nat
  BY SizeTypes, ImagesAssumption DEF HeapInv, Break
<1>2. (Break + n) % Word \in Nat
  BY <1>1, SizeTypes
<1> QED BY <1>1, <1>2 DEF Grown

LEMMA NextHeap == HeapInv /\ [Next]_vars => HeapInv'
<1> SUFFICES ASSUME HeapInv, [Next]_vars PROVE HeapInv'
  OBVIOUS
<1>0. HeapBase \in 0..HeapEnd /\ 0 \in 0..HeapEnd
  BY SizeTypes
<1>1. CASE UNCHANGED procVars
  BY <1>1 DEF HeapInv, procVars
<1>2. ASSUME NEW f \in Images, NEW l \in Lines, Exec(f, l) PROVE HeapInv'
  BY <1>0, <1>1, <1>2 DEF Exec, proc_begin_user, HeapInv
<1>3. CASE Finish
  BY <1>0, <1>3 DEF Finish, HeapInv
<1>4. ASSUME NEW n \in Lengths, SysSbrk(n) PROVE HeapInv'
  <2>1. CASE n # 0 /\ Grown(n)
    <3>1. (Break + n) % Word \in 0..HeapEnd
      BY <2>1, GrownBound
    <3>2. self' = self /\ brk' = [brk EXCEPT ![self] = (Break + n) % Word]
      BY <1>4, <2>1 DEF SysSbrk
    <3> QED BY <3>1, <3>2 DEF HeapInv
  <2>2. CASE ~(n # 0 /\ Grown(n))
    BY <1>4, <2>2 DEF SysSbrk, HeapInv
  <2> QED BY <2>1, <2>2
<1>5. CASE UNCHANGED vars
  BY <1>1, <1>5 DEF vars
<1>6. CASE User \/ FaultCommand \/ PrintOnly
  BY <1>1, <1>6 DEF User, FaultCommand, PrintOnly
<1>7. CASE Kernel
  BY <1>1, <1>3, <1>7 DEF Kernel, ElfLoad, FlatLoad, Announce, BuildArgs, Protect, EnterUser,
                          fault_disarm, LeaveUser, Arm, Probe, Recovered, Halt, vars
<1>8. CASE Program
  BY <1>1, <1>4, <1>8 DEF Program, Store, SysExit, SysWrite, SysFwrite, SysFread
<1> QED BY <1>2, <1>5, <1>6, <1>7, <1>8 DEF Next

(* An image that is linked as user/prog.ld links one: no segment reaches   *)
(* the region that usermode.h gives to the heap.  elf_load does not check  *)
(* it.                                                                     *)
KeepsOutOfHeap(f) ==
  elf_validate(f) => \A i \in Segments(f) : SegCells(f, i) \cap HeapBase..(HeapEnd - 1) = {}

(* If every image keeps out of the heap's region, what sbrk grants is the  *)
(* program's own.                                                          *)
THEOREM HeapOwn ==
  ASSUME \A f \in Images : KeepsOutOfHeap(f)
  PROVE  Spec => []HeapSeparate
<1>1. Init => HeapInv
  BY SizeTypes DEF Init, HeapInv
<1>2. Spec => []HeapInv
  BY <1>1, NextHeap, PTL DEF Spec
<1>3. HeapInv /\ DataInv => HeapSeparate
  <2> SUFFICES ASSUME HeapInv, DataInv, NEW c \in HeapBase..(Break - 1)
               PROVE  c \notin DOMAIN Loaded(cmd.image) /\ c # ArgCell
    BY DEF HeapSeparate
  <2>1. Break \in Nat /\ Break <= HeapEnd
    BY SizeTypes DEF HeapInv, Break
  <2>2. c \in HeapBase..(HeapEnd - 1)
    BY <2>1, SizeTypes
  <2>3. c # ArgCell
    BY <2>2, SizeTypes DEF ArgCell
  <2>4. cmd.image \in Files
    BY DEF DataInv, ImageInv
  <2>5. CASE IsElf
    <3>1. cmd.image \in Images
      BY <2>4, <2>5, ImagesAssumption DEF Files, IsElf
    <3>2. \A i \in Segments(cmd.image) : c \notin SegCells(cmd.image, i)
      BY <2>2, <2>5, <3>1 DEF KeepsOutOfHeap, IsElf
    <3>3. DOMAIN Loaded(cmd.image) = UNION {SegCells(cmd.image, i) : i \in Segments(cmd.image)}
      BY <2>5, ElfCells DEF IsElf
    <3> QED BY <2>3, <3>2, <3>3
  <2>6. CASE ~IsElf
    <3>1. DOMAIN Loaded(cmd.image) \subseteq ZoneStart..(HeapBase - 1)
      BY <2>4, <2>6, FlatCells DEF IsElf
    <3> QED BY <2>2, <2>3, <3>1, SizeTypes
  <2> QED BY <2>5, <2>6
<1> QED BY <1>2, <1>3, Contents, PTL
=============================================================================
