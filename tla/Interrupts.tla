----------------------------- MODULE Interrupts -----------------------------
(***************************************************************************)
(* How the processor gets into the kernel and out again: gates and stubs   *)
(* (cpu/interrupt.asm, cpu/isr.cpp, cpu/idt.cpp), the interrupt            *)
(* controllers, the registers that timer_handler and sys save and          *)
(* enter_usermode loads (kernel/kernel.cpp, cpu/asmutil.asm), the kernel   *)
(* stack.  The model starts where the constructor executes sti.            *)
(*                                                                         *)
(* A word of a register or of the stack is <<owner, what, version>>:       *)
(* whose it is, which register it belongs to and when it was computed, so  *)
(* a word in a wrong place or an outdated one is seen.  The stack is the   *)
(* sequence of its words below the constructor's frame, the top first.     *)
(*                                                                         *)
(* Which thread runs next and which threads end together is the business   *)
(* of module Kernel; here it is any.                                       *)
(***************************************************************************)
EXTENDS Naturals, SequencesExt

CONSTANTS
  Thread,    \* names of the user threads
  Idle,      \* the thread whose program is while(true)
  Device,    \* interrupt lines other than timer and keyboard
  Faults     \* exceptions that programs raise

(* "nobody" stands for no thread where module VirtualCpus is instantiated. *)
ASSUME NameAssumption == "nobody" \notin Thread
ASSUME IdleAssumption == Idle \in Thread
ASSUME DeviceAssumption == Device \subseteq (3 .. 15)
ASSUME FaultAssumption == Faults \subseteq (0 .. 31)

VARIABLES
  regs,             \* the registers of the processor
  stack,            \* the kernel stack
  requested,        \* interrupt lines the controllers have latched
  in_service,       \* interrupts accepted and not yet acknowledged
  key_waiting,      \* the keyboard controller holds a scancode
  m_cpu_state,      \* thread::m_cpu_state
  alive,            \* the threads that exist
  current,          \* the thread the indices of the kernel name
  m_userland,
  esp0,             \* tss_entry.esp0 has been set
  timer_installed,  \* interrupt_handlers[32] is set
  pit               \* the interval timer counts, or waits for its count

pic == <<requested, in_service, key_waiting>>
threads == <<m_cpu_state, alive, current, m_userland>>
boot == <<esp0, timer_installed, pit>>
vars == <<regs, stack, pic, threads, boot>>

-----------------------------------------------------------------------------
(* Words and layouts. *)

Word(owner, what) == <<owner, what, 0>>
Number(n) == <<"kernel", "number", n>>
UserCode == Word("user", "cs")
UserData == Word("user", "ds")
KernelCode == Word("kernel", "cs")
KernelData == Word("kernel", "ds")

(* EFLAGS with interrupts enabled and disabled. *)
Enabled(owner) == Word(owner, "IF")
Disabled(owner) == Word(owner, "no IF")

(* Mutant: ebx and edx have changed places. *)
registers_t_Swapped ==
  <<"ds", "edi", "esi", "ebp", "esp", "edx", "ebx", "ecx", "eax", "int_no",
    "err_code", "eip", "cs", "eflags", "useresp", "ss">>

registers_t ==
  <<"ds", "edi", "esi", "ebp", "esp", "ebx", "edx", "ecx", "eax", "int_no",
    "err_code", "eip", "cs", "eflags", "useresp", "ss">>

cpu_state_t ==
  <<"esp", "ebp", "eip", "edi", "esi", "eax", "ebx", "ecx", "edx", "flags">>

(* A field of the registers_t that lies on top of the stack. *)
Field(f) == stack[CHOOSE i \in 1 .. Len(registers_t) : registers_t[i] = f]

(* The processor in the kernel, about to execute routine. *)
KernelRegs(routine, flags) ==
  [r \in {"edi", "esi", "ebp", "esp", "ebx", "edx", "ecx", "eax"}
           \cup {"eip", "eflags", "cs", "ds"} |->
     CASE r = "eip" -> Word("kernel", routine)
       [] r = "eflags" -> flags
       [] OTHER -> Word("kernel", r)]

pc == regs.eip[2]
InUser == regs.cs = UserCode
InterruptsOn == regs.eflags[2] = "IF"

(* thread::thread, lines 69 to 73: flags = 0x200. *)
Initial(t) ==
  [f \in Range(cpu_state_t) |-> IF f = "flags" THEN Enabled(t) ELSE Word(t, f)]

(* What a program makes of its registers. *)
Computed(s) ==
  [f \in DOMAIN s |-> <<s.eip[1], s[f][2], 1 - s.eip[3]>>]

(* The constructor at sti: gates, keyboard and fault handlers and system   *)
(* calls are installed, and the PIT counts at the rate of the BIOS.        *)
Init ==
  /\ regs = KernelRegs("create", Enabled("kernel"))
  /\ stack = << >>
  /\ requested = {}
  /\ in_service = {}
  /\ key_waiting = FALSE
  /\ m_cpu_state = [t \in Thread |-> Initial(t)]
  /\ alive = {}
  /\ current = Idle
  /\ m_userland = FALSE
  /\ esp0 = FALSE
  /\ timer_installed = FALSE
  /\ pit = "counting"

-----------------------------------------------------------------------------
(* Devices and controllers: two cascaded 8259A, edge triggered, without    *)
(* automatic end of interrupt, nothing masked.                             *)

Master == 0 .. 7
Slave == 8 .. 15
Line == {0, 1} \cup Device

(* The slave hangs on line 2 of the master. *)
Occupies(n) == IF n \in Slave THEN {2, n} ELSE {n}


Deliverable ==
  {n \in requested :
     \A a \in Occupies(n), m \in in_service :
       (a \in Master <=> m \in Master) => a < m}

(* The deliverable line the processor is offered: the first of the master, *)
(* and the first of the slave where that is line 2.                        *)
Offered ==
  {n \in Deliverable :
     \A m \in Deliverable :
       LET a == Min(Occupies(n))
           b == Min(Occupies(m))
       IN  a < b \/ (a = b /\ n <= m)}

(* The processor looks at the controllers between two instructions, but    *)
(* not between sti and the instruction after it, here always iret.         *)
Interruptible == InterruptsOn /\ pc # "iret"
Pending == Interruptible /\ Deliverable # {}

(* The timer requests its line again and again while it counts.  While it  *)
(* waits for its count it may do so too, but need not: the control word    *)
(* raises its output, and some go on with the old count.                   *)
Tick ==
  /\ requested' = requested \cup {0}
  /\ UNCHANGED <<regs, stack, in_service, key_waiting, threads, boot>>

(* The keyboard controller raises its line once per scancode read. *)
Press ==
  /\ ~key_waiting
  /\ key_waiting' = TRUE
  /\ requested' = requested \cup {1}
  /\ UNCHANGED <<regs, stack, in_service, threads, boot>>

Request(n) ==
  /\ requested' = requested \cup {n}
  /\ UNCHANGED <<regs, stack, in_service, key_waiting, threads, boot>>

First(lines) == {n \in lines : \A m \in lines : n <= m}

(* Mutant: the acknowledgement comes after the handler, which for the      *)
(* timer does not return.                                                  *)
EndOfInterrupt_After(int_no, busy) ==
  IF int_no = 32 /\ timer_installed THEN busy ELSE busy \ First(busy)

(* 0x20 clears the first line in service, of the slave for its vectors and *)
(* of the master for all.                                                  *)
EndOfInterrupt(int_no, busy) ==
  LET slave == IF int_no >= 40 THEN First(busy \cap Slave) ELSE {}
  IN  busy \ (slave \cup First(busy \cap Master))

-----------------------------------------------------------------------------
(* Into the kernel. *)

(* The controllers are programmed to start at vectors 0x20 and 0x28. *)
Vector(n) == IF n \in Master THEN 32 + n ELSE 40 + (n - 8)

(* What the processor pushes, in this order. *)
ProcessorPushes(v) ==
  (IF InUser THEN <<UserData, regs.esp>> ELSE << >>)
    \o <<regs.eflags, regs.cs, regs.eip>>
    \o (IF v \in {8} \cup 10 .. 14 THEN <<Word("kernel", "error")>> ELSE << >>)

(* Mutant: every stub pushes a dummy. *)
StubPushes_Always(v) == <<Number(0), Number(v)>>

(* isr0 to isr31 and isr123: a dummy for the error code where the          *)
(* processor pushes none, and the vector.                                  *)
StubPushes(v) ==
  IF v \in {8} \cup 10 .. 14 THEN <<Number(v)>> ELSE <<Number(0), Number(v)>>

(* irq0 to irq15. *)
IrqStubPushes(v) == <<Number(v - 32), Number(v)>>

(* pusha; mov ax, ds; push eax. *)
CommonStubPushes ==
  <<regs.eax, regs.ecx, regs.edx, regs.ebx, Word("kernel", "esp"), regs.ebp,
    regs.esi, regs.edi, regs.ds>>

(* Mutant: trap gates and no cli. *)
set_idt_gate_Trap == Enabled("kernel")

(* 0x8e: an interrupt gate, which clears IF. *)
set_idt_gate == Disabled("kernel")

(* What the stub behind a vector calls. *)
Routine(v) == IF v \in 32 .. 47 THEN "irq_handler" ELSE "handler"

(* From user mode the processor starts at esp0, else where it is. *)
Enter(v) ==
  LET stub ==
        IF Routine(v) = "irq_handler" THEN IrqStubPushes(v) ELSE StubPushes(v)
      pushed == ProcessorPushes(v) \o stub \o CommonStubPushes
  IN  /\ stack' = Reverse(pushed) \o (IF InUser THEN << >> ELSE stack)
      /\ regs' = KernelRegs(Routine(v), set_idt_gate)

Interrupt(n) ==
  /\ Interruptible
  /\ n \in Offered
  /\ requested' = requested \ {n}
  /\ in_service' = in_service \cup Occupies(n)
  /\ Enter(Vector(n))
  /\ UNCHANGED <<key_waiting, threads, boot>>

(* The request went away meanwhile: the processor is given the last line   *)
(* of the controller, which is not in service there.                       *)
Spurious ==
  /\ Interruptible
  /\ \E n \in Offered \cap Device :
       /\ requested' = requested \ {n}
       /\ in_service' = in_service \cup (Occupies(n) \ {n})
       /\ Enter(Vector(IF n \in Slave THEN 15 ELSE 7))
  /\ UNCHANGED <<key_waiting, threads, boot>>

(* The idle program neither calls the kernel nor faults. *)
Trap(v) ==
  /\ InUser
  /\ ~Pending
  /\ current # Idle
  /\ Enter(v)
  /\ UNCHANGED <<pic, threads, boot>>

Compute ==
  /\ InUser
  /\ ~Pending
  /\ regs' = [Computed(regs) EXCEPT !.cs = regs.cs, !.ds = regs.ds]
  /\ UNCHANGED <<stack, pic, threads, boot>>

-----------------------------------------------------------------------------
(* Out of the kernel. *)

Jump(routine) == regs' = [regs EXCEPT !.eip = Word("kernel", routine)]

(* pop ds; popa, which skips esp; add esp, 8; sti. *)
isr_common_stub ==
  /\ pc = "return"
  /\ regs' = [regs EXCEPT
                !.ds = stack[1], !.edi = stack[2], !.esi = stack[3],
                !.ebp = stack[4], !.ebx = stack[6], !.edx = stack[7],
                !.ecx = stack[8], !.eax = stack[9],
                !.eflags = Enabled("kernel"), !.eip = Word("kernel", "iret")]
  /\ stack' = SubSeq(stack, 12, Len(stack))
  /\ UNCHANGED <<pic, threads, boot>>

iret ==
  LET outward == stack[2] = UserCode
  IN  /\ pc = "iret"
      /\ regs' = [regs EXCEPT
                    !.eip = stack[1], !.cs = stack[2], !.eflags = stack[3],
                    !.esp = IF outward THEN stack[4] ELSE @]
      /\ stack' = SubSeq(stack, IF outward THEN 6 ELSE 4, Len(stack))
      /\ UNCHANGED <<pic, threads, boot>>

(* The arguments lie from ebp + 8 on in the order of cpu_state_t. *)
enter_usermode(s) ==
  LET at(offset) == s[cpu_state_t[(offset - 8) \div 4 + 1]]
  IN  regs' = [esp |-> at(8), eflags |-> at(44), eip |-> at(16),
               edi |-> at(20), esi |-> at(24), eax |-> at(28),
               ebx |-> at(32), ecx |-> at(36), edx |-> at(40),
               ebp |-> at(12), cs |-> UserCode, ds |-> UserData]

task_switch(live, states) ==
  \E t \in live :
    /\ current' = t
    /\ m_userland' = TRUE
    /\ enter_usermode(states[t])

-----------------------------------------------------------------------------
(* The handlers. *)

irq_handler ==
  /\ pc = "irq_handler"
  /\ in_service' = EndOfInterrupt(Field("int_no")[3], in_service)
  /\ Jump("handler")
  /\ UNCHANGED <<stack, requested, key_waiting, threads, boot>>

Handles(v) == pc = "handler" /\ Field("int_no") = Number(v)

(* No handler is registered: back to what was interrupted. *)
unhandled ==
  /\ pc = "handler"
  /\ Field("int_no")[3] \notin {14, 33, 123}
       \cup (IF timer_installed THEN {32} ELSE {})
  /\ Jump("return")
  /\ UNCHANGED <<stack, pic, threads, boot>>

Saved ==
  [esp |-> Field("useresp"), ebp |-> Field("ebp"), eip |-> Field("eip"),
   edi |-> Field("edi"), esi |-> Field("esi"), eax |-> Field("eax"),
   ebx |-> Field("ebx"), ecx |-> Field("ecx"), edx |-> Field("edx"),
   flags |-> Field("eflags")]

timer_handler ==
  /\ timer_installed
  /\ Handles(32)
  /\ m_cpu_state' =
       IF m_userland THEN [m_cpu_state EXCEPT ![current] = Saved]
                     ELSE m_cpu_state
  /\ task_switch(alive, m_cpu_state')
  /\ UNCHANGED <<stack, pic, alive, boot>>

(* Mutant: the scancode is not read. *)
keyboard_handler_Unread ==
  /\ Handles(33)
  /\ Jump("return")
  /\ UNCHANGED <<stack, pic, threads, boot>>

keyboard_handler ==
  /\ Handles(33)
  /\ key_waiting' = FALSE
  /\ Jump("return")
  /\ UNCHANGED <<stack, requested, in_service, threads, boot>>

(* Faulting ends the process: the thread and its siblings. *)
page_fault_handler(gone) ==
  /\ Handles(14)
  /\ current \in gone
  /\ alive' = alive \ gone
  /\ task_switch(alive', m_cpu_state)
  /\ UNCHANGED <<stack, pic, m_cpu_state, boot>>

(* Every system call saves the caller's registers first. *)
sys(states) == [states EXCEPT ![current] = Saved]

(* The result goes into syscall_handler's copy of the registers: the       *)
(* caller gets back the eax it came with.                                  *)
sys_return ==
  /\ Handles(123)
  /\ m_cpu_state' = sys(m_cpu_state)
  /\ Jump("return")
  /\ UNCHANGED <<stack, pic, alive, current, m_userland, boot>>

sys_thread(t) ==
  /\ Handles(123)
  /\ t \notin alive
  /\ alive' = alive \cup {t}
  /\ m_cpu_state' = [sys(m_cpu_state) EXCEPT ![t] = Initial(t)]
  /\ Jump("return")
  /\ UNCHANGED <<stack, pic, current, m_userland, boot>>

sys_read ==
  /\ Handles(123)
  /\ m_cpu_state' = sys(m_cpu_state)
  /\ task_switch(alive, m_cpu_state')
  /\ UNCHANGED <<stack, pic, alive, boot>>

sys_exit(gone) ==
  /\ Handles(123)
  /\ current \in gone
  /\ m_cpu_state' = sys(m_cpu_state)
  /\ alive' = alive \ gone
  /\ task_switch(alive', m_cpu_state')
  /\ UNCHANGED <<stack, pic, boot>>

-----------------------------------------------------------------------------
(* The rest of the constructor, with interrupts enabled. *)

BootStep(at, next) == pc = at /\ ~Pending /\ Jump(next)

create_processes ==
  /\ BootStep("create", "stack")
  /\ alive' = Thread
  /\ UNCHANGED <<stack, pic, m_cpu_state, current, m_userland, boot>>

tss_set_kernel_stack ==
  /\ BootStep("stack", "timer")
  /\ esp0' = TRUE
  /\ UNCHANGED <<stack, pic, threads, timer_installed, pit>>

(* init_timer: the handler first, then the PIT, byte by byte.  A tick of   *)
(* the old rate in between enters a program, and the constructor never     *)
(* comes back to the bytes it still had to write.                          *)
register_interrupt_handler ==
  /\ BootStep("timer", "command")
  /\ timer_installed' = TRUE
  /\ UNCHANGED <<stack, pic, threads, esp0, pit>>

pit_command ==
  /\ BootStep("command", "low")
  /\ pit' = "stopped"
  /\ UNCHANGED <<stack, pic, threads, esp0, timer_installed>>

pit_low ==
  /\ BootStep("low", "high")
  /\ UNCHANGED <<stack, pic, threads, boot>>

pit_high ==
  /\ BootStep("high", "kmain")
  /\ pit' = "counting"
  /\ UNCHANGED <<stack, pic, threads, esp0, timer_installed>>

-----------------------------------------------------------------------------
Cpu ==
  \/ \E n \in Line : Interrupt(n)
  \/ Spurious
  \/ Compute
  \/ Trap(123)
  \/ \E v \in Faults : Trap(v)
  \/ isr_common_stub
  \/ iret
  \/ irq_handler
  \/ unhandled
  \/ timer_handler
  \/ keyboard_handler
  \/ \E gone \in SUBSET (alive \ {Idle}) : page_fault_handler(gone)
  \/ sys_return
  \/ \E t \in Thread : sys_thread(t)
  \/ sys_read
  \/ \E gone \in SUBSET (alive \ {Idle}) : sys_exit(gone)
  \/ create_processes
  \/ tss_set_kernel_stack
  \/ register_interrupt_handler
  \/ pit_command
  \/ pit_low
  \/ pit_high

Next ==
  \/ Cpu
  \/ Tick
  \/ Press
  \/ \E n \in Device : Request(n)

Spec == Init /\ [][Next]_vars

(* The processor executes and the timer is periodic, as long as it counts. *)
(* A key is not passed over for ever: a processor that could accept it     *)
(* again and again does.  Programs and other devices owe nothing.          *)
Fairness ==
  /\ WF_vars(Cpu)
  /\ WF_vars(pit = "counting" /\ Tick)
  /\ SF_vars(Interrupt(1))

FairSpec == Spec /\ Fairness

-----------------------------------------------------------------------------
(* Properties. *)

Words ==
  (Thread \cup {"kernel", "user"})
    \X (Range(registers_t) \cup {"IF", "no IF", "number", "error"}
         \cup {"create", "stack", "timer", "command", "low", "high", "kmain"}
         \cup {"irq_handler", "handler", "return", "iret"})
    \X Nat

TypeOK ==
  /\ DOMAIN regs = {"edi", "esi", "ebp", "esp", "ebx", "edx", "ecx", "eax",
                    "eip", "eflags", "cs", "ds"}
  /\ \A r \in DOMAIN regs : regs[r] \in Words
  /\ regs.cs \in {UserCode, KernelCode}
  /\ stack \in Seq(Words)
  /\ requested \subseteq Line
  /\ in_service \subseteq UNION {Occupies(n) : n \in Line}
  /\ key_waiting \in BOOLEAN
  /\ m_cpu_state \in [Thread -> [Range(cpu_state_t) -> Words]]
  /\ alive \subseteq Thread
  /\ current \in Thread
  /\ m_userland \in BOOLEAN
  /\ esp0 \in BOOLEAN
  /\ timer_installed \in BOOLEAN
  /\ pit \in {"counting", "stopped"}

(* Whichever way the kernel was left, through the stub or by               *)
(* enter_usermode out of a handler that never returns, nothing of the      *)
(* interrupt stays behind: a program runs with interrupts enabled and no   *)
(* line blocked, never before the stack for its interrupts is known and    *)
(* the timer's handler is there.  It is not said that the PIT has its      *)
(* count: a tick that comes inside init_timer leaves it as it is.          *)
UserInterruptible ==
  InUser => /\ InterruptsOn /\ in_service = {}
            /\ esp0 /\ timer_installed /\ current \in alive

(* Nor do handlers nest: the kernel stack holds at most one frame, of 16   *)
(* words if a program was interrupted and of 14 if the constructor was.    *)
OneFrame ==
  /\ Len(stack) <= 16
  /\ ~InUser /\ InterruptsOn /\ pc # "iret" => stack = << >>
KernelIsLeftClean == UserInterruptible /\ OneFrame

(* The registers of the running thread, wherever they are at the moment.   *)
Live ==
  IF InUser
    THEN [f \in Range(cpu_state_t) |->
            IF f = "flags" THEN regs.eflags ELSE regs[f]]
  ELSE IF pc = "iret"
    THEN [f \in Range(cpu_state_t) |->
            CASE f = "eip" -> stack[1]
              [] f = "flags" -> stack[3]
              [] f = "esp" -> stack[4]
              [] OTHER -> regs[f]]
  ELSE Saved

(* Threads do not notice interrupts, system calls and switches: see        *)
(* VirtualCpus.  Every register of every thread passes through the right   *)
(* place of the stack, of registers_t and of cpu_state_t, in any order of  *)
(* ticks, keys, faults, calls and exits.                                   *)
Virtual ==
  INSTANCE VirtualCpus WITH
    NoThread <- "nobody",
    running <- IF m_userland THEN current ELSE "nobody",
    context <- [t \in alive |-> IF m_userland /\ t = current
                                  THEN Live ELSE m_cpu_state[t]]

RefinesVirtualCpus == Virtual!Spec

(* From the moment its handler is installed a timer that counts interrupts *)
(* whatever runs, again and again: a program that loops, faults on the     *)
(* same instruction for ever or calls the kernel without end does not keep *)
(* the processor.  This is the fairness module Kernel assumes.  Only       *)
(* init_timer stops the PIT, to give it its count: if a tick that was on   *)
(* the way comes before the count is there, nothing preempts any more.     *)
TimerPreempts ==
  timer_installed /\ pit = "counting"
    ~> \/ pc = "handler" /\ Field("int_no") = Number(32)
       \/ pit = "stopped"

(* Every scancode is read, unless ticks come so fast that from some moment *)
(* on the next one is there whenever the processor could be interrupted.   *)
KeysAreRead ==
  []<>(Interruptible /\ 0 \notin requested) => key_waiting ~> ~key_waiting

=============================================================================
