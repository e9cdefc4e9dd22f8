-------------------------- MODULE InterruptsProofs --------------------------
(***************************************************************************)
(* Theorems about module Interrupts, for any threads, devices and faults.  *)
(*                                                                         *)
(* The invariant follows the path of an interrupt: the processor is in a   *)
(* program, in the constructor, in a handler above the frame of what was   *)
(* interrupted, or between sti and iret with the rest of that frame.       *)
(* Nothing else is needed to know where the registers of a thread lie at   *)
(* any moment, and that is what the refinement rests on.                   *)
(***************************************************************************)
EXTENDS Interrupts, SequenceTheorems, TLAPS

-----------------------------------------------------------------------------
(* The invariant. *)

(* Registers a program can run with: interrupts enabled, and eip a word    *)
(* that Computed can alternate.                                            *)
Runnable(s) ==
  /\ s \in [Range(cpu_state_t) -> Words]
  /\ s["flags"][2] = "IF"
  /\ s["eip"][2] = "eip"
  /\ s["eip"][3] \in {0, 1}

InProgram ==
  /\ InUser
  /\ m_userland
  /\ Len(stack) <= 16

(* In a handler.  From user mode the frame has the words useresp and ss    *)
(* too.                                                                    *)
InHandler ==
  /\ ~InUser
  /\ pc \in {"irq_handler", "handler", "return"}
  /\ regs.eflags = Disabled("kernel")
  /\ Len(stack) = IF m_userland THEN 16 ELSE 14
  /\ stack[13] = IF m_userland THEN UserCode ELSE KernelCode

AtIret ==
  /\ ~InUser
  /\ pc = "iret"
  /\ Len(stack) = IF m_userland THEN 5 ELSE 3
  /\ stack[2] = IF m_userland THEN UserCode ELSE KernelCode

Steps == {"create", "stack", "timer", "command", "low", "high", "kmain"}

(* Before the stack of the kernel is known, and before the timer has its   *)
(* handler.                                                                *)
Stackless == {"create", "stack"}
Timerless == {"create", "stack", "timer"}

InConstructor ==
  /\ ~InUser
  /\ ~m_userland
  /\ pc \in Steps
  /\ InterruptsOn
  /\ stack = << >>

(* Where the constructor goes on, and with which flags. *)
Resume == IF InHandler THEN stack[12] ELSE IF AtIret THEN stack[1] ELSE regs.eip
ResumeFlags ==
  IF InHandler THEN stack[14] ELSE IF AtIret THEN stack[3] ELSE regs.eflags

(* Until the first switch the constructor has got as far as Resume says,   *)
(* and no thread has run.                                                  *)
Constructing ==
  \E step \in Steps :
    /\ Resume = Word("kernel", step)
    /\ ResumeFlags[2] = "IF"
    /\ alive = IF step = "create" THEN {} ELSE Thread
    /\ esp0 <=> step \notin Stackless
    /\ timer_installed <=> step \notin Timerless
    /\ current = Idle
    /\ \A t \in Thread : m_cpu_state[t] = Initial(t)

(* From then on one of the threads runs. *)
Running ==
  /\ Runnable(Live)
  /\ esp0
  /\ timer_installed
  /\ current \in alive
  /\ Idle \in alive

(* Nothing is in service but before irq_handler, and what is there is what *)
(* its acknowledgement clears.                                             *)
Acknowledged ==
  IF pc = "irq_handler"
    THEN /\ \E v \in 32 .. 47 : Field("int_no") = Number(v)
         /\ EndOfInterrupt(Field("int_no")[3], in_service) = {}
    ELSE in_service = {}

(* A handler of a fault or a call interrupted a program, and not idle. *)
Raised ==
  pc = "handler" =>
    \E v \in Faults \cup {123} \cup 32 .. 47 :
      /\ Field("int_no") = Number(v)
      /\ v \notin 32 .. 47 => m_userland /\ current # Idle

IInv ==
  /\ TypeOK
  /\ \A t \in Thread : Runnable(m_cpu_state[t])
  /\ InProgram \/ InHandler \/ AtIret \/ InConstructor
  /\ IF m_userland THEN Running ELSE Constructing
  /\ Acknowledged
  /\ Raised

-----------------------------------------------------------------------------
(* Layouts. *)

FieldsLie ==
  /\ Field("ds") = stack[1] /\ Field("edi") = stack[2]
  /\ Field("esi") = stack[3] /\ Field("ebp") = stack[4]
  /\ Field("ebx") = stack[6] /\ Field("edx") = stack[7]
  /\ Field("ecx") = stack[8] /\ Field("eax") = stack[9]
  /\ Field("int_no") = stack[10] /\ Field("eip") = stack[12]
  /\ Field("cs") = stack[13] /\ Field("eflags") = stack[14]
  /\ Field("useresp") = stack[15]

LEMMA Fields == FieldsLie
<1>1. Len(registers_t) = 16
  BY DEF registers_t
<1>2. \A i, j \in 1 .. 16 : registers_t[i] = registers_t[j] => i = j
  BY DEF registers_t
<1>3. ASSUME NEW k \in 1 .. 16
      PROVE  Field(registers_t[k]) = stack[k]
  <2>1. (CHOOSE i \in 1 .. 16 : registers_t[i] = registers_t[k]) = k
    BY <1>2
  <2> QED BY <1>1, <2>1 DEF Field
<1>4. /\ registers_t[1] = "ds" /\ registers_t[2] = "edi"
      /\ registers_t[3] = "esi" /\ registers_t[4] = "ebp"
      /\ registers_t[6] = "ebx" /\ registers_t[7] = "edx"
      /\ registers_t[8] = "ecx" /\ registers_t[9] = "eax"
      /\ registers_t[10] = "int_no" /\ registers_t[12] = "eip"
      /\ registers_t[13] = "cs" /\ registers_t[14] = "eflags"
      /\ registers_t[15] = "useresp"
  BY DEF registers_t
<1> QED BY <1>3, <1>4 DEF FieldsLie

LEMMA StateFields ==
  Range(cpu_state_t) =
    {"esp", "ebp", "eip", "edi", "esi", "eax", "ebx", "ecx", "edx", "flags"}
<1>1. DOMAIN cpu_state_t = 1 .. 10
  BY DEF cpu_state_t
<1> QED BY <1>1 DEF Range, cpu_state_t

LEMMA FrameFields ==
  Range(registers_t) =
    {"ds", "edi", "esi", "ebp", "esp", "ebx", "edx", "ecx", "eax", "int_no",
     "err_code", "eip", "cs", "eflags", "useresp", "ss"}
<1>1. DOMAIN registers_t = 1 .. 16
  BY DEF registers_t
<1> QED BY <1>1 DEF Range, registers_t

RegisterNames ==
  {"edi", "esi", "ebp", "esp", "ebx", "edx", "ecx", "eax"}
    \cup {"eip", "eflags", "cs", "ds"}

Routines == Steps \cup {"irq_handler", "handler", "return", "iret"}

(* The conjuncts of TypeOK about the registers. *)
RegsOK ==
  /\ DOMAIN regs = RegisterNames
  /\ \A r \in RegisterNames : regs[r] \in Words
  /\ regs.cs \in {UserCode, KernelCode}

LEMMA KernelWords ==
  /\ \A what \in RegisterNames \cup Routines \cup {"IF", "no IF", "error"} :
       Word("kernel", what) \in Words
  /\ UserCode \in Words /\ UserData \in Words
  /\ \A n \in Nat : Number(n) \in Words
  /\ UserCode # KernelCode
BY FrameFields DEF Words, Word, UserCode, UserData, KernelCode, Number,
     RegisterNames, Routines, Steps

LEMMA RegsType == TypeOK => RegsOK
BY DEF TypeOK, RegsOK, RegisterNames

LEMMA KernelRegsType ==
  ASSUME NEW routine \in Routines, NEW flags \in Words,
         regs' = KernelRegs(routine, flags)
  PROVE  /\ RegsOK'
         /\ regs'.eip = Word("kernel", routine)
         /\ regs'.eflags = flags
         /\ ~InUser' /\ pc' = routine
<1>1. /\ DOMAIN regs' = RegisterNames
      /\ regs'.eip = Word("kernel", routine)
      /\ regs'.eflags = flags
      /\ regs'.cs = KernelCode
      /\ \A r \in RegisterNames \ {"eip", "eflags"} : regs'[r] = Word("kernel", r)
  BY DEF KernelRegs, RegisterNames, KernelCode
<1>2. \A r \in RegisterNames : regs'[r] \in Words
  BY <1>1, KernelWords
<1>3. pc' = routine
  BY <1>1 DEF pc, Word
<1> QED BY <1>1, <1>2, <1>3, KernelWords DEF RegsOK, InUser

LEMMA JumpType ==
  ASSUME RegsOK, NEW routine \in Routines, Jump(routine)
  PROVE  /\ RegsOK'
         /\ regs'.eip = Word("kernel", routine)
         /\ pc' = routine
         /\ regs'.cs = regs.cs /\ regs'.eflags = regs.eflags
<1>1. /\ DOMAIN regs' = RegisterNames
      /\ regs'.eip = Word("kernel", routine)
      /\ \A r \in RegisterNames \ {"eip"} : regs'[r] = regs[r]
  BY DEF Jump, RegsOK, RegisterNames
<1>2. \A r \in RegisterNames : regs'[r] \in Words
  BY <1>1, KernelWords DEF RegsOK
<1>3. regs'.cs = regs.cs /\ regs'.eflags = regs.eflags
  BY <1>1 DEF RegisterNames
<1> QED BY <1>1, <1>2, <1>3 DEF RegsOK, pc, Word

-----------------------------------------------------------------------------
(* Into the kernel. *)

LEMMA Pushed ==
  ASSUME NEW v, Enter(v)
  PROVE  stack' = Reverse(ProcessorPushes(v)
                            \o (IF Routine(v) = "irq_handler"
                                  THEN IrqStubPushes(v) ELSE StubPushes(v))
                            \o CommonStubPushes)
                    \o (IF InUser THEN << >> ELSE stack)
BY DEF Enter

Vectors == Faults \cup {123} \cup 32 .. 47

(* Whatever the vector, the fields of registers_t lie where the handlers   *)
(* look for them: the dummy error code makes up for the missing one.       *)
LEMMA EnterProgram ==
  ASSUME TypeOK, InUser, NEW v \in Vectors, Enter(v)
  PROVE  /\ stack' \in Seq(Words) /\ Len(stack') = 16
         /\ stack'[1] = regs.ds /\ stack'[2] = regs.edi /\ stack'[3] = regs.esi
         /\ stack'[4] = regs.ebp /\ stack'[6] = regs.ebx
         /\ stack'[7] = regs.edx /\ stack'[8] = regs.ecx
         /\ stack'[9] = regs.eax /\ stack'[10] = Number(v)
         /\ stack'[12] = regs.eip /\ stack'[13] = regs.cs
         /\ stack'[14] = regs.eflags /\ stack'[15] = regs.esp
<1> DEFINE frame(e) ==
      <<regs.ds, regs.edi, regs.esi, regs.ebp, Word("kernel", "esp"), regs.ebx,
        regs.edx, regs.ecx, regs.eax, Number(v), e, regs.eip, regs.cs,
        regs.eflags, regs.esp, UserData>>
<1>1. \E e \in Words : stack' = frame(e) \o << >>
  <2>1. CASE v \in {8} \cup 10 .. 14
    <3>1. ~ (v \in 32 .. 47)
      BY <2>1
    <3>2. /\ ProcessorPushes(v) =
               (<<UserData, regs.esp>> \o <<regs.eflags, regs.cs, regs.eip>>)
                 \o <<Word("kernel", "error")>>
          /\ Routine(v) = "handler" /\ StubPushes(v) = <<Number(v)>>
      BY <2>1, <3>1 DEF Routine, StubPushes, ProcessorPushes
    <3>3. Reverse(((<<UserData, regs.esp>> \o <<regs.eflags, regs.cs, regs.eip>>)
                      \o <<Word("kernel", "error")>>) \o <<Number(v)>>
                      \o CommonStubPushes)
            = frame(Word("kernel", "error"))
      BY DEF Reverse, CommonStubPushes
    <3>4. stack' = frame(Word("kernel", "error")) \o << >>
      BY Zenon, <3>2, <3>3, Pushed
    <3> QED BY <3>4, KernelWords
  <2>2. CASE v \in 32 .. 47
    <3>1. ~ (v \in {8} \cup 10 .. 14) /\ v - 32 \in Nat
      BY <2>2
    <3>2. /\ ProcessorPushes(v) =
               (<<UserData, regs.esp>> \o <<regs.eflags, regs.cs, regs.eip>>)
                 \o << >>
          /\ Routine(v) = "irq_handler"
          /\ IrqStubPushes(v) = <<Number(v - 32), Number(v)>>
      BY <2>2, <3>1 DEF Routine, IrqStubPushes, ProcessorPushes
    <3>3. Reverse(((<<UserData, regs.esp>> \o <<regs.eflags, regs.cs, regs.eip>>)
                      \o << >>) \o <<Number(v - 32), Number(v)>>
                      \o CommonStubPushes)
            = frame(Number(v - 32))
      BY DEF Reverse, CommonStubPushes
    <3>4. stack' = frame(Number(v - 32)) \o << >>
      BY Zenon, <3>2, <3>3, Pushed
    <3> QED BY <3>1, <3>4, KernelWords
  <2>3. CASE ~ (v \in {8} \cup 10 .. 14) /\ ~ (v \in 32 .. 47)
    <3>1. /\ ProcessorPushes(v) =
               (<<UserData, regs.esp>> \o <<regs.eflags, regs.cs, regs.eip>>)
                 \o << >>
          /\ Routine(v) = "handler"
          /\ StubPushes(v) = <<Number(0), Number(v)>>
      BY <2>3 DEF Routine, StubPushes, ProcessorPushes
    <3>2. Reverse(((<<UserData, regs.esp>> \o <<regs.eflags, regs.cs, regs.eip>>)
                      \o << >>) \o <<Number(0), Number(v)>>
                      \o CommonStubPushes)
            = frame(Number(0))
      BY DEF Reverse, CommonStubPushes
    <3>3. stack' = frame(Number(0)) \o << >>
      BY Zenon, <3>1, <3>2, Pushed
    <3> QED BY <3>3, KernelWords
  <2> QED BY <2>1, <2>2, <2>3
<1>2. PICK e \in Words : stack' = frame(e) \o << >>
  BY <1>1
<1>3. v \in Nat
  BY FaultAssumption DEF Vectors
<1>4. \A r \in RegisterNames : regs[r] \in Words
  BY RegsType DEF RegsOK
<1>5. frame(e) \in Seq(Words)
  <2>1. /\ regs.ds \in Words /\ regs.edi \in Words /\ regs.esi \in Words
        /\ regs.ebp \in Words /\ regs.ebx \in Words /\ regs.edx \in Words
        /\ regs.ecx \in Words /\ regs.eax \in Words /\ regs.eip \in Words
        /\ regs.cs \in Words /\ regs.eflags \in Words /\ regs.esp \in Words
    BY <1>4 DEF RegisterNames
  <2>2. Word("kernel", "esp") \in Words /\ Number(v) \in Words /\ UserData \in Words
    BY <1>3, KernelWords DEF RegisterNames
  <2> QED BY <2>1, <2>2
<1>6. stack' = frame(e)
  BY <1>2, <1>5
<1> QED BY <1>5, <1>6

LEMMA EnterConstructor ==
  ASSUME TypeOK, ~InUser, stack = << >>, NEW v \in 32 .. 47, Enter(v)
  PROVE  /\ stack' \in Seq(Words) /\ Len(stack') = 14
         /\ stack'[10] = Number(v)
         /\ stack'[12] = regs.eip /\ stack'[13] = regs.cs
         /\ stack'[14] = regs.eflags
<1> DEFINE frame ==
      <<regs.ds, regs.edi, regs.esi, regs.ebp, Word("kernel", "esp"), regs.ebx,
        regs.edx, regs.ecx, regs.eax, Number(v), Number(v - 32), regs.eip,
        regs.cs, regs.eflags>>
<1>1. ~ (v \in {8} \cup 10 .. 14) /\ v - 32 \in Nat /\ v \in Nat
  OBVIOUS
<1>2. stack' = frame \o << >>
  <2>1. /\ ProcessorPushes(v) =
             (<< >> \o <<regs.eflags, regs.cs, regs.eip>>) \o << >>
        /\ Routine(v) = "irq_handler"
        /\ IrqStubPushes(v) = <<Number(v - 32), Number(v)>>
    BY <1>1 DEF Routine, IrqStubPushes, ProcessorPushes
  <2>2. Reverse(((<< >> \o <<regs.eflags, regs.cs, regs.eip>>) \o << >>)
                  \o <<Number(v - 32), Number(v)>> \o CommonStubPushes)
          = frame
    BY DEF Reverse, CommonStubPushes
  <2> QED BY Zenon, <2>1, <2>2, Pushed
<1>3. \A r \in RegisterNames : regs[r] \in Words
  BY RegsType DEF RegsOK
<1>4. frame \in Seq(Words)
  <2>1. /\ regs.ds \in Words /\ regs.edi \in Words /\ regs.esi \in Words
        /\ regs.ebp \in Words /\ regs.ebx \in Words /\ regs.edx \in Words
        /\ regs.ecx \in Words /\ regs.eax \in Words /\ regs.eip \in Words
        /\ regs.cs \in Words /\ regs.eflags \in Words
    BY <1>3 DEF RegisterNames
  <2>2. /\ Word("kernel", "esp") \in Words
        /\ Number(v) \in Words /\ Number(v - 32) \in Words
    BY <1>1, KernelWords DEF RegisterNames
  <2> QED BY <2>1, <2>2
<1>5. stack' = frame
  BY <1>2, <1>4
<1> QED BY <1>4, <1>5

-----------------------------------------------------------------------------
(* The registers of the running thread. *)

StateNames ==
  {"esp", "ebp", "eip", "edi", "esi", "eax", "ebx", "ecx", "edx", "flags"}

LEMMA SameState ==
  ASSUME NEW s, NEW t,
         s = [f \in StateNames |-> s[f]], t = [f \in StateNames |-> t[f]],
         s.esp = t.esp, s.ebp = t.ebp, s.eip = t.eip, s.edi = t.edi,
         s.esi = t.esi, s.eax = t.eax, s.ebx = t.ebx, s.ecx = t.ecx,
         s.edx = t.edx, s.flags = t.flags
  PROVE  s = t
<1>1. \A f \in StateNames : s[f] = t[f]
  BY DEF StateNames
<1> QED BY <1>1

LiveLies ==
  InUser => /\ Live = [f \in StateNames |-> Live[f]]
            /\ \A f \in StateNames \ {"flags"} : Live[f] = regs[f]
            /\ Live.flags = regs.eflags

LEMMA LiveInProgram == LiveLies
BY StateFields DEF Live, StateNames, LiveLies

SavedLies ==
  /\ Saved = [f \in StateNames |-> Saved[f]]
  /\ Saved.esp = stack[15] /\ Saved.ebp = stack[4] /\ Saved.eip = stack[12]
  /\ Saved.edi = stack[2] /\ Saved.esi = stack[3] /\ Saved.eax = stack[9]
  /\ Saved.ebx = stack[6] /\ Saved.ecx = stack[8] /\ Saved.edx = stack[7]
  /\ Saved.flags = stack[14]

LEMMA SavedIsState == SavedLies
BY Fields DEF Saved, StateNames, SavedLies, FieldsLie

LEMMA LiveInHandler ==
  ASSUME InHandler
  PROVE  Live = Saved
BY DEF InHandler, Live

LiveLiesAtIret ==
  ~InUser /\ pc = "iret" =>
    /\ Live = [f \in StateNames |-> Live[f]]
    /\ Live.eip = stack[1] /\ Live.flags = stack[3] /\ Live.esp = stack[4]
    /\ \A f \in StateNames \ {"eip", "flags", "esp"} : Live[f] = regs[f]

LEMMA LiveAtIret == LiveLiesAtIret
BY StateFields DEF Live, StateNames, LiveLiesAtIret

LEMMA RunnableFields ==
  ASSUME NEW s, s = [f \in StateNames |-> s[f]]
  PROVE  Runnable(s) <=>
           /\ s.esp \in Words /\ s.ebp \in Words /\ s.eip \in Words
           /\ s.edi \in Words /\ s.esi \in Words /\ s.eax \in Words
           /\ s.ebx \in Words /\ s.ecx \in Words /\ s.edx \in Words
           /\ s.flags \in Words
           /\ s["flags"][2] = "IF" /\ s["eip"][2] = "eip" /\ s["eip"][3] \in {0, 1}
<1>1. (\A f \in StateNames : s[f] \in Words) <=>
           /\ s.esp \in Words /\ s.ebp \in Words /\ s.eip \in Words
           /\ s.edi \in Words /\ s.esi \in Words /\ s.eax \in Words
           /\ s.ebx \in Words /\ s.ecx \in Words /\ s.edx \in Words
           /\ s.flags \in Words
  BY DEF StateNames
<1>2. s \in [StateNames -> Words] <=> \A f \in StateNames : s[f] \in Words
  OBVIOUS
<1>3. Range(cpu_state_t) = StateNames
  BY StateFields DEF StateNames
<1> QED BY <1>1, <1>2, <1>3 DEF Runnable

LEMMA InitialIsRunnable ==
  ASSUME NEW t \in Thread
  PROVE  Runnable(Initial(t))
<1>1. \A f \in StateNames : Initial(t)[f] = IF f = "flags" THEN Enabled(t) ELSE Word(t, f)
  BY StateFields DEF Initial, StateNames
<1>2. Initial(t) = [f \in StateNames |-> Initial(t)[f]]
  BY StateFields DEF Initial, StateNames
<1>3. \A f \in StateNames \ {"flags"} : Word(t, f) \in Words
  BY FrameFields DEF Words, Word, StateNames
<1>4. Enabled(t) \in Words
  BY DEF Enabled, Words, Word
<1>5. \A f \in StateNames : Initial(t)[f] \in Words
  BY <1>1, <1>3, <1>4
<1>6. /\ Initial(t).flags = <<t, "IF", 0>>
      /\ Initial(t).eip = <<t, "eip", 0>>
  BY <1>1 DEF StateNames, Enabled, Word
<1>7. Initial(t) \in [StateNames -> Words]
  BY <1>2, <1>5
<1>8. Range(cpu_state_t) = StateNames
  BY StateFields DEF StateNames
<1> QED BY <1>6, <1>7, <1>8 DEF Runnable

-----------------------------------------------------------------------------
(* The places. *)

LEMMA Places ==
  ASSUME IInv
  PROVE  /\ InUser => InProgram /\ pc = "eip" /\ InterruptsOn
         /\ pc \in {"irq_handler", "handler", "return"} => InHandler
         /\ pc = "iret" => AtIret
         /\ pc \in Steps => InConstructor
         /\ Interruptible => InProgram \/ InConstructor
<1>1. InUser => InProgram
  BY DEF IInv, InProgram, InHandler, AtIret, InConstructor
<1>2. InUser => pc = "eip" /\ InterruptsOn
  <2> SUFFICES ASSUME InUser PROVE pc = "eip" /\ InterruptsOn
    OBVIOUS
  <2>1. Runnable(Live)
    BY <1>1 DEF IInv, InProgram, Running
  <2>2. Live.eip = regs.eip /\ Live.flags = regs.eflags
    BY LiveInProgram DEF StateNames, LiveLies
  <2> QED BY <2>1, <2>2 DEF Runnable, pc, InterruptsOn
<1>3. InHandler => ~ InterruptsOn
  <2>1. Disabled("kernel")[2] = "no IF"
    BY DEF Disabled, Word
  <2> QED BY <2>1 DEF InHandler, InterruptsOn
<1> QED BY <1>1, <1>2, <1>3
        DEF IInv, InProgram, InHandler, AtIret, InConstructor, Steps, Interruptible

(* Of TypeOK, what a step that leaves regs and stack alone has to keep. *)
RestOK ==
  /\ requested \subseteq Line
  /\ in_service \subseteq UNION {Occupies(n) : n \in Line}
  /\ key_waiting \in BOOLEAN
  /\ alive \subseteq Thread
  /\ current \in Thread
  /\ m_userland \in BOOLEAN
  /\ esp0 \in BOOLEAN
  /\ timer_installed \in BOOLEAN
  /\ pit \in {"counting", "stopped"}

TypedByParts ==
  (\A t \in Thread : Runnable(m_cpu_state[t]))
    => (TypeOK <=> /\ RegsOK
                   /\ stack \in Seq(Words)
                   /\ RestOK
                   /\ m_cpu_state = [t \in Thread |-> m_cpu_state[t]])

LEMMA TypeParts == TypedByParts
<1> SUFFICES ASSUME \A t \in Thread : Runnable(m_cpu_state[t])
             PROVE  TypedByParts
  BY DEF TypedByParts
<1>1. \A t \in Thread : m_cpu_state[t] \in [Range(cpu_state_t) -> Words]
  BY DEF Runnable
<1>2. m_cpu_state \in [Thread -> [Range(cpu_state_t) -> Words]]
        <=> m_cpu_state = [t \in Thread |-> m_cpu_state[t]]
  BY <1>1
<1>3. TypeOK <=> RegsOK /\ stack \in Seq(Words) /\ RestOK
                   /\ m_cpu_state \in [Thread -> [Range(cpu_state_t) -> Words]]
  BY DEF TypeOK, RegsOK, RestOK, RegisterNames
<1> QED BY <1>2, <1>3 DEF TypedByParts

(* The same in the next state. *)
LEMMA NextLayouts ==
  FieldsLie' /\ SavedLies' /\ LiveLies' /\ LiveLiesAtIret' /\ TypedByParts'
BY Fields, SavedIsState, LiveInProgram, LiveAtIret, TypeParts, PTL

LEMMA StackWords ==
  ASSUME stack \in Seq(Words), NEW i \in 1 .. Len(stack)
  PROVE  stack[i] \in Words
OBVIOUS

-----------------------------------------------------------------------------
(* The steps, by where they lead. *)

(* From a program or the constructor into a handler. *)
LEMMA ToHandler ==
  ASSUME IInv, InProgram \/ InConstructor, RestOK',
         NEW v \in Vectors, Enter(v),
         v \notin 32 .. 47 => InProgram /\ current # Idle,
         IF v \in 32 .. 47 THEN EndOfInterrupt(v, in_service') = {}
                           ELSE in_service' = {},
         UNCHANGED <<threads, boot>>
  PROVE  IInv' /\ (m_userland => Live' = Live)
<1> DEFINE routine == IF v \in 32 .. 47 THEN "irq_handler" ELSE "handler"
<1>1. /\ RegsOK'
      /\ regs'.eflags = Disabled("kernel")
      /\ ~InUser' /\ pc' = routine
  <2>1. routine \in Routines /\ Disabled("kernel") \in Words
    BY KernelWords DEF Routines, Disabled
  <2>2. regs' = KernelRegs(routine, Disabled("kernel"))
    BY DEF Enter, Routine, set_idt_gate
  <2> QED BY <2>1, <2>2, KernelRegsType
<1>2. stack' \in Seq(Words) /\ stack'[10] = Number(v) /\ stack'[12] = regs.eip
      /\ stack'[14] = regs.eflags
      /\ Len(stack') = (IF m_userland THEN 16 ELSE 14)
      /\ stack'[13] = (IF m_userland THEN UserCode ELSE KernelCode)
  <2>1. CASE InProgram
    BY <2>1, EnterProgram DEF IInv, InProgram, InUser
  <2>2. CASE InConstructor
    <3>1. v \in 32 .. 47 /\ ~InUser /\ stack = << >> /\ TypeOK /\ ~m_userland
      BY <2>2 DEF InConstructor, InProgram, IInv
    <3>2. regs.cs = KernelCode
      BY <3>1 DEF TypeOK, InUser
    <3> QED BY <3>1, <3>2, EnterConstructor
  <2> QED BY <2>1, <2>2
<1>3. InHandler'
  BY <1>1, <1>2 DEF InHandler, threads
<1>4. ASSUME m_userland PROVE Live' = Live
  <2>1. InUser /\ TypeOK
    BY <1>4 DEF InProgram, InConstructor, IInv
  <2>2. Live' = Saved'
    BY <1>3, LiveInHandler DEF InHandler, Live
  <2>3. /\ Live = [f \in StateNames |-> Live[f]]
        /\ Live.esp = regs.esp /\ Live.ebp = regs.ebp /\ Live.eip = regs.eip
        /\ Live.edi = regs.edi /\ Live.esi = regs.esi /\ Live.eax = regs.eax
        /\ Live.ebx = regs.ebx /\ Live.ecx = regs.ecx /\ Live.edx = regs.edx
        /\ Live.flags = regs.eflags
    BY <2>1, LiveInProgram DEF StateNames, LiveLies
  <2>4. /\ stack'[15] = regs.esp /\ stack'[4] = regs.ebp /\ stack'[12] = regs.eip
        /\ stack'[2] = regs.edi /\ stack'[3] = regs.esi /\ stack'[9] = regs.eax
        /\ stack'[6] = regs.ebx /\ stack'[8] = regs.ecx /\ stack'[7] = regs.edx
        /\ stack'[14] = regs.eflags
    BY <2>1, EnterProgram
  <2>5. SavedLies'
    BY NextLayouts
  <2>6. Saved' = Live
    BY <2>3, <2>4, <2>5, SameState DEF SavedLies
  <2> QED BY <2>2, <2>6
<1>5. IF m_userland' THEN Running' ELSE Constructing'
  <2>1. CASE m_userland
    <3>1. Running
      BY <2>1 DEF IInv
    <3> QED BY <2>1, <3>1, <1>4 DEF Running, threads, boot
  <2>2. CASE ~m_userland
    <3>1. InConstructor /\ ~InHandler /\ ~AtIret
      BY <2>2 DEF InProgram, InConstructor, InHandler, AtIret, Steps
    <3>2. Constructing /\ Resume = regs.eip /\ ResumeFlags = regs.eflags
      BY <2>2, <3>1 DEF IInv, Resume, ResumeFlags
    <3>3. Resume' = Resume /\ ResumeFlags' = ResumeFlags
      BY <1>2, <1>3, <3>2 DEF Resume, ResumeFlags
    <3> QED BY <2>2, <3>2, <3>3 DEF Constructing, threads, boot
  <2> QED BY <2>1, <2>2 DEF threads
<1>6. Field("int_no")' = Number(v) /\ Field("int_no")'[3] = v
  BY <1>2, NextLayouts DEF Number, FieldsLie
<1>7. Acknowledged' /\ Raised'
  BY <1>1, <1>6 DEF Acknowledged, Raised, Vectors, InProgram, threads
<1>8. \A t \in Thread : Runnable(m_cpu_state'[t])
  BY DEF IInv, threads
<1>9. TypeOK'
  <2>1. m_cpu_state' = [t \in Thread |-> m_cpu_state'[t]]
    BY DEF IInv, TypeOK, threads
  <2> QED BY <1>1, <1>2, <1>8, <2>1, NextLayouts DEF TypedByParts
<1> QED BY <1>3, <1>4, <1>5, <1>7, <1>8, <1>9 DEF IInv

(* From one routine of the kernel to the next, above the same frame. *)
LEMMA StayInHandler ==
  ASSUME IInv, InHandler, NEW routine \in {"handler", "return"}, Jump(routine),
         UNCHANGED <<stack, m_userland>>
  PROVE  /\ RegsOK' /\ stack' \in Seq(Words)
         /\ InHandler' /\ pc' = routine
         /\ Live' = Live
         /\ Resume' = Resume /\ ResumeFlags' = ResumeFlags
         /\ Field("int_no")' = Field("int_no")
<1>1. RegsOK /\ stack \in Seq(Words)
  BY RegsType DEF IInv, TypeOK
<1>2. routine \in Routines
  BY DEF Routines
<1>3. /\ RegsOK' /\ pc' = routine
      /\ regs'.cs = regs.cs /\ regs'.eflags = regs.eflags
  BY <1>1, <1>2, JumpType
<1>4. InHandler'
  BY <1>3 DEF InHandler, InUser
<1>5. Saved' = Saved
  BY DEF Saved, Field
<1>6. Live = Saved /\ Live' = Saved'
  BY <1>4, LiveInHandler DEF InHandler, Live
<1>7. Resume' = Resume /\ ResumeFlags' = ResumeFlags
  BY <1>4 DEF Resume, ResumeFlags
<1>8. Field("int_no")' = Field("int_no")
  BY DEF Field
<1> QED BY <1>1, <1>3, <1>4, <1>5, <1>6, <1>7, <1>8

(* From a handler to the next routine, where no thread is changed but the  *)
(* copies of its registers and alive.                                      *)
LEMMA ToRoutine ==
  ASSUME IInv, InHandler, NEW routine \in {"handler", "return"}, Jump(routine),
         UNCHANGED <<stack, m_userland, current, boot>>, RestOK',
         IF m_userland
           THEN /\ alive \subseteq alive'
                /\ \A t \in Thread : Runnable(m_cpu_state'[t])
                /\ m_cpu_state' = [t \in Thread |-> m_cpu_state'[t]]
           ELSE UNCHANGED <<alive, m_cpu_state>>,
         in_service' = {},
         routine = "handler" => pc = "irq_handler"
  PROVE  IInv' /\ Live' = Live
<1>1. /\ RegsOK' /\ stack' \in Seq(Words)
      /\ InHandler' /\ pc' = routine
      /\ Live' = Live
      /\ Resume' = Resume /\ ResumeFlags' = ResumeFlags
      /\ Field("int_no")' = Field("int_no")
  BY StayInHandler
<1>2. /\ \A t \in Thread : Runnable(m_cpu_state'[t])
      /\ m_cpu_state' = [t \in Thread |-> m_cpu_state'[t]]
  BY DEF IInv, TypeOK
<1>3. TypeOK'
  BY <1>1, <1>2, NextLayouts DEF TypedByParts
<1>4. IF m_userland' THEN Running' ELSE Constructing'
  <2>1. CASE m_userland
    <3>1. Running
      BY <2>1 DEF IInv
    <3> QED BY <1>1, <2>1, <3>1 DEF Running, boot
  <2>2. CASE ~m_userland
    <3>1. Constructing
      BY <2>2 DEF IInv
    <3> QED BY <1>1, <2>2, <3>1 DEF Constructing, boot
  <2> QED BY <2>1, <2>2
<1>5. Acknowledged' /\ Raised'
  <2>1. Acknowledged'
    BY <1>1 DEF Acknowledged
  <2>2. ASSUME pc' = "handler" PROVE Raised'
    <3>1. pc = "irq_handler"
      BY <1>1, <2>2
    <3>2. \E v \in 32 .. 47 : Field("int_no") = Number(v)
      BY <3>1 DEF IInv, Acknowledged
    <3> QED BY <1>1, <3>2 DEF Raised
  <2> QED BY <2>1, <2>2 DEF Raised
<1> QED BY <1>1, <1>2, <1>3, <1>4, <1>5 DEF IInv

LEMMA FrameSizes ==
  /\ 14 <= 16 /\ 16 <= 16 /\ 12 <= 14 /\ 12 <= 16
  /\ 12 \in Int /\ 14 \in Int /\ 16 \in Int
OBVIOUS

(* From a handler that does not return into a program, with its registers. *)
LEMMA ToProgram ==
  ASSUME IInv, InHandler, NEW s, Runnable(s), enter_usermode(s),
         UNCHANGED <<stack, in_service, boot>>, in_service = {},
         esp0, timer_installed,
         m_userland' = TRUE, current' \in alive', Idle \in alive', RestOK',
         \A t \in Thread : Runnable(m_cpu_state'[t]),
         m_cpu_state' = [t \in Thread |-> m_cpu_state'[t]]
  PROVE  IInv' /\ Live' = s
<1>1. /\ DOMAIN regs' = RegisterNames
      /\ regs'.esp = s.esp /\ regs'.ebp = s.ebp /\ regs'.eip = s.eip
      /\ regs'.edi = s.edi /\ regs'.esi = s.esi /\ regs'.eax = s.eax
      /\ regs'.ebx = s.ebx /\ regs'.ecx = s.ecx /\ regs'.edx = s.edx
      /\ regs'.eflags = s.flags /\ regs'.cs = UserCode /\ regs'.ds = UserData
  <2>1. /\ cpu_state_t[1] = "esp" /\ cpu_state_t[2] = "ebp"
        /\ cpu_state_t[3] = "eip" /\ cpu_state_t[4] = "edi"
        /\ cpu_state_t[5] = "esi" /\ cpu_state_t[6] = "eax"
        /\ cpu_state_t[7] = "ebx" /\ cpu_state_t[8] = "ecx"
        /\ cpu_state_t[9] = "edx" /\ cpu_state_t[10] = "flags"
    BY DEF cpu_state_t
  <2>2. /\ (8 - 8) \div 4 + 1 = 1 /\ (12 - 8) \div 4 + 1 = 2
        /\ (16 - 8) \div 4 + 1 = 3 /\ (20 - 8) \div 4 + 1 = 4
        /\ (24 - 8) \div 4 + 1 = 5 /\ (28 - 8) \div 4 + 1 = 6
        /\ (32 - 8) \div 4 + 1 = 7 /\ (36 - 8) \div 4 + 1 = 8
        /\ (40 - 8) \div 4 + 1 = 9 /\ (44 - 8) \div 4 + 1 = 10
    OBVIOUS
  <2> QED BY <2>1, <2>2 DEF enter_usermode, RegisterNames
<1>2. /\ s = [f \in StateNames |-> s[f]]
      /\ \A f \in StateNames : s[f] \in Words
      /\ s["flags"][2] = "IF" /\ s["eip"][2] = "eip"
  BY StateFields DEF Runnable, StateNames
<1>3. RegsOK'
  <2>1. \A r \in RegisterNames : regs'[r] \in Words
    BY <1>1, <1>2, KernelWords DEF RegisterNames, StateNames
  <2> QED BY <1>1, <2>1 DEF RegsOK
<1>4. InUser' /\ pc' = "eip" /\ InterruptsOn'
  BY <1>1, <1>2 DEF InUser, pc, InterruptsOn
<1>5. Live' = s
  <2>1. LiveLies'
    BY NextLayouts
  <2>2. /\ Live' = [f \in StateNames |-> Live'[f]]
        /\ \A f \in StateNames \ {"flags"} : Live'[f] = regs'[f]
        /\ Live'.flags = regs'.eflags
    BY <1>4, <2>1 DEF LiveLies
  <2>3. /\ Live'.esp = s.esp /\ Live'.ebp = s.ebp /\ Live'.eip = s.eip
        /\ Live'.edi = s.edi /\ Live'.esi = s.esi /\ Live'.eax = s.eax
        /\ Live'.ebx = s.ebx /\ Live'.ecx = s.ecx /\ Live'.edx = s.edx
        /\ Live'.flags = s.flags
    BY <1>1, <2>2 DEF StateNames
  <2> QED BY <1>2, <2>2, <2>3, SameState
<1>6. InProgram'
  <2>1. Len(stack') <= 16
    <3>1. Len(stack) = 14 \/ Len(stack) = 16
      BY DEF InHandler
    <3> QED BY Zenon, <3>1, FrameSizes
  <2> QED BY <1>4, <2>1 DEF InProgram
<1>7. TypeOK'
  BY <1>3, NextLayouts DEF TypedByParts, IInv, TypeOK
<1>8. Running'
  BY <1>5 DEF Running, boot
<1>9. Acknowledged' /\ Raised'
  BY <1>4 DEF Acknowledged, Raised
<1> QED BY <1>5, <1>6, <1>7, <1>8, <1>9 DEF IInv

(* From a handler to iret, the frame but for what iret pops popped. *)
LEMMA ToIret ==
  ASSUME IInv, isr_common_stub
  PROVE  IInv' /\ (m_userland => Live' = Live)
<1>1. InHandler /\ TypeOK /\ in_service = {}
  <2>1. InHandler
    BY Places DEF isr_common_stub
  <2> QED BY <2>1 DEF IInv, Acknowledged, isr_common_stub
<1>2. /\ stack' \in Seq(Words) /\ Len(stack') = Len(stack) - 11
      /\ \A i \in 1 .. Len(stack) - 11 : stack'[i] = stack[i + 11]
  <2>1. stack \in Seq(Words) /\ (Len(stack) = 14 \/ Len(stack) = 16)
    BY <1>1 DEF InHandler, TypeOK
  <2>2. stack' = SubSeq(stack, 12, Len(stack))
    BY DEF isr_common_stub
  <2>3. \A i \in 12 .. Len(stack) : stack[i] \in Words
    BY <2>1
  <2>4. 12 \in Int /\ Len(stack) \in Int /\ 12 <= Len(stack)
    BY Zenon, <2>1, FrameSizes
  <2>5. /\ SubSeq(stack, 12, Len(stack)) \in Seq(Words)
        /\ Len(SubSeq(stack, 12, Len(stack))) = Len(stack) - 12 + 1
        /\ \A i \in 1 .. Len(stack) - 12 + 1 :
             SubSeq(stack, 12, Len(stack))[i] = stack[12 + i - 1]
    BY <2>3, <2>4, SubSeqProperties
  <2> QED BY <2>1, <2>2, <2>5
<1>3. /\ DOMAIN regs' = RegisterNames
      /\ regs'.ds = stack[1] /\ regs'.edi = stack[2] /\ regs'.esi = stack[3]
      /\ regs'.ebp = stack[4] /\ regs'.ebx = stack[6] /\ regs'.edx = stack[7]
      /\ regs'.ecx = stack[8] /\ regs'.eax = stack[9]
      /\ regs'.eflags = Enabled("kernel")
      /\ regs'.eip = Word("kernel", "iret")
      /\ regs'.esp = regs.esp /\ regs'.cs = regs.cs
  BY <1>1, RegsType DEF isr_common_stub, RegsOK, RegisterNames
<1>4. RegsOK'
  <2>1. \A i \in 1 .. 9 : stack[i] \in Words
    BY <1>1 DEF InHandler, TypeOK
  <2>2. Enabled("kernel") \in Words /\ Word("kernel", "iret") \in Words
    BY KernelWords DEF Routines, Enabled
  <2>3. regs.esp \in Words /\ regs.cs \in Words /\ regs.cs \in {UserCode, KernelCode}
    BY <1>1, RegsType DEF RegsOK, RegisterNames
  <2>4. \A r \in RegisterNames : regs'[r] \in Words
    BY <1>3, <2>1, <2>2, <2>3 DEF RegisterNames
  <2> QED BY <1>3, <2>3, <2>4 DEF RegsOK
<1>5. /\ ~InUser' /\ pc' = "iret"
      /\ Len(stack') = (IF m_userland THEN 5 ELSE 3)
      /\ stack'[1] = stack[12] /\ stack'[2] = stack[13] /\ stack'[3] = stack[14]
      /\ m_userland => stack'[4] = stack[15]
  <2>1. ~InUser' /\ pc' = "iret"
    BY <1>1, <1>3 DEF InHandler, InUser, pc, Word
  <2>2. Len(stack) = IF m_userland THEN 16 ELSE 14
    BY <1>1 DEF InHandler
  <2> QED BY <1>2, <2>1, <2>2
<1>6. UNCHANGED <<m_userland, current, alive, m_cpu_state, esp0, timer_installed,
                  pit, requested, in_service, key_waiting>>
  BY DEF isr_common_stub, threads, boot, pic
<1>7. AtIret'
  BY <1>1, <1>5, <1>6 DEF AtIret, InHandler
<1>8. ASSUME m_userland PROVE Live' = Live
  <2>1. Live = Saved
    BY <1>1, LiveInHandler
  <2>2. LiveLiesAtIret'
    BY NextLayouts
  <2>3. /\ Live' = [f \in StateNames |-> Live'[f]]
        /\ Live'.eip = stack'[1] /\ Live'.flags = stack'[3] /\ Live'.esp = stack'[4]
        /\ \A f \in StateNames \ {"eip", "flags", "esp"} : Live'[f] = regs'[f]
    BY <1>5, <2>2 DEF LiveLiesAtIret
  <2>4. /\ Live'.edi = stack[2] /\ Live'.esi = stack[3] /\ Live'.ebp = stack[4]
        /\ Live'.ebx = stack[6] /\ Live'.edx = stack[7] /\ Live'.ecx = stack[8]
        /\ Live'.eax = stack[9] /\ Live'.eip = stack[12]
        /\ Live'.flags = stack[14] /\ Live'.esp = stack[15]
    BY <1>3, <1>5, <1>8, <2>3 DEF StateNames
  <2>5. SavedLies
    BY SavedIsState
  <2> QED BY <2>1, <2>3, <2>4, <2>5, SameState DEF SavedLies
<1>9. IF m_userland' THEN Running' ELSE Constructing'
  <2>1. CASE m_userland
    <3>1. Running
      BY <2>1 DEF IInv
    <3> QED BY <1>6, <1>8, <2>1, <3>1 DEF Running
  <2>2. CASE ~m_userland
    <3>1. Constructing
      BY <2>2 DEF IInv
    <3>2. ~InHandler'
      BY <1>5 DEF InHandler
    <3>3. Resume' = Resume /\ ResumeFlags' = ResumeFlags
      BY <1>1, <1>5, <1>7, <3>2 DEF Resume, ResumeFlags
    <3> QED BY <1>6, <2>2, <3>1, <3>3 DEF Constructing
  <2> QED BY <1>6, <2>1, <2>2
<1>10. Acknowledged' /\ Raised'
  BY <1>1, <1>5, <1>6 DEF Acknowledged, Raised
<1>11. /\ \A t \in Thread : Runnable(m_cpu_state'[t])
       /\ TypeOK'
  <2>1. /\ \A t \in Thread : Runnable(m_cpu_state'[t])
        /\ m_cpu_state' = [t \in Thread |-> m_cpu_state'[t]]
        /\ RestOK'
    BY <1>6 DEF IInv, TypeOK, RestOK
  <2> QED BY <1>2, <1>4, <2>1, NextLayouts DEF TypedByParts
<1> QED BY <1>7, <1>8, <1>9, <1>10, <1>11 DEF IInv

(* From iret into what was interrupted. *)
LEMMA FromIret ==
  ASSUME IInv, iret
  PROVE  IInv' /\ (m_userland => Live' = Live)
<1>1. AtIret /\ TypeOK /\ RegsOK /\ in_service = {}
  <2>1. AtIret
    BY Places DEF iret
  <2> QED BY <2>1, RegsType DEF IInv, Acknowledged, iret
<1>2. /\ stack \in Seq(Words)
      /\ Len(stack) = IF m_userland THEN 5 ELSE 3
      /\ stack[2] = UserCode <=> m_userland
      /\ stack[2] \in {UserCode, KernelCode}
  BY <1>1, KernelWords DEF AtIret, TypeOK
<1>3. stack' = << >>
  <2>1. CASE m_userland
    <3>1. stack' = SubSeq(stack, 6, 5)
      BY <1>2, <2>1 DEF iret
    <3> QED BY <1>2, <3>1
  <2>2. CASE ~m_userland
    <3>1. stack' = SubSeq(stack, 4, 3)
      BY <1>2, <2>2 DEF iret
    <3> QED BY <1>2, <3>1
  <2> QED BY <2>1, <2>2
<1>4. /\ DOMAIN regs' = RegisterNames
      /\ regs'.eip = stack[1] /\ regs'.cs = stack[2] /\ regs'.eflags = stack[3]
      /\ regs'.esp = IF m_userland THEN stack[4] ELSE regs.esp
      /\ \A r \in RegisterNames \ {"eip", "cs", "eflags", "esp"} : regs'[r] = regs[r]
  BY <1>1, <1>2 DEF iret, RegsOK, RegisterNames
<1>5. RegsOK'
  <2>1. /\ stack[1] \in Words /\ stack[2] \in Words /\ stack[3] \in Words
        /\ m_userland => stack[4] \in Words
    BY <1>2
  <2>2. \A r \in RegisterNames : regs[r] \in Words
    BY <1>1 DEF RegsOK
  <2>3. \A r \in RegisterNames : regs'[r] \in Words
    BY <1>4, <2>1, <2>2 DEF RegisterNames
  <2> QED BY <1>2, <1>4, <2>3 DEF RegsOK
<1>6. UNCHANGED <<m_userland, current, alive, m_cpu_state, esp0, timer_installed,
                  pit, requested, in_service, key_waiting>>
  BY DEF iret, threads, boot, pic
<1>7. InUser' <=> m_userland
  BY <1>2, <1>4 DEF InUser
<1>8. ASSUME m_userland PROVE Live' = Live
  <2>1. ~InUser /\ pc = "iret"
    BY <1>1 DEF AtIret
  <2>2. /\ Live = [f \in StateNames |-> Live[f]]
        /\ Live.eip = stack[1] /\ Live.flags = stack[3] /\ Live.esp = stack[4]
        /\ \A f \in StateNames \ {"eip", "flags", "esp"} : Live[f] = regs[f]
    BY <2>1, LiveAtIret DEF LiveLiesAtIret
  <2>3. LiveLies'
    BY NextLayouts
  <2>4. /\ Live' = [f \in StateNames |-> Live'[f]]
        /\ \A f \in StateNames \ {"flags"} : Live'[f] = regs'[f]
        /\ Live'.flags = regs'.eflags
    BY <1>7, <1>8, <2>3 DEF LiveLies
  <2>5. \A f \in StateNames : Live'[f] = Live[f]
    BY <1>4, <1>8, <2>2, <2>4 DEF StateNames, RegisterNames
  <2> QED BY <2>2, <2>4, <2>5
<1>9. ASSUME ~m_userland
      PROVE  /\ Constructing
             /\ Resume = regs'.eip /\ ResumeFlags = regs'.eflags
             /\ pc' \in Steps /\ InterruptsOn'
  <2>1. Constructing
    BY <1>9 DEF IInv
  <2>2. ~InHandler
    BY <1>1 DEF AtIret, InHandler
  <2>3. Resume = regs'.eip /\ ResumeFlags = regs'.eflags
    BY <1>1, <1>4, <2>2 DEF Resume, ResumeFlags
  <2> QED BY <2>1, <2>3 DEF Constructing, pc, InterruptsOn, Word
<1>10. InProgram' \/ InConstructor'
  <2>1. CASE m_userland
    BY <1>3, <1>6, <1>7, <2>1 DEF InProgram
  <2>2. CASE ~m_userland
    BY <1>3, <1>6, <1>7, <1>9, <2>2 DEF InConstructor
  <2> QED BY <2>1, <2>2
<1>11. IF m_userland' THEN Running' ELSE Constructing'
  <2>1. CASE m_userland
    <3>1. Running
      BY <2>1 DEF IInv
    <3> QED BY <1>6, <1>8, <2>1, <3>1 DEF Running
  <2>2. CASE ~m_userland
    <3>1. ~InHandler' /\ ~AtIret'
      BY <1>9, <2>2 DEF InHandler, AtIret, Steps
    <3>2. Resume' = Resume /\ ResumeFlags' = ResumeFlags
      BY <1>9, <2>2, <3>1 DEF Resume, ResumeFlags
    <3> QED BY <1>6, <1>9, <2>2, <3>2 DEF Constructing
  <2> QED BY <1>6, <2>1, <2>2
<1>12. pc' \notin {"irq_handler", "handler"}
  <2>1. CASE m_userland
    <3>1. Running /\ Live.eip = regs'.eip
      BY <1>1, <1>4, <2>1, LiveAtIret DEF IInv, AtIret, LiveLiesAtIret
    <3> QED BY <3>1 DEF Running, Runnable, pc
  <2>2. CASE ~m_userland
    BY <1>9, <2>2 DEF Steps
  <2> QED BY <2>1, <2>2
<1>13. Acknowledged' /\ Raised'
  BY <1>1, <1>6, <1>12 DEF Acknowledged, Raised
<1>14. /\ \A t \in Thread : Runnable(m_cpu_state'[t])
       /\ TypeOK'
  <2>1. /\ \A t \in Thread : Runnable(m_cpu_state'[t])
        /\ m_cpu_state' = [t \in Thread |-> m_cpu_state'[t]]
        /\ RestOK'
    BY <1>6 DEF IInv, TypeOK, RestOK
  <2>2. stack' \in Seq(Words)
    BY <1>3
  <2> QED BY <1>5, <2>1, <2>2, NextLayouts DEF TypedByParts
<1> QED BY <1>8, <1>10, <1>11, <1>13, <1>14 DEF IInv

(* A program computes. *)
LEMMA ComputeStep ==
  ASSUME IInv, Compute
  PROVE  IInv' /\ Live' = Computed(Live)
<1>1. /\ InProgram /\ RegsOK /\ Running /\ in_service = {}
      /\ pc = "eip" /\ regs.eflags[2] = "IF" /\ regs.eip[3] \in {0, 1}
  <2>1. InProgram /\ pc = "eip" /\ InterruptsOn
    BY Places DEF Compute
  <2>2. Running /\ RegsOK /\ in_service = {}
    BY <2>1, RegsType DEF IInv, InProgram, Acknowledged
  <2>3. LiveLies
    BY LiveInProgram
  <2>4. Live.eip = regs.eip
    BY <2>1, <2>3 DEF LiveLies, InProgram, StateNames
  <2> QED BY <2>1, <2>2, <2>4 DEF Running, Runnable, InterruptsOn
<1> DEFINE new(w) == <<regs.eip[1], w[2], 1 - regs.eip[3]>>
<1>2. /\ DOMAIN regs' = RegisterNames
      /\ regs'.cs = regs.cs /\ regs'.ds = regs.ds
      /\ \A r \in RegisterNames \ {"cs", "ds"} : regs'[r] = new(regs[r])
  BY <1>1 DEF Compute, Computed, RegsOK, RegisterNames
<1>3. \A w \in Words : new(w) \in Words
  <2>1. regs.eip \in Words
    BY <1>1 DEF RegsOK, RegisterNames
  <2>2. 1 - regs.eip[3] \in Nat
    BY <1>1
  <2> QED BY <2>1, <2>2 DEF Words
<1>4. RegsOK'
  <2>1. \A r \in RegisterNames : regs'[r] \in Words
    BY <1>1, <1>2, <1>3 DEF RegsOK, RegisterNames
  <2> QED BY <1>1, <1>2, <2>1 DEF RegsOK
<1>5. UNCHANGED <<stack, m_userland, current, alive, m_cpu_state, esp0,
                  timer_installed, pit, requested, in_service, key_waiting>>
  BY DEF Compute, threads, boot, pic
<1>6. /\ InUser' /\ pc' = "eip"
      /\ regs'.eflags[2] = "IF" /\ regs'.eip[3] \in {0, 1}
  <2>1. regs'.eip = new(regs.eip) /\ regs'.eflags = new(regs.eflags)
    BY <1>2 DEF RegisterNames
  <2> QED BY <1>1, <1>2, <2>1 DEF InProgram, InUser, pc
<1>7. InProgram'
  BY <1>1, <1>5, <1>6 DEF InProgram
<1>8. Live' = Computed(Live)
  <2>1. /\ Live = [f \in StateNames |-> Live[f]]
        /\ \A f \in StateNames \ {"flags"} : Live[f] = regs[f]
        /\ Live.flags = regs.eflags
    BY <1>1, LiveInProgram DEF LiveLies, InProgram
  <2>2. LiveLies'
    BY NextLayouts
  <2>3. /\ Live' = [f \in StateNames |-> Live'[f]]
        /\ \A f \in StateNames \ {"flags"} : Live'[f] = regs'[f]
        /\ Live'.flags = regs'.eflags
    BY <1>6, <2>2 DEF LiveLies
  <2>4. Live.eip = regs.eip
    BY <2>1 DEF StateNames
  <2>5. DOMAIN Live = StateNames
    BY <2>1
  <2>6. Computed(Live) = [f \in StateNames |-> new(Live[f])]
    BY <2>4, <2>5 DEF Computed
  <2>7. \A f \in StateNames : Live'[f] = new(Live[f])
    BY <1>2, <2>1, <2>3 DEF StateNames, RegisterNames
  <2> QED BY <2>3, <2>6, <2>7
<1>9. Runnable(Live')
  <2>1. /\ Live' = [f \in StateNames |-> Live'[f]]
        /\ \A f \in StateNames \ {"flags"} : Live'[f] = regs'[f]
        /\ Live'.flags = regs'.eflags
    BY <1>6, NextLayouts DEF LiveLies
  <2>2. \A f \in StateNames : Live'[f] \in Words
    BY <1>4, <2>1 DEF RegsOK, StateNames, RegisterNames
  <2>3. Live' \in [StateNames -> Words]
    BY <2>1, <2>2
  <2>4. Live'.eip = regs'.eip
    BY <2>1 DEF StateNames
  <2>5. Range(cpu_state_t) = StateNames
    BY StateFields DEF StateNames
  <2> QED BY <1>6, <2>1, <2>3, <2>4, <2>5 DEF Runnable, pc
<1>10. Running' /\ m_userland'
  BY <1>1, <1>5, <1>9 DEF Running, InProgram
<1>11. Acknowledged' /\ Raised'
  BY <1>1, <1>5, <1>6 DEF Acknowledged, Raised
<1>12. /\ \A t \in Thread : Runnable(m_cpu_state'[t])
       /\ TypeOK'
  <2>1. /\ \A t \in Thread : Runnable(m_cpu_state'[t])
        /\ m_cpu_state' = [t \in Thread |-> m_cpu_state'[t]]
        /\ RestOK' /\ stack' \in Seq(Words)
    BY <1>5 DEF IInv, TypeOK, RestOK
  <2> QED BY <1>4, <2>1, NextLayouts DEF TypedByParts
<1> QED BY <1>7, <1>8, <1>10, <1>11, <1>12 DEF IInv

(* Devices and the controllers. *)
LEMMA QuietStep ==
  ASSUME IInv, UNCHANGED <<regs, stack, in_service, threads, boot>>, RestOK'
  PROVE  IInv' /\ Live' = Live
<1>1. UNCHANGED <<m_cpu_state, alive, current, m_userland, esp0, timer_installed>>
  BY DEF threads, boot
<1>2. /\ (InProgram \/ InHandler \/ AtIret \/ InConstructor)'
      /\ Live' = Live
      /\ Resume' = Resume /\ ResumeFlags' = ResumeFlags
  BY <1>1 DEF IInv, InProgram, InHandler, AtIret, InConstructor, InUser, pc,
     InterruptsOn, Live, Saved, Field, Resume, ResumeFlags
<1>3. IF m_userland' THEN Running' ELSE Constructing'
  BY <1>1, <1>2 DEF IInv, Running, Constructing
<1>4. Acknowledged' /\ Raised'
  BY <1>1 DEF IInv, Acknowledged, Raised, pc, Field
<1>5. /\ \A t \in Thread : Runnable(m_cpu_state'[t])
      /\ TypeOK'
  <2>1. /\ \A t \in Thread : Runnable(m_cpu_state'[t])
        /\ m_cpu_state' = [t \in Thread |-> m_cpu_state'[t]]
        /\ stack' \in Seq(Words) /\ RegsOK'
    BY <1>1, RegsType DEF IInv, TypeOK, RegsOK
  <2> QED BY <2>1, NextLayouts DEF TypedByParts
<1> QED BY <1>2, <1>3, <1>4, <1>5 DEF IInv

-----------------------------------------------------------------------------
(* The interrupt controllers. *)

(* One interrupt in service, and its acknowledgement. *)
LEMMA AcknowledgeInterrupt ==
  ASSUME NEW n \in Line
  PROVE  /\ Vector(n) \in 32 .. 47
         /\ EndOfInterrupt(Vector(n), Occupies(n)) = {}
<1>1. n \in 0 .. 15
  BY DeviceAssumption DEF Line
<1>2. CASE n \in Master
  <2>1. n \notin Slave /\ Vector(n) = 32 + n /\ ~ (Vector(n) >= 40) /\ Occupies(n) = {n}
    BY <1>2 DEF Master, Slave, Vector, Occupies
  <2>2. {n} \cap Master = {n} /\ First({n}) = {n}
    BY <1>1, <1>2 DEF First
  <2> QED BY <1>2, <2>1, <2>2 DEF EndOfInterrupt, Master
<1>3. CASE n \in Slave
  <2>1. /\ n \notin Master /\ Vector(n) = 40 + (n - 8) /\ Vector(n) >= 40
        /\ Occupies(n) = {2, n} /\ Vector(n) \in 32 .. 47
    BY <1>3 DEF Master, Slave, Vector, Occupies
  <2>2. {2, n} \cap Slave = {n} /\ {2, n} \cap Master = {2}
    <3>1. 2 \notin Slave /\ 2 \in Master
      BY DEF Master, Slave
    <3> QED BY <1>3, <2>1, <3>1
  <2>3. First({n}) = {n} /\ First({2}) = {2}
    BY <1>3 DEF First, Slave
  <2> QED BY <2>1, <2>2, <2>3 DEF EndOfInterrupt
<1> QED BY <1>1, <1>2, <1>3 DEF Master, Slave

(* A spurious one is acknowledged as well, but the line itself is not in   *)
(* service.                                                                *)
LEMMA AcknowledgeSpurious ==
  ASSUME NEW n \in Line
  PROVE  LET v == Vector(IF n \in Slave THEN 15 ELSE 7)
         IN  v \in 32 .. 47 /\ EndOfInterrupt(v, Occupies(n) \ {n}) = {}
<1>1. n \in 0 .. 15
  BY DeviceAssumption DEF Line
<1>2. CASE n \in Master
  <2>1. n \notin Slave /\ Vector(7) = 39 /\ Occupies(n) \ {n} = {}
    BY <1>2 DEF Master, Slave, Vector, Occupies
  <2> QED BY <2>1 DEF EndOfInterrupt
<1>3. CASE n \in Slave
  <2>1. Vector(15) = 47 /\ Occupies(n) \ {n} = {2}
    BY <1>3 DEF Master, Slave, Vector, Occupies
  <2>2. {2} \cap Slave = {} /\ {2} \cap Master = {2} /\ First({2}) = {2}
    BY DEF Master, Slave, First
  <2>3. First({}) = {}
    BY DEF First
  <2> QED BY <1>3, <2>1, <2>2, <2>3 DEF EndOfInterrupt
<1> QED BY <1>1, <1>2, <1>3 DEF Master, Slave

-----------------------------------------------------------------------------
(* Every step, the way module VirtualCpus sees it. *)

RunningThread == IF m_userland THEN current ELSE "nobody"

Context ==
  [t \in alive |-> IF m_userland /\ t = current THEN Live ELSE m_cpu_state[t]]

Stutters == UNCHANGED <<RunningThread, Context>>

(* While the running thread's registers are only moved, nothing happens. *)
LEMMA Stuttering ==
  ASSUME UNCHANGED <<alive, current, m_userland>>,
         m_userland => Live' = Live,
         \A t \in alive : ~ (m_userland /\ t = current)
                            => m_cpu_state'[t] = m_cpu_state[t]
  PROVE  Stutters
BY DEF Stutters, RunningThread, Context

LEMMA InterruptStep ==
  ASSUME IInv, NEW n \in Line, Interrupt(n)
  PROVE  IInv' /\ Stutters
<1>1. (InProgram \/ InConstructor) /\ in_service = {}
  <2>1. InProgram \/ InConstructor
    BY Places DEF Interrupt
  <2> QED BY <2>1, Places DEF IInv, Acknowledged, InProgram, InConstructor, Steps
<1>2. /\ Vector(n) \in Vectors /\ Vector(n) \in 32 .. 47
      /\ in_service' = Occupies(n)
      /\ EndOfInterrupt(Vector(n), in_service') = {}
  BY <1>1, AcknowledgeInterrupt DEF Interrupt, Vectors
<1>3. RestOK'
  BY <1>2 DEF Interrupt, RestOK, IInv, TypeOK, threads, boot
<1>4. IInv' /\ (m_userland => Live' = Live)
  BY <1>1, <1>2, <1>3, ToHandler DEF Interrupt
<1> QED BY <1>4, Stuttering DEF Interrupt, threads

LEMMA SpuriousStep ==
  ASSUME IInv, Spurious
  PROVE  IInv' /\ Stutters
<1>1. (InProgram \/ InConstructor) /\ in_service = {}
  <2>1. InProgram \/ InConstructor
    BY Places DEF Spurious
  <2> QED BY <2>1, Places DEF IInv, Acknowledged, InProgram, InConstructor, Steps
<1>2. PICK n \in Line :
        /\ requested' = requested \ {n}
        /\ in_service' = in_service \cup (Occupies(n) \ {n})
        /\ Enter(Vector(IF n \in Slave THEN 15 ELSE 7))
  BY DEF Spurious, Line
<1> DEFINE v == Vector(IF n \in Slave THEN 15 ELSE 7)
<1>3. /\ v \in Vectors /\ v \in 32 .. 47
      /\ in_service' = Occupies(n) \ {n}
      /\ EndOfInterrupt(v, in_service') = {}
  BY <1>1, <1>2, AcknowledgeSpurious DEF Vectors
<1>4. RestOK' /\ UNCHANGED <<threads, boot>>
  BY <1>2, <1>3 DEF Spurious, RestOK, IInv, TypeOK, threads, boot
<1>5. Enter(v)
  BY <1>2
<1> HIDE DEF v
<1>6. IInv' /\ (m_userland => Live' = Live)
  BY <1>1, <1>3, <1>4, <1>5, ToHandler
<1> QED BY <1>4, <1>6, Stuttering DEF threads

LEMMA TrapStep ==
  ASSUME IInv, NEW v \in Faults \cup {123}, Trap(v)
  PROVE  IInv' /\ Stutters
<1>1. InProgram /\ in_service = {}
  BY Places DEF Trap, IInv, Acknowledged
<1>2. v \in Vectors /\ v \notin 32 .. 47
  BY FaultAssumption DEF Vectors
<1>3. /\ UNCHANGED <<threads, boot>> /\ in_service' = {}
      /\ RestOK' /\ Enter(v) /\ current # Idle
  BY <1>1 DEF Trap, RestOK, IInv, TypeOK, threads, boot, pic
<1>4. IInv' /\ (m_userland => Live' = Live)
  BY <1>1, <1>2, <1>3, ToHandler
<1> QED BY <1>3, <1>4, Stuttering DEF threads

LEMMA StubStep ==
  ASSUME IInv, isr_common_stub
  PROVE  IInv' /\ Stutters
<1>1. IInv' /\ (m_userland => Live' = Live)
  BY ToIret
<1> QED BY <1>1, Stuttering DEF isr_common_stub, threads

LEMMA IretStep ==
  ASSUME IInv, iret
  PROVE  IInv' /\ Stutters
<1>1. IInv' /\ (m_userland => Live' = Live)
  BY FromIret
<1> QED BY <1>1, Stuttering DEF iret, threads

LEMMA DeviceStep ==
  ASSUME IInv, Tick \/ Press \/ \E n \in Device : Request(n)
  PROVE  IInv' /\ Stutters
<1>1. UNCHANGED <<regs, stack, in_service, threads, boot>> /\ RestOK'
  BY DEF Tick, Press, Request, RestOK, IInv, TypeOK, threads, boot, Line
<1>2. IInv' /\ Live' = Live
  BY <1>1, QuietStep
<1> QED BY <1>1, <1>2, Stuttering DEF threads

LEMMA InRoutine ==
  ASSUME IInv, pc \in {"irq_handler", "handler", "return"}
  PROVE  /\ InHandler /\ TypeOK /\ RestOK
         /\ \A t \in Thread : Runnable(m_cpu_state[t])
         /\ pc # "irq_handler" => in_service = {}
         /\ m_userland => Running
         /\ ~m_userland => Constructing
BY Places DEF IInv, Acknowledged, TypeOK, RestOK

LEMMA HandledCall ==
  ASSUME IInv, NEW v \in {14, 123}, Handles(v)
  PROVE  /\ InHandler /\ TypeOK /\ RestOK /\ Running
         /\ \A t \in Thread : Runnable(m_cpu_state[t])
         /\ in_service = {}
         /\ m_userland /\ current # Idle /\ Idle \in alive
<1>1. pc = "handler" /\ Field("int_no") = Number(v)
  BY DEF Handles
<1>2. PICK w \in Faults \cup {123} \cup 32 .. 47 :
        /\ Field("int_no") = Number(w)
        /\ w \notin 32 .. 47 => m_userland /\ current # Idle
  BY <1>1 DEF IInv, Raised
<1>3. w = v
  BY <1>1, <1>2 DEF Number
<1>4. m_userland /\ current # Idle
  BY <1>2, <1>3
<1> QED BY <1>1, <1>4, InRoutine DEF Running

(* The copy a handler makes of the registers is theirs. *)
LEMMA SavedIsRunnable ==
  ASSUME InHandler, Running
  PROVE  Saved = Live /\ Runnable(Saved)
BY LiveInHandler DEF Running

LEMMA IrqHandlerStep ==
  ASSUME IInv, irq_handler
  PROVE  IInv' /\ Stutters
<1>1. InHandler /\ RestOK
  BY InRoutine DEF irq_handler
<1>2. in_service' = {}
  BY DEF IInv, Acknowledged, irq_handler
<1>3. RestOK' /\ UNCHANGED <<stack, m_userland, current, boot, m_cpu_state, alive>>
  BY <1>1, <1>2 DEF irq_handler, RestOK, threads, boot
<1>4. \A t \in Thread : Runnable(m_cpu_state'[t])
  BY <1>3 DEF IInv
<1>5. m_cpu_state' = [t \in Thread |-> m_cpu_state'[t]]
  BY <1>3 DEF IInv, TypeOK
<1>6. Jump("handler") /\ pc = "irq_handler"
  BY DEF irq_handler
<1>7. IInv' /\ Live' = Live
  BY <1>1, <1>2, <1>3, <1>4, <1>5, <1>6, ToRoutine
<1> QED BY <1>3, <1>7, Stuttering

(* Back from a handler that has changed no thread. *)
LEMMA ReturnStep ==
  ASSUME IInv, pc = "handler", Jump("return"),
         UNCHANGED <<stack, threads, boot, in_service>>, RestOK'
  PROVE  IInv' /\ Stutters
<1>1. InHandler /\ in_service = {}
  BY InRoutine
<1>2. UNCHANGED <<stack, m_userland, current, boot, m_cpu_state, alive>>
  BY DEF threads
<1>3. \A t \in Thread : Runnable(m_cpu_state'[t])
  BY <1>2 DEF IInv
<1>4. m_cpu_state' = [t \in Thread |-> m_cpu_state'[t]]
  BY <1>2 DEF IInv, TypeOK
<1>5. IInv' /\ Live' = Live
  BY <1>1, <1>2, <1>3, <1>4, ToRoutine
<1> QED BY <1>2, <1>5, Stuttering

LEMMA UnhandledStep ==
  ASSUME IInv, unhandled
  PROVE  IInv' /\ Stutters
<1>1. RestOK'
  BY DEF unhandled, RestOK, IInv, TypeOK, pic, threads, boot
<1> QED BY <1>1, ReturnStep DEF unhandled, pic

LEMMA KeyboardStep ==
  ASSUME IInv, keyboard_handler
  PROVE  IInv' /\ Stutters
<1>1. RestOK'
  BY DEF keyboard_handler, RestOK, IInv, TypeOK, threads, boot
<1> QED BY <1>1, ReturnStep DEF keyboard_handler, Handles

(* The caller's registers go into its m_cpu_state. *)
LEMMA SysSaves ==
  ASSUME IInv, Handles(123)
  PROVE  /\ sys(m_cpu_state) = [t \in Thread |-> sys(m_cpu_state)[t]]
         /\ sys(m_cpu_state)[current] = Live
         /\ \A t \in Thread \ {current} : sys(m_cpu_state)[t] = m_cpu_state[t]
         /\ \A t \in Thread : Runnable(sys(m_cpu_state)[t])
<1>1. /\ InHandler /\ Running /\ TypeOK
      /\ \A t \in Thread : Runnable(m_cpu_state[t])
  BY HandledCall
<1>2. Saved = Live /\ Runnable(Live)
  BY <1>1, SavedIsRunnable
<1>3. current \in Thread /\ DOMAIN m_cpu_state = Thread
  BY <1>1 DEF TypeOK
<1> QED BY <1>1, <1>2, <1>3 DEF sys

LEMMA SysReturnStep ==
  ASSUME IInv, sys_return
  PROVE  IInv' /\ Stutters
<1>1. /\ InHandler /\ RestOK /\ in_service = {} /\ m_userland
      /\ Handles(123)
  BY HandledCall DEF sys_return
<1>2. /\ UNCHANGED <<stack, m_userland, current, boot, alive, in_service>>
      /\ RestOK' /\ Jump("return") /\ m_cpu_state' = sys(m_cpu_state)
  BY <1>1 DEF sys_return, RestOK, pic, boot
<1>3. pc = "handler"
  BY <1>1 DEF Handles
<1>4. IInv' /\ Live' = Live
  BY <1>1, <1>2, <1>3, SysSaves, ToRoutine
<1>5. \A t \in alive : ~ (m_userland /\ t = current) => m_cpu_state'[t] = m_cpu_state[t]
  BY <1>1, <1>2, SysSaves DEF RestOK
<1> QED BY <1>2, <1>4, <1>5, Stuttering

LEMMA SysThreadStep ==
  ASSUME IInv, NEW t \in Thread, sys_thread(t)
  PROVE  IInv' /\ Virtual!Create(t)
<1>1. /\ InHandler /\ RestOK /\ in_service = {} /\ m_userland /\ Running
      /\ Handles(123)
  BY HandledCall DEF sys_thread
<1>2. /\ UNCHANGED <<stack, m_userland, current, boot, in_service>>
      /\ t \notin alive /\ alive' = alive \cup {t} /\ Jump("return")
      /\ m_cpu_state' = [sys(m_cpu_state) EXCEPT ![t] = Initial(t)]
      /\ RestOK'
  BY <1>1 DEF sys_thread, RestOK, pic, boot
<1>3. pc = "handler"
  BY <1>1 DEF Handles
<1>4. /\ m_cpu_state' = [u \in Thread |-> m_cpu_state'[u]]
      /\ m_cpu_state'[t] = Initial(t)
      /\ \A u \in Thread \ {t} : m_cpu_state'[u] = sys(m_cpu_state)[u]
  BY <1>1, <1>2, SysSaves
<1>5. \A u \in Thread : Runnable(m_cpu_state'[u])
  BY <1>1, <1>4, SysSaves, InitialIsRunnable
<1>6. IInv' /\ Live' = Live
  BY <1>1, <1>2, <1>3, <1>4, <1>5, ToRoutine
<1>7. current \in alive /\ alive \subseteq Thread /\ current # "nobody" /\ current # t
  BY <1>1, <1>2, NameAssumption DEF Running, RestOK
<1>8. RunningThread = current /\ RunningThread' = current
  BY <1>1, <1>2 DEF RunningThread
<1>9. Context' = [u \in alive \cup {t} |-> IF u = t THEN Initial(t) ELSE Context[u]]
  <2>1. \A u \in alive \ {current} : m_cpu_state'[u] = m_cpu_state[u]
    BY <1>1, <1>2, <1>4, <1>7, SysSaves
  <2> QED BY <1>1, <1>2, <1>4, <1>6, <1>7, <2>1 DEF Context
<1>10. DOMAIN Context = alive
  BY DEF Context
<1>11. Virtual!Create(t)
  BY <1>2, <1>7, <1>8, <1>9, <1>10
     DEF Virtual!Create, Virtual!live, RunningThread, Context
<1> QED BY <1>6, <1>11

(* task_switch, once the handler has done what it does to the threads. *)
LEMMA SwitchStep ==
  ASSUME IInv, InHandler, in_service = {}, UNCHANGED <<stack, pic, boot>>,
         NEW states, m_cpu_state' = states, task_switch(alive', states),
         esp0, timer_installed, alive' \subseteq Thread, Idle \in alive',
         \A t \in Thread : Runnable(states[t]),
         states = [t \in Thread |-> states[t]]
  PROVE  /\ IInv'
         /\ current' \in alive' /\ RunningThread' = current'
         /\ Context' = [t \in alive' |-> states[t]]
<1>1. /\ current' \in alive' /\ m_userland' = TRUE
      /\ enter_usermode(states[current'])
  BY DEF task_switch
<1>2. RestOK' /\ UNCHANGED <<stack, in_service, boot>>
  BY <1>1 DEF RestOK, IInv, TypeOK, pic, boot
<1>3. Runnable(states[current'])
  BY <1>1
<1>4. IInv' /\ Live' = states[current']
  BY <1>1, <1>2, <1>3, ToProgram
<1>5. RunningThread' = current' /\ Context' = [t \in alive' |-> states[t]]
  BY <1>1, <1>4 DEF RunningThread, Context
<1> QED BY <1>1, <1>4, <1>5

LEMMA SysReadStep ==
  ASSUME IInv, sys_read
  PROVE  IInv' /\ Virtual!Switch
<1>1. /\ InHandler /\ RestOK /\ in_service = {} /\ m_userland /\ Running
      /\ Handles(123)
  BY HandledCall DEF sys_read
<1>2. /\ UNCHANGED <<stack, pic, alive, boot>>
      /\ m_cpu_state' = sys(m_cpu_state)
      /\ task_switch(alive', sys(m_cpu_state))
  BY DEF sys_read
<1>3. /\ IInv' /\ current' \in alive' /\ RunningThread' = current'
      /\ Context' = [t \in alive' |-> sys(m_cpu_state)[t]]
  BY <1>1, <1>2, SysSaves, SwitchStep DEF Running, RestOK
<1>4. Context = [t \in alive |-> sys(m_cpu_state)[t]]
  BY <1>1, SysSaves DEF Context, RestOK
<1>5. Context' = Context /\ DOMAIN Context = alive
  BY <1>2, <1>3, <1>4
<1> QED BY <1>2, <1>3, <1>5 DEF Virtual!Switch, Virtual!live, RunningThread, Context

(* The threads that end take their contexts with them. *)
LEMMA SysExitStep ==
  ASSUME IInv, NEW gone \in SUBSET (alive \ {Idle}), sys_exit(gone)
  PROVE  IInv' /\ Virtual!End(gone)
<1>1. /\ InHandler /\ RestOK /\ in_service = {} /\ m_userland /\ Running
      /\ Handles(123)
  BY HandledCall DEF sys_exit
<1>2. /\ UNCHANGED <<stack, pic, boot>> /\ current \in gone
      /\ alive' = alive \ gone
      /\ m_cpu_state' = sys(m_cpu_state)
      /\ task_switch(alive', sys(m_cpu_state))
  BY DEF sys_exit
<1>3. /\ IInv' /\ current' \in alive' /\ RunningThread' = current'
      /\ Context' = [t \in alive' |-> sys(m_cpu_state)[t]]
  BY <1>1, <1>2, SysSaves, SwitchStep DEF Running, RestOK
<1>4. \A t \in alive \ gone : Context[t] = sys(m_cpu_state)[t]
  BY <1>1, <1>2, SysSaves DEF Context, RestOK
<1>5. Context' = [t \in alive \ gone |-> Context[t]] /\ DOMAIN Context = alive
  BY <1>2, <1>3, <1>4 DEF Context
<1>6. RunningThread = current
  BY <1>1 DEF RunningThread
<1> QED BY <1>2, <1>3, <1>5, <1>6
        DEF Virtual!End, Virtual!live, RunningThread, Context

LEMMA PageFaultStep ==
  ASSUME IInv, NEW gone \in SUBSET (alive \ {Idle}), page_fault_handler(gone)
  PROVE  IInv' /\ Virtual!End(gone)
<1>1. /\ InHandler /\ RestOK /\ in_service = {} /\ m_userland /\ Running
      /\ TypeOK /\ \A t \in Thread : Runnable(m_cpu_state[t])
  BY HandledCall DEF page_fault_handler
<1>2. /\ UNCHANGED <<stack, pic, boot>> /\ current \in gone
      /\ alive' = alive \ gone
      /\ m_cpu_state' = m_cpu_state
      /\ task_switch(alive', m_cpu_state)
  BY DEF page_fault_handler
<1>3. m_cpu_state = [t \in Thread |-> m_cpu_state[t]]
  BY <1>1 DEF TypeOK
<1>4. /\ IInv' /\ current' \in alive' /\ RunningThread' = current'
      /\ Context' = [t \in alive' |-> m_cpu_state[t]]
  BY <1>1, <1>2, <1>3, SwitchStep DEF Running, RestOK
<1>5. \A t \in alive \ gone : Context[t] = m_cpu_state[t]
  BY <1>2 DEF Context
<1>6. Context' = [t \in alive \ gone |-> Context[t]] /\ DOMAIN Context = alive
  BY <1>2, <1>4, <1>5 DEF Context
<1>7. RunningThread = current
  BY <1>1 DEF RunningThread
<1> QED BY <1>2, <1>4, <1>6, <1>7
        DEF Virtual!End, Virtual!live, RunningThread, Context

(* The first tick after the constructor leaves it for ever; later ones     *)
(* leave a program.                                                        *)
LEMMA TimerStep ==
  ASSUME IInv, timer_handler
  PROVE  IInv' /\ Virtual!Switch
<1>1. /\ InHandler /\ RestOK /\ TypeOK /\ in_service = {}
      /\ \A t \in Thread : Runnable(m_cpu_state[t])
      /\ m_userland => Running
      /\ ~m_userland => Constructing
      /\ timer_installed
  BY InRoutine DEF timer_handler, Handles
<1>2. esp0 /\ Idle \in alive
  <2>1. CASE m_userland
    BY <1>1, <2>1 DEF Running
  <2>2. CASE ~m_userland
    BY <1>1, <2>2, IdleAssumption DEF Constructing, Stackless, Timerless
  <2> QED BY <2>1, <2>2
<1> DEFINE states ==
      IF m_userland THEN [m_cpu_state EXCEPT ![current] = Saved] ELSE m_cpu_state
<1>3. /\ UNCHANGED <<stack, pic, alive, boot>>
      /\ m_cpu_state' = states
      /\ task_switch(alive', states)
  BY DEF timer_handler
<1>4. /\ states = [t \in Thread |-> states[t]]
      /\ \A t \in Thread : Runnable(states[t])
      /\ Context = [t \in alive |-> states[t]]
  <2>1. m_cpu_state = [t \in Thread |-> m_cpu_state[t]] /\ alive \subseteq Thread
    BY <1>1 DEF TypeOK
  <2>2. CASE m_userland
    <3>1. Saved = Live /\ Runnable(Live) /\ current \in Thread
      BY <1>1, <2>2, SavedIsRunnable DEF TypeOK
    <3> QED BY <1>1, <2>1, <2>2, <3>1 DEF Context
  <2>3. CASE ~m_userland
    BY <1>1, <2>1, <2>3 DEF Context
  <2> QED BY <2>2, <2>3
<1> HIDE DEF states
<1>5. alive' = alive /\ alive' \subseteq Thread /\ Idle \in alive'
  BY <1>1, <1>2, <1>3 DEF RestOK
<1>6. UNCHANGED <<stack, pic, boot>>
  BY <1>3
<1>7. /\ IInv' /\ current' \in alive' /\ RunningThread' = current'
      /\ Context' = [t \in alive' |-> states[t]]
  BY <1>1, <1>2, <1>3, <1>4, <1>5, <1>6, SwitchStep
<1>8. Context' = Context /\ DOMAIN Context = alive
  BY <1>4, <1>5, <1>7
<1> QED BY <1>5, <1>7, <1>8 DEF Virtual!Switch, Virtual!live, RunningThread, Context

(* The constructor advances. *)
LEMMA BootStepPlace ==
  ASSUME IInv, NEW at \in Steps, NEW next \in Steps, BootStep(at, next),
         UNCHANGED <<stack, m_userland>>
  PROVE  /\ TypeOK /\ RestOK /\ Constructing /\ in_service = {} /\ ~m_userland
         /\ Resume = Word("kernel", at)
         /\ RegsOK' /\ InConstructor' /\ stack' \in Seq(Words) /\ pc' = next
         /\ Resume' = Word("kernel", next) /\ ResumeFlags'[2] = "IF"
<1>1. InConstructor
  BY Places DEF BootStep
<1>2. ~InHandler /\ ~AtIret
  BY <1>1 DEF InConstructor, InHandler, AtIret, Steps
<1>3. TypeOK /\ RegsOK /\ RestOK /\ Constructing /\ in_service = {} /\ ~m_userland
  BY <1>1, RegsType DEF IInv, InConstructor, Acknowledged, Steps, TypeOK, RestOK
<1>4. Resume = regs.eip /\ ResumeFlags = regs.eflags
  BY <1>2 DEF Resume, ResumeFlags
<1>5. PICK step \in Steps : Resume = Word("kernel", step)
  BY <1>3 DEF Constructing
<1>6. step = at
  BY <1>4, <1>5 DEF BootStep, pc, Word
<1>7. next \in Routines
  BY DEF Routines
<1>8. /\ RegsOK' /\ regs'.eip = Word("kernel", next) /\ pc' = next
      /\ regs'.cs = regs.cs /\ regs'.eflags = regs.eflags
  BY <1>3, <1>7, JumpType DEF BootStep
<1>9. InConstructor' /\ stack' \in Seq(Words)
  BY <1>1, <1>8 DEF InConstructor, InUser, InterruptsOn
<1>10. ~InHandler' /\ ~AtIret'
  BY <1>8 DEF InHandler, AtIret, Steps
<1>11. Resume' = regs'.eip /\ ResumeFlags' = regs'.eflags
  BY <1>10 DEF Resume, ResumeFlags
<1> QED BY <1>1, <1>3, <1>5, <1>6, <1>8, <1>9, <1>11 DEF InConstructor, InterruptsOn

(* What Constructing says of a step. *)
LEMMA ConstructedSoFar ==
  ASSUME Constructing, NEW at \in Steps, Resume = Word("kernel", at)
  PROVE  /\ alive = IF at = "create" THEN {} ELSE Thread
         /\ esp0 <=> at \notin Stackless
         /\ timer_installed <=> at \notin Timerless
         /\ current = Idle
         /\ \A t \in Thread : m_cpu_state[t] = Initial(t)
BY DEF Constructing, Word

LEMMA BootStepInvariant ==
  ASSUME IInv, NEW at \in Steps, NEW next \in Steps, BootStep(at, next),
         UNCHANGED <<stack, pic, m_cpu_state, current, m_userland>>, RestOK',
         alive' = (IF next = "create" THEN {} ELSE Thread),
         esp0' <=> next \notin Stackless,
         timer_installed' <=> next \notin Timerless
  PROVE  IInv'
<1>1. /\ TypeOK /\ Constructing /\ in_service = {} /\ ~m_userland
      /\ Resume = Word("kernel", at)
      /\ RegsOK' /\ InConstructor' /\ stack' \in Seq(Words) /\ pc' = next
      /\ Resume' = Word("kernel", next) /\ ResumeFlags'[2] = "IF"
  BY BootStepPlace
<1>2. current' = Idle /\ \A t \in Thread : m_cpu_state'[t] = Initial(t)
  BY <1>1, ConstructedSoFar
<1>3. Constructing' /\ ~m_userland'
  BY <1>1, <1>2 DEF Constructing
<1>4. Acknowledged' /\ Raised'
  BY <1>1 DEF Acknowledged, Raised, Steps, pic
<1>5. /\ \A t \in Thread : Runnable(m_cpu_state'[t])
      /\ TypeOK'
  <2>1. /\ \A t \in Thread : Runnable(m_cpu_state'[t])
        /\ m_cpu_state' = [t \in Thread |-> m_cpu_state'[t]]
    BY <1>1 DEF IInv, TypeOK
  <2> QED BY <1>1, <2>1, NextLayouts DEF TypedByParts
<1> QED BY <1>1, <1>3, <1>4, <1>5 DEF IInv

LEMMA CreateProcessesStep ==
  ASSUME IInv, create_processes
  PROVE  IInv' /\ Virtual!Boot
<1>1. /\ BootStep("create", "stack") /\ alive' = Thread
      /\ UNCHANGED <<stack, pic, m_cpu_state, current, m_userland, boot>>
      /\ UNCHANGED <<esp0, timer_installed, pit>>
  BY DEF create_processes, boot
<1>2. /\ TypeOK /\ RestOK /\ Constructing /\ ~m_userland
      /\ Resume = Word("kernel", "create")
  BY <1>1, BootStepPlace DEF Steps
<1>3. /\ alive = {} /\ ~esp0 /\ ~timer_installed /\ current = Idle
      /\ \A t \in Thread : m_cpu_state[t] = Initial(t)
  BY <1>2, ConstructedSoFar DEF Steps, Stackless, Timerless
<1>4. RestOK'
  BY <1>1, <1>2 DEF RestOK, pic
<1>5. IInv'
  BY <1>1, <1>3, <1>4, BootStepInvariant DEF Steps, Stackless, Timerless
<1>6. /\ RunningThread' = RunningThread
      /\ DOMAIN Context = {}
      /\ Context' = [t \in Thread |-> Initial(t)]
  BY <1>1, <1>2, <1>3 DEF RunningThread, Context
<1>7. Virtual!Boot
  BY <1>6, IdleAssumption DEF Virtual!Boot, Virtual!live, RunningThread, Context
<1> QED BY <1>5, <1>7

LEMMA KernelStackStep ==
  ASSUME IInv, tss_set_kernel_stack
  PROVE  IInv' /\ Stutters
<1>1. /\ BootStep("stack", "timer") /\ esp0' = TRUE
      /\ UNCHANGED <<stack, pic, m_cpu_state, current, m_userland, alive,
                     timer_installed, pit>>
  BY DEF tss_set_kernel_stack, threads
<1>2. /\ TypeOK /\ RestOK /\ Constructing /\ ~m_userland
      /\ Resume = Word("kernel", "stack")
  BY <1>1, BootStepPlace DEF Steps
<1>3. alive = Thread /\ ~timer_installed
  BY <1>2, ConstructedSoFar DEF Steps, Stackless, Timerless
<1>4. RestOK'
  BY <1>1, <1>2 DEF RestOK, pic
<1>5. IInv'
  BY <1>1, <1>3, <1>4, BootStepInvariant DEF Steps, Stackless, Timerless
<1> QED BY <1>1, <1>2, <1>5, Stuttering

(* The four steps of init_timer. *)
LEMMA InitTimerStep ==
  ASSUME IInv, NEW at \in Steps \ Stackless, NEW next \in Steps \ Timerless,
         BootStep(at, next), timer_installed',
         UNCHANGED <<stack, pic, threads, esp0>>,
         pit' \in {"counting", "stopped"}
  PROVE  IInv' /\ Stutters
<1>1. UNCHANGED <<stack, pic, m_cpu_state, current, m_userland, alive, esp0>>
  BY DEF threads
<1>2. /\ TypeOK /\ RestOK /\ Constructing /\ ~m_userland
      /\ Resume = Word("kernel", at)
  BY <1>1, BootStepPlace
<1>3. alive = Thread /\ esp0
  <2>1. /\ alive = IF at = "create" THEN {} ELSE Thread
        /\ esp0 <=> at \notin Stackless
    BY <1>2, ConstructedSoFar
  <2> QED BY <2>1 DEF Stackless
<1>4. RestOK'
  BY <1>1, <1>2, <1>3 DEF RestOK, pic
<1>5. /\ alive' = IF next = "create" THEN {} ELSE Thread
      /\ esp0' <=> next \notin Stackless
      /\ timer_installed' <=> next \notin Timerless
  BY <1>1, <1>3 DEF Stackless, Timerless
<1>6. IInv'
  BY <1>1, <1>4, <1>5, BootStepInvariant
<1> QED BY <1>1, <1>2, <1>6, Stuttering

LEMMA TimerKnown ==
  ASSUME IInv, NEW at \in Steps \ Timerless, NEW next \in Steps,
         BootStep(at, next), UNCHANGED <<stack, m_userland>>
  PROVE  timer_installed
<1>1. Constructing /\ Resume = Word("kernel", at)
  BY BootStepPlace
<1> QED BY <1>1, ConstructedSoFar

LEMMA TimerSetStep ==
  ASSUME IInv,
         register_interrupt_handler \/ pit_command \/ pit_low \/ pit_high
  PROVE  IInv' /\ Stutters
<1>1. pit \in {"counting", "stopped"}
  BY DEF IInv, TypeOK
<1>2. CASE register_interrupt_handler
  BY <1>1, <1>2, InitTimerStep DEF register_interrupt_handler, Steps, Stackless, Timerless
<1>3. CASE pit_command
  <2>1. timer_installed
    BY <1>3, TimerKnown DEF pit_command, threads, Steps, Timerless
  <2> QED BY <1>3, <2>1, InitTimerStep DEF pit_command, Steps, Stackless, Timerless
<1>4. CASE pit_low
  <2>1. timer_installed
    BY <1>4, TimerKnown DEF pit_low, threads, Steps, Timerless
  <2> QED BY <1>1, <1>4, <2>1, InitTimerStep
          DEF pit_low, boot, Steps, Stackless, Timerless
<1>5. CASE pit_high
  <2>1. timer_installed
    BY <1>5, TimerKnown DEF pit_high, threads, Steps, Timerless
  <2> QED BY <1>5, <2>1, InitTimerStep DEF pit_high, Steps, Stackless, Timerless
<1> QED BY <1>2, <1>3, <1>4, <1>5

-----------------------------------------------------------------------------
(* The theorems. *)

LEMMA StackSizes ==
  ASSUME InProgram \/ InHandler \/ AtIret \/ InConstructor
  PROVE  Len(stack) <= 16
<1>1. /\ 14 <= 16 /\ 16 <= 16 /\ 5 <= 16 /\ 3 <= 16
      /\ Len(<< >>) <= 16
  OBVIOUS
<1>2. \/ Len(stack) <= 16 \/ Len(stack) = 16 \/ Len(stack) = 14
      \/ Len(stack) = 5 \/ Len(stack) = 3 \/ stack = << >>
  BY DEF InProgram, InHandler, AtIret, InConstructor
<1> QED BY Zenon, <1>1, <1>2

LEMMA InitInvariant == Init => IInv
<1> SUFFICES ASSUME Init PROVE IInv
  OBVIOUS
<1>1. regs = KernelRegs("create", Enabled("kernel"))
  BY DEF Init
<1>2. /\ DOMAIN regs = RegisterNames
      /\ regs.eip = Word("kernel", "create")
      /\ regs.eflags = Enabled("kernel")
      /\ regs.cs = KernelCode
      /\ \A r \in RegisterNames \ {"eip", "eflags"} : regs[r] = Word("kernel", r)
  BY <1>1 DEF KernelRegs, RegisterNames, KernelCode
<1>3. RegsOK
  <2>1. \A r \in RegisterNames : regs[r] \in Words
    BY <1>2, KernelWords DEF Routines, Steps, Enabled
  <2> QED BY <1>2, <2>1 DEF RegsOK
<1>4. ~InUser /\ pc = "create" /\ InterruptsOn
  <2>1. KernelCode # UserCode
    BY KernelWords
  <2>2. Word("kernel", "create")[2] = "create" /\ Enabled("kernel")[2] = "IF"
    BY DEF Word, Enabled
  <2> QED BY <1>2, <2>1, <2>2 DEF InUser, pc, InterruptsOn
<1>5. /\ stack = << >> /\ in_service = {} /\ ~m_userland /\ alive = {}
      /\ ~esp0 /\ ~timer_installed /\ current = Idle
      /\ m_cpu_state = [t \in Thread |-> Initial(t)]
  BY DEF Init
<1>6. InConstructor
  BY <1>4, <1>5 DEF InConstructor, Steps
<1>7. Resume = regs.eip /\ ResumeFlags = regs.eflags
  BY <1>4 DEF Resume, ResumeFlags, InHandler, AtIret
<1>8. Constructing
  <2>1. Resume = Word("kernel", "create") /\ ResumeFlags[2] = "IF" /\ "create" \in Steps
    BY <1>2, <1>7 DEF Steps, Enabled, Word
  <2>2. \A t \in Thread : m_cpu_state[t] = Initial(t)
    BY <1>5
  <2> QED BY <1>5, <2>1, <2>2 DEF Constructing, Stackless, Timerless
<1>9. Acknowledged /\ Raised
  BY <1>4, <1>5 DEF Acknowledged, Raised
<1>10. (\A t \in Thread : Runnable(m_cpu_state[t])) /\ TypeOK
  <2>1. \A t \in Thread : Runnable(m_cpu_state[t])
    BY <1>5, InitialIsRunnable
  <2>2. RestOK
    BY IdleAssumption DEF RestOK, Init
  <2>3. m_cpu_state = [t \in Thread |-> m_cpu_state[t]]
    BY <1>5
  <2>4. stack \in Seq(Words)
    BY <1>5
  <2> QED BY <1>3, <2>1, <2>2, <2>3, <2>4, TypeParts DEF TypedByParts
<1> QED BY <1>5, <1>6, <1>8, <1>9, <1>10 DEF IInv

LEMMA StepLemma ==
  ASSUME IInv, [Next]_vars
  PROVE  IInv' /\ (Virtual!Next \/ Stutters)
<1>1. CASE \E n \in Line : Interrupt(n)
  BY <1>1, InterruptStep
<1>2. CASE Spurious
  BY <1>2, SpuriousStep
<1>3. CASE Compute
  <2>1. IInv' /\ Live' = Computed(Live)
    BY <1>3, ComputeStep
  <2>2. InProgram /\ Running
    BY <1>3, Places DEF Compute, IInv, InProgram
  <2>3. /\ m_userland /\ UNCHANGED <<m_userland, current, alive, m_cpu_state>>
        /\ current \in alive /\ current # "nobody"
    BY <1>3, <2>2, NameAssumption DEF Compute, threads, Running, InProgram, IInv, TypeOK
  <2>4. /\ RunningThread = current /\ RunningThread' = RunningThread
        /\ Context' = [Context EXCEPT ![current] = Computed(Context[current])]
    BY <2>1, <2>3 DEF RunningThread, Context
  <2>5. Virtual!Compute
    BY <2>3, <2>4 DEF Virtual!Compute, RunningThread, Context
  <2> QED BY <2>1, <2>5 DEF Virtual!Next
<1>4. CASE Trap(123) \/ \E v \in Faults : Trap(v)
  BY <1>4, TrapStep
<1>5. CASE isr_common_stub
  BY <1>5, StubStep
<1>6. CASE iret
  BY <1>6, IretStep
<1>7. CASE irq_handler
  BY <1>7, IrqHandlerStep
<1>8. CASE unhandled
  BY <1>8, UnhandledStep
<1>9. CASE timer_handler
  BY <1>9, TimerStep DEF Virtual!Next
<1>10. CASE keyboard_handler
  BY <1>10, KeyboardStep
<1>11. CASE \E gone \in SUBSET (alive \ {Idle}) : page_fault_handler(gone)
  <2>1. PICK gone \in SUBSET (alive \ {Idle}) : page_fault_handler(gone)
    BY <1>11
  <2>2. IInv' /\ Virtual!End(gone)
    BY <2>1, PageFaultStep
  <2>3. gone \in SUBSET Virtual!live
    BY DEF Virtual!live
  <2> QED BY <2>2, <2>3 DEF Virtual!Next
<1>12. CASE sys_return
  BY <1>12, SysReturnStep
<1>13. CASE \E t \in Thread : sys_thread(t)
  BY <1>13, SysThreadStep DEF Virtual!Next
<1>14. CASE sys_read
  BY <1>14, SysReadStep DEF Virtual!Next
<1>15. CASE \E gone \in SUBSET (alive \ {Idle}) : sys_exit(gone)
  <2>1. PICK gone \in SUBSET (alive \ {Idle}) : sys_exit(gone)
    BY <1>15
  <2>2. IInv' /\ Virtual!End(gone)
    BY <2>1, SysExitStep
  <2>3. gone \in SUBSET Virtual!live
    BY DEF Virtual!live
  <2> QED BY <2>2, <2>3 DEF Virtual!Next
<1>16. CASE create_processes
  BY <1>16, CreateProcessesStep DEF Virtual!Next
<1>17. CASE tss_set_kernel_stack
  BY <1>17, KernelStackStep
<1>18. CASE register_interrupt_handler \/ pit_command \/ pit_low \/ pit_high
  BY <1>18, TimerSetStep
<1>19. CASE Tick \/ Press \/ \E n \in Device : Request(n)
  BY <1>19, DeviceStep
<1>20. CASE UNCHANGED vars
  <2>1. /\ UNCHANGED <<regs, stack, in_service, threads, boot>> /\ RestOK'
        /\ UNCHANGED <<alive, current, m_userland, m_cpu_state>>
    BY <1>20 DEF vars, pic, threads, boot, RestOK, IInv, TypeOK
  <2>2. IInv' /\ Live' = Live
    BY <2>1, QuietStep
  <2> QED BY <2>1, <2>2, Stuttering
<1> QED
  BY <1>1, <1>2, <1>3, <1>4, <1>5, <1>6, <1>7, <1>8, <1>9, <1>10, <1>11, <1>12,
     <1>13, <1>14, <1>15, <1>16, <1>17, <1>18, <1>19, <1>20 DEF Next, Cpu

LEMMA Invariance == Spec => []IInv
<1>1. IInv /\ [Next]_vars => IInv'
  BY StepLemma
<1> QED BY InitInvariant, <1>1, PTL DEF Spec

(* What the registers, the stack, the controllers and the threads hold.    *)
THEOREM TypeCorrect == Spec => []TypeOK
<1>1. IInv => TypeOK
  BY DEF IInv
<1> QED BY Invariance, <1>1, PTL

(* However the kernel is left, nothing of the interrupt stays behind: a    *)
(* program runs with interrupts enabled, no line in service, esp0 and the  *)
(* timer's handler set, wherever the first tick interrupted init_timer,    *)
(* and the kernel stack never holds more than one frame.                   *)
THEOREM KernelIsAlwaysLeftClean == Spec => []KernelIsLeftClean
<1>1. IInv => KernelIsLeftClean
  <2> SUFFICES ASSUME IInv PROVE KernelIsLeftClean
    OBVIOUS
  <2>1. ASSUME InUser PROVE UserInterruptible
    <3>1. InProgram /\ pc = "eip" /\ InterruptsOn
      BY <2>1, Places
    <3>2. Running /\ in_service = {}
      BY <3>1 DEF IInv, InProgram, Acknowledged
    <3> QED BY <3>1, <3>2 DEF UserInterruptible, Running
  <2>2. Len(stack) <= 16
    BY Zenon, StackSizes DEF IInv
  <2>3. ASSUME ~InUser, InterruptsOn, pc # "iret" PROVE stack = << >>
    <3>1. Interruptible
      BY <2>3 DEF Interruptible
    <3> QED BY <2>3, <3>1, Places DEF InProgram, InConstructor
  <2> QED BY <2>1, <2>2, <2>3 DEF KernelIsLeftClean, UserInterruptible, OneFrame
<1> QED BY Invariance, <1>1, PTL

(* Interrupts, system calls, faults and switches move the registers of the *)
(* threads about and change none: to its program every thread has a        *)
(* processor of its own, module VirtualCpus.                               *)
THEOREM ImplementsVirtualCpus == Spec => RefinesVirtualCpus
<1>1. Init => Virtual!Init
  <2>1. Init => Context = << >>
    BY DEF Init, Context
  <2> QED BY <2>1 DEF Init, Virtual!Init, Context
<1>2. IInv /\ [Next]_vars
        => [Virtual!Next]_<<IF m_userland THEN current ELSE "nobody",
                           [t \in alive |-> IF m_userland /\ t = current
                                              THEN Live ELSE m_cpu_state[t]]>>
  BY StepLemma DEF Stutters, RunningThread, Context
<1> QED
  BY <1>1, <1>2, Invariance, PTL DEF RefinesVirtualCpus, Virtual!Spec, Spec

=============================================================================
