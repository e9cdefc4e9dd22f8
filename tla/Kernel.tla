------------------------------- MODULE Kernel -------------------------------
(***************************************************************************)
(* The process table, the round-robin scheduler, the system calls that     *)
(* change it and the keyboard interrupt (kernel/kernel.cpp,                *)
(* kernel/process.cpp, terminal::keyboard_event of kernel/terminal.cpp).   *)
(*                                                                         *)
(* Every interrupt gate clears IF and enter_usermode leaves the handler    *)
(* with iret, so a handler runs to its end without being interrupted: one  *)
(* action per handler.  The interleavings are those of user threads with   *)
(* timer and keyboard interrupts.                                          *)
(*                                                                         *)
(* Characters are counted, not named: m_input_buffer and line hold the     *)
(* lengths of the two input buffers.  Text output, memory blocks and page  *)
(* tables belong to other modules.                                         *)
(***************************************************************************)
EXTENDS Naturals, SequencesExt

CONSTANTS
  NumUser,    \* user programs started before the idle process
  Main,       \* name of the main thread of every process
  Workers,    \* names for the further threads a process may have at a time
  Readers,    \* the threads whose code calls getch
  ReadSizes,  \* the counts they pass to sys_read
  MaxLine     \* bound on the characters of an unfinished input line

ASSUME ProcessAssumption == NumUser \in Nat
ASSUME ThreadAssumption == Main \notin Workers
ASSUME ReadAssumption == ReadSizes \subseteq Nat
ASSUME LineAssumption == MaxLine \in Nat

Process == 0 .. NumUser    \* in the order the constructor creates them
Idle == NumUser            \* created last; its program is while(true)
Thread == Workers \cup {Main}

KMain == << >>             \* cpu runs kmain's closing loop
Identity == NumUser + 1    \* cr3 holds m_identity_page_directory
NoBuffer == "nullptr"      \* m_sys_read_buffer points to no live buffer

ASSUME BufferAssumption == NoBuffer \notin Thread

VARIABLES
  mode,               \* "run", or why nothing is modelled any more
  m_processes,        \* the processes in the order of the linked list
  m_process_index,
  m_thread_index,
  m_userland,
  threads,            \* process::threads
  state,              \* process::state, "deleted" once the object is gone
  m_sys_read_count,
  m_sys_read_buffer,  \* the thread whose buffer the pointer addresses
  m_input_buffer,     \* length of process::m_input_buffer
  unfilled,           \* threads whose last getch buffer still lacks its data
  line,               \* length of terminal::m_input_buffer
  m_active,           \* terminal::m_active
  m_active_terminal,  \* the process whose terminal gets the keys
  active_terminal_process_index,
  cpu,                \* <<process, thread>> executing, or KMain
  cr3                 \* the page directory in use between handlers

table == <<m_processes, threads>>
reading == <<state, m_sys_read_count, m_sys_read_buffer, m_input_buffer,
             unfilled>>
console == <<line, m_active, m_active_terminal,
             active_terminal_process_index>>
dispatch == <<m_process_index, m_thread_index, m_userland, cpu>>
vars == <<mode, table, reading, console, dispatch, cr3>>

TypeOK ==
  /\ mode \in {"run", "panic", "hang", "wild"}
  /\ m_processes \in Seq(Process)
  /\ m_process_index \in Nat
  /\ m_thread_index \in Nat
  /\ m_userland \in BOOLEAN
  /\ threads \in [Process -> Seq(Thread)]
  /\ state \in [Process -> {"running", "blocked", "deleted"}]
  /\ m_sys_read_count \in [Process -> Nat]
  /\ m_sys_read_buffer \in [Process -> Thread \cup {NoBuffer}]
  /\ m_input_buffer \in [Process -> Nat]
  /\ unfilled \in [Process -> SUBSET Thread]
  /\ line \in [Process -> 0 .. MaxLine]
  /\ m_active \in [Process -> BOOLEAN]
  /\ m_active_terminal \in Process
  /\ active_terminal_process_index \in Nat
  /\ cpu \in (Process \X Thread) \cup {KMain}
  /\ cr3 \in Process \cup {Identity}

(***************************************************************************)
(* The constructor has returned to kmain and the timer is armed: every     *)
(* process exists with its main thread and none has run.                   *)
(***************************************************************************)
Init ==
  /\ mode = "run"
  /\ m_processes = [i \in 1 .. NumUser + 1 |-> i - 1]
  /\ m_process_index = 0
  /\ m_thread_index = 0
  /\ m_userland = FALSE
  /\ threads = [p \in Process |-> <<Main>>]
  /\ state = [p \in Process |-> "running"]
  /\ m_sys_read_count = [p \in Process |-> 0]
  /\ m_sys_read_buffer = [p \in Process |-> NoBuffer]
  /\ m_input_buffer = [p \in Process |-> 0]
  /\ unfilled = [p \in Process |-> {}]
  /\ line = [p \in Process |-> 0]
  /\ m_active = [p \in Process |-> p = 0]
  /\ m_active_terminal = 0
  /\ active_terminal_process_index = 0
  /\ cpu = KMain
  /\ cr3 = Identity

-----------------------------------------------------------------------------
(* The scheduler. *)

Current == m_processes[m_process_index + 1]
CurrentThread == threads[Current][m_thread_index + 1]

(* m_process_index++ with the wrap to 0 that follows it, n processes. *)
Advance(i, n) == IF i + 1 >= n THEN 0 ELSE i + 1

(* The index task_switch's loop looks at in its iteration k = 0, 1, ... *)
Turn(i, k, n) ==
  LET j == Advance(i, n) + k IN IF j >= n THEN j - n ELSE j

(* Mutant: the loop ends before it comes back to the process it started    *)
(* from.                                                                   *)
Ready_Others(list, st, i) ==
  {k \in 0 .. Len(list) - 2 :
     st[list[Turn(i, k, Len(list)) + 1]] # "blocked"}

(* The iterations of one round that would end the loop. *)
Ready(list, st, i) ==
  {k \in 0 .. Len(list) - 1 :
     st[list[Turn(i, k, Len(list)) + 1]] # "blocked"}

enter_usermode(list, thr, pi, ti) ==
  LET p == list[pi + 1]
  IN  /\ mode' = "run"
      /\ m_process_index' = pi
      /\ m_thread_index' = ti
      /\ m_userland' = TRUE
      /\ cpu' = <<p, thr[p][ti + 1]>>
      /\ cr3' = p

(* No further handler of the modelled system runs. *)
Stop(why) == mode' = why /\ cr3' = Identity /\ UNCHANGED dispatch

(* The thread after ti of the process at pi, else the main thread of the   *)
(* next process that is not blocked.  No process at all is a panic; an     *)
(* index past the end of the list reads through a null pointer; a loop     *)
(* that finds every process blocked never ends, with interrupts off.       *)
task_switch(list, thr, st, pi, ti) ==
  IF list = << >> THEN Stop("panic")
  ELSE IF pi >= Len(list) THEN Stop("wild")
  ELSE IF ti + 1 < Len(thr[list[pi + 1]])
         THEN enter_usermode(list, thr, pi, ti + 1)
  ELSE LET ready == Ready(list, st, pi)
       IN  IF ready = {}
             THEN Stop("hang")
             ELSE enter_usermode(list, thr,
                                 Turn(pi, Min(ready), Len(list)), 0)

(* Mutant: a tick always moves on to the next process. *)
timer_handler_MainOnly ==
  /\ mode = "run"
  /\ task_switch(m_processes, threads, state, m_process_index,
                 Len(threads[Current]))
  /\ UNCHANGED <<table, reading, console>>

timer_handler ==
  /\ mode = "run"
  /\ task_switch(m_processes, threads, state, m_process_index, m_thread_index)
  /\ UNCHANGED <<table, reading, console>>

-----------------------------------------------------------------------------
(* System calls.  The idle program makes none and cannot fault. *)

InSyscall ==
  /\ mode = "run"
  /\ cpu # KMain
  /\ cpu[1] # Idle

(* delete m_processes[i]; m_processes.remove(i).  The terminal survives. *)
terminate_process(i) ==
  LET p == m_processes[i + 1]
  IN  /\ m_processes' = RemoveAt(m_processes, i + 1)
      /\ threads' = [threads EXCEPT ![p] = << >>]
      /\ state' = [state EXCEPT ![p] = "deleted"]
      /\ m_sys_read_count' = [m_sys_read_count EXCEPT ![p] = 0]
      /\ m_sys_read_buffer' = [m_sys_read_buffer EXCEPT ![p] = NoBuffer]
      /\ m_input_buffer' = [m_input_buffer EXCEPT ![p] = 0]
      /\ unfilled' = [unfilled EXCEPT ![p] = {}]

(* delete threads[i]; threads.remove(i): its stack goes with it. *)
terminate_thread(p, i) ==
  LET t == threads[p][i + 1]
  IN  /\ threads' = [threads EXCEPT ![p] = RemoveAt(@, i + 1)]
      /\ m_sys_read_buffer' =
           [m_sys_read_buffer EXCEPT ![p] = IF @ = t THEN NoBuffer ELSE @]
      /\ unfilled' = [unfilled EXCEPT ![p] = @ \ {t}]
      /\ UNCHANGED <<m_processes, state, m_sys_read_count, m_input_buffer>>

sys_exit ==
  /\ InSyscall
  /\ IF CurrentThread = Main
       THEN terminate_process(m_process_index)
       ELSE terminate_thread(Current, m_thread_index)
  /\ task_switch(m_processes', threads', state',
                 m_process_index, m_thread_index)
  /\ UNCHANGED console

(* A fault of a user thread ends its whole process. *)
page_fault_handler ==
  /\ InSyscall
  /\ terminate_process(m_process_index)
  /\ task_switch(m_processes', threads', state',
                 m_process_index, m_thread_index)
  /\ UNCHANGED console

(* Mutants: the copy loop does not test m_sys_read_count; the process is   *)
(* not set running; it is set running by the first character.              *)
flush_input_buffer_All(p, have, want, st, reader) ==
  /\ m_input_buffer' = [m_input_buffer EXCEPT ![p] = 0]
  /\ m_sys_read_count' = [m_sys_read_count EXCEPT ![p] = want - have]
  /\ state' = [state EXCEPT ![p] = IF want = have THEN "running" ELSE st]
  /\ unfilled' = [unfilled EXCEPT ![p] = @ \ {reader}]

flush_input_buffer_NoWake(p, have, want, st, reader) ==
  LET n == Min({have, want})
  IN  /\ m_input_buffer' = [m_input_buffer EXCEPT ![p] = have - n]
      /\ m_sys_read_count' = [m_sys_read_count EXCEPT ![p] = want - n]
      /\ state' = [state EXCEPT ![p] = st]
      /\ unfilled' = [unfilled EXCEPT ![p] = @ \ {reader}]

flush_input_buffer_Early(p, have, want, st, reader) ==
  LET n == Min({have, want})
  IN  /\ m_input_buffer' = [m_input_buffer EXCEPT ![p] = have - n]
      /\ m_sys_read_count' = [m_sys_read_count EXCEPT ![p] = want - n]
      /\ state' = [state EXCEPT ![p] = IF n > 0 THEN "running" ELSE st]
      /\ unfilled' = [unfilled EXCEPT
                        ![p] = IF want - n = 0 THEN @ \ {reader}
                                               ELSE @ \cup {reader}]

(* Moves what is there of have characters into a buffer that wants more,   *)
(* and sets the process running once it is full.                           *)
flush_input_buffer(p, have, want, st, reader) ==
  LET n == Min({have, want})
  IN  /\ m_input_buffer' = [m_input_buffer EXCEPT ![p] = have - n]
      /\ m_sys_read_count' = [m_sys_read_count EXCEPT ![p] = want - n]
      /\ state' =
           [state EXCEPT ![p] = IF want - n = 0 THEN "running" ELSE st]
      /\ unfilled' = [unfilled EXCEPT
                        ![p] = IF want - n = 0 THEN @ \ {reader}
                                               ELSE @ \cup {reader}]

sys_read(count) ==
  /\ InSyscall
  /\ cpu[2] \in Readers
  /\ m_sys_read_buffer' = [m_sys_read_buffer EXCEPT ![Current] = cpu[2]]
  /\ flush_input_buffer(Current, m_input_buffer[Current], count, "blocked",
                        cpu[2])
  /\ task_switch(m_processes, threads, state',
                 m_process_index, m_thread_index)
  /\ UNCHANGED <<table, console>>

sys_thread(t) ==
  /\ InSyscall
  /\ t \notin Range(threads[Current])
  /\ threads' = [threads EXCEPT ![Current] = Append(@, t)]
  /\ cr3' = Current
  /\ UNCHANGED <<mode, m_processes, reading, console, dispatch>>

(* sys_write and sys_alloc: back to the caller through its page directory. *)
sys_return ==
  /\ InSyscall
  /\ cr3' = Current
  /\ UNCHANGED <<mode, table, reading, console, dispatch>>

-----------------------------------------------------------------------------
(* The keyboard interrupt. *)

(* Mutant: the identity directory stays loaded. *)
KeyboardReturn_Identity == cr3' = Identity

(* The handler loads the identity directory and goes back to what it       *)
(* interrupted.                                                            *)
KeyboardReturn == cr3' = IF m_userland THEN Current ELSE Identity

(* Mutant: the old terminal is deactivated last. *)
SwitchTerminal_Swapped ==
  LET i == active_terminal_process_index
      j == IF i + 1 = Len(m_processes) THEN 0 ELSE i + 1
  IN  /\ mode = "run"
      /\ i < Len(m_processes)
      /\ active_terminal_process_index' = j
      /\ m_active_terminal' = m_processes[j + 1]
      /\ m_active' = [m_active EXCEPT ![m_processes[j + 1]] = TRUE,
                                      ![m_processes[i + 1]] = FALSE]
      /\ KeyboardReturn
      /\ UNCHANGED <<mode, table, reading, line, dispatch>>

(* Shift+Tab: the terminal of the next process of the list gets the keys   *)
(* and the screen.                                                         *)
SwitchTerminal ==
  LET i == active_terminal_process_index
      j == IF i + 1 = Len(m_processes) THEN 0 ELSE i + 1
  IN  /\ mode = "run"
      /\ i < Len(m_processes)
      /\ active_terminal_process_index' = j
      /\ m_active_terminal' = m_processes[j + 1]
      /\ m_active' = [m_active EXCEPT ![m_processes[i + 1]] = FALSE,
                                      ![m_processes[j + 1]] = TRUE]
      /\ KeyboardReturn
      /\ UNCHANGED <<mode, table, reading, line, dispatch>>

(* Shift+Tab when the list has become shorter than the remembered index:   *)
(* operator[] walks off the list.                                          *)
SwitchTerminalStale ==
  /\ mode = "run"
  /\ active_terminal_process_index >= Len(m_processes)
  /\ mode' = "wild"
  /\ UNCHANGED <<table, reading, console, dispatch, cr3>>

(* Mutant: the key may reach any terminal. *)
KeyFor_Any(p) ==
  /\ mode = "run"
  /\ m_userland
  /\ state[p] # "deleted"
  /\ KeyboardReturn
  /\ UNCHANGED <<table, m_sys_read_buffer, m_active, m_active_terminal,
                 active_terminal_process_index, dispatch>>

(* A key that is not Shift+Tab goes to the active terminal. *)
KeyFor(p) ==
  /\ mode = "run"
  /\ m_userland
  /\ p = m_active_terminal
  /\ state[p] # "deleted"
  /\ KeyboardReturn
  /\ UNCHANGED <<table, m_sys_read_buffer, m_active, m_active_terminal,
                 active_terminal_process_index, dispatch>>

NoDelivery == UNCHANGED <<mode, state, m_sys_read_count, m_input_buffer,
                          unfilled>>

(* keyboard_event ignores every key while nothing is being read. *)
KeyIgnored(p) ==
  /\ KeyFor(p)
  /\ m_sys_read_count[p] = 0
  /\ NoDelivery
  /\ UNCHANGED line

(* Mutant: without the test of m_sys_read_count. *)
KeyChar_NoRequest(p) ==
  /\ KeyFor(p)
  /\ line[p] < MaxLine
  /\ line' = [line EXCEPT ![p] = @ + 1]
  /\ NoDelivery

KeyChar(p) ==
  /\ KeyFor(p)
  /\ m_sys_read_count[p] > 0
  /\ line[p] < MaxLine
  /\ line' = [line EXCEPT ![p] = @ + 1]
  /\ NoDelivery

KeyBackspace(p) ==
  /\ KeyFor(p)
  /\ m_sys_read_count[p] > 0
  /\ line[p] > 0
  /\ line' = [line EXCEPT ![p] = @ - 1]
  /\ NoDelivery

(* The line and a newline go to the process, which may be woken by it. *)
KeyEnter(p) ==
  /\ KeyFor(p)
  /\ m_sys_read_count[p] > 0
  /\ m_sys_read_buffer[p] # NoBuffer
  /\ line' = [line EXCEPT ![p] = 0]
  /\ flush_input_buffer(p, m_input_buffer[p] + line[p] + 1,
                        m_sys_read_count[p], state[p],
                        m_sys_read_buffer[p])
  /\ UNCHANGED mode

(* The same when the thread that asked has exited: its stack block, by now *)
(* anybody's, is written through the old pointer.                          *)
KeyEnterDangling(p) ==
  /\ KeyFor(p)
  /\ m_sys_read_count[p] > 0
  /\ m_sys_read_buffer[p] = NoBuffer
  /\ mode' = "wild"
  /\ UNCHANGED <<line, state, m_sys_read_count, m_input_buffer, unfilled>>

(* A key for the terminal of a deleted process: the freed object is read   *)
(* through terminal::m_process.  Its read count may still be 0, then the   *)
(* key is ignored; any other value lets the event write into freed memory. *)
KeyForDeleted ==
  /\ mode = "run"
  /\ m_userland
  /\ state[m_active_terminal] = "deleted"
  /\ mode' \in {"run", "wild"}
  /\ KeyboardReturn
  /\ UNCHANGED <<table, reading, console, dispatch>>

keyboard_handler ==
  \/ SwitchTerminal
  \/ SwitchTerminalStale
  \/ \E p \in Process : \/ KeyIgnored(p)
                       \/ KeyChar(p)
                       \/ KeyBackspace(p)
                       \/ KeyEnter(p)
                       \/ KeyEnterDangling(p)
  \/ KeyForDeleted

-----------------------------------------------------------------------------

Next ==
  \/ timer_handler
  \/ sys_exit
  \/ page_fault_handler
  \/ \E count \in ReadSizes : sys_read(count)
  \/ \E t \in Workers : sys_thread(t)
  \/ sys_return
  \/ keyboard_handler

(* The timer chip raises IRQ0 periodically and interrupts are enabled      *)
(* whenever no handler runs, so a tick is never put off for ever.  Nothing *)
(* is assumed of the programs or of the keyboard.                          *)
Fairness == WF_vars(timer_handler)

Spec == Init /\ [][Next]_vars /\ Fairness

-----------------------------------------------------------------------------
(* Properties. *)

Live(p) == state[p] # "deleted"

(* Once user mode has been entered, the two indices that every handler     *)
(* uses to find "the current thread" (to save its registers, to block it,  *)
(* to delete it) name the thread that is executing, its process is still   *)
(* in the list, and its page directory is the one in use, whatever         *)
(* terminations moved the lists under those indices.                       *)
CurrentThreadRuns ==
  m_userland =>
    /\ m_process_index < Len(m_processes)
    /\ Live(Current)
    /\ m_thread_index < Len(threads[Current])
    /\ cpu = <<Current, CurrentThread>>
    /\ cr3 = Current

(* task_switch neither runs out of processes (panic) nor loops for ever    *)
(* over blocked ones with interrupts disabled.                             *)
KernelKeepsRunning == mode \notin {"panic", "hang"}

(* sys_exit ends the process exactly when its main thread calls it, and a  *)
(* round enters a process at its main thread: both rely on the main thread *)
(* staying first of a list without duplicates while threads come and go.   *)
MainThreadFirst ==
  \A p \in Process :
    Live(p) => /\ threads[p] # << >>
               /\ Head(threads[p]) = Main
               /\ \A i, j \in 1 .. Len(threads[p]) :
                    threads[p][i] = threads[p][j] => i = j

(* A process is blocked exactly while characters of a read are missing.    *)
(* Input is then never kept back from it, and its main thread, which the   *)
(* scheduler and the system calls of the others find in several ways, is   *)
(* not executed.                                                           *)
ReadRequestConsistent ==
  \A p \in Process :
    Live(p) => /\ (state[p] = "blocked") <=> (m_sys_read_count[p] > 0)
               /\ m_sys_read_count[p] > 0 => m_input_buffer[p] = 0
MainNeverRunsBlocked ==
  \A p \in Process : cpu = <<p, Main>> => state[p] # "blocked"
BlockedUntilRead == ReadRequestConsistent /\ MainNeverRunsBlocked

(* The characters of an unfinished line belong to a read: no line stays    *)
(* behind where keyboard_event would ignore the keys that finish it.       *)
LineBelongsToRead ==
  \A p \in Process :
    Live(p) /\ line[p] > 0 => m_sys_read_count[p] > 0

(* When a thread continues after getch, its buffer holds the character. *)
ReadReturnsFilled ==
  \A p \in Process, t \in Thread : cpu = <<p, t>> => t \notin unfilled[p]

(* Shift+Tab always gives the keys to a terminal that draws on the screen. *)
(* Until a process is deleted it is the only one, that of the process      *)
(* active_terminal_process_index stands for, and no stale index or pointer *)
(* is followed.                                                            *)
FocusIsDisplayed == m_active[m_active_terminal]
OneDisplayUntilExit ==
  (\A p \in Process : Live(p)) =>
    \A p \in Process :
      m_active[p] <=> p = m_processes[active_terminal_process_index + 1]
StaleOnlyAfterExit ==
  mode = "wild" => \E p \in Process : ~Live(p)
FocusUntilExit ==
  FocusIsDisplayed /\ OneDisplayUntilExit /\ StaleOnlyAfterExit

(* Only the Enter key on a process's own terminal ends its wait. *)
WokenByOwnTerminal ==
  [][\A p \in Process :
       state[p] = "blocked" /\ state'[p] = "running"
         => m_active_terminal = p /\ line'[p] = 0]_vars

(* Round robin starves nobody: a main thread whose process stays unblocked *)
(* is executed again and again, whatever the other processes do, and so is *)
(* any other thread, although terminate_thread makes the scheduler skip    *)
(* the next thread of the list and terminate_process skips the main thread *)
(* of the next process.                                                    *)
RunnableMainRuns ==
  \A p \in Process :
    []<>(cpu = <<p, Main>> \/ state[p] # "running" \/ mode # "run")
WorkersRun ==
  \A p \in Process, t \in Workers :
    []<>(\/ cpu = <<p, t>>
         \/ t \notin Range(threads[p])
         \/ state[p] # "running"
         \/ mode # "run")
NobodyStarves == RunnableMainRuns /\ WorkersRun

=============================================================================
