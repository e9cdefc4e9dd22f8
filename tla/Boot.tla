-------------------------------- MODULE Boot --------------------------------
(***************************************************************************)
(* The start of the kernel (kernel::kernel, memory::memory,                *)
(* get_best_region): from the memory map to the first tick that enters     *)
(* user mode.  From its sti on, keyboard interrupts come between the       *)
(* constructor's steps, while the list of processes and the focus are half *)
(* made; a timer interrupt does nothing before init_timer (Interrupts).    *)
(*                                                                         *)
(* A step is a statement, or a part of one that stores what Shift+Tab      *)
(* reads.  mode is "wild" once the keyboard handler has followed a pointer *)
(* that is not there yet.                                                  *)
(***************************************************************************)
EXTENDS Keyboard

CONSTANTS
  NumUser,       \* programs started before the idle process
  Maps,          \* memory maps: sequences of [start, size, type]
  PowerOn,       \* sets of blocks whose bits are set when power comes on
  WordRange,     \* 2^32
  BlockSize,
  BitsPerByte,
  LowMemory,     \* 64 KB
  MaxRegions,    \* MAX_REGION_COUNT
  HeapBlocks,    \* KERNEL_HEAP_SIZE_IN_PAGES
  TableBlocks,   \* page tables of a directory, 1024
  Junk           \* what the memory of a new object holds

ASSUME CountAssumption == NumUser \in Nat /\ HeapBlocks \in Nat \ {0}
                          /\ TableBlocks \in Nat \ {0}
ASSUME WordAssumption == WordRange \in Nat \ {0} /\ BlockSize \in Nat \ {0}
                         /\ BitsPerByte \in Nat \ {0} /\ LowMemory \in Nat
ASSUME MapAssumption ==
  \A m \in Maps : /\ Len(m) \in 0 .. MaxRegions
                   /\ \A i \in 1 .. Len(m) : m[i].start \in Nat /\ m[i].size \in Nat
ASSUME RegionAssumption == MaxRegions \in Nat

Process == 0 .. NumUser
KernelTerminal == NumUser + 1
NULL == 0
ASSUME JunkAssumption == Junk \notin Process
Structures == {"heap", "identity", "identity_tables", "user", "user_tables"}

VARIABLES
  pc, mode,
  map,       \* what the boot loader got from the BIOS
  m_data_block_addr, m_data_block_count,
  used,      \* the blocks whose bits are set
  cursor,    \* allocate_blocks: static i
  block,     \* where each structure of the kernel was put
  created,   \* the process objects
  nodes,     \* the values of the nodes of m_processes
  m_size,    \* the elements m_processes counts
  m_active,
  m_active_terminal,
  target,    \* the terminal a statement has loaded and will work on
  active_terminal_process_index,
  m_userland,
  switched,  \* Shift+Tab has come before the first tick
  typed      \* the last character given to a terminal, and the modifiers
             \* that were down or feigned when its code was sent

memory == <<map, m_data_block_addr, m_data_block_count, used, cursor, block>>
list == <<created, nodes, m_size>>
focus == <<m_active, m_active_terminal, active_terminal_process_index>>
vars == <<pc, mode, memory, list, focus, target, m_userland, switched, typed,
          keyboard>>

-----------------------------------------------------------------------------
(* The memory map.  The fields are words; what is beyond them is in others *)
(* that nobody reads.                                                      *)

div_ceil(a, b) == a \div b + (IF a % b = 0 THEN 0 ELSE 1)
align_right(a, b) == (div_ceil(a, b) * b) % WordRange
align_left(a, b) == (a \div b) * b

(* After the last entry the loader's buffer is empty. *)
Region(i) ==
  IF i < Len(map) THEN map[i + 1] ELSE [start |-> 0, size |-> 0, type |-> 0]
start_low(i) == Region(i).start % WordRange
size_low(i) == Region(i).size % WordRange

(* Mutant: the type is not looked at. *)
Candidates_AnyType ==
  {i \in 0 .. MaxRegions - 1 :
     /\ \A j \in 1 .. i : start_low(j) # 0
     /\ start_low(i) > LowMemory}

(* The entries before the first, other than entry 0, that starts at 0. *)
Candidates ==
  {i \in 0 .. MaxRegions - 1 :
     /\ \A j \in 1 .. i : start_low(j) # 0
     /\ Region(i).type = 1
     /\ start_low(i) > LowMemory}

(* The first of the largest ones. *)
BestRegion ==
  Min({i \in Candidates : \A j \in Candidates : size_low(j) <= size_low(i)})

get_best_region ==
  IF Candidates = {} THEN [base |-> 0, size |-> 0]
  ELSE [base |-> start_low(BestRegion), size |-> size_low(BestRegion)]

(* memory::memory: the blocks between the ends, the first for the bitmap. *)
FirstAddress == align_right(get_best_region.base, BlockSize)
LastAddress ==
  align_left((get_best_region.base + get_best_region.size) % WordRange, BlockSize)
RegionBlocks == ((LastAddress - FirstAddress) % WordRange) \div BlockSize
BitmapBlocks == div_ceil(div_ceil(RegionBlocks, BitsPerByte), BlockSize)
DataBlocks == RegionBlocks - BitmapBlocks

-----------------------------------------------------------------------------
(* allocate_blocks, see BlockAllocator: s has the count of blocks, used,   *)
(* cursor and block; what was asked for is recorded as `name`.             *)

(* The first blocks of the free runs that the search comes to. *)
FreeRuns(s, count) ==
  LET from == IF s.cursor = s.count THEN 0 ELSE s.cursor
  IN  {b \in from .. s.count - count : (b .. b + count - 1) \cap s.used = {}}

(* Mutant: the blocks are not marked. *)
allocate_blocks_Unmarked(s, count, name) ==
  LET runs == FreeRuns(s, count)
  IN  IF runs = {}
        THEN [s EXCEPT !.cursor = s.count, !.block[name] = NULL]
        ELSE [s EXCEPT !.cursor = Min(runs) + count - 1,
                       !.block[name] = Min(runs)]

allocate_blocks(s, count, name) ==
  LET runs == FreeRuns(s, count)
  IN  IF runs = {}
        THEN [s EXCEPT !.cursor = s.count, !.block[name] = NULL]
        ELSE [s EXCEPT !.used = @ \cup (Min(runs) .. Min(runs) + count - 1),
                       !.cursor = Min(runs) + count - 1,
                       !.block[name] = Min(runs)]

Taken(s) == used' = s.used /\ cursor' = s.cursor /\ block' = s.block

-----------------------------------------------------------------------------
(* The constructor. *)

At(here, there) == mode = "run" /\ pc = here /\ pc' = there

(* The members: block 0 is reserved, the heap is built where it was given  *)
(* memory, or at NULL; its own terminal shows the kernel's messages.       *)
initialise ==
  /\ At("members", IF DataBlocks = 0 THEN "returned" ELSE "paging")
  /\ m_data_block_addr' = (FirstAddress + BitmapBlocks * BlockSize) % WordRange
  /\ m_data_block_count' = DataBlocks
  /\ Taken(allocate_blocks([count |-> DataBlocks, cursor |-> cursor, block |-> block,
                            used |-> (used \cup {0}) \cap 0 .. DataBlocks - 1],
                           HeapBlocks, "heap"))
  /\ UNCHANGED map
  /\ m_active' = [m_active EXCEPT ![KernelTerminal] = TRUE]
  /\ UNCHANGED <<mode, list, m_active_terminal, active_terminal_process_index,
                 target, m_userland, switched, typed>>

(* The directories and their tables; then interrupts are enabled. *)
prepare_paging ==
  LET s1 == allocate_blocks([count |-> m_data_block_count, cursor |-> cursor,
                             block |-> block, used |-> used], 1, "identity")
      s2 == allocate_blocks(s1, TableBlocks, "identity_tables")
      s3 == allocate_blocks(s2, 1, "user")
      s4 == allocate_blocks(s3, TableBlocks, "user_tables")
  IN  /\ At("paging", "sti")
      /\ Taken(s4)
      /\ UNCHANGED <<map, m_data_block_addr, m_data_block_count>>
      /\ mode' = IF \E name \in Structures \ {"heap"} : s4.block[name] = NULL
                   THEN "panic" ELSE "run"
      /\ UNCHANGED <<list, focus, target, m_userland, switched, typed>>

console == <<focus, target>>
machine == <<mode, memory, m_userland, switched, typed>>

(* create_process: the objects. *)
new_process ==
  /\ At("sti", "node")
  /\ created' = created \cup {m_size}
  /\ UNCHANGED <<machine, nodes, m_size, console>>

(* Mutant: the new node becomes the first one. *)
add_node_AtHead ==
  /\ At("node", "value")
  /\ nodes' = IF nodes = << >> THEN <<Junk>>
              ELSE <<m_size>> \o Front(nodes) \o <<Junk>>
  /\ UNCHANGED <<machine, created, m_size, console>>

(* linked_list::add hangs an empty node on the list, fills it, counts it. *)
add_node ==
  /\ At("node", "value")
  /\ nodes' = Append(nodes, Junk)
  /\ UNCHANGED <<machine, created, m_size, console>>

add_value ==
  /\ At("value", "count")
  /\ nodes' = [nodes EXCEPT ![Len(nodes)] = m_size]
  /\ UNCHANGED <<machine, created, m_size, console>>

add_count ==
  /\ At("count", IF m_size = NumUser THEN "index" ELSE "sti")
  /\ m_size' = m_size + 1
  /\ UNCHANGED <<machine, created, nodes, console>>

reset_index ==
  /\ At("index", "inactive")
  /\ active_terminal_process_index' = 0
  /\ UNCHANGED <<machine, list, m_active, m_active_terminal, target>>

kernel_inactive ==
  /\ At("inactive", "find")
  /\ m_active' = [m_active EXCEPT ![KernelTerminal] = FALSE]
  /\ UNCHANGED <<machine, list, m_active_terminal,
                 active_terminal_process_index, target>>

(* m_active_terminal = m_processes[...]->m_terminal *)
find_terminal ==
  /\ At("find", "assign")
  /\ target' = nodes[active_terminal_process_index + 1]
  /\ UNCHANGED <<machine, list, focus>>

assign_terminal ==
  /\ At("assign", "load")
  /\ m_active_terminal' = target
  /\ UNCHANGED <<machine, list, m_active, active_terminal_process_index, target>>

(* m_active_terminal->set_active() *)
load_terminal ==
  /\ At("load", "show")
  /\ target' = m_active_terminal
  /\ UNCHANGED <<machine, list, focus>>

show_terminal ==
  /\ At("show", "kmain")
  /\ m_active' = [m_active EXCEPT ![target] = TRUE]
  /\ UNCHANGED <<machine, list, m_active_terminal,
                 active_terminal_process_index, target>>

(* init_timer has registered the handler, and the first tick comes:        *)
(* task_switch enters user mode.                                           *)
timer_handler ==
  /\ At("kmain", "user")
  /\ m_userland' = TRUE
  /\ UNCHANGED <<mode, memory, list, console, switched, typed>>

kernel ==
  \/ initialise \/ prepare_paging
  \/ new_process \/ add_node \/ add_value \/ add_count
  \/ reset_index \/ kernel_inactive \/ find_terminal \/ assign_terminal
  \/ load_terminal \/ show_terminal
  \/ timer_handler

-----------------------------------------------------------------------------
(* The keyboard interrupt. *)

InterruptsEnabled == mode = "run" /\ pc \notin {"members", "paging", "returned"}

modifier_key ==
  /\ ReadModifier
  /\ UNCHANGED <<mode, focus, switched, typed>>

(* m_processes[k] is a process: the walk ends at a node that is filled. *)
Leads(k) == k < Len(nodes) /\ nodes[k + 1] # Junk

(* Mutant: the index does not wrap. *)
NextIndex_NoWrap == active_terminal_process_index + 1

NextIndex ==
  IF active_terminal_process_index + 1 = m_size
    THEN 0 ELSE active_terminal_process_index + 1

(* Shift+Tab, from the first terminal the list leads to. *)
SwitchTerminal ==
  LET i == active_terminal_process_index
  IN  /\ ReadKey /\ IsSwitch
      /\ IF Leads(i) /\ Leads(NextIndex)
           THEN /\ m_active' = [m_active EXCEPT ![nodes[i + 1]] = FALSE,
                                                ![nodes[NextIndex + 1]] = TRUE]
                /\ m_active_terminal' = nodes[NextIndex + 1]
                /\ active_terminal_process_index' = NextIndex
                /\ mode' = mode
           ELSE mode' = "wild" /\ UNCHANGED focus
      /\ switched' = (switched \/ ~m_userland)
      /\ UNCHANGED typed

(* Any other key: keyboard_event, from user mode only. *)
keyboard_event ==
  /\ ReadKey /\ ~IsSwitch
  /\ typed' = IF m_userland /\ ~is_up(Next_Byte) /\ Code \in Printable
                THEN <<to_char(Code, IsShift), Head(wire).by>> ELSE typed
  /\ UNCHANGED <<mode, focus, switched>>

keyboard_handler ==
  /\ InterruptsEnabled
  /\ modifier_key \/ SwitchTerminal \/ keyboard_event
  /\ UNCHANGED <<pc, memory, list, target, m_userland>>

system == <<pc, mode, memory, list, focus, target, m_userland, switched, typed>>

-----------------------------------------------------------------------------
Init ==
  /\ pc = "members" /\ mode = "run"
  /\ map \in Maps
  /\ m_data_block_addr = 0 /\ m_data_block_count = 0
  /\ used \in PowerOn
  /\ cursor = 0
  /\ block = [name \in Structures |-> NULL]
  /\ created = {} /\ nodes = << >> /\ m_size = 0
  /\ m_active = [t \in Process \cup {KernelTerminal} |-> FALSE]
  /\ m_active_terminal = KernelTerminal
  /\ target = KernelTerminal
  /\ active_terminal_process_index = 0
  /\ m_userland = FALSE
  /\ switched = FALSE
  /\ typed = << >>
  /\ held = {} /\ feigned = FALSE /\ wire = << >> /\ modifiers = {}

Next ==
  \/ kernel /\ UNCHANGED keyboard
  \/ keyboard_handler
  \/ \E k \in Keys \cup Extended : Press(k) /\ UNCHANGED system
  \/ \E k \in held : Release(k) /\ UNCHANGED system

Spec == Init /\ [][Next]_vars

-----------------------------------------------------------------------------
(* Properties. *)

Size == [heap |-> HeapBlocks, identity |-> 1, identity_tables |-> TableBlocks,
         user |-> 1, user_tables |-> TableBlocks]
Occupied(name) == block[name] .. block[name] + Size[name] - 1
Running == mode = "run" /\ pc \notin {"members", "paging", "returned"}

(* Every block that is managed lies in usable memory: inside the entry     *)
(* that was chosen, which is of type 1, if that ends within 32 bits and    *)
(* has room for a block.  (With none, LastAddress is below FirstAddress    *)
(* and the count of blocks wraps around, or FirstAddress does, and the     *)
(* blocks are those of the whole address space.)                           *)
BlocksAreUsable ==
  LET entry == Region(BestRegion)
      end == entry.start + entry.size
  IN  /\ pc \in {"paging", "returned"}
      /\ Candidates # {} /\ end < WordRange
      /\ entry.start <= FirstAddress /\ FirstAddress <= LastAddress
      => /\ entry.type = 1
         /\ m_data_block_count > 0 =>
              /\ entry.start <= m_data_block_addr
              /\ m_data_block_addr + m_data_block_count * BlockSize <= end

(* The kernel that runs has its heap and its page tables in blocks of      *)
(* their own, none of them block 0, where the bits are.  Only the heap may *)
(* be at address 0: its constructor runs before any test, and the kernel   *)
(* goes on if the structures that are tested find room in a memory that    *)
(* was too small, or had too many bits set at power-on, for the heap.      *)
StructuresAreApart ==
  Running =>
    /\ \A a, b \in {n \in Structures : block[n] # NULL} :
         /\ Occupied(a) \subseteq 1 .. m_data_block_count - 1
         /\ a # b => Occupied(a) \cap Occupied(b) = {}
    /\ \A name \in Structures \ {"heap"} : block[name] # NULL
    /\ block["heap"] = NULL =>
         \A b \in 0 .. m_data_block_count - HeapBlocks :
           \E c \in (b .. b + HeapBlocks - 1) \cap used :
             \A name \in Structures \ {"heap"} : c \notin Occupied(name)

(* Shift+Tab while the kernel starts: it follows a pointer that is not     *)
(* there only while no process is counted, never because the list grows    *)
(* or the index is reset under it.  When the constructor is done, and      *)
(* later, the terminal with the keys is displayed and belongs to a         *)
(* process, and the kernel's own does not draw any more.                   *)
FocusSurvivesBoot ==
  /\ mode = "wild" => m_size = 0
  /\ mode = "run" /\ pc \in {"kmain", "user"} =>
       /\ m_active_terminal \in Process
       /\ m_active[m_active_terminal]
       /\ ~m_active[KernelTerminal]

(* The constructor leaves the state that Kernel starts from, unless        *)
(* Shift+Tab has come in between, which may leave two terminals active.    *)
K == INSTANCE Kernel
       WITH Main <- "main", Workers <- {}, Readers <- {}, ReadSizes <- {},
            MaxLine <- 0,
            m_processes <- SubSeq(nodes, 1, m_size),
            m_process_index <- 0, m_thread_index <- 0,
            threads <- [p \in created |-> <<"main">>],
            state <- [p \in created |-> "running"],
            m_sys_read_count <- [p \in created |-> 0],
            m_sys_read_buffer <- [p \in created |-> "nullptr"],
            m_input_buffer <- [p \in created |-> 0],
            unfilled <- [p \in created |-> {}],
            line <- [p \in created |-> 0],
            m_active <- [p \in created |-> m_active[p]],
            cpu <- << >>, cr3 <- NumUser + 1
BootsIntoKernel == mode = "run" /\ pc = "kmain" /\ ~switched => K!Init

(* The driver has one variable for the two keys of a modifier and ignores  *)
(* the prefix that tells them apart, and feigned shifts from true ones;    *)
(* still no modifier sticks that the keyboard has not left so: when        *)
(* nothing is on the way a modifier is on only if one of its keys is down, *)
(* or shift because the keyboard has feigned it and neither taken it back  *)
(* nor sent the release of a shift key since.  A character has its shifted *)
(* form only if a shift key was down with it, or shift was feigned.        *)
ModifiersFollowKeys ==
  /\ wire = << >> => modifiers \subseteq Down \cup (IF feigned THEN {"shift"} ELSE {})
  /\ typed # << >> /\ typed[1][2] => "shift" \in typed[2]
  /\ KeysAreDistinct

=============================================================================
