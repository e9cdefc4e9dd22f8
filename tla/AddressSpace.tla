---------------------------- MODULE AddressSpace ----------------------------
(***************************************************************************)
(* The address spaces of the processes: page directories, the page tables  *)
(* they clone from the template, the blocks behind the pages, and who      *)
(* remembers which block to free (kernel/paging.cpp, constructors and      *)
(* destructors of process and thread, process::expand_heap).               *)
(*                                                                         *)
(* Addresses are page numbers, physical memory is its blocks.  A process   *)
(* occupies, from below: the image, the heap that grows upwards, the       *)
(* stacks of its threads that are laid out downwards.  Block 0 stands for  *)
(* all that is never freed: the real block 0, the kernel's heap, the       *)
(* template directory with its tables.                                     *)
(*                                                                         *)
(* No caller looks whether allocate_blocks returned NULL, so the memory at *)
(* address 0 is then used in place of blocks.  The model goes on when that *)
(* is a page of a heap or a stack.  It stops where it would have to say    *)
(* what programs write: a page table at NULL, one that was freed; where    *)
(* free_block is given a NULL (BlockAllocator: it clears a bit elsewhere); *)
(* and where memory is too short to boot.                                  *)
(***************************************************************************)
EXTENDS Naturals, SequencesExt

CONSTANTS
  BlockCount,     \* blocks of physical memory; block 0 is never given out
  NumUser,        \* processes 0 .. NumUser - 1 run programs, the last idles
  Main,           \* the main thread of every process
  Workers,        \* names of the further threads of a process
  ImagePages,     \* USER_EXECUTABLE_IMAGE_SIZE_IN_PAGES
  StackPages,     \* USER_STACK_SIZE_IN_PAGES
  PagesPerTable,
  ImageBase,      \* USER_ENTRY_ADDRESS
  HeapBase,       \* USER_HEAP_ADDRESS
  StackTop,       \* USER_STACK_ADDRESS
  HeapRequests,   \* numbers of pages a sys_alloc asks for
  Template,       \* a directory entry of the template, m_user_page_directory
  NotPresent      \* a page table entry without the present flag

ASSUME CountAssumption == BlockCount \in Nat \ {0} /\ NumUser \in Nat
ASSUME PageAssumption ==
  /\ ImagePages \in Nat \ {0}
  /\ StackPages \in Nat \ {0}
  /\ PagesPerTable \in Nat \ {0}
ASSUME LayoutAssumption ==
  /\ ImageBase \in Nat /\ HeapBase \in Nat /\ StackTop \in Nat
  /\ ImageBase + ImagePages <= HeapBase
  /\ HeapBase + (1 + Cardinality(Workers)) * StackPages <= StackTop
ASSUME ThreadAssumption == IsFiniteSet(Workers) /\ Main \notin Workers
ASSUME RequestAssumption == HeapRequests \subseteq Nat

(* Physical pages: those from address 0 that a stack at NULL occupies, and *)
(* the blocks.                                                             *)
NULL == 0
LowPages == NULL .. StackPages - 1
FirstBlock == StackPages
EndBlock == FirstBlock + BlockCount
Block == FirstBlock .. EndBlock - 1
Process == 0 .. NumUser
Idle == NumUser
Thread == Workers \cup {Main}

Page == 0 .. StackTop - 1
Frame == {v \div PagesPerTable : v \in Page}
Entry == 0 .. PagesPerTable - 1

(* What marks an entry is no address. *)
ASSUME EntryAssumption ==
  Template \notin Block \cup {NULL} /\ NotPresent \notin Block \cup LowPages

(* The template's tables, whose pages of user addresses are not present. *)
EmptyTable == [e \in Entry |-> NotPresent]

VARIABLES
  mode,              \* "boot", "run", "lost" where the model stops
  held,              \* the blocks marked as used
  cursor,            \* allocate_blocks: static i
  tables,            \* the entries of the blocks that are page tables
  m_page_directory,  \* NULL before the constructor and after the destructor
  entries,           \* the page directory of each process
  m_used_blocks,     \* process::m_used_blocks
  m_stack_blocks,    \* process::m_stack_blocks
  m_heap_address,
  threads,           \* the thread objects of each process
  orphans            \* thread objects whose process is deleted, with whose
                     \* they were

memory == <<held, cursor, tables>>
vars == <<mode, memory, m_page_directory, entries, m_used_blocks,
          m_stack_blocks, m_heap_address, threads, orphans>>

Init ==
  /\ mode = "boot"
  /\ held = {FirstBlock}
  /\ cursor = FirstBlock
  /\ tables = [b \in Block \cup {NULL} |-> EmptyTable]
  /\ m_page_directory = [p \in Process |-> NULL]
  /\ entries = [p \in Process |-> [f \in Frame |-> Template]]
  /\ m_used_blocks = [p \in Process |-> << >>]
  /\ m_stack_blocks = [p \in Process |-> {}]
  /\ m_heap_address = [p \in Process |-> HeapBase]
  /\ threads = [p \in Process |-> << >>]
  /\ orphans = {}

-----------------------------------------------------------------------------
(* Building.  A handler works on a record s of what it changes: memory     *)
(* (held, cursor, tables), the directory dir, the list of blocks it        *)
(* records, the block it was given last, and whether that was ever NULL.   *)

Start(p, list) ==
  [held |-> held, cursor |-> cursor, tables |-> tables, dir |-> entries[p],
   list |-> list, block |-> NULL, null |-> FALSE]

Record(s, block) == [s EXCEPT !.list = Append(@, block)]

(* Mutant: the scan goes one block too far. *)
allocate_blocks_PastEnd(s, count) ==
  LET from == IF s.cursor > EndBlock THEN FirstBlock ELSE s.cursor
      runs == {b \in from .. EndBlock - count + 1 :
                 (b .. b + count - 1) \cap s.held = {}}
      b == Min(runs)
  IN  IF runs = {}
        THEN [s EXCEPT !.cursor = EndBlock + 1, !.block = NULL, !.null = TRUE]
        ELSE [s EXCEPT !.cursor = b + count - 1, !.block = b,
                       !.held = @ \cup (b .. b + count - 1)]

(* Mutant: curr_count is not reset at a block in use, so that the blocks   *)
(* before the last one of a run may be in use.                             *)
allocate_blocks_NoReset(s, count) ==
  LET from == IF s.cursor = EndBlock THEN FirstBlock ELSE s.cursor
      runs == {b \in FirstBlock .. EndBlock - count :
                 /\ b + count - 1 \in from .. EndBlock - 1 \ s.held
                 /\ Cardinality((from .. b + count - 1) \ s.held) = count}
      b == Min(runs)
  IN  IF runs = {}
        THEN [s EXCEPT !.cursor = EndBlock, !.block = NULL, !.null = TRUE]
        ELSE [s EXCEPT !.cursor = b + count - 1, !.block = b,
                       !.held = @ \cup (b .. b + count - 1)]

(* Next fit, see BlockAllocator. *)
allocate_blocks(s, count) ==
  LET from == IF s.cursor = EndBlock THEN FirstBlock ELSE s.cursor
      runs == {b \in from .. EndBlock - count :
                 (b .. b + count - 1) \cap s.held = {}}
      b == Min(runs)
  IN  IF runs = {}
        THEN [s EXCEPT !.cursor = EndBlock, !.block = NULL, !.null = TRUE]
        ELSE [s EXCEPT !.cursor = b + count - 1, !.block = b,
                       !.held = @ \cup (b .. b + count - 1)]

(* Mutant: the caller does not record the block of the clone. *)
map_physical_Unrecorded(s, v, block) ==
  LET frame == v \div PagesPerTable
      fresh == allocate_blocks(s, 1)
      own == IF s.dir[frame] = Template
               THEN [fresh EXCEPT !.dir[frame] = fresh.block,
                                  !.tables[fresh.block] = EmptyTable]
               ELSE s
  IN  [own EXCEPT !.tables[own.dir[frame]][v % PagesPerTable] = block]

(* Mutant: a table is cloned without looking whether there is one. *)
map_physical_AlwaysClone(s, v, block) ==
  LET frame == v \div PagesPerTable
      fresh == allocate_blocks(s, 1)
  IN  [Record(fresh, fresh.block) EXCEPT
         !.dir[frame] = fresh.block,
         !.tables[fresh.block] = [EmptyTable EXCEPT ![v % PagesPerTable] = block]]

(* A frame that is still the template's gets a table of its own, which is  *)
(* recorded unless it is NULL; then the entry is set.                      *)
map_physical(s, v, block) ==
  LET frame == v \div PagesPerTable
      fresh == allocate_blocks(s, 1)
      clone == IF fresh.block = NULL THEN fresh ELSE Record(fresh, fresh.block)
      own == IF s.dir[frame] = Template
               THEN [clone EXCEPT
                       !.dir[frame] = fresh.block,
                       !.tables[fresh.block] = EmptyTable]
               ELSE s
  IN  [own EXCEPT !.tables[own.dir[frame]][v % PagesPerTable] = block]

(* Maps count blocks from `first` on, each recorded, at pages[i]. *)
MapRun(s, first, count, pages) ==
  LET mapped[i \in 0 .. count] ==
        IF i = 0 THEN s
        ELSE map_physical(Record(mapped[i - 1], first + i - 1),
                          pages[i - 1], first + i - 1)
  IN  mapped[count]

(* Mutant: the position follows from the number of stacks. *)
FreeStack_Counted(used) == StackTop - Cardinality(used) * StackPages

(* The first stack position from the top that no thread has. *)
FreeStack(used) ==
  Max({v \in {StackTop - i * StackPages : i \in 0 .. Cardinality(used)} :
         v \notin used})

(* thread::thread *)
NewThread(s, used) ==
  LET given == allocate_blocks([s EXCEPT !.list = << >>], StackPages)
      pages == [i \in 0 .. StackPages - 1 |-> FreeStack(used) - (i + 1)]
  IN  MapRun(given, given.block, StackPages, pages)

(* process::expand_heap: one block after the other, from the page on at    *)
(* which the heap ends.                                                    *)
expand_heap(s, heap, count) ==
  LET expanded[i \in 0 .. count] ==
        IF i = 0 THEN s
        ELSE LET given == allocate_blocks(expanded[i - 1], 1)
             IN  map_physical(Record(given, given.block), heap + i - 1, given.block)
  IN  expanded[count]

(* thread::~thread and process::~process free what their lists name.  A    *)
(* table that is freed is read by nobody (Intact), its entries are dropped.*)
free_blocks(list) ==
  /\ held' = held \ Range(list)
  /\ tables' = [b \in DOMAIN tables |->
                  IF b \in Range(list) THEN EmptyTable ELSE tables[b]]
  /\ mode' = IF NULL \in Range(list) THEN "lost" ELSE mode
  /\ UNCHANGED cursor

-----------------------------------------------------------------------------
Live(p) == m_page_directory[p] # NULL

(* No directory in use names a table that is freed or at NULL.             *)
Intact ==
  \A p \in Process : Live(p) => Range(entries[p]) \ {Template} \subseteq held

Commit(s) ==
  /\ held' = s.held
  /\ cursor' = s.cursor
  /\ tables' = s.tables

(* NULL was used for a page directory, an image or the first stack. *)
NoMemory ==
  /\ mode' = "lost"
  /\ UNCHANGED <<memory, m_page_directory, entries, m_used_blocks,
                 m_stack_blocks, m_heap_address, threads, orphans>>

(* The constructor makes the processes one after the other. *)
create_process(p) ==
  LET dir == allocate_blocks(Start(p, << >>), 1)
      image == allocate_blocks(dir, ImagePages)
      pages == [i \in 0 .. ImagePages - 1 |-> ImageBase + i]
      proc == MapRun(image, image.block, ImagePages, pages)
      main == NewThread(proc, {})
  IN  /\ mode = "boot"
      /\ ~Live(p)
      /\ \A q \in Process : q < p => Live(q)
      /\ IF main.null THEN NoMemory
         ELSE /\ Commit(main)
              /\ mode' = IF p = Idle THEN "run" ELSE "boot"
              /\ m_page_directory' = [m_page_directory EXCEPT ![p] = dir.block]
              /\ entries' = [entries EXCEPT ![p] = main.dir]
              /\ m_used_blocks' = [m_used_blocks EXCEPT ![p] = proc.list]
              /\ m_stack_blocks' = [m_stack_blocks EXCEPT ![p] = {StackTop}]
              /\ threads' =
                   [threads EXCEPT ![p] =
                      [t \in {Main} |->
                         [m_stack |-> StackTop, m_used_blocks |-> main.list]]]
              /\ UNCHANGED <<m_heap_address, orphans>>

(* idle() makes no call. *)
Running(p) == mode = "run" /\ p # Idle /\ Live(p) /\ Intact

sys_thread(p, t) ==
  LET s == NewThread(Start(p, << >>), m_stack_blocks[p])
      stack == FreeStack(m_stack_blocks[p])
      new == [m_stack |-> stack, m_used_blocks |-> s.list]
  IN  /\ Running(p)
      /\ t \notin DOMAIN threads[p]
      /\ Commit(s)
      /\ entries' = [entries EXCEPT ![p] = s.dir]
      /\ m_stack_blocks' = [m_stack_blocks EXCEPT ![p] = @ \cup {stack}]
      /\ threads' =
           [threads EXCEPT ![p] =
              [u \in DOMAIN @ \cup {t} |-> IF u = t THEN new ELSE @[u]]]
      /\ UNCHANGED <<mode, m_page_directory, m_used_blocks, m_heap_address,
                     orphans>>

(* The heap is followed up to the top of the first stack; the code has no  *)
(* limit.                                                                  *)
sys_alloc(p, count) ==
  LET s == expand_heap(Start(p, m_used_blocks[p]), m_heap_address[p], count)
  IN  /\ Running(p)
      /\ m_heap_address[p] + count <= StackTop
      /\ Commit(s)
      /\ entries' = [entries EXCEPT ![p] = s.dir]
      /\ m_used_blocks' = [m_used_blocks EXCEPT ![p] = s.list]
      /\ m_heap_address' = [m_heap_address EXCEPT ![p] = @ + count]
      /\ UNCHANGED <<mode, m_page_directory, m_stack_blocks, threads, orphans>>

(* The entries of the stack stay in the page table. *)
terminate_thread(p, t) ==
  /\ Running(p)
  /\ t \in DOMAIN threads[p] \ {Main}
  /\ free_blocks(threads[p][t].m_used_blocks)
  /\ m_stack_blocks' =
       [m_stack_blocks EXCEPT ![p] = @ \ {threads[p][t].m_stack}]
  /\ threads' =
       [threads EXCEPT ![p] = [u \in DOMAIN @ \ {t} |-> @[u]]]
  /\ UNCHANGED <<m_page_directory, entries, m_used_blocks, m_heap_address,
                 orphans>>

(* The threads are not deleted. *)
terminate_process(p) ==
  /\ Running(p)
  /\ free_blocks(<<m_page_directory[p]>> \o m_used_blocks[p])
  /\ m_page_directory' = [m_page_directory EXCEPT ![p] = NULL]
  /\ entries' = [entries EXCEPT ![p] = [f \in Frame |-> Template]]
  /\ m_used_blocks' = [m_used_blocks EXCEPT ![p] = << >>]
  /\ m_stack_blocks' = [m_stack_blocks EXCEPT ![p] = {}]
  /\ m_heap_address' = [m_heap_address EXCEPT ![p] = HeapBase]
  /\ threads' = [threads EXCEPT ![p] = << >>]
  /\ orphans' = orphans \cup
       {[process |-> p, thread |-> t, m_used_blocks |-> threads[p][t].m_used_blocks] :
          t \in DOMAIN threads[p]}

Next ==
  \E p \in Process :
    \/ create_process(p)
    \/ \E t \in Workers : sys_thread(p, t) \/ terminate_thread(p, t)
    \/ \E count \in HeapRequests : sys_alloc(p, count)
    \/ terminate_process(p)

Spec == Init /\ [][Next]_vars

-----------------------------------------------------------------------------
(* Properties.                                                             *)

TypeOK ==
  /\ mode \in {"boot", "run", "lost"}
  /\ held \subseteq Block
  /\ cursor \in FirstBlock .. EndBlock
  /\ tables \in [Block \cup {NULL} ->
                  [Entry -> Block \cup LowPages \cup {NotPresent}]]
  /\ m_page_directory \in [Process -> Block \cup {NULL}]
  /\ entries \in [Process -> [Frame -> Block \cup {NULL, Template}]]
  /\ m_heap_address \in [Process -> HeapBase .. StackTop]
  /\ \A p \in Process :
       /\ m_used_blocks[p] \in Seq(Block \cup {NULL})
       /\ m_stack_blocks[p] \subseteq StackPages .. StackTop
       /\ DOMAIN threads[p] \subseteq Thread
       /\ \A t \in DOMAIN threads[p] :
            /\ threads[p][t].m_stack \in m_stack_blocks[p]
            /\ threads[p][t].m_used_blocks \in Seq(Block \cup LowPages)

(* What p's own lists name: the lists its destructor and those of its      *)
(* threads will free.                                                      *)
StackBlocks(p, t) == Range(threads[p][t].m_used_blocks)
OwnBlocks(p) ==
  {m_page_directory[p]} \cup Range(m_used_blocks[p])
    \cup UNION {StackBlocks(p, t) : t \in DOMAIN threads[p]}

(* Each list with the object it belongs to.                                *)
Lists(p) ==
  {[owner |-> <<"directory", p>>, list |-> <<m_page_directory[p]>>],
   [owner |-> <<"process", p>>, list |-> m_used_blocks[p]]}
    \cup {[owner |-> <<"thread", p, t>>, list |-> threads[p][t].m_used_blocks] :
            t \in DOMAIN threads[p]}
OrphanLists ==
  {[owner |-> <<"orphan", o.process, o.thread>>, list |-> o.m_used_blocks] :
     o \in orphans}
AllLists == (UNION {Lists(p) : p \in {q \in Process : Live(q)}}) \cup OrphanLists

(* Every block in use is named by the list of exactly one owner, exactly   *)
(* once, so that no block is freed twice, and the only blocks nobody will  *)
(* ever free are the stacks (and their tables) of threads whose process    *)
(* was deleted before them: ~process frees its own list and deletes no     *)
(* thread.  A list may also hold pages at NULL.                            *)
BlocksAreAccounted ==
  /\ held = {FirstBlock} \cup UNION {Range(x.list) \ LowPages : x \in AllLists}
  /\ \A x \in AllLists :
       /\ \A i, j \in DOMAIN x.list :
            x.list[i] = x.list[j] /\ i # j => x.list[i] = NULL
       /\ \A y \in AllLists \ {x} :
            Range(x.list) \cap Range(y.list) \subseteq LowPages

(* get_physical: the block page v of p is mapped to. *)
Mapped(p, v) ==
  LET table == entries[p][v \div PagesPerTable]
  IN  IF table = Template THEN NotPresent ELSE tables[table][v % PagesPerTable]

StackOf(stack) == (stack - StackPages) .. (stack - 1)
FirstStack == StackOf(StackTop)
HeapPages(p) == HeapBase .. m_heap_address[p] - 1
OwnPages(p) == (ImageBase .. ImageBase + ImagePages - 1) \cup HeapPages(p)

(* The heap has stayed below every stack there can be. *)
HeapIsApart(p) ==
  m_heap_address[p] <= StackTop - Cardinality(Thread) * StackPages

(* A program keeps what it was given: as long as the heap is below the     *)
(* stacks, each page of the image and of the heap is mapped to a block on  *)
(* the list of the process, each page of a thread's stack to one on the    *)
(* list of that thread, and no two pages to the same memory unless both    *)
(* were given NULL.  A table that is cloned late, or a stack position that *)
(* is used again, is where this goes wrong (map_physical, the search in    *)
(* thread::thread).                                                        *)
(*   The kernel translates the address of a string or a buffer once and    *)
(* goes on in physical memory: the blocks of the image lie in the order of *)
(* its pages, so that what a program's image holds is read right.          *)
PagesAreOwn ==
  \A p \in Process :
    Live(p) /\ HeapIsApart(p) /\ Intact =>
      LET stacks == {StackOf(threads[p][t].m_stack) : t \in DOMAIN threads[p]}
          pages == OwnPages(p) \cup UNION stacks
      IN  /\ \A v \in OwnPages(p) : Mapped(p, v) \in Range(m_used_blocks[p])
          /\ \A t \in DOMAIN threads[p] :
               \A v \in StackOf(threads[p][t].m_stack) :
                 Mapped(p, v) \in StackBlocks(p, t)
          /\ \A v, w \in pages : Mapped(p, v) = Mapped(p, w) =>
               v = w \/ Mapped(p, v) \in LowPages
          /\ \A v \in ImageBase .. ImageBase + ImagePages - 1 :
               Mapped(p, v) = Mapped(p, ImageBase) + (v - ImageBase)

(* Isolation as long as the tables are intact, and its one hole then: a    *)
(* page that is present and mapped to a block the process does not own     *)
(* (free again, or another's by now) is one of a stack whose thread has    *)
(* exited.  ~thread frees the blocks and leaves the page table as it was.  *)
(* A second hole, a table that was freed and may be used for other things, *)
(* is what Intact leaves out and TablesOutliveUse bounds.                  *)
StaleOnlyInDeadStacks ==
  \A p \in Process :
    Live(p) /\ Intact =>
      \A v \in Page :
        Mapped(p, v) \in OwnBlocks(p) \cup {NotPresent}
          \/ /\ v \in UNION {StackOf(StackTop - i * StackPages) :
                               i \in 1 .. Cardinality(Workers)}
             /\ \A t \in DOMAIN threads[p] : v \notin StackOf(threads[p][t].m_stack)

(* A page table outlives its use, except one that was cloned for the stack *)
(* of a thread other than the main one: ~thread frees it although the      *)
(* directory, and other threads or the heap, go on using it.  No table of  *)
(* the image, of the first stack or of the heap apart from stacks is lost; *)
(* only, a table for which there was no memory is at NULL.                 *)
TablesOutliveUse ==
  \A p \in Process :
    Live(p) =>
      \A f \in Frame :
        entries[p][f] \in held \cup {NULL, Template}
          \/ /\ f \in {v \div PagesPerTable :
                         v \in StackTop - Cardinality(Thread) * StackPages
                                 .. StackTop - StackPages - 1}
             /\ f \notin {v \div PagesPerTable :
                            v \in FirstStack
                                    \cup ImageBase .. ImageBase + ImagePages - 1}

=============================================================================
