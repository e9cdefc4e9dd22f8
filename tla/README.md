# ZincOS in TLA+

A specification of the kernel in `src/`: what its parts do, checked by TLC on
small instances, and theorems about them for every value of the parameters,
checked by TLAPS.  Every definition is translated from the source;
`PROJECT.json` names the lines each one stands for.

## The system

ZincOS is a 32-bit x86 kernel.  It starts a fixed list of programs, gives each
a terminal, and schedules their threads round robin on one processor.

| component | state | operations |
|---|---|---|
| scheduler, process table (`kernel/kernel.cpp`, `kernel/process.cpp`) | `m_processes`, `threads` of each, `m_process_index`, `m_thread_index`, `m_userland`, process `state` | `timer_handler`, `task_switch`, `sys_exit`, `sys_thread`, `page_fault_handler`, `terminate_process`, `terminate_thread` |
| reading (`process::flush_input_buffer`, `terminal::keyboard_event`) | terminal's line, `m_input_buffer`, `m_sys_read_buffer`, `m_sys_read_count` | `sys_read`, keys, Enter |
| terminals (`kernel/terminal.cpp`, `drivers/vga.cpp`) | `m_text`, cursor, `m_active`, the screen, `m_active_terminal`, `active_terminal_process_index` | `write`, `backspace`, `set_active`, Shift+Tab |
| block allocator (`kernel/memory.*`) | bitmap, next-fit cursor, `m_used_blocks` | `allocate_blocks`, `free_block` |
| kernel heap (`kernel/heap.*`) | boundary tags in the heap's own words | `allocate`, `free` |
| paging (`kernel/paging.*`, `process.cpp`) | page directories, cloned page tables, blocks recorded per process and thread | `map_physical`, `expand_heap`, constructors and destructors |
| interrupts (`cpu/*`) | IDT, PIC, saved registers, kernel stack | stubs, `irq_handler`, `syscall_handler`, `enter_usermode` |
| boot (`kernel::kernel`, `get_best_region`, `memory::memory`) | memory map, first blocks, everything else half built | the constructor |
| keyboard driver (`drivers/keyboard.*`) | `shift`, `alt`, `ctrl` | `keyboard_handler`, `is_up`, `to_char` |
| containers and strings (`libcpp/*`) | nodes, arrays with capacity and length | `add`, `remove`, `find`, `operator+=`, `pop_char`, `peek_char` |
| utilities, disk, vfs stub, boot loader, user programs | see "components" in `PROJECT.json` | |

How they interact: a user program enters the kernel by `int 123`, by a fault or
by being interrupted by timer or keyboard.  All gates are interrupt gates, so a
handler runs with interrupts disabled; it loads the identity page directory,
works on the shared tables by direct calls, and either returns through the stub
or never returns and enters some thread by `enter_usermode`.  There is no lock
and no second processor.  The heap and the block allocator are called from
inside handlers and from the constructor.

What is hard here:

* The running thread is not recorded.  It is what two indices into two nested
  lists name, and terminations shift both lists under the indices.
* Blocking and reading are per process while scheduling is per thread.
* The focus is a third index into the same list, and terminals outlive their
  processes.
* All-blocked is an endless loop with interrupts disabled, avoided only by the
  idle process.
* The allocators keep their data in the memory they manage: bits in block 0 (and
  in later, allocatable blocks when memory is large), tags between the heap's
  blocks, stale tags inside free ones.
* Interrupts are enabled before the processes exist, and Shift+Tab uses the list
  and the focus while the constructor is making them.
* Boundaries: cursor at the end of memory, rest of a split block, last row, first
  column, capacity of an array, a region at the end of the address space.

"hazards" in `PROJECT.json` lists each at its line with the properties that
cover it.

## Modules

| module | models | role |
|---|---|---|
| `Kernel` | scheduler, exits, faults, forks, reads, keyboard, focus | core specification and its properties |
| `KernelProofs` | | theorems about `Kernel` |
| `BlockAllocator` | `memory.cpp`, `memory.h` | detailed specification |
| `BlockPool` | what its callers rely on | abstract specification, implemented by `BlockAllocator` |
| `BlockAllocatorProofs` | | theorems about `BlockAllocator`, refinement included |
| `KernelHeap` | `heap.cpp` word by word | detailed specification |
| `HeapRegions` | what `new` and `delete` promise | abstract specification, implemented by `KernelHeap` |
| `KernelHeapProofs` | | theorems about `KernelHeap`, refinement included |
| `Terminal` | `terminal.cpp` and the shared screen | specification and its properties |
| `Containers` | `linked_list`, `array_list`, `string` slot by slot, and the way of the characters through them | detailed specification |
| `List` | what a list keeps | abstract specification, implemented by both lists of `Containers` |
| `InputStream` | what a program is promised of its input | abstract specification, implemented by `Containers` |
| `ContainersProofs` | | theorems about `Containers`, both refinements included |
| `TerminalProofs` | | theorems about `Terminal` |
| `Keyboard` | the keyboard, scan codes, modifiers | the part of `Boot` that is the driver |
| `Boot` | the constructor from the memory map to the first tick, with `Keyboard` | specification; its last state is the first of `Kernel` |
| `BootProofs` | | theorems about the modifiers, the focus, the handover and the memory of `Boot` |
| `Interrupts` | gates, stubs, interrupt controllers, saved registers, the kernel stack, `enter_usermode` | detailed specification |
| `VirtualCpus` | a processor of its own for each thread | abstract specification, implemented by `Interrupts` |
| `InterruptsProofs` | | theorems about `Interrupts`, refinement included |
| `AddressSpace` | `paging.cpp`, constructors and destructors of `process` and `thread`, `expand_heap` | specification and its properties |
| `AddressSpaceProofs` | | theorems about `AddressSpace` |
| `MC*` | | instances for TLC |

### Kernel

One action per handler.  `cpu` is the thread that executes between handlers,
`cr3` the page directory it runs under, `mode` tells whether the kernel still
runs: `"panic"` and `"hang"` are `task_switch` without a process and without an
unblocked one, `"wild"` is a step that followed an index past the list or a
pointer to a deleted object, after which nothing is modelled.

`task_switch` is the code's two nested decisions: the next thread of the same
process, blocked or not, or the main thread of the next process that is not
blocked.  The do-while loop is the smallest `k` in `Ready`, the iterations that
would end it; no such `k` is the endless loop.  `terminate_process` and
`terminate_thread` remove from the sequences exactly at the indices, which are
not adjusted, and the `task_switch` that follows increments them, as in the
code.

Characters are counted: `line` and `m_input_buffer` are the lengths of the two
buffers.  `unfilled` remembers which threads issued a read whose buffer still
lacks data, which lets `ReadReturnsFilled` say what a program sees.  `Readers`
are the threads that may call `getch`: with `Readers = {Main}` the programs are
those of `user/`, where only main threads read.

Not in this module: text output (`Terminal`), page tables and blocks
(`AddressSpace`), saved registers (`Interrupts`).

### BlockAllocator and BlockPool

Block numbers instead of addresses.  `holders` counts the callers that hold each
block, so that a double allocation is visible; `nulls` counts NULL results a
caller took for a block and will free.  `Write` is a holder using its block: if
bits are stored there they become anything.  `BitsPerBlock < BlockCount` is a
memory of more than 128 MB.  `Init` allows every content of the bits except that
block 0 is marked.

### KernelHeap and HeapRegions

Memory is an array of words; headers take three words, footers two, as in the
code where they take 12 and 8 bytes.  The loops over the tags are walks: `Walk`
is where a loop is after each round if its body is `step` and it stays where it
would stop.  No walk over blocks is longer than the heap has words, so the place
after `HeapSize` rounds is where the loop ends (`Fit`, `LeftMost`, `RightMost`).
`allocate` and `free` store the same fields in the same places.  Freed payloads and absorbed tags stay
in memory until they are overwritten, `Write` overwrites a payload.

### Terminal

`m_text` and the screen are arrays addressed by `y * 80 + x` as in the code.
Output is character by character: the loop of `write` keeps nothing between two
characters, so a string is several steps and the model allows more
interleavings than the code has.  A store outside `m_text` is recorded in
`outside` and is the last step of the model, because it destroys what the module
does not know; only backspace can make one.  `overlong` remembers the terminals
whose line has been longer than the rows that never scroll away (`Room`); it is
history that no action reads.  `Background` are the processes with other
threads that print while the main thread reads.  Processes do not end in this
module (`Kernel` covers the focus after an exit).

### Containers, List and InputStream

The memory of the containers: nodes with their links, arrays with what was
written through `m_data`, one slot after another.  A store past the end makes the
array longer than its capacity, which `MemoryIsSound` notices.  The other modules
use sequences for the same lists and counts or sequences for the same strings;
`RefinesLists` and `RefinesStream` are why they may.  `RefinesLists` has two parts:
each list only takes steps of `List`, and each call takes the one it stands for
(`CallsAreKept`): `remove` the element at its index, or none past the end, and
`remove(find(v))` the value `v`, or none when `find` has returned -1.

`line` and `m_input_buffer` are the strings of one terminal and its process.
`KeyEnter` is the whole way of a line: the loop of `keyboard_event` that moves it,
the newline, the loop of `flush_input_buffer` that fills the reader's buffer.
`InputStream` sees one sequence, the text that was typed and not yet received.

Left out are operations nothing calls (`clear`, the assignments and copies of
`string`, the constructor of `array_list` with a size), destructors, and failing
allocations (`KernelHeap` says when those fail).

### Keyboard and Boot

`Keyboard` has the keyboard with the keys that are held, the bytes on their way,
and the three flags of the driver.  Keys added to the first keyboards send the
prefix 0xE0 before the code of another key.  Each byte is an interrupt of its own.
Some of these keys, PrintScreen and for one state of Num Lock the cursor keys, come
with feigned shift codes (`Feigning`, `Feint`): `E0 2A` or `E0 AA` says that shift is
down or up although nobody has moved it, and the opposite follows when the key is
released.  The driver takes such a code for the shift key, so `feigned` remembers
whether the keyboard's last word on shift was such a press.

`Boot` starts with a memory map.  `initialise` is the list of member initialisers:
`get_best_region`, the ends rounded to blocks, the bits with whatever they held at
power-on, the heap.  `prepare_paging` are the four allocations and their test.
From the `sti` on each step is a statement, or a part of one that stores what
Shift+Tab reads: the node that is linked, then filled, then counted; the terminal
that is looked up, then assigned, then looked up again, then activated.
`SwitchTerminal` may come between any two; following a pointer that is not there
yet makes `mode` `"wild"`.  `Junk` is what a new node holds.

The last state, at `kmain`, is the first of `Kernel`: `BootsIntoKernel` states
`K!Init` through a mapping of the variables.  Messages on the kernel's terminal,
the contents of the page tables and the descriptor tables are left out.

### Interrupts and VirtualCpus

One processor, its stack and the two interrupt controllers, step by step: what
the processor pushes at a gate, what the stub pushes below, what the C handler
reads at the offsets of `registers_t`, what the stub pops and `iret` takes.  A
register value is a word that says whose it is, which register and which version:
`Compute` changes the version (0 or 1) of all of them.  A word that ends up in another register or in
another thread is therefore visible, and `VirtualCpus` says what a program
expects: its registers change only by its own instructions and, at a call, as the
call says.  `task_switch` chooses any thread (`Kernel` says which).

Two consequences of the code are part of the model.  The result of a system call
is assigned to a copy of the registers (`p_registers.eax = ret` on a parameter,
without optimisation), so the caller's `eax` comes back unchanged.  And a handler
that enters a thread abandons the frame on the kernel stack, which the next entry
from user mode starts again at `esp0`.

`init_timer` is four steps: the handler is registered, then the PIT gets its
command and the two bytes of its count (`pit`).  Interrupts are enabled and the PIT
already counts at the rate the BIOS left, so a tick may come between any two of
them; it enters a program and the constructor never comes back.  Before the command
the timer then goes on at the old rate; after it the PIT waits for a count that
never comes, and only a tick that was already on its way is sure.

The model starts at the constructor's `sti`.  The processor, the controllers, the
keyboard and the disk that raises its line are external.  Not modelled:
non-maskable interrupts, the exceptions of later processors with an error code
(17, 21, 29, 30), and a key pressed before the controllers are programmed.

### AddressSpace

Addresses are page numbers.  A process has a directory, whose entries are the
template's until `map_physical` clones a table, and its objects remember the
blocks they will free.  Each handler is one step: the helpers pass a record of
what the handler has changed so far through the same sequence of allocations and
mappings as the code, failures included.  `allocate_blocks` is the next fit of
`memory.cpp` on a memory whose bits are safe (`BlockAllocator` tells when).

`NULL` is a page like others here, because the code uses it like one.  The model
goes on when a heap page or a stack is at address 0; it stops (`mode = "lost"`, or
`Intact` false) when it would have to say what a program writes into a page table,
when `free_block(NULL)` clears a bit somewhere, and when the machine has not
enough memory to start.  Programs are assumed not to write through pages of
stacks whose thread has exited, which `StaleOnlyInDeadStacks` names as the only
ones that lead out of the process while no table is lost.  `BlocksAreAccounted` counts
lists by their owners, so two owners with equal lists would be noticed: thread
objects left over keep the name of their process and thread.  The translation cache is not modelled: every
handler ends by loading the directory.

## Runs

| run | question | bounds and why they suffice |
|---|---|---|
| `KernelAnyReader` | do the indices always name the running thread, and does the scheduler never stop, whatever programs do | 2 user processes and idle, 2 worker names each, reads of 1 or 2 characters, lines of at most 1. Three processes give a predecessor, a successor and the wrap; three threads a middle one to remove |
| `KernelPrograms` | do the shipped kind of programs read correctly, is the focus consistent, is anyone starved | 2 user processes and idle, 2 workers, reads of 1 or 2 characters, lines of at most 2; no symmetry, since it checks liveness |
| `BlockAllocator` | is the allocator an exact pool when all bits are safe | 7 blocks, requests of 0 to 3, every initial bitmap: runs before, across and after the cursor |
| `BlockOverlap` | what remains when bits lie in allocatable blocks and NULL is freed | 5 blocks with 2 bits each, so two blocks hold bits of others; counter modulo 8 so that it wraps; at most 2 holders per block and 2 NULLs |
| `BlockNull` | finding | 4 blocks |
| `BlockInvalidFree` | finding | 4 blocks |
| `KernelHeap` | are the tags always consistent and is new/delete an allocator of disjoint regions | 26 words, up to 4 blocks, sizes 0, 1 and 6: exact fit, fit without and with a split, coalescing left, right, on both sides and of several free neighbours; one overwritten payload |
| `Interrupts` | do handlers ever nest, does every line keep working, do threads keep their registers, is the timer always served | 2 threads and idle; the keyboard is on the master and device 14 on the slave controller; faults with and without an error code; one interrupt of each kind pending at a time, two versions of each register; a tick between any two statements of `init_timer` |
| `AddressSpace` | does each page lead to an own block and is each block freed once | 2 user processes and idle, 2 workers each, stacks of 2 pages, tables of 4; the third stack is in another table than the first two, and the heap grows into that table and on into the stacks; images of 2 pages; 24 blocks, 2 more than the processes need to start, so that memory is used again, in fragments, and NULL occurs |
| `Terminal` | does the screen show the active terminal, and is what is before the cursor what Enter delivers | 2 terminals of 3 rows of 2 columns, 2 interchangeable characters, lines of at most 4, twice what stays on the screen: wrapping, scrolling, erasing across rows and past the first cell; the second process has threads that print meanwhile |
| `Containers` | do the containers keep their memory and their order, do characters arrive as typed | 4 elements and 4 nodes, so that a middle one goes and an array doubles twice; 2 characters, lines of at most 3 cut into reads of 1 to 3, so that a rest stays behind and a read spans lines. Lists and input share nothing, so one of the three is exercised at a time (`OneAtATime`) |
| `Boot` | does the kernel start on usable memory with its structures apart, what does Shift+Tab do meanwhile, is a modifier ever on that has no key down and is not feigned | words of 9 bits, blocks of 8 bytes, a bitmap block for 32 blocks; ten maps: empty, without a region, enough, not aligned, enough but for the heap, too small with an entry at the end of the address space, the largest entry reserved, one block, none, one inside the last block of the address space; three processes. Keys are pressed on two machines with enough memory (`KeysWhereItStarts`): all along the constructor both shift keys, Tab and a letter, two bytes on the way; in user mode both shift keys, the letter, the second ctrl key and PrintScreen, the one with feigned shifts, and four bytes on the way, so that a feint and its end, or two keys, are unread at the same time |

Deadlock is not checked in the `Kernel` runs, because `"wild"` is final, in the
`Boot` run, where `"panic"` and the early return are too, in the `AddressSpace` run, because `"lost"` is and all programs may exit, in the `Terminal` run, because the
model stops after a store outside the text, and in the
`BlockAllocator` runs, where no request may be possible once the bound on holders
is reached.

What the runs show:

* The indices survive every order of exits, faults, forks and reads.  This is not
  obvious: after `terminate_process` the thread index belongs to another process,
  and the scheduler may enter that process at a worker, also of a blocked
  process.  A thread or process may be skipped once, but nobody is starved.
* Blocking is sound for main threads.  With threads of one process reading
  concurrently a read can be replaced and return unfilled; this is the reason for
  `Readers = {Main}` in `KernelPrograms`.
* After an exit the focus index is stale: two terminals may draw, or the list is
  left.  `FocusUntilExit` says exactly what holds until then, and that the
  terminal with the keys is always displayed.
* Beyond 128 MB the allocator hands out blocks twice; what remains is the
  guarantee for blocks whose bits are in block 0.
* The heap's tags are consistent after any sequence of calls and no
  fragmentation is left behind.
* At most one handler is on the kernel stack, although the stub enables
  interrupts before `iret`; no order of acknowledgements leaves a line blocked; and
  each thread continues with the registers it had.
* Blocks are freed at most once in every order of forks, exits and allocations.
  What the code loses or leaves behind is bounded by the properties: stacks of
  threads that outlive their process are never freed; entries of exited stacks stay
  present and may come to lead into another process; a table first needed by a
  worker's stack is freed with the worker, even if others use it.  The last needs
  more than 512 threads in a process, or a heap that reaches the stacks.
* Freed memory in front of the cursor is not used until a request has failed, and
  no caller looks at the failure, so reuse begins with something mapped to
  address 0.
* The pages of an image lie in order in physical memory, so that the kernel may
  translate the address of a string once.  Those of a stack lie in the opposite
  order: a buffer or a string across two stack pages is not where the kernel looks.
* Echo, editing, wrapping and scrolling agree as long as a line has not been longer
  than the 23 rows that stay on the screen.  Beyond, the start of the line scrolls
  away, erasing goes past the first cell and stores before the text: the run reaches
  that state.  `CursorIsSound` says that nothing else stores outside.  The screen scrolls when the cursor reaches row 24, so nothing is ever
  written to the last of the 25 rows (`CursorIsSound`).
* The lists of the kernel are lists, and a program reads what was typed, in order
  and once.
* The constructor survives Shift+Tab once the first process is counted.  Before, an
  empty list is followed to address 0.  Afterwards two terminals may be active until
  the next switches, because the steps that set the focus are not atomic.
* The memory handed out is usable if the region chosen ends below 4 GB and has a
  whole block; otherwise the count of blocks wraps around, or the first address
  does and the allocator manages all of the address space.  The heap may be at
  address 0 in a kernel that goes on, when memory is enough for all but the heap.
* A modifier follows its keys, through two keys for one variable, ignored prefixes
  and late reads.  The one thing the driver is told wrong it believes: between a
  feigned press of shift and its release letters are shifted although no shift key
  is down (`ModifiersFollowKeys` allows exactly that).
* The first tick finds everything it needs wherever in `init_timer` it comes, but the
  timer may be left without a count (see Fairness).
* The two findings: `allocate_blocks` refuses a block although one is free, and
  freeing an invalid address changes the counter.

## Fairness

`Kernel` assumes weak fairness of `timer_handler` and nothing else.  The PIT is
programmed in periodic mode (`cpu/timer.cpp`), `irq_handler` acknowledges the
interrupt before it calls the handler, and every thread runs with IF set
(`flags = 0x200`, `process.cpp:73`; user mode cannot clear it).  So a tick comes
while `mode = "run"`: this is `TimerPreempts` of `Interrupts`.  It has one
exception, which the code leaves open and `NobodyStarves` therefore assumes away: a
tick between the statements of `init_timer` that send the command and the count
(`timer.cpp:16-18`) enters a program with the PIT still waiting.  Programs and the user at the keyboard owe nothing: they may
loop, exit, fault or stay silent for ever.

`Interrupts` assumes that the processor goes on (`Cpu`), that the timer keeps
ticking (`Tick`) as long as the PIT counts, and that a keyboard interrupt the processor could accept again
and again is accepted once (strong fairness of `Interrupt(1)`: requests stay
latched and are taken between two instructions).  The timer has the higher
priority, so `KeysAreRead` has the premise that ticks are not always there first.
Programs and other devices owe nothing.

## Proofs

All theorems hold for every value of the constants that satisfies the named
assumptions of the module.

`KernelProofs`.  The conjunction `IInv` is inductive: `TypeOK`, the list of
processes contains exactly the live ones without repetition, idle is in it and
never blocked, every live process has its main thread first in a duplicate-free
list, a process is blocked exactly while its read misses characters, `cpu` is
what the indices name once user mode has been entered.  Idle is the reason why
`Ready` is never empty, and the lists' shape is the reason why removing at an
index leaves the next thread under it.  `task_switch` is proved once and used by
the four handlers that end with it.  From `IInv` follow `TypeCorrect`,
`IndicesNameTheThread`, `SchedulerKeepsRunning`, `MainStaysFirst` and
`BlockedMeansReading`, with no assumption on who reads.
For programs whose main threads alone read at least one character at a time
(`MainReads`) two more invariants are inductive relative to `IInv`: the pending
buffer belongs to the main thread (`ReadsAreFilled`, `OnlyEnterWakes`,
`LinesBelongToReads`), and the
focus index names the displayed terminal until an exit (`FocusIsConsistent`).

`BlockAllocatorProofs`.  `IInv` adds to `NoDoubleAllocation` that a held block
whose bit is in block 0 is marked; block 0 has no holder, hence nobody writes
these bits (`FirstBits`).  For `BlockCount <= BitsPerBlock` every step maps to a
step of `BlockPool` or to none (`ImplementsPool`), and the counter is the number
of held blocks (`CounterIsExact`, with the library's theorems on cardinality).
`FailuresStartOver` holds for every memory: a call after which the holders are the
same has failed and left the cursor at the end.

`TerminalProofs`.  For any number of terminals of any size and lines of any length:
the screen shows the active terminal, every cell from a cursor on is blank, nothing
but backspace in a line that has been too long stores outside the text, and the
characters before the cursor are the line unless it has been too long.  The last two
need to know that the line is still on the screen when a row is lost at the top,
hence the invariant `LineIsOnScreen`: a line that is not in `overlong` has at most
`Room = (Rows - 2) * Cols` characters and as many cells before the cursor.  80 columns
and 25 rows leave 1840 characters.  No assumption bounds the lines: `MaxLine`, the
bound of the run, is any number.

`BootProofs` follows the constructor: what is in the list at each statement, and
that Shift+Tab keeps the index inside the counted part (`FocusIsReady`); without
Shift+Tab nothing but the constructor stores the focus (`HandsOverToKernel`).
`ModifiersAlwaysFollowKeys` rests on `WireInv`: for each byte on the way, the flags
that the driver will have when it reads the byte are among the modifiers that had a
key down, or were feigned, when the byte was sent.  It holds for every set of keys
with feigned shifts.

`MemoryIsUsable` is the arithmetic of rounding both ends
inwards in 32 bits, for any word and block size: it found the third of the
exceptions in `BlocksAreUsable`, an entry inside the last block of the address
space, where the rounded start is 0.  `StructuresHaveOwnBlocks` takes one lemma on
`allocate_blocks` through the five requests, with the invariant that what has
been placed is marked (`Placed`) and what was in the way of the heap stays in its
way (`Missed`).

`KernelHeapProofs`.  `IInv` says that there is a set of headers whose blocks lie
side by side from the first word to the last, each with its footer leading back
to it (`Tiles`), that the used ones are the regions of the owners one to one
(`Owned`), and that no two free ones are neighbours (`Coalesced`).  `TypeOK` alone
would not notice a store past the heap, which `EXCEPT` leaves out; that every tag
is in its place does.  The set is
existentially quantified because what memory holds elsewhere may look like tags:
freed payloads, absorbed headers, data.  Every walk stays in the set.  That it
ends within `HeapSize` rounds is by the least round at which it has not moved on,
so the theorem on well-founded relations replaces an induction (`WalkEquation`).
Each step of `new` and `delete` is then a replacement of one block by two or of up
to three by one, and maps to a step of `HeapRegions` (`ImplementsRegions`).

`InterruptsProofs`.  `IInv` enumerates the four layouts the kernel stack can have
(in a program, in a handler, before `iret`, in the constructor), says that the
state of every thread, saved or live, is one that `iret` can enter, and that after
the acknowledgement nothing is in service.  That a handler entered over an
abandoned frame finds the same offsets is why the layouts start at `esp0`.  The
layout of the constructor covers each statement of `init_timer`.  From it follow
`KernelIsAlwaysLeftClean` and, step by step, `ImplementsVirtualCpus`:
every step of a stub or a handler is a step of the thread's own processor or
none.  While the kernel runs, `VirtualCpus` sees `"nobody"`, which must not be the
name of a thread (`NameAssumption`).

`AddressSpaceProofs`.  `IInv` has four parts besides the types.  `Shape`: a
process that is there has its main thread, with the topmost stack, and each
further thread has one of the `Cardinality(Workers)` places below, no two the
same; hence the search in `thread::thread` always finds a place above the heap's
start.  `Books`: the used blocks are those of the template, of the lists of the
processes and of the threads left over, and no two owners name the same block.
`Tables`: a table a directory names is on the list of the process or its main
thread, or belongs to a frame of a further stack; and while the directories are
`Intact` no table is named twice.  `Pages`: where each page of a process leads.
The helpers are described once, field by field (`Given`, `MapStep`, then
`MapRunGives`, `ExpandGives`, `NewThreadGives` over any number of pages), failures
included: a page at NULL is mapped like any other, and the clause on `LowPages`
is what remains of it.  One lemma for each action then shows what it keeps.
That the heap ends below the stacks is the guard of `sys_alloc` in the model, a bound
the code lacks, and not among the results.
Assumed are a finite set of names for threads (`ThreadAssumption`), room for
their stacks above the heap's start (`LayoutAssumption`: the image is at 8 MB, the
heap starts at 512 MB and the stacks are below 1 GB), and that the marks in entries
are no addresses (`EntryAssumption`, the flags of the entries).

`ContainersProofs`.  `IInv` is what is left after every operation: each string
ends within its array and has a text of letters (`Sound`), the array has a slot
for the next element, and there is a sequence of nodes, all different and all
there are, that the links follow from the first to `NULL` (`Chain`).  That
sequence says where the walks of `operator[]`, `add` and `remove` go: adding
extends it, removing takes one node out of it, and with it one element
(`LinkedAddStep`, `LinkedRemoveStep`).  `array_list` and `string` store through
`Stored`, described slot by slot (`StoredGives`); doubling leaves the old slots
where they were, and `pop_char` takes the source and the end of its copy from one
string.  The loops that move characters have recursive functions as their models.
Such a function must be shown to exist before anything can be said of it, so what
a loop has done after `i` rounds is proved by the least `i` at which it would be
wrong: the text received and the text left make up the text there was
(`MovedGives`, `FlushGives`).  From that every handler maps to a step of
`InputStream` (`ImplementsInputStream`), and each call on a list to the call
of `List` with the same index or value (`ImplementsLists`).  Assumed are the modulus of `find`'s -1 (`SizeAssumption`),
that `NULL` is no node (`NodeAssumption`), and that reads and lines have sizes
that are natural numbers, 0 included (`ReadAssumption`).

Only model-checked: liveness (`NobodyStarves`, `TimerPreempts`, `KeysAreRead`),
which is outside what TLAPS proves here.  Every other property of the passing runs
is a theorem.  The two findings are counterexamples and need no proof.

## Plan

1. Done: `Kernel`, `BlockAllocator`, `KernelHeap`, `Terminal`, `Interrupts`,
   `AddressSpace`, `Containers`, `Keyboard`, `Boot`.
2. The dispatcher that `Kernel` implements ("one thread runs until a handler gives
   way"), which is what `Interrupts` leaves open in `task_switch`.
3. The allocations of `AddressSpace` as steps of `BlockPool`.
4. Proofs: done for the invariants, action properties and refinements of all
   modules; what 2 and 3 add is to be proved with them.

## Not modelled

The boot loader and the disk driver are straight-line code on hardware; the file
system is an unused stub; ports and types are single instructions.  Of the
utilities, `int_to_ascii` with `reverse` and `strlen` only formats messages that
nothing reads back (counts from 2^31 on print as negative numbers).  Of the
containers, what nothing calls.  User programs are any sequence of system calls.
