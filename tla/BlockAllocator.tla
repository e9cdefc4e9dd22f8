--------------------------- MODULE BlockAllocator ---------------------------
(***************************************************************************)
(* The physical block allocator (kernel/memory.cpp, kernel/memory.h): a    *)
(* bitmap, a next-fit cursor that survives from call to call, a counter of *)
(* used blocks, and the blocks the rest of the kernel holds.               *)
(*                                                                         *)
(* Addresses are block numbers.  The bits are stored from m_data_block_addr *)
(* on, not from m_bitmap_block_addr: the bit of block b is in data block   *)
(* b \div BitsPerBlock.  Only data block 0 is reserved, so in a memory of  *)
(* more than BitsPerBlock blocks (32768 of them, 128 MB) further bits are  *)
(* in blocks that are handed out and written by their holders.             *)
(***************************************************************************)
EXTENDS Naturals, FiniteSetsExt

CONSTANTS
  BlockCount,    \* m_data_block_count
  BitsPerBlock,  \* bits in one block, 8 * BLOCK_SIZE
  Sizes,         \* the counts passed to allocate_blocks
  CounterRange,  \* 2^32: m_used_blocks is unsigned
  MaxNull,       \* bound on the NULL results callers keep and free later
  MaxHolders     \* bound on the callers that hold one block

ASSUME BlockAssumption == BlockCount \in Nat \ {0}
ASSUME BitsAssumption == BitsPerBlock \in Nat \ {0}
ASSUME SizeAssumption == Sizes \subseteq Nat
ASSUME CounterAssumption == CounterRange \in Nat /\ CounterRange > BlockCount
ASSUME NullAssumption == MaxNull \in Nat
ASSUME HolderAssumption == MaxHolders \in Nat /\ MaxHolders > 1

Block == 0 .. BlockCount - 1

VARIABLES
  bitmap,         \* is_block_used
  cursor,         \* static size_t i of allocate_blocks
  m_used_blocks,
  holders,        \* how many callers hold each block
  nulls           \* NULL results that callers took for a block

vars == <<bitmap, cursor, m_used_blocks, holders, nulls>>

TypeOK ==
  /\ bitmap \in [Block -> BOOLEAN]
  /\ cursor \in 0 .. BlockCount
  /\ m_used_blocks \in 0 .. CounterRange - 1
  /\ holders \in [Block -> 0 .. MaxHolders]
  /\ nulls \in 0 .. MaxNull

(* Mutant: block 0 is not set aside. *)
Init_NoBlockZero ==
  /\ bitmap \in [Block -> BOOLEAN]
  /\ cursor = 0
  /\ m_used_blocks = 0
  /\ holders = [b \in Block |-> 0]
  /\ nulls = 0

(* The constructor clears the area it reserved for the bitmap, not the     *)
(* place of the bits: they start as whatever the memory holds, except that *)
(* block 0 is marked used.                                                 *)
Init ==
  /\ bitmap \in {f \in [Block -> BOOLEAN] : f[0]}
  /\ cursor = 0
  /\ m_used_blocks = 0
  /\ holders = [b \in Block |-> 0]
  /\ nulls = 0

-----------------------------------------------------------------------------

Marked(used, blocks) == [b \in Block |-> used[b] \/ b \in blocks]

Run(first, count) == first .. first + count - 1

(* Mutant: the cursor is not reset. *)
Start_NoReset == cursor

(* Where a call starts to look. *)
Start == IF cursor = BlockCount THEN 0 ELSE cursor

(* Mutant: curr_count is not reset at a used block. *)
FreeRuns_NoReset(from, count) ==
  {b \in Block : /\ b >= from
                 /\ Run(b, count) \subseteq Block
                 /\ ~bitmap[b]}

(* The first blocks of the runs of free blocks from position `from` on. *)
FreeRuns(from, count) ==
  {b \in Block : /\ b >= from
                 /\ Run(b, count) \subseteq Block
                 /\ \A c \in Run(b, count) : ~bitmap[c]}

(* A run was found: the cursor stays on its last block. *)
allocate_found(count, first) ==
  /\ \A b \in Run(first, count) : holders[b] < MaxHolders
  /\ cursor' = first + count - 1
  /\ bitmap' = Marked(bitmap, Run(first, count))
  /\ m_used_blocks' = (m_used_blocks + count) % CounterRange
  /\ holders' = [b \in Block |->
                   IF b \in Run(first, count) THEN holders[b] + 1
                                              ELSE holders[b]]
  /\ UNCHANGED nulls

(* NULL.  Some callers keep it like an address, some notice. *)
allocate_null(count, end) ==
  /\ cursor' = end
  /\ nulls' \in {nulls, nulls + count} \cap 0 .. MaxNull
  /\ UNCHANGED <<bitmap, m_used_blocks, holders>>

allocate_blocks(count) ==
  LET runs == FreeRuns(Start, count)
  IN  IF count = 0      THEN allocate_null(count, Start)
      ELSE IF runs = {} THEN allocate_null(count, BlockCount)
      ELSE allocate_found(count, Min(runs))

(* Mutant: the counter is not decremented. *)
free_block_NoCount(b) ==
  /\ holders[b] > 0
  /\ bitmap' = [bitmap EXCEPT ![b] = FALSE]
  /\ holders' = [holders EXCEPT ![b] = @ - 1]
  /\ UNCHANGED <<cursor, m_used_blocks, nulls>>

(* A holder gives its block back. *)
free_block(b) ==
  /\ holders[b] > 0
  /\ m_used_blocks' = IF bitmap[b]
                        THEN (m_used_blocks + CounterRange - 1) % CounterRange
                        ELSE m_used_blocks
  /\ bitmap' = [bitmap EXCEPT ![b] = FALSE]
  /\ holders' = [holders EXCEPT ![b] = @ - 1]
  /\ UNCHANGED <<cursor, nulls>>

(* Mutant: a signed counter. *)
free_null_Signed ==
  /\ nulls > 0
  /\ nulls' = nulls - 1
  /\ m_used_blocks' = m_used_blocks - 1
  /\ UNCHANGED <<bitmap, cursor, holders>>

(* free_block(NULL): aligned, beyond the last block, hence "used". *)
free_null ==
  /\ nulls > 0
  /\ nulls' = nulls - 1
  /\ m_used_blocks' = (m_used_blocks + CounterRange - 1) % CounterRange
  /\ UNCHANGED <<bitmap, cursor, holders>>

(* A holder writes its block.  The bits stored there, if any, change. *)
BitsIn(b) == {c \in Block : c \div BitsPerBlock = b}

Write(b) ==
  /\ holders[b] > 0
  /\ BitsIn(b) # {}
  /\ \E bits \in [BitsIn(b) -> BOOLEAN] :
       bitmap' = [c \in Block |-> IF c \in BitsIn(b) THEN bits[c] ELSE bitmap[c]]
  /\ UNCHANGED <<cursor, m_used_blocks, holders, nulls>>

Next ==
  \/ \E count \in Sizes : allocate_blocks(count)
  \/ \E b \in Block : free_block(b)
  \/ free_null
  \/ \E b \in Block : Write(b)

Spec == Init /\ [][Next]_vars

-----------------------------------------------------------------------------
(* Properties. *)

(* No block whose bit is out of the holders' reach is held twice, wherever *)
(* the cursor stands, whatever the bits were at power-on and whatever      *)
(* happened to the bits stored further on; and block 0 is held by nobody.  *)
NoDoubleAllocation ==
  /\ holders[0] = 0
  /\ \A b \in Block : b < BitsPerBlock => holders[b] <= 1

Held == {b \in Block : holders[b] > 0}

(* The counter is the number of blocks held. *)
UsedCount == m_used_blocks = Cardinality(Held)

(* A NULL puts the cursor where the next call starts a new round: the same *)
(* request, repeated, fails only if it cannot be met at all.               *)
RetryIsComplete ==
  [][\A count \in Sizes \ {0} :
       allocate_blocks(count) /\ UNCHANGED holders
         => (FreeRuns(0, count) # {} => FreeRuns(Start, count) # {})']_vars

(* What callers are promised, see BlockPool. *)
Pool == INSTANCE BlockPool WITH Blocks <- Block \ {0}, held <- Held
RefinesPool == Pool!Spec

(* "Returns NULL if there is no free block available" (memory.cpp:27): a   *)
(* single block is refused only when none is free.                         *)
NullMeansNoFreeBlock ==
  [][allocate_blocks(1) /\ holders' = holders => \A b \in Block : bitmap[b]]_vars

(* "It doesn't free the block when the address is invalid. Fails           *)
(* silently." (memory.cpp:49): the used blocks are what they were.         *)
InvalidFreeIsSilent == [][free_null => UNCHANGED m_used_blocks]_vars

=============================================================================
