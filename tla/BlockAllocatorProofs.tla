------------------------ MODULE BlockAllocatorProofs ------------------------
(***************************************************************************)
(* Theorems about BlockAllocator for every number of blocks, every size of *)
(* a request and every content of the memory at power-on.                  *)
(***************************************************************************)
EXTENDS BlockAllocator, SequencesExt, SequenceTheorems, FiniteSetTheorems,
        WellFoundedInduction, TLAPS

-----------------------------------------------------------------------------
(* The least of a set. *)

(* A set of naturals that is not empty has a least element, and Min is it. *)
LEMMA MinOfNat ==
  ASSUME NEW S, S \subseteq Nat, S # {}
  PROVE  Min(S) \in S /\ \A y \in S : Min(S) <= y
<1>1. PICK x \in S : \A y \in S : ~ (<<y, x>> \in OpToRel(<, Nat))
  BY WFMin, NatLessThanWellFounded
<1>2. \A y \in S : x <= y
  <2> SUFFICES ASSUME NEW y \in S PROVE x <= y
    OBVIOUS
  <2>1. <<y, x>> \notin OpToRel(<, Nat)
    BY <1>1
  <2>2. ~ (y < x)
    BY <2>1 DEF OpToRel
  <2> QED BY <2>2
<1> QED BY <1>2 DEF Min

-----------------------------------------------------------------------------
(* The inductive invariant. *)

(* A block whose bit nobody can overwrite is marked while it is held, and  *)
(* held once.                                                              *)
HeldIsMarked ==
  \A b \in Block : b < BitsPerBlock /\ holders[b] > 0 => bitmap[b]

IInv ==
  /\ TypeOK
  /\ bitmap[0]
  /\ NoDoubleAllocation
  /\ HeldIsMarked

-----------------------------------------------------------------------------
(* Arithmetic. *)

(* What is reduced modulo the range of the counter is in its range. *)
LEMMA ModInRange ==
  ASSUME NEW n \in Nat
  PROVE  n % CounterRange \in 0 .. CounterRange - 1
BY CounterAssumption, BlockAssumption

(* The bits of the blocks below BitsPerBlock are in block 0. *)
LEMMA FirstBits ==
  ASSUME NEW b \in Block, b # 0, NEW c \in BitsIn(b)
  PROVE  ~ (c < BitsPerBlock)
<1>1. c \in Nat /\ b \in Nat /\ c \div BitsPerBlock = b
  BY BlockAssumption DEF BitsIn, Block
<1>2. c < BitsPerBlock => c \div BitsPerBlock = 0
  BY <1>1, BitsAssumption
<1> QED BY <1>1, <1>2

-----------------------------------------------------------------------------

(* The constructor establishes the invariant for any content of memory. *)
LEMMA InitInvariant == Init => IInv
BY BlockAssumption, CounterAssumption, NullAssumption, HolderAssumption
   DEF Init, IInv, TypeOK, NoDoubleAllocation, HeldIsMarked, Block

(* What a successful call does: the run is not empty, lies inside the      *)
(* memory, without block 0, and none of its blocks was marked.             *)
LEMMA FoundRun ==
  ASSUME IInv, NEW count \in Nat \ {0}, FreeRuns(Start, count) # {}
  PROVE  LET first == Min(FreeRuns(Start, count))
         IN  /\ first \in Block
             /\ Run(first, count) \subseteq Block \ {0}
             /\ \A c \in Run(first, count) : ~bitmap[c]
<1>1. FreeRuns(Start, count) \subseteq Nat
  BY BlockAssumption DEF FreeRuns, Block
<1>2. Min(FreeRuns(Start, count)) \in FreeRuns(Start, count)
  BY <1>1, MinOfNat
<1> QED BY <1>2 DEF FreeRuns, IInv

(* A successful call keeps it. *)
LEMMA FoundStep ==
  ASSUME IInv, NEW count \in Nat \ {0}, NEW first \in Block,
         Run(first, count) \subseteq Block \ {0},
         \A c \in Run(first, count) : ~bitmap[c],
         allocate_found(count, first)
  PROVE  IInv'
<1>1. TypeOK /\ first \in Nat
  BY BlockAssumption DEF IInv, Block
<1>2. /\ \A b \in Run(first, count) : holders[b] < MaxHolders
      /\ cursor' = first + count - 1
      /\ bitmap' = Marked(bitmap, Run(first, count))
      /\ m_used_blocks' = (m_used_blocks + count) % CounterRange
      /\ holders' = [b \in Block |-> IF b \in Run(first, count)
                                       THEN holders[b] + 1 ELSE holders[b]]
      /\ nulls' = nulls
  BY DEF allocate_found
<1>3. cursor' \in 0 .. BlockCount
  <2>1. first + count - 1 \in Run(first, count)
    BY <1>1 DEF Run
  <2> QED BY <1>2, <2>1, BlockAssumption DEF Block
<1>4. m_used_blocks' \in 0 .. CounterRange - 1
  BY <1>1, <1>2, ModInRange, CounterAssumption DEF TypeOK
<1>5. bitmap' \in [Block -> BOOLEAN]
  BY <1>1, <1>2 DEF TypeOK, Marked
<1>6. holders' \in [Block -> 0 .. MaxHolders]
  BY <1>1, <1>2, HolderAssumption DEF TypeOK
<1>7. \A b \in Block : bitmap[b] => bitmap'[b]
  BY <1>2 DEF Marked
<1>8. \A b \in Run(first, count) : bitmap'[b]
  BY <1>2 DEF Marked
<1>9. 0 \in Block
  BY BlockAssumption DEF Block
<1>10. holders'[0] = 0
  BY <1>2, <1>9 DEF IInv, NoDoubleAllocation
<1>11. ASSUME NEW b \in Block, b < BitsPerBlock
       PROVE  holders'[b] <= 1 /\ (holders'[b] > 0 => bitmap'[b])
  <2>1. CASE b \in Run(first, count)
    <3>1. holders[b] \in 0 .. MaxHolders
      BY <1>1 DEF TypeOK
    <3>2. ~ (holders[b] > 0)
      BY <1>11, <2>1 DEF IInv, HeldIsMarked
    <3> QED BY <1>2, <1>8, <2>1, <3>1, <3>2, HolderAssumption
  <2>2. CASE b \notin Run(first, count)
    BY <1>2, <1>7, <1>11, <2>2 DEF IInv, NoDoubleAllocation, HeldIsMarked
  <2> QED BY <2>1, <2>2
<1>12. bitmap'[0]
  BY <1>7, <1>9 DEF IInv
<1> QED
  BY <1>1, <1>2, <1>3, <1>4, <1>5, <1>6, <1>10, <1>11, <1>12
     DEF IInv, TypeOK, NoDoubleAllocation, HeldIsMarked

(* So does any call of allocate_blocks. *)
LEMMA AllocateStep ==
  ASSUME IInv, NEW count \in Sizes, allocate_blocks(count)
  PROVE  IInv'
<1>1. count \in Nat
  BY SizeAssumption
<1>2. ASSUME NEW end \in 0 .. BlockCount, allocate_null(count, end)
      PROVE  IInv'
  BY <1>2 DEF allocate_null, IInv, TypeOK, NoDoubleAllocation, HeldIsMarked
<1>3. Start \in 0 .. BlockCount /\ BlockCount \in 0 .. BlockCount
  BY BlockAssumption DEF Start, IInv, TypeOK
<1>4. CASE count # 0 /\ FreeRuns(Start, count) # {}
  BY <1>1, <1>4, FoundRun, FoundStep DEF allocate_blocks
<1> QED BY <1>2, <1>3, <1>4 DEF allocate_blocks

(* And any release of a block by its holder. *)
LEMMA FreeStep ==
  ASSUME IInv, NEW b \in Block, free_block(b)
  PROVE  IInv'
<1>1. TypeOK /\ b # 0
  BY DEF IInv, NoDoubleAllocation, free_block
<1>2. /\ holders[b] > 0
      /\ bitmap' = [bitmap EXCEPT ![b] = FALSE]
      /\ holders' = [holders EXCEPT ![b] = holders[b] - 1]
      /\ UNCHANGED <<cursor, nulls>>
  BY DEF free_block
<1>3. m_used_blocks' \in 0 .. CounterRange - 1
  <2>1. m_used_blocks + CounterRange - 1 \in Nat
    BY <1>1, CounterAssumption, BlockAssumption DEF TypeOK
  <2> QED BY <1>1, <2>1, ModInRange DEF free_block, TypeOK
<1>4. \A c \in Block : c # b => /\ bitmap'[c] = bitmap[c]
                                /\ holders'[c] = holders[c]
  BY <1>1, <1>2 DEF TypeOK
<1>5. holders'[b] = holders[b] - 1
  BY <1>1, <1>2 DEF TypeOK
<1>6. holders' \in [Block -> 0 .. MaxHolders]
  BY <1>1, <1>2, HolderAssumption DEF TypeOK
<1>7. bitmap' \in [Block -> BOOLEAN]
  BY <1>1, <1>2 DEF TypeOK
<1>8. 0 \in Block
  BY BlockAssumption DEF Block
<1>9. NoDoubleAllocation'
  <2>1. holders[b] \in 0 .. MaxHolders
    BY <1>1 DEF TypeOK
  <2> QED BY <1>1, <1>4, <1>5, <1>8, <2>1, HolderAssumption
          DEF IInv, NoDoubleAllocation
<1>10. HeldIsMarked'
  <2> SUFFICES ASSUME NEW c \in Block, c < BitsPerBlock, holders'[c] > 0
               PROVE  bitmap'[c]
    BY DEF HeldIsMarked
  <2>1. c # b
    <3>1. (holders[b] \in 0 .. MaxHolders /\ holders[b] <= 1) \/ c # b
      BY <1>1 DEF IInv, NoDoubleAllocation, TypeOK
    <3> QED BY <1>2, <1>5, <3>1, HolderAssumption
  <2> QED BY <1>4, <2>1 DEF IInv, HeldIsMarked
<1>11. bitmap'[0]
  BY <1>1, <1>4, <1>8 DEF IInv
<1> QED BY <1>1, <1>2, <1>3, <1>6, <1>7, <1>9, <1>10, <1>11 DEF IInv, TypeOK

(* Freeing NULL only turns the counter back. *)
LEMMA FreeNullStep == IInv /\ free_null => IInv'
<1> SUFFICES ASSUME IInv, free_null PROVE IInv'
  OBVIOUS
<1>1. m_used_blocks + CounterRange - 1 \in Nat
  BY CounterAssumption, BlockAssumption DEF IInv, TypeOK
<1>2. m_used_blocks' \in 0 .. CounterRange - 1
  BY <1>1, ModInRange DEF free_null
<1>3. nulls' \in 0 .. MaxNull
  BY NullAssumption DEF free_null, IInv, TypeOK
<1> QED BY <1>2, <1>3
        DEF free_null, IInv, TypeOK, NoDoubleAllocation, HeldIsMarked

(* A holder writes bits of later blocks at most. *)
LEMMA WriteStep ==
  ASSUME IInv, NEW b \in Block, Write(b)
  PROVE  IInv'
<1>1. b # 0
  BY DEF Write, IInv, NoDoubleAllocation
<1>2. \A c \in Block : c < BitsPerBlock => c \notin BitsIn(b)
  BY <1>1, FirstBits
<1>3. 0 \in Block /\ 0 < BitsPerBlock
  BY BlockAssumption, BitsAssumption DEF Block
<1>4. PICK bits \in [BitsIn(b) -> BOOLEAN] :
        bitmap' = [c \in Block |-> IF c \in BitsIn(b) THEN bits[c] ELSE bitmap[c]]
  BY DEF Write
<1>5. bitmap' \in [Block -> BOOLEAN]
  <2>1. bitmap \in [Block -> BOOLEAN]
    BY DEF IInv, TypeOK
  <2>2. ASSUME NEW c \in Block
        PROVE  (IF c \in BitsIn(b) THEN bits[c] ELSE bitmap[c]) \in BOOLEAN
    BY <2>1, Zenon
  <2> QED BY <1>4, <2>2, Zenon
<1>6. \A c \in Block : c < BitsPerBlock => bitmap'[c] = bitmap[c]
  BY <1>2, <1>4
<1> QED BY <1>3, <1>5, <1>6
        DEF Write, IInv, TypeOK, NoDoubleAllocation, HeldIsMarked

(* IInv is inductive. *)
LEMMA NextInvariant == IInv /\ [Next]_vars => IInv'
<1>1. IInv /\ UNCHANGED vars => IInv'
  BY DEF vars, IInv, TypeOK, NoDoubleAllocation, HeldIsMarked
<1> QED BY <1>1, AllocateStep, FreeStep, FreeNullStep, WriteStep DEF Next

(* IInv is inductive. *)
THEOREM Invariance == Spec => []IInv
BY InitInvariant, NextInvariant, PTL DEF Spec

(* Every variable keeps its type: the cursor never leaves the memory and   *)
(* the counter wraps around.                                               *)
THEOREM TypeCorrect == Spec => []TypeOK
<1>1. IInv => TypeOK
  BY DEF IInv
<1> QED BY <1>1, Invariance, PTL

(* Blocks whose bits are in block 0 are never handed out twice, nor block  *)
(* 0 at all, whatever the memory held at power-on and whatever the holders *)
(* of other blocks write.                                                  *)
THEOREM NoBlockHeldTwice == Spec => []NoDoubleAllocation
<1>1. IInv => NoDoubleAllocation
  BY DEF IInv
<1> QED BY <1>1, Invariance, PTL

(* A call that gives nobody a block failed, and left the cursor behind the *)
(* last block.                                                             *)
LEMMA FailedCall ==
  ASSUME IInv, NEW count \in Sizes \ {0}, allocate_blocks(count), UNCHANGED holders
  PROVE  Start' = 0
<1>1. count \in Nat \ {0}
  BY SizeAssumption
<1>2. CASE FreeRuns(Start, count) = {}
  <2>1. cursor' = BlockCount
    BY <1>1, <1>2 DEF allocate_blocks, allocate_null
  <2> QED BY <2>1 DEF Start
<1>3. CASE FreeRuns(Start, count) # {}
  <2> DEFINE first == Min(FreeRuns(Start, count))
  <2>1. allocate_found(count, first)
    BY <1>1, <1>3 DEF allocate_blocks
  <2>2. first \in Block
    BY <1>1, <1>3, FoundRun
  <2> HIDE DEF first
  <2>3. first \in Run(first, count)
    BY <1>1, <2>2, BlockAssumption DEF Run, Block
  <2>4. holders'[first] = holders[first] + 1 /\ holders[first] \in Nat
    BY <2>1, <2>2, <2>3, HolderAssumption DEF allocate_found, IInv, TypeOK
  <2> QED BY <2>4
<1> QED BY <1>2, <1>3

(* After a failure the next call looks at the whole memory, wherever the   *)
(* cursor was and whatever happened to the bits: it fails only if there is *)
(* no run of that length at all.                                           *)
THEOREM FailuresStartOver == Spec => RetryIsComplete
<1>1. IInv /\ [Next]_vars =>
        [\A count \in Sizes \ {0} :
           allocate_blocks(count) /\ UNCHANGED holders
             => (FreeRuns(0, count) # {} => FreeRuns(Start, count) # {})']_vars
  <2> SUFFICES ASSUME IInv, NEW count \in Sizes \ {0}, allocate_blocks(count),
                      UNCHANGED holders
               PROVE  (FreeRuns(0, count) # {} => FreeRuns(Start, count) # {})'
    OBVIOUS
  <2>1. Start' = 0
    BY FailedCall
  <2> QED BY <2>1 DEF FreeRuns
<1> QED BY <1>1, Invariance, PTL DEF Spec, RetryIsComplete

-----------------------------------------------------------------------------
(* In a memory whose bits all fit into block 0 the holders are those of    *)
(* an ideal pool of blocks, and the counter tells their number.            *)

(* No holder can change a bit. *)
LEMMA BitsAreSafe ==
  ASSUME BlockCount <= BitsPerBlock, IInv, NEW b \in Block
  PROVE  ~Write(b)
<1>1. \A c \in Block : c < BitsPerBlock
  BY BlockAssumption, BitsAssumption DEF Block
<1>2. b # 0 => BitsIn(b) = {}
  BY <1>1, FirstBits DEF BitsIn
<1> QED BY <1>2 DEF Write, IInv, NoDoubleAllocation

(* A successful call adds its run, which nobody held, to the blocks held. *)
LEMMA FoundHeld ==
  ASSUME BlockCount <= BitsPerBlock, IInv, NEW count \in Nat \ {0},
         FreeRuns(Start, count) # {}, allocate_blocks(count)
  PROVE  LET first == Min(FreeRuns(Start, count))
         IN  /\ first \in Block \ {0}
             /\ Run(first, count) \subseteq (Block \ {0}) \ Held
             /\ Held' = Held \cup Run(first, count)
             /\ m_used_blocks' = (m_used_blocks + count) % CounterRange
<1> DEFINE first == Min(FreeRuns(Start, count))
<1> HIDE DEF first
<1>1. /\ first \in Block
      /\ Run(first, count) \subseteq Block \ {0}
      /\ \A c \in Run(first, count) : ~bitmap[c]
  BY FoundRun DEF first
<1>2. allocate_found(count, first)
  BY DEF allocate_blocks, first
<1>3. first \in Nat /\ \A c \in Block : c \in Nat /\ c < BitsPerBlock
  BY <1>1, BlockAssumption, BitsAssumption DEF Block
<1>4. first \in Run(first, count)
  BY <1>3 DEF Run
<1>5. \A c \in Run(first, count) : c \notin Held
  BY <1>1, <1>3 DEF IInv, HeldIsMarked, Held
<1>6. Held' = Held \cup Run(first, count)
  <2>1. \A c \in Block : holders[c] \in Nat
    BY HolderAssumption DEF IInv, TypeOK
  <2>2. \A c \in Block : holders'[c] > 0 <=>
                           holders[c] > 0 \/ c \in Run(first, count)
    BY <1>2, <2>1 DEF allocate_found
  <2> QED BY <1>1, <2>2 DEF Held
<1>7. m_used_blocks' = (m_used_blocks + count) % CounterRange
  BY <1>2 DEF allocate_found
<1> QED BY <1>1, <1>4, <1>5, <1>6, <1>7 DEF first

(* free_block takes its block from the blocks held. *)
LEMMA FreeHeld ==
  ASSUME BlockCount <= BitsPerBlock, IInv, NEW b \in Block, free_block(b)
  PROVE  /\ b \in Held
         /\ Held' = Held \ {b}
         /\ m_used_blocks' = (m_used_blocks + CounterRange - 1) % CounterRange
<1>1. b < BitsPerBlock /\ b \in Nat
  BY BlockAssumption, BitsAssumption DEF Block
<1>2. holders \in [Block -> 0 .. MaxHolders] /\ holders[b] = 1 /\ bitmap[b]
  BY <1>1, HolderAssumption
     DEF IInv, TypeOK, NoDoubleAllocation, HeldIsMarked, free_block
<1>3. \A c \in Block : holders'[c] > 0 <=> holders[c] > 0 /\ c # b
  BY <1>2, HolderAssumption DEF free_block
<1> QED BY <1>2, <1>3 DEF free_block, Held

(* Every other step leaves the blocks held, and without NULL results the   *)
(* counter, as they are.                                                   *)
LEMMA OtherHeld ==
  ASSUME IInv,
         \/ \E count \in Sizes :
              allocate_blocks(count) /\ (count = 0 \/ FreeRuns(Start, count) = {})
         \/ free_null
         \/ UNCHANGED vars
  PROVE  /\ Held' = Held
         /\ MaxNull = 0 => m_used_blocks' = m_used_blocks
<1>1. MaxNull = 0 => ~free_null
  BY DEF IInv, TypeOK, free_null
<1>2. holders' = holders /\ (~free_null => m_used_blocks' = m_used_blocks)
  BY DEF allocate_blocks, allocate_null, free_null, vars
<1> QED BY <1>1, <1>2 DEF Held

(* Every step is an allocation, a release, or leaves the pool alone. *)
LEMMA PoolStep ==
  ASSUME BlockCount <= BitsPerBlock, IInv, [Next]_vars
  PROVE  [Pool!Next]_Held
<1>1. ASSUME NEW count \in Sizes, allocate_blocks(count),
             count # 0, FreeRuns(Start, count) # {}
      PROVE  Pool!Next
  <2> DEFINE first == Min(FreeRuns(Start, count))
  <2>1. count \in Nat \ {0} /\ count > 0
    BY <1>1, SizeAssumption
  <2>2. /\ first \in Block \ {0}
        /\ Run(first, count) \subseteq (Block \ {0}) \ Held
        /\ Held' = Held \cup Run(first, count)
    BY <1>1, <2>1, FoundHeld
  <2>3. Pool!Allocate(count)
    BY <2>1, <2>2 DEF Pool!Allocate, Run
  <2> QED BY <2>3 DEF Pool!Next
<1>2. ASSUME NEW b \in Block, free_block(b)
      PROVE  Pool!Next
  <2>1. b \in Held /\ Held' = Held \ {b}
    BY <1>2, FreeHeld
  <2>2. b # 0
    BY <2>1 DEF IInv, NoDoubleAllocation, Held
  <2> QED BY <2>1, <2>2 DEF Pool!Next, Pool!Free
<1> QED BY <1>1, <1>2, BitsAreSafe, OtherHeld DEF Next

(* Allocator and pool agree at the start. *)
LEMMA PoolInit == Init => Pool!Init
BY DEF Init, Pool!Init, Held

(* allocate_blocks and free_block implement the ideal pool: no block is    *)
(* given to two holders, none is lost, only holders free.                  *)
THEOREM ImplementsPool ==
  ASSUME BlockCount <= BitsPerBlock
  PROVE  Spec => RefinesPool
<1>1. IInv /\ [Next]_vars => [Pool!Next]_Held
  BY PoolStep
<1> QED BY <1>1, PoolInit, Invariance, PTL DEF Spec, RefinesPool, Pool!Spec

(* There are fewer blocks than the counter can count. *)
LEMMA BlocksFinite ==
  ASSUME NEW S \in SUBSET Block
  PROVE  /\ IsFiniteSet(S)
         /\ Cardinality(S) \in Nat
         /\ Cardinality(S) < CounterRange
<1>1. IsFiniteSet(Block) /\ Cardinality(Block) = BlockCount
  BY BlockAssumption, FS_Interval DEF Block
<1>2. IsFiniteSet(S) /\ Cardinality(S) <= BlockCount
  BY <1>1, FS_Subset
<1> QED BY <1>2, FS_CardinalityType, CounterAssumption, BlockAssumption

(* The counter follows the holders through every step. *)
LEMMA CountStep ==
  ASSUME BlockCount <= BitsPerBlock, MaxNull = 0, IInv, UsedCount, [Next]_vars
  PROVE  UsedCount'
<1>1. /\ IsFiniteSet(Held) /\ Cardinality(Held) \in Nat
      /\ Cardinality(Held) < CounterRange
  BY BlocksFinite DEF Held
<1>2. ASSUME NEW count \in Sizes, allocate_blocks(count),
             count # 0, FreeRuns(Start, count) # {}
      PROVE  UsedCount'
  <2> DEFINE first == Min(FreeRuns(Start, count))
             run == Run(first, count)
  <2>1. count \in Nat \ {0}
    BY <1>2, SizeAssumption
  <2>2. /\ first \in Block \ {0}
        /\ run \subseteq (Block \ {0}) \ Held
        /\ Held' = Held \cup run
        /\ m_used_blocks' = (m_used_blocks + count) % CounterRange
    BY <1>2, <2>1, FoundHeld
  <2> HIDE DEF first
  <2>3. IsFiniteSet(run) /\ Cardinality(run) = count
    <3>1. first \in Int /\ first + count - 1 \in Int /\ first <= first + count - 1
      BY <2>1, <2>2, BlockAssumption DEF Block
    <3> QED BY <2>1, <3>1, FS_Interval DEF Run
  <2>4. Cardinality(Held \cap run) = 0
    <3>1. Held \cap run = {}
      BY <2>2
    <3> QED BY <3>1, FS_EmptySet
  <2>5. Cardinality(Held \cup run) = Cardinality(Held) + count
    <3> HIDE DEF run
    <3>1. Cardinality(Held \cup run)
            = Cardinality(Held) + Cardinality(run) - Cardinality(Held \cap run)
      BY <1>1, <2>3, FS_Union, Zenon
    <3> QED BY <1>1, <2>1, <2>3, <2>4, <3>1
  <2>6. Cardinality(Held \cup run) < CounterRange
    BY <2>2, BlocksFinite DEF Held
  <2> QED BY <1>1, <2>1, <2>2, <2>5, <2>6, CounterAssumption DEF UsedCount
<1>3. ASSUME NEW b \in Block, free_block(b)
      PROVE  UsedCount'
  <2>1. /\ b \in Held
        /\ Held' = Held \ {b}
        /\ m_used_blocks' = (m_used_blocks + CounterRange - 1) % CounterRange
    BY <1>3, FreeHeld
  <2>2. /\ Cardinality(Held \ {b}) = Cardinality(Held) - 1
        /\ Cardinality(Held \ {b}) \in Nat
    BY <1>1, <2>1, BlocksFinite, FS_RemoveElement DEF Held
  <2>3. (Cardinality(Held) + CounterRange - 1) % CounterRange
          = Cardinality(Held) - 1
    BY <1>1, <2>2, CounterAssumption, BlockAssumption
  <2> QED BY <2>1, <2>2, <2>3 DEF UsedCount
<1>4. Held' = Held /\ m_used_blocks' = m_used_blocks => UsedCount'
  BY DEF UsedCount
<1> QED BY <1>2, <1>3, <1>4, BitsAreSafe, OtherHeld DEF Next

(* m_used_blocks is the number of blocks held, as long as no NULL result   *)
(* is ever freed: allocations and releases in any order never make it      *)
(* drift or wrap around.                                                   *)
THEOREM CounterIsExact ==
  ASSUME BlockCount <= BitsPerBlock, MaxNull = 0
  PROVE  Spec => []UsedCount
<1>1. Init => UsedCount
  BY FS_EmptySet DEF Init, UsedCount, Held
<1>2. IInv /\ UsedCount /\ [Next]_vars => UsedCount'
  BY CountStep
<1> QED BY <1>1, <1>2, Invariance, PTL DEF Spec

=============================================================================
