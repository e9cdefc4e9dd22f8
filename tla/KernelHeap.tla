----------------------------- MODULE KernelHeap -----------------------------
(***************************************************************************)
(* The kernel heap behind operator new and delete (kernel/heap.cpp), word  *)
(* by word: boundary tags in the memory itself, first fit, splitting, and  *)
(* coalescing in both directions at free.  Whatever a freed block or an    *)
(* absorbed tag left in memory stays there until it is overwritten.        *)
(*                                                                         *)
(* A word stands for 4 bytes; an address is an index into the heap's words *)
(* and 0, where the padding is, stands for NULL.                           *)
(***************************************************************************)
EXTENDS Integers, FiniteSets

CONSTANTS
  HeapSize,  \* words from p_address to the end of the heap
  Counts,    \* the sizes callers ask for
  MaxWrites  \* bound on the callers' writes

ASSUME HeapAssumption == HeapSize \in Nat /\ HeapSize > 10
ASSUME CountAssumption == Counts \subseteq Nat
ASSUME WriteAssumption == MaxWrites \in Nat

HeaderWords == 3   \* sizeof(heap_header_t): magic, used, size
FooterWords == 2   \* sizeof(heap_footer_t): magic, header
TagWords == HeaderWords + FooterWords

HeaderMagic == -100  \* HEAP_HEADER_MAGIC
FooterMagic == -101  \* HEAP_FOOTER_MAGIC
Data == -102         \* any word that is not part of a tag
NULL == 0

Address == 0 .. HeapSize - 1
First == FooterWords                    \* m_address, after the padding
Last == HeapSize - HeaderWords          \* where the closing padding starts

VARIABLES
  mem,    \* the words
  live,   \* the regions callers own: <<address, words>>
  writes  \* how often callers have written a region

vars == <<mem, live, writes>>

Word == {HeaderMagic, FooterMagic, Data} \cup Nat

(* EXCEPT leaves out a store outside Address; that there is none to leave  *)
(* out shows in BlocksTileHeap, which finds every tag in its place.        *)
TypeOK ==
  /\ mem \in [Address -> Word]
  /\ live \subseteq Address \X Counts
  /\ writes \in 0 .. MaxWrites

(* Fields. *)
IsHeader(m, h) == m[h] = HeaderMagic
Used(m, h) == m[h + 1] = 1
Size(m, h) == m[h + 2]
FooterOf(m, h) == h + HeaderWords + Size(m, h)
After(m, h) == FooterOf(m, h) + FooterWords
HeaderOf(m, f) == m[f + 1]

(* The constructor: zeros on both sides and one free block between them.   *)
heap ==
  [a \in Address |->
     CASE a < First \/ a >= Last      -> 0
       [] a = First                   -> HeaderMagic
       [] a = First + 1               -> 0
       [] a = First + 2               -> Last - First - TagWords
       [] a = Last - FooterWords      -> FooterMagic
       [] a = Last - FooterWords + 1  -> First
       [] OTHER                       -> Data]

Init ==
  /\ mem = heap
  /\ live = {}
  /\ writes = 0

-----------------------------------------------------------------------------

(* The loops that walk the blocks: where the pointer is after n rounds,    *)
(* from start, when one round takes it from h to step[h] and step[h] = h   *)
(* once the loop is left.  Every round passes at least one word.           *)
Walk(start, step) ==
  LET at[n \in 0 .. HeapSize] == IF n = 0 THEN start ELSE step[at[n - 1]]
  IN  at

(* Mutant: a used block may be taken again. *)
Passed_Used(m, h, count) == IsHeader(m, h) /\ Size(m, h) < count

(* The blocks allocate passes on its way along the headers. *)
Passed(m, h, count) == IsHeader(m, h) /\ (Size(m, h) < count \/ Used(m, h))

(* The first free block that is large enough. *)
Fit(count) ==
  LET step == [h \in Address |->
                 IF Passed(mem, h, count) THEN After(mem, h) ELSE h]
      h == Walk(First, step)[HeapSize]
  IN  IF IsHeader(mem, h) THEN h ELSE NULL

(* Mutant: the old footer keeps pointing to the first part. *)
Split_OldFooter(h, count) ==
  LET nf == h + HeaderWords + count
      nh == nf + FooterWords
  IN  [mem EXCEPT ![h + 1] = 1,
                  ![h + 2] = count,
                  ![nf] = FooterMagic, ![nf + 1] = h,
                  ![nh] = HeaderMagic, ![nh + 1] = 0,
                  ![nh + 2] = Size(mem, h) - count - TagWords]

(* Cuts count words from a free block; the rest becomes a free block. *)
Split(h, count) ==
  LET nf == h + HeaderWords + count
      nh == nf + FooterWords
  IN  [mem EXCEPT ![h + 1] = 1,
                  ![h + 2] = count,
                  ![nf] = FooterMagic, ![nf + 1] = h,
                  ![nh] = HeaderMagic, ![nh + 1] = 0,
                  ![nh + 2] = Size(mem, h) - count - TagWords,
                  ![FooterOf(mem, h) + 1] = nh]

(* Mutant: a block is split even if the rest has no room for its tags. *)
allocate_Split(count) ==
  LET h == Fit(count)
  IN  /\ h # NULL
      /\ mem' = IF Size(mem, h) > count
                  THEN Split(h, count)
                  ELSE [mem EXCEPT ![h + 1] = 1]
      /\ live' = live \cup {<<h + HeaderWords, count>>}
      /\ UNCHANGED writes

(* operator new.  NULL changes nothing. *)
allocate(count) ==
  LET h == Fit(count)
  IN  /\ h # NULL
      /\ mem[FooterOf(mem, h)] = FooterMagic
      /\ HeaderOf(mem, FooterOf(mem, h)) = h
      /\ mem' = IF Size(mem, h) > count + TagWords
                  THEN Split(h, count)
                  ELSE [mem EXCEPT ![h + 1] = 1]
      /\ live' = live \cup {<<h + HeaderWords, count>>}
      /\ UNCHANGED writes

(* The leftmost header of the free blocks that end where block h starts. *)
LeftMost(h) ==
  LET step == [a \in Address |->
                 LET f == a - FooterWords
                 IN  IF /\ mem[f] = FooterMagic
                        /\ IsHeader(mem, HeaderOf(mem, f))
                        /\ ~Used(mem, HeaderOf(mem, f))
                       THEN HeaderOf(mem, f)
                       ELSE a]
  IN  Walk(h, step)[HeapSize]

(* Mutant: only the left neighbours are looked at. *)
RightMost_Self(h) == h

RightMost(h) ==
  LET step == [a \in Address |->
                 LET r == After(mem, a)
                 IN  IF IsHeader(mem, r) /\ ~Used(mem, r) THEN r ELSE a]
  IN  Walk(h, step)[HeapSize]

(* The owner of the region at p_address frees it. *)
free(r) ==
  LET h     == r[1] - HeaderWords
      left  == LeftMost(h)
      right == RightMost(h)
      f     == FooterOf(mem, right)
  IN  /\ r \in live
      /\ mem' = IF ~IsHeader(mem, h) THEN mem
                ELSE IF left = right
                  THEN [mem EXCEPT ![h + 1] = 0]
                  ELSE [mem EXCEPT ![left + 1] = 0,
                                   ![left + 2] = f - left - HeaderWords,
                                   ![f + 1] = left]
      /\ live' = live \ {r}
      /\ UNCHANGED writes

(* The owner fills its region. *)
Write(r) ==
  /\ r \in live
  /\ writes < MaxWrites
  /\ writes' = writes + 1
  /\ mem' = [a \in Address |->
               IF r[1] <= a /\ a < r[1] + r[2] THEN Data ELSE mem[a]]
  /\ UNCHANGED live

Next ==
  \/ \E count \in Counts : allocate(count)
  \/ \E r \in live : free(r)
  \/ \E r \in live : Write(r)

Spec == Init /\ [][Next]_vars

-----------------------------------------------------------------------------
(* Properties. *)

(* The headers the chain from m_address leads to. *)
Chain ==
  LET step == [h \in Address |-> IF IsHeader(mem, h) THEN After(mem, h) ELSE h]
      at == Walk(First, step)
  IN  {h \in {at[n] : n \in 0 .. HeapSize} : IsHeader(mem, h)}

(* Whatever the order of allocations and releases, the blocks tile the     *)
(* heap from end to end and every footer leads back to its header: no walk *)
(* of allocate or free leaves the heap or meets a stale tag.  Those marked *)
(* used are exactly the regions callers own, each with room for what was   *)
(* asked and without more waste than a pair of tags.                       *)
BlocksTileHeap ==
  /\ Chain # {}
  /\ \A h \in Chain :
       /\ After(mem, h) \in Chain \cup {Last}
       /\ mem[FooterOf(mem, h)] = FooterMagic
       /\ HeaderOf(mem, FooterOf(mem, h)) = h
  /\ {h + HeaderWords : h \in {c \in Chain : Used(mem, c)}} = {r[1] : r \in live}
  /\ \A r \in live :
       LET size == Size(mem, r[1] - HeaderWords)
       IN  r[2] <= size /\ size <= r[2] + TagWords

(* No space is lost: freed memory never stays fragmented, no two           *)
(* neighbours are both free, and a request fails only if no gap between    *)
(* the regions in use and the edges of the heap has room for it and its    *)
(* tags.                                                                   *)
NoAdjacentFree ==
  \A h \in Chain :
    ~Used(mem, h) /\ After(mem, h) \in Chain => Used(mem, After(mem, h))
Gap(a, n) ==
  /\ a + n <= Last
  /\ \A r \in live :
       LET h == r[1] - HeaderWords
       IN  After(mem, h) <= a \/ a + n <= h
FitIsComplete ==
  \A count \in Counts :
    Fit(count) = NULL => \A a \in First .. Last : ~Gap(a, count + TagWords)
NoSpaceIsLost == NoAdjacentFree /\ FitIsComplete

(* What new and delete promise, see HeapRegions. *)
Regions == INSTANCE HeapRegions WITH Arena <- First .. Last - 1
RefinesRegions == Regions!Spec

=============================================================================
