-------------------------- MODULE KernelHeapProofs --------------------------
(***************************************************************************)
(* Theorems about module KernelHeap, for a heap of any size and requests   *)
(* of any size.                                                            *)
(*                                                                         *)
(* The invariant names the set of headers: its blocks lie side by side     *)
(* from end to end, with their footers in place, and free ones are never   *)
(* neighbours.  What any other word of memory holds, stale tags included,  *)
(* does not matter, because no walk leaves those blocks.                   *)
(***************************************************************************)
EXTENDS KernelHeap, WellFoundedInduction, TLAPS

-----------------------------------------------------------------------------
(* The invariant. *)

(* The block of header h, and nothing else between First and Last. *)
IsBlock(m, h) ==
  /\ h \in First .. Last - TagWords
  /\ IsHeader(m, h)
  /\ m[h + 1] \in {0, 1}
  /\ Size(m, h) \in Nat
  /\ After(m, h) <= Last
  /\ m[FooterOf(m, h)] = FooterMagic
  /\ HeaderOf(m, FooterOf(m, h)) = h

(* The blocks of the headers H are the heap. *)
Tiles(m, H) ==
  /\ First \in H
  /\ \A h \in H :
       /\ IsBlock(m, h)
       /\ After(m, h) \in H \cup {Last}
       /\ h # First => \E g \in H : After(m, g) = h
       /\ \A g \in H : h < g => After(m, h) <= g
  /\ \A a \in 0 .. First - 1 : m[a] = 0
  /\ \A a \in Last .. HeapSize - 1 : m[a] = 0

(* The used blocks belong to the regions, one to one. *)
Owned(m, H, regions) ==
  /\ \A r \in regions :
       /\ r[1] - HeaderWords \in H
       /\ Used(m, r[1] - HeaderWords)
       /\ r[2] <= Size(m, r[1] - HeaderWords)
       /\ Size(m, r[1] - HeaderWords) <= r[2] + TagWords
  /\ \A h \in H : Used(m, h) => \E r \in regions : r[1] = h + HeaderWords
  /\ \A r, s \in regions : r[1] = s[1] => r = s

Coalesced(m, H) ==
  \A h \in H : ~Used(m, h) /\ After(m, h) \in H => Used(m, After(m, h))

IInv ==
  /\ TypeOK
  /\ \E H \in SUBSET Address :
       Tiles(mem, H) /\ Owned(mem, H, live) /\ Coalesced(mem, H)

-----------------------------------------------------------------------------
(* Walks. *)

(* A set of naturals that is not empty has a least element. *)
LEMMA LeastOfNat ==
  ASSUME NEW S, S \subseteq Nat, S # {}
  PROVE  \E x \in S : \A y \in S : x <= y
<1>1. PICK x \in S : \A y \in S : ~ (<<y, x>> \in OpToRel(<, Nat))
  BY WFMin, NatLessThanWellFounded
<1>2. \A y \in S : x <= y
  <2> SUFFICES ASSUME NEW y \in S PROVE x <= y
    OBVIOUS
  <2>1. <<y, x>> \notin OpToRel(<, Nat)
    BY <1>1
  <2>2. ~ (y < x)
    BY <2>1 DEF OpToRel
  <2> QED BY <2>2
<1> QED BY <1>2

(* The function Walk defines exists, so it satisfies its equation. *)
LEMMA WalkEquation ==
  ASSUME NEW start, NEW step
  PROVE  Walk(start, step) =
           [n \in 0 .. HeapSize |->
              IF n = 0 THEN start ELSE step[Walk(start, step)[n - 1]]]
<1> DEFINE Fixed(N, f) ==
      f = [n \in 0 .. N |-> IF n = 0 THEN start ELSE step[f[n - 1]]]
           missing == {N \in Nat : ~ \E f : Fixed(N, f)}
<1>1. missing = {}
  <2> SUFFICES ASSUME missing # {} PROVE FALSE
    OBVIOUS
  <2>1. missing \subseteq Nat
    OBVIOUS
  <2>2. PICK N \in missing : \A y \in missing : N <= y
    BY <2>1, LeastOfNat
  <2>3. N # 0
    <3>1. Fixed(0, [n \in 0 .. 0 |-> start])
      OBVIOUS
    <3> QED BY <2>2, <3>1
  <2>4. N - 1 \in Nat /\ N - 1 \notin missing
    <3>1. N \in Nat
      BY <2>1, <2>2
    <3>2. N - 1 \in Nat /\ ~ (N <= N - 1)
      BY <2>3, <3>1
    <3> QED BY <2>2, <3>2
  <2>5. PICK f : Fixed(N - 1, f)
    BY <2>4
  <2> DEFINE g == [n \in 0 .. N |-> IF n = 0 THEN start ELSE step[f[n - 1]]]
  <2>6. \A n \in 0 .. N - 1 : g[n] = f[n]
    <3>1. \A n \in 0 .. N - 1 : n \in 0 .. N
      BY <2>1, <2>2
    <3>2. DOMAIN f = 0 .. N - 1
      BY <2>5
    <3>3. \A n \in 0 .. N - 1 : f[n] = IF n = 0 THEN start ELSE step[f[n - 1]]
      BY <2>5
    <3> QED BY <3>1, <3>3
  <2>7. Fixed(N, g)
    <3>1. ASSUME NEW n \in 0 .. N, n # 0 PROVE step[f[n - 1]] = step[g[n - 1]]
      <4>1. n - 1 \in 0 .. N - 1
        BY <2>1, <2>2, <3>1
      <4> QED BY <2>6, <4>1
    <3> QED BY <3>1
  <2> QED BY <2>2, <2>7
<1>2. HeapSize \in Nat
  BY HeapAssumption
<1>3. \E f : Fixed(HeapSize, f)
  BY <1>1, <1>2
<1> QED BY <1>3 DEF Walk

(* A walk that starts in a set and cannot leave it stays there. *)
LEMMA WalkStays ==
  ASSUME NEW S, NEW start \in S, NEW step, \A h \in S : step[h] \in S
  PROVE  \A n \in 0 .. HeapSize : Walk(start, step)[n] \in S
<1> DEFINE at == Walk(start, step)
           left == {n \in 0 .. HeapSize : at[n] \notin S}
<1>1. at = [n \in 0 .. HeapSize |-> IF n = 0 THEN start ELSE step[at[n - 1]]]
  BY WalkEquation
<1> HIDE DEF at
<1> SUFFICES ASSUME left # {} PROVE FALSE
  BY DEF at
<1>2. HeapSize \in Nat /\ left \subseteq Nat
  BY HeapAssumption
<1>3. PICK n \in left : \A y \in left : n <= y
  BY <1>2, LeastOfNat
<1>4. CASE n = 0
  BY <1>1, <1>2, <1>3, <1>4
<1>5. CASE n # 0
  <2>1. n - 1 \in 0 .. HeapSize /\ n - 1 \notin left
    BY <1>2, <1>3, <1>5
  <2>2. at[n - 1] \in S
    BY <2>1
  <2>3. at[n] = step[at[n - 1]]
    BY <1>1, <1>3, <1>5
  <2> QED BY <1>3, <2>2, <2>3
<1> QED BY <1>4, <1>5

(* A walk to the right has come to its end after HeapSize rounds. *)
LEMMA WalkEnds ==
  ASSUME NEW S, S \subseteq Address, NEW start \in S, NEW step,
         \A h \in S : step[h] \in S /\ h <= step[h]
  PROVE  LET h == Walk(start, step)[HeapSize] IN h \in S /\ step[h] = h
<1> DEFINE at == Walk(start, step)
           slow == {n \in 0 .. HeapSize : ~ (step[at[n]] = at[n] \/ n <= at[n])}
<1>1. at = [n \in 0 .. HeapSize |-> IF n = 0 THEN start ELSE step[at[n - 1]]]
  BY WalkEquation
<1>2. \A n \in 0 .. HeapSize : at[n] \in S
  BY WalkStays
<1> HIDE DEF at
<1>3. HeapSize \in Nat /\ slow \subseteq Nat
  BY HeapAssumption
<1>4. S \subseteq Int /\ \A h \in S : 0 <= h /\ h < HeapSize
  BY <1>3 DEF Address
<1>5. slow = {}
  <2> SUFFICES ASSUME slow # {} PROVE FALSE
    OBVIOUS
  <2>1. PICK n \in slow : \A y \in slow : n <= y
    BY <1>3, LeastOfNat
  <2>2. n # 0
    BY <1>2, <1>3, <1>4, <2>1
  <2>3. n - 1 \in 0 .. HeapSize /\ n - 1 \notin slow
    BY <1>3, <2>1, <2>2
  <2>4. at[n] = step[at[n - 1]] /\ at[n - 1] \in S /\ at[n] \in S
    BY <1>1, <1>2, <2>1, <2>2, <2>3
  <2>5. step[at[n - 1]] # at[n - 1]
    BY <2>1, <2>4
  <2>6. n - 1 <= at[n - 1] /\ at[n - 1] <= at[n] /\ at[n] # at[n - 1]
    BY <2>3, <2>4, <2>5
  <2>7. n <= at[n]
    <3>1. n \in Int /\ at[n] \in Int /\ at[n - 1] \in Int
      <4>1. n \in Nat
        BY <1>3, <2>1
      <4>2. at[n] \in Int /\ at[n - 1] \in Int
        BY <1>4, <2>4
      <4> QED BY <4>1, <4>2
    <3> QED BY <2>6, <3>1
  <2> QED BY <2>1, <2>7
<1>6. HeapSize \in 0 .. HeapSize
  BY <1>3
<1>7. at[HeapSize] \in S /\ ~ (HeapSize <= at[HeapSize])
  <2>1. at[HeapSize] \in S
    BY <1>2, <1>6
  <2>2. at[HeapSize] \in Int /\ at[HeapSize] < HeapSize
    BY <1>4, <2>1
  <2> QED BY <1>3, <2>1, <2>2
<1>8. step[at[HeapSize]] = at[HeapSize]
  BY <1>5, <1>6, <1>7
<1> QED BY <1>7, <1>8 DEF at

(* So has one to the left. *)
LEMMA WalkEndsLeft ==
  ASSUME NEW S, S \subseteq Address, NEW start \in S, NEW step,
         \A h \in S : step[h] \in S /\ step[h] <= h
  PROVE  LET h == Walk(start, step)[HeapSize] IN h \in S /\ step[h] = h
<1> DEFINE at == Walk(start, step)
           slow == {n \in 0 .. HeapSize :
                      ~ (step[at[n]] = at[n] \/ at[n] < HeapSize - n)}
<1>1. at = [n \in 0 .. HeapSize |-> IF n = 0 THEN start ELSE step[at[n - 1]]]
  BY WalkEquation
<1>2. \A n \in 0 .. HeapSize : at[n] \in S
  BY WalkStays
<1> HIDE DEF at
<1>3. HeapSize \in Nat /\ slow \subseteq Nat
  BY HeapAssumption
<1>4. S \subseteq Int /\ \A h \in S : 0 <= h /\ h < HeapSize
  BY <1>3 DEF Address
<1>5. slow = {}
  <2> SUFFICES ASSUME slow # {} PROVE FALSE
    OBVIOUS
  <2>1. PICK n \in slow : \A y \in slow : n <= y
    BY <1>3, LeastOfNat
  <2>2. n # 0
    <3>1. n \in 0 .. HeapSize /\ ~ (at[n] < HeapSize - n)
      BY <2>1
    <3>2. at[n] \in S
      BY <1>2, <3>1
    <3>3. at[n] \in Int /\ at[n] < HeapSize
      BY <1>4, <3>2
    <3> QED BY <1>3, <3>1, <3>3
  <2>3. n - 1 \in 0 .. HeapSize /\ n - 1 \notin slow
    BY <1>3, <2>1, <2>2
  <2>4. at[n] = step[at[n - 1]] /\ at[n - 1] \in S /\ at[n] \in S
    BY <1>1, <1>2, <2>1, <2>2, <2>3
  <2>5. step[at[n - 1]] # at[n - 1]
    BY <2>1, <2>4
  <2>6. at[n - 1] < HeapSize - (n - 1) /\ at[n] <= at[n - 1] /\ at[n] # at[n - 1]
    BY <2>3, <2>4, <2>5
  <2>7. at[n] < HeapSize - n
    <3>1. n \in Int /\ at[n] \in Int /\ at[n - 1] \in Int
      <4>1. n \in Nat
        BY <1>3, <2>1
      <4>2. at[n] \in Int /\ at[n - 1] \in Int
        BY <1>4, <2>4
      <4> QED BY <4>1, <4>2
    <3> QED BY <1>3, <2>6, <3>1
  <2> QED BY <2>1, <2>7
<1>6. HeapSize \in 0 .. HeapSize
  BY <1>3
<1>7. at[HeapSize] \in S /\ ~ (at[HeapSize] < HeapSize - HeapSize)
  <2>1. at[HeapSize] \in S
    BY <1>2, <1>6
  <2>2. at[HeapSize] \in Int /\ 0 <= at[HeapSize]
    BY <1>4, <2>1
  <2> QED BY <1>3, <2>1, <2>2
<1>8. step[at[HeapSize]] = at[HeapSize]
  BY <1>5, <1>6, <1>7
<1> QED BY <1>7, <1>8 DEF at

-----------------------------------------------------------------------------
(* Blocks. *)

Sizes == HeaderWords = 3 /\ FooterWords = 2 /\ TagWords = 5 /\ First = 2
           /\ Last = HeapSize - 3 /\ HeapSize \in Nat /\ HeapSize > 10

LEMMA Layout == Sizes
BY HeapAssumption
   DEF Sizes, HeaderWords, FooterWords, TagWords, First, Last

LEMMA BlockFacts ==
  ASSUME NEW m, NEW h, IsBlock(m, h)
  PROVE  /\ h \in Nat /\ Size(m, h) \in Nat
         /\ 2 <= h /\ h + 5 <= Last
         /\ FooterOf(m, h) = h + 3 + Size(m, h) /\ FooterOf(m, h) \in Nat
         /\ After(m, h) = h + 5 + Size(m, h) /\ After(m, h) \in Nat
         /\ h < After(m, h) /\ After(m, h) <= Last
<1>1. /\ h \in 2 .. HeapSize - 3 - 5 /\ Size(m, h) \in Nat
      /\ FooterOf(m, h) = h + 3 + Size(m, h)
      /\ After(m, h) = FooterOf(m, h) + 2
      /\ After(m, h) <= HeapSize - 3 /\ Last = HeapSize - 3 /\ HeapSize \in Nat
  BY Layout DEF Sizes, IsBlock, FooterOf, After
<1> QED BY <1>1

LEMMA NotHeader ==
  ASSUME NEW m, NEW H, Tiles(m, H)
  PROVE  /\ ~ IsHeader(m, Last)
         /\ m[First - FooterWords] # FooterMagic
<1>1. Last \in Last .. HeapSize - 1 /\ First - FooterWords \in 0 .. First - 1
  BY Layout DEF Sizes
<1> QED BY <1>1 DEF Tiles, IsHeader, HeaderMagic, FooterMagic

(* Every word between First and Last lies in a block. *)
LEMMA InSomeBlock ==
  ASSUME NEW m, NEW H, Tiles(m, H), NEW a \in First .. Last - 1
  PROVE  \E h \in H : h <= a /\ a < After(m, h)
<1> DEFINE distance == {d \in Nat : a - d \in H}
<1>1. a \in Nat /\ First \in H /\ First <= a /\ Last \in Nat /\ a < Last
  BY Layout DEF Sizes, Tiles
<1>2. distance # {} /\ distance \subseteq Nat
  <2>1. a - First \in Nat /\ a - (a - First) = First
    BY <1>1, Layout DEF Sizes
  <2> QED BY <1>1, <2>1
<1>3. PICK d \in distance : \A y \in distance : d <= y
  BY <1>2, LeastOfNat
<1> DEFINE h == a - d
<1>4. h \in H /\ d \in Nat /\ h <= a
  BY <1>1, <1>3
<1>5. IsBlock(m, h) /\ After(m, h) \in H \cup {Last}
  BY <1>4 DEF Tiles
<1>6. h < After(m, h) /\ After(m, h) \in Nat
  BY <1>5, BlockFacts
<1>7. ASSUME After(m, h) <= a PROVE FALSE
  <2>1. After(m, h) \in H
    BY <1>1, <1>5, <1>6, <1>7
  <2>2. a - After(m, h) \in Nat /\ a - (a - After(m, h)) = After(m, h)
    BY <1>1, <1>6, <1>7
  <2>3. a - After(m, h) \in distance
    BY <2>1, <2>2
  <2>4. d <= a - After(m, h)
    BY <1>3, <2>3
  <2> QED BY <1>1, <1>4, <1>6, <2>4
<1> QED BY <1>1, <1>4, <1>6, <1>7

(* A block keeps its place when its tags are kept. *)
SameTags(m, n, h) ==
  /\ n[h] = m[h] /\ n[h + 1] = m[h + 1] /\ n[h + 2] = m[h + 2]
  /\ n[FooterOf(m, h)] = m[FooterOf(m, h)]
  /\ n[FooterOf(m, h) + 1] = m[FooterOf(m, h) + 1]

LEMMA KeptBlock ==
  ASSUME NEW m, NEW n, NEW h, IsBlock(m, h), SameTags(m, n, h)
  PROVE  /\ IsBlock(n, h)
         /\ Size(n, h) = Size(m, h) /\ (Used(n, h) <=> Used(m, h))
         /\ After(n, h) = After(m, h)
BY DEF SameTags, IsBlock, IsHeader, Size, Used, After, FooterOf, HeaderOf

-----------------------------------------------------------------------------
(* The walks of allocate and free. *)

LEMMA FitProperties ==
  ASSUME NEW H, H \subseteq Address, Tiles(mem, H), NEW count \in Nat
  PROVE  \/ /\ Fit(count) \in H /\ Fit(count) # NULL
            /\ ~ Used(mem, Fit(count)) /\ Size(mem, Fit(count)) >= count
         \/ /\ Fit(count) = NULL
            /\ \A g \in H : Used(mem, g) \/ Size(mem, g) < count
<1> DEFINE step == [h \in Address |->
                      IF Passed(mem, h, count) THEN After(mem, h) ELSE h]
           S == {h \in H \cup {Last} : \A g \in H : g < h => Passed(mem, g, count)}
           end == Walk(First, step)[HeapSize]
<1>1. /\ \A h \in H : /\ IsBlock(mem, h) /\ h \in Nat /\ h < After(mem, h)
                      /\ After(mem, h) \in Nat /\ h < Last /\ First <= h
                      /\ Size(mem, h) \in Nat /\ IsHeader(mem, h)
      /\ Last \in Address /\ First \in H /\ Last \in Nat
  <2>1. ASSUME NEW h \in H
        PROVE  /\ IsBlock(mem, h) /\ h \in Nat /\ h < After(mem, h)
               /\ After(mem, h) \in Nat /\ h < Last /\ First <= h
               /\ Size(mem, h) \in Nat /\ IsHeader(mem, h)
    <3>1. IsBlock(mem, h) /\ IsHeader(mem, h)
      BY DEF Tiles, IsBlock
    <3>2. /\ h \in Nat /\ h < After(mem, h) /\ After(mem, h) \in Nat
          /\ 2 <= h /\ h + 5 <= Last /\ Size(mem, h) \in Nat
      BY <3>1, BlockFacts
    <3> QED BY <3>1, <3>2, Layout DEF Sizes
  <2>2. First \in H
    BY DEF Tiles
  <2>3. Last \in Address /\ Last \in Nat
    BY Layout DEF Sizes, Address
  <2> QED BY <2>1, <2>2, <2>3
<1>2. S \subseteq Address /\ First \in S
  <2>1. \A g \in H : ~ (g < First)
    BY <1>1, Layout DEF Sizes
  <2> QED BY <1>1, <2>1
<1>3. ASSUME NEW h \in S
      PROVE  step[h] \in S /\ h <= step[h]
  <2>1. h \in Address /\ h \in Nat
    BY <1>1, <1>2
  <2>2. CASE ~ Passed(mem, h, count)
    BY <2>1, <2>2
  <2>3. CASE Passed(mem, h, count)
    <3>1. h \in H
      BY <2>3, NotHeader DEF Passed
    <3>2. step[h] = After(mem, h) /\ After(mem, h) \in H \cup {Last}
      BY <2>1, <2>3, <3>1 DEF Tiles
    <3>3. ASSUME NEW g \in H, g < After(mem, h) PROVE Passed(mem, g, count)
      <4>1. ~ (h < g)
        <5>1. h < g => After(mem, h) <= g
          BY <3>1 DEF Tiles
        <5> QED BY <1>1, <3>1, <3>3, <5>1
      <4>2. g < h \/ g = h
        BY <1>1, <3>1, <4>1
      <4> QED BY <2>3, <4>2
    <3> QED BY <1>1, <3>1, <3>2, <3>3
  <2> QED BY <2>2, <2>3
<1>4. end \in S /\ step[end] = end
  <2> HIDE DEF step, S
  <2> QED BY <1>2, <1>3, WalkEnds
<1>5. Fit(count) = IF IsHeader(mem, end) THEN end ELSE NULL
  BY DEF Fit
<1> HIDE DEF end
<1>6. ~ Passed(mem, end, count)
  <2> SUFFICES ASSUME Passed(mem, end, count) PROVE FALSE
    OBVIOUS
  <2>1. end \in H
    BY <1>4, NotHeader DEF Passed
  <2>2. step[end] = After(mem, end)
    BY <1>2, <1>4
  <2> QED BY <1>1, <1>4, <2>1, <2>2
<1>7. CASE end \in H
  <2>1. IsHeader(mem, end) /\ Size(mem, end) \in Nat /\ end # NULL
    BY <1>1, <1>7, Layout DEF Sizes, NULL
  <2> QED BY <1>5, <1>6, <1>7, <2>1 DEF Passed
<1>8. CASE end = Last
  <2>1. ~ IsHeader(mem, end)
    BY <1>8, NotHeader
  <2>2. \A g \in H : Passed(mem, g, count)
    BY <1>1, <1>4, <1>8
  <2> QED BY <1>5, <2>1, <2>2 DEF Passed
<1> QED BY <1>4, <1>7, <1>8

LEMMA TileFacts ==
  ASSUME NEW m, NEW H, Tiles(m, H)
  PROVE  \A h \in H :
           /\ IsBlock(m, h) /\ IsHeader(m, h) /\ Size(m, h) \in Nat
           /\ h \in Nat /\ 2 <= h /\ h + 5 <= Last
           /\ FooterOf(m, h) = h + 3 + Size(m, h)
           /\ After(m, h) = h + 5 + Size(m, h) /\ After(m, h) \in Nat
           /\ h < After(m, h) /\ After(m, h) <= Last
           /\ After(m, h) \in H \cup {Last}
           /\ \A g \in H : h < g => After(m, h) <= g
<1> SUFFICES ASSUME NEW h \in H
             PROVE  /\ IsBlock(m, h) /\ IsHeader(m, h) /\ Size(m, h) \in Nat
                    /\ h \in Nat /\ 2 <= h /\ h + 5 <= Last
                    /\ FooterOf(m, h) = h + 3 + Size(m, h)
                    /\ After(m, h) = h + 5 + Size(m, h) /\ After(m, h) \in Nat
                    /\ h < After(m, h) /\ After(m, h) <= Last
                    /\ After(m, h) \in H \cup {Last}
                    /\ \A g \in H : h < g => After(m, h) <= g
  OBVIOUS
<1>1. IsBlock(m, h) /\ IsHeader(m, h)
  BY DEF Tiles, IsBlock
<1>2. /\ After(m, h) \in H \cup {Last}
      /\ \A g \in H : h < g => After(m, h) <= g
  BY DEF Tiles
<1> QED BY <1>1, <1>2, BlockFacts

(* The walk to the left passes free blocks and ends behind a used one or   *)
(* at the padding.                                                         *)
LEMMA LeftMostProperties ==
  ASSUME NEW H, H \subseteq Address, Tiles(mem, H), NEW h \in H
  PROVE  /\ LeftMost(h) \in H /\ LeftMost(h) <= h
         /\ \A x \in H : LeftMost(h) <= x /\ x < h => ~ Used(mem, x)
         /\ \A g \in H : After(mem, g) = LeftMost(h) => Used(mem, g)
<1> DEFINE step == [a \in Address |->
                      LET f == a - FooterWords
                      IN  IF /\ mem[f] = FooterMagic
                             /\ IsHeader(mem, HeaderOf(mem, f))
                             /\ ~Used(mem, HeaderOf(mem, f))
                            THEN HeaderOf(mem, f)
                            ELSE a]
           S == {x \in H : x <= h /\ \A y \in H : x <= y /\ y < h => ~ Used(mem, y)}
           end == Walk(h, step)[HeapSize]
<1>1. \A x \in H : x \in Nat /\ x \in Address /\ x < After(mem, x)
                   /\ After(mem, x) \in Nat
  BY TileFacts
<1>2. ASSUME NEW a \in H, NEW g \in H, After(mem, g) = a
      PROVE  step[a] = IF ~ Used(mem, g) THEN g ELSE a
  <2>1. a - FooterWords = FooterOf(mem, g) /\ a \in Address
    BY <1>1, <1>2, TileFacts, Layout DEF Sizes
  <2>2. /\ mem[FooterOf(mem, g)] = FooterMagic
        /\ HeaderOf(mem, FooterOf(mem, g)) = g /\ IsHeader(mem, g)
    BY DEF Tiles, IsBlock
  <2> QED BY <2>1, <2>2
<1>3. step[First] = First
  BY <1>1, NotHeader DEF Tiles
<1>4. \A a \in H : a = First \/ \E g \in H : After(mem, g) = a
  BY DEF Tiles
<1> HIDE DEF step
<1>5. ASSUME NEW a \in S
      PROVE  step[a] \in S /\ step[a] <= a
  <2>1. CASE a = First
    BY <1>1, <1>3, <2>1
  <2>2. CASE a # First
    <3>1. PICK g \in H : After(mem, g) = a
      BY <1>4, <2>2
    <3>2. CASE Used(mem, g)
      BY <1>1, <1>2, <3>1, <3>2
    <3>3. CASE ~ Used(mem, g)
      <4>1. step[a] = g
        BY <1>2, <3>1, <3>3
      <4>2. g < a /\ g <= h
        BY <1>1, <3>1
      <4>3. ASSUME NEW y \in H, g <= y, y < h PROVE ~ Used(mem, y)
        <5>1. y = g \/ a <= y
          <6>1. g < y => After(mem, g) <= y
            BY TileFacts
          <6> QED BY <1>1, <3>1, <4>3, <6>1
        <5> QED BY <3>3, <4>3, <5>1
      <4> QED BY <1>1, <4>1, <4>2, <4>3
    <3> QED BY <3>2, <3>3
  <2> QED BY <2>1, <2>2
<1>6. h \in S /\ S \subseteq Address
  <2>1. \A y \in H : ~ (h <= y /\ y < h)
    BY <1>1
  <2> QED BY <1>1, <2>1
<1>7. end \in S /\ step[end] = end
  <2> HIDE DEF S
  <2> QED BY <1>5, <1>6, WalkEndsLeft
<1>8. LeftMost(h) = end
  BY DEF LeftMost, step
<1> HIDE DEF end
<1>9. \A g \in H : After(mem, g) = end => Used(mem, g)
  <2> SUFFICES ASSUME NEW g \in H, After(mem, g) = end, ~ Used(mem, g) PROVE FALSE
    OBVIOUS
  <2>1. step[end] = g
    BY <1>2, <1>7
  <2> QED BY <1>1, <1>7, <2>1
<1> QED BY <1>7, <1>8, <1>9

(* The same to the right. *)
LEMMA RightMostProperties ==
  ASSUME NEW H, H \subseteq Address, Tiles(mem, H), NEW h \in H
  PROVE  /\ RightMost(h) \in H /\ h <= RightMost(h)
         /\ \A x \in H : h < x /\ x <= RightMost(h) => ~ Used(mem, x)
         /\ After(mem, RightMost(h)) \in H => Used(mem, After(mem, RightMost(h)))
<1> DEFINE step == [a \in Address |->
                      LET r == After(mem, a)
                      IN  IF IsHeader(mem, r) /\ ~Used(mem, r) THEN r ELSE a]
           S == {x \in H : h <= x /\ \A y \in H : h < y /\ y <= x => ~ Used(mem, y)}
           end == Walk(h, step)[HeapSize]
<1>1. \A x \in H : x \in Nat /\ x \in Address /\ x < After(mem, x)
                   /\ After(mem, x) \in Nat
  BY TileFacts
<1>2. ASSUME NEW a \in H
      PROVE  step[a] = IF After(mem, a) \in H /\ ~ Used(mem, After(mem, a))
                         THEN After(mem, a) ELSE a
  <2>1. IsHeader(mem, After(mem, a)) <=> After(mem, a) \in H
    BY TileFacts, NotHeader
  <2> QED BY <1>1, <2>1
<1> HIDE DEF step
<1>3. ASSUME NEW a \in S
      PROVE  step[a] \in S /\ a <= step[a]
  <2> DEFINE r == After(mem, a)
  <2>1. CASE ~ (r \in H /\ ~ Used(mem, r))
    BY <1>1, <1>2, <2>1
  <2>2. CASE r \in H /\ ~ Used(mem, r)
    <3>1. step[a] = r /\ a < r /\ h <= r
      BY <1>1, <1>2, <2>2
    <3>2. ASSUME NEW y \in H, h < y, y <= r PROVE ~ Used(mem, y)
      <4>1. y = r \/ y <= a
        <5>1. a < y => r <= y
          BY TileFacts
        <5> QED BY <1>1, <2>2, <3>2, <5>1
      <4> QED BY <2>2, <3>2, <4>1
    <3> QED BY <1>1, <2>2, <3>1, <3>2
  <2> QED BY <2>1, <2>2
<1>4. h \in S /\ S \subseteq Address
  <2>1. \A y \in H : ~ (h < y /\ y <= h)
    BY <1>1
  <2> QED BY <1>1, <2>1
<1>5. end \in S /\ step[end] = end
  <2> HIDE DEF S
  <2> QED BY <1>3, <1>4, WalkEnds
<1>6. RightMost(h) = end
  BY DEF RightMost, step
<1> HIDE DEF end
<1>7. After(mem, end) \in H => Used(mem, After(mem, end))
  BY <1>1, <1>2, <1>5
<1> QED BY <1>5, <1>6, <1>7

-----------------------------------------------------------------------------
(* What allocate and free make of the blocks. *)

(* The words in which two memories may differ, and where they lie. *)
Differ(m, n, changed) ==
  changed \in SUBSET Int /\ \A a \in Address \ changed : n[a] = m[a]
Within(changed, from, to) == \A a \in changed : from <= a /\ a < to
Outside(changed, from, to) == \A a \in changed : a < from \/ to <= a

(* Other blocks' tags are not where a block of the heap is. *)
LEMMA KeptTiles ==
  ASSUME NEW m, NEW n, NEW H, Tiles(m, H), NEW changed, Differ(m, n, changed),
         NEW h \in H, Outside(changed, h, After(m, h))
  PROVE  /\ IsBlock(n, h)
         /\ Size(n, h) = Size(m, h) /\ (Used(n, h) <=> Used(m, h))
         /\ After(n, h) = After(m, h)
<1>1. /\ IsBlock(m, h) /\ h \in Nat /\ Size(m, h) \in Nat
      /\ FooterOf(m, h) = h + 3 + Size(m, h)
      /\ After(m, h) = h + 5 + Size(m, h)
  BY TileFacts
<1>2. \A a \in Int : h <= a /\ a < After(m, h) => n[a] = m[a]
  <2>1. \A a \in Int : h <= a /\ a < After(m, h) => a \in Address
    BY <1>1, TileFacts, Layout DEF Sizes, Address
  <2> QED BY <1>1, <2>1 DEF Differ, Outside
<1>3. SameTags(m, n, h)
  <2>1. /\ h \in Int /\ h <= h /\ h < After(m, h)
        /\ h + 1 \in Int /\ h <= h + 1 /\ h + 1 < After(m, h)
        /\ h + 2 \in Int /\ h <= h + 2 /\ h + 2 < After(m, h)
        /\ FooterOf(m, h) \in Int /\ h <= FooterOf(m, h)
        /\ FooterOf(m, h) < After(m, h)
        /\ FooterOf(m, h) + 1 \in Int /\ h <= FooterOf(m, h) + 1
        /\ FooterOf(m, h) + 1 < After(m, h)
    BY <1>1
  <2> QED BY <1>2, <2>1 DEF SameTags
<1> QED BY <1>1, <1>3, KeptBlock

(* The padding stays where it is. *)
LEMMA KeptPadding ==
  ASSUME NEW m, NEW n, NEW H, Tiles(m, H), NEW changed, Differ(m, n, changed),
         Within(changed, First, Last)
  PROVE  /\ \A a \in 0 .. First - 1 : n[a] = 0
         /\ \A a \in Last .. HeapSize - 1 : n[a] = 0
<1>1. ASSUME NEW a \in 0 .. First - 1 PROVE n[a] = 0
  <2>1. a \in Address /\ a \notin changed
    BY Layout DEF Sizes, Address, Within
  <2> QED BY <2>1 DEF Tiles, Differ
<1>2. ASSUME NEW a \in Last .. HeapSize - 1 PROVE n[a] = 0
  <2>1. a \in Address /\ a \notin changed
    BY Layout DEF Sizes, Address, Within
  <2> QED BY <2>1 DEF Tiles, Differ
<1> QED BY <1>1, <1>2

(* A block is marked used, or its payload written. *)
LEMMA SameBlocks ==
  ASSUME NEW m, NEW n, NEW H, Tiles(m, H), NEW changed, Differ(m, n, changed),
         NEW h \in H, IsBlock(n, h), Size(n, h) = Size(m, h),
         Within(changed, h + 1, FooterOf(m, h))
  PROVE  /\ Tiles(n, H)
         /\ \A g \in H : Size(n, g) = Size(m, g) /\ After(n, g) = After(m, g)
         /\ \A g \in H \ {h} : Used(n, g) <=> Used(m, g)
<1>1. /\ h \in Nat /\ 2 <= h /\ Size(m, h) \in Nat
      /\ FooterOf(m, h) = h + 3 + Size(m, h)
      /\ After(m, h) = h + 5 + Size(m, h) /\ After(m, h) <= Last
      /\ Last \in Nat /\ First = 2
  BY TileFacts, Layout DEF Sizes
<1>2. ASSUME NEW g \in H \ {h}
      PROVE  /\ IsBlock(n, g) /\ Size(n, g) = Size(m, g)
             /\ After(n, g) = After(m, g) /\ (Used(n, g) <=> Used(m, g))
  <2>1. /\ g \in Nat /\ After(m, g) \in Nat
        /\ After(m, g) <= h \/ After(m, h) <= g
    <3>1. g \in Nat /\ After(m, g) \in Nat
      BY TileFacts
    <3>2. (g < h => After(m, g) <= h) /\ (h < g => After(m, h) <= g)
      BY TileFacts
    <3> QED BY <1>1, <3>1, <3>2
  <2>2. Outside(changed, g, After(m, g))
    BY <1>1, <2>1 DEF Outside, Within, Differ
  <2> QED BY <2>2, KeptTiles
<1>3. After(n, h) = After(m, h)
  BY DEF After, FooterOf
<1>4. \A g \in H : /\ IsBlock(n, g) /\ Size(n, g) = Size(m, g)
                   /\ After(n, g) = After(m, g)
  BY <1>2, <1>3
<1>5. Within(changed, First, Last)
  BY <1>1 DEF Within, Differ
<1>6. /\ \A a \in 0 .. First - 1 : n[a] = 0
      /\ \A a \in Last .. HeapSize - 1 : n[a] = 0
  BY <1>5, KeptPadding
<1>7. Tiles(n, H)
  BY <1>4, <1>6 DEF Tiles
<1> QED BY <1>2, <1>4, <1>7

(* allocate takes a block as it is. *)
Marked(m, n, h) == n = [m EXCEPT ![h + 1] = 1]

LEMMA MarkUsed ==
  ASSUME NEW m \in [Address -> Word], NEW H, H \subseteq Address, Tiles(m, H),
         NEW h \in H, NEW n, Marked(m, n, h)
  PROVE  /\ n \in [Address -> Word] /\ Tiles(n, H)
         /\ \A g \in H : Size(n, g) = Size(m, g) /\ After(n, g) = After(m, g)
         /\ Used(n, h)
         /\ \A g \in H \ {h} : Used(n, g) <=> Used(m, g)
<1>1. /\ IsBlock(m, h) /\ h \in Nat /\ 2 <= h /\ Size(m, h) \in Nat
      /\ FooterOf(m, h) = h + 3 + Size(m, h)
      /\ After(m, h) = h + 5 + Size(m, h) /\ After(m, h) <= Last
      /\ Last = HeapSize - 3 /\ HeapSize \in Nat
  BY TileFacts, Layout DEF Sizes
<1>2. /\ h \in Address /\ h + 1 \in Address /\ h + 2 \in Address
      /\ h + 1 # h /\ h + 1 # h + 2
      /\ FooterOf(m, h) \in Address /\ FooterOf(m, h) + 1 \in Address
      /\ FooterOf(m, h) # h + 1 /\ FooterOf(m, h) + 1 # h + 1
  BY <1>1 DEF Address
<1>3. /\ n[h + 1] = 1 /\ n[h] = m[h] /\ n[h + 2] = m[h + 2]
      /\ n[FooterOf(m, h)] = m[FooterOf(m, h)]
      /\ n[FooterOf(m, h) + 1] = m[FooterOf(m, h) + 1]
      /\ \A a \in Address \ {h + 1} : n[a] = m[a]
  BY <1>2 DEF Marked
<1>4. n \in [Address -> Word]
  BY <1>2 DEF Word, Marked
<1>5. IsBlock(n, h) /\ Size(n, h) = Size(m, h) /\ Used(n, h)
  BY <1>1, <1>3 DEF IsBlock, IsHeader, Size, Used, After, FooterOf, HeaderOf
<1> DEFINE changed == {h + 1}
<1>6. Within(changed, h + 1, FooterOf(m, h))
  BY <1>1 DEF Within
<1>7. Differ(m, n, changed)
  BY <1>1, <1>3 DEF Differ
<1> HIDE DEF changed
<1>8. /\ Tiles(n, H)
      /\ \A g \in H : Size(n, g) = Size(m, g) /\ After(n, g) = After(m, g)
      /\ \A g \in H \ {h} : Used(n, g) <=> Used(m, g)
  BY <1>5, <1>6, <1>7, SameBlocks
<1> QED BY <1>4, <1>5, <1>8

(* The owner of a region writes it. *)
LEMMA WritePayload ==
  ASSUME NEW m \in [Address -> Word], NEW H, H \subseteq Address, Tiles(m, H),
         NEW h \in H, NEW count \in Nat, count <= Size(m, h),
         NEW n, n = [a \in Address |->
                       IF h + HeaderWords <= a /\ a < h + HeaderWords + count
                         THEN Data ELSE m[a]]
  PROVE  /\ n \in [Address -> Word] /\ Tiles(n, H)
         /\ \A g \in H : /\ Size(n, g) = Size(m, g) /\ After(n, g) = After(m, g)
                         /\ Used(n, g) <=> Used(m, g)
<1> DEFINE changed == {a \in Int : h + 3 <= a /\ a < h + 3 + count}
<1>1. /\ IsBlock(m, h) /\ h \in Nat /\ 2 <= h /\ Size(m, h) \in Nat
      /\ FooterOf(m, h) = h + 3 + Size(m, h)
      /\ After(m, h) = h + 5 + Size(m, h) /\ After(m, h) <= Last
      /\ Last = HeapSize - 3 /\ HeapSize \in Nat /\ HeaderWords = 3
  BY TileFacts, Layout DEF Sizes
<1>2. Differ(m, n, changed) /\ Within(changed, h + 1, FooterOf(m, h))
  BY <1>1 DEF Address, Differ, Within
<1>3. /\ h \in Address \ changed /\ h + 1 \in Address \ changed
      /\ h + 2 \in Address \ changed
      /\ FooterOf(m, h) \in Address \ changed
      /\ FooterOf(m, h) + 1 \in Address \ changed
  BY <1>1 DEF Address
<1> HIDE DEF changed
<1>4. SameTags(m, n, h)
  BY <1>2, <1>3 DEF SameTags, Differ
<1>5. IsBlock(n, h) /\ Size(n, h) = Size(m, h) /\ (Used(n, h) <=> Used(m, h))
  BY <1>1, <1>4, KeptBlock
<1>6. n \in [Address -> Word]
  BY DEF Word
<1>7. /\ Tiles(n, H)
      /\ \A g \in H : Size(n, g) = Size(m, g) /\ After(n, g) = After(m, g)
      /\ \A g \in H \ {h} : Used(n, g) <=> Used(m, g)
  BY <1>2, <1>5, SameBlocks
<1>8. \A g \in H : Used(n, g) <=> Used(m, g)
  BY <1>5, <1>7
<1> QED BY <1>6, <1>7, <1>8

(* allocate cuts a block: the second part is a new, free block. *)
LEMMA SplitBlocks ==
  ASSUME NEW H, H \subseteq Address, mem \in [Address -> Word], Tiles(mem, H),
         NEW h \in H, NEW count \in Nat, Size(mem, h) > count + TagWords,
         NEW n, n = Split(h, count),
         NEW nh, nh = h + TagWords + count
  PROVE  /\ n \in [Address -> Word] /\ nh \in Address /\ nh \notin H
         /\ Tiles(n, H \cup {nh})
         /\ Used(n, h) /\ Size(n, h) = count /\ After(n, h) = nh
         /\ ~ Used(n, nh) /\ After(n, nh) = After(mem, h)
         /\ \A g \in H \ {h} : /\ Size(n, g) = Size(mem, g)
                               /\ After(n, g) = After(mem, g)
                               /\ Used(n, g) <=> Used(mem, g)
<1> DEFINE size == Size(mem, h)
           nf == h + 3 + count
           f == h + 3 + size
           changed == {h + 1, h + 2, nf, nf + 1, nh, nh + 1, nh + 2, f + 1}
<1>1. /\ IsBlock(mem, h) /\ h \in Nat /\ 2 <= h /\ size \in Nat
      /\ FooterOf(mem, h) = f
      /\ After(mem, h) = h + 5 + size /\ After(mem, h) <= Last
      /\ Last = HeapSize - 3 /\ HeapSize \in Nat
      /\ HeaderWords = 3 /\ FooterWords = 2 /\ TagWords = 5 /\ First = 2
      /\ Last \in Nat
  BY TileFacts, Layout DEF Sizes
<1>2. /\ nh = h + 5 + count /\ nf + 2 = nh /\ nf \in Nat /\ nh \in Nat
      /\ size > count + 5 /\ f \in Nat
      /\ h < nf /\ h + 1 < nf /\ h + 2 < nf /\ nf + 1 < nh /\ nh + 2 < f
      /\ h < h + 1 /\ h + 1 < h + 2 /\ f + 2 = After(mem, h)
      /\ size - count - 5 \in Nat
  BY <1>1
<1>3. n = [mem EXCEPT ![h + 1] = 1, ![h + 2] = count,
                      ![nf] = FooterMagic, ![nf + 1] = h,
                      ![nh] = HeaderMagic, ![nh + 1] = 0,
                      ![nh + 2] = size - count - 5, ![f + 1] = nh]
  <2>1. h + HeaderWords + count = nf /\ nf + FooterWords = nh
        /\ FooterOf(mem, h) + 1 = f + 1 /\ Size(mem, h) - count - TagWords = size - count - 5
    BY <1>1, <1>2
  <2> HIDE DEF size, nf, f
  <2> QED BY <2>1 DEF Split
<1>4. /\ h + 1 \in Address /\ h + 2 \in Address /\ nf \in Address
      /\ nf + 1 \in Address /\ nh \in Address /\ nh + 1 \in Address
      /\ nh + 2 \in Address /\ f \in Address /\ f + 1 \in Address /\ h \in Address
  <2>1. \A a \in Int : h <= a /\ a < h + 5 + size => a \in Address
    BY <1>1 DEF Address
  <2>2. /\ nf < h + 5 + size /\ nf + 1 < h + 5 + size /\ nh < h + 5 + size
        /\ nh + 1 < h + 5 + size /\ nh + 2 < h + 5 + size
        /\ h <= nf /\ h <= nf + 1 /\ h <= nh /\ h <= nh + 1 /\ h <= nh + 2
    BY <1>1, <1>2
  <2>3. nf \in Address /\ nf + 1 \in Address
    BY <1>2, <2>1, <2>2
  <2>4. nh \in Address /\ nh + 1 \in Address /\ nh + 2 \in Address
    BY <1>2, <2>1, <2>2
  <2>5. f \in Address /\ f + 1 \in Address
    BY <1>1, <2>1
  <2>6. h \in Address /\ h + 1 \in Address /\ h + 2 \in Address
    BY <1>1, <2>1
  <2> QED BY <2>3, <2>4, <2>5, <2>6
<1>5. changed \in SUBSET Int /\ \A a \in changed : h < a /\ a < After(mem, h)
  BY <1>1, <1>2
<1> HIDE DEF size, nf, f
<1>6. /\ n[h + 1] = 1 /\ n[h + 2] = count /\ n[nf] = FooterMagic
      /\ n[nf + 1] = h /\ n[nh] = HeaderMagic /\ n[nh + 1] = 0
      /\ n[nh + 2] = size - count - 5 /\ n[f + 1] = nh
      /\ \A a \in Address \ changed : n[a] = mem[a]
  BY <1>1, <1>2, <1>3, <1>4
<1>7. n[h] = mem[h] /\ n[f] = mem[f]
  <2>1. h \notin changed /\ f \notin changed
    BY <1>1, <1>2
  <2> QED BY <1>4, <1>6, <2>1
<1>8. n \in [Address -> Word]
  <2>1. {1, 0, count, h, nh, size - count - 5, FooterMagic, HeaderMagic} \subseteq Word
    BY <1>1, <1>2 DEF Word
  <2> QED BY <1>3, <2>1
<1>9. /\ IsBlock(n, h) /\ Used(n, h) /\ Size(n, h) = count /\ After(n, h) = nh
  <2>1. Size(n, h) = count /\ FooterOf(n, h) = nf /\ After(n, h) = nh /\ Used(n, h)
    BY <1>1, <1>2, <1>6 DEF Size, FooterOf, After, Used, nf
  <2>2. mem[h] = HeaderMagic /\ h \in First .. Last - TagWords /\ nh <= Last
    BY <1>1, <1>2 DEF IsBlock, IsHeader
  <2> QED BY <1>1, <1>6, <1>7, <2>1, <2>2 DEF IsBlock, IsHeader, HeaderOf
<1>10. /\ IsBlock(n, nh) /\ ~ Used(n, nh) /\ After(n, nh) = After(mem, h)
  <2>1. /\ Size(n, nh) = size - count - 5 /\ FooterOf(n, nh) = f
        /\ After(n, nh) = After(mem, h) /\ ~ Used(n, nh)
    <3>1. nh + 3 + (size - count - 5) = f
      BY <1>1, <1>2 DEF f
    <3> QED BY <1>1, <1>2, <1>6, <3>1 DEF Size, FooterOf, After, Used
  <2>2. mem[f] = FooterMagic
    BY <1>1 DEF IsBlock
  <2>3. nh \in First .. Last - TagWords
    BY <1>1, <1>2
  <2> QED BY <1>1, <1>2, <1>6, <1>7, <2>1, <2>2, <2>3
          DEF IsBlock, IsHeader, HeaderOf
<1> HIDE DEF changed
<1>11. ASSUME NEW g \in H \ {h}
       PROVE  /\ IsBlock(n, g) /\ Size(n, g) = Size(mem, g)
              /\ After(n, g) = After(mem, g) /\ (Used(n, g) <=> Used(mem, g))
              /\ g \in Nat /\ After(mem, g) \in Nat /\ g < After(mem, g)
              /\ After(mem, g) <= h \/ After(mem, h) <= g
  <2>1. g \in Nat /\ After(mem, g) \in Nat /\ g < After(mem, g)
    BY TileFacts
  <2>2. After(mem, g) <= h \/ After(mem, h) <= g
    <3>1. (g < h => After(mem, g) <= h) /\ (h < g => After(mem, h) <= g)
      BY TileFacts
    <3> QED BY <1>1, <2>1, <3>1
  <2>3. Outside(changed, g, After(mem, g))
    BY <1>1, <1>5, <2>1, <2>2 DEF Outside
  <2>4. Differ(mem, n, changed)
    BY <1>5, <1>6 DEF Differ
  <2>5. /\ IsBlock(n, g) /\ Size(n, g) = Size(mem, g)
        /\ After(n, g) = After(mem, g) /\ (Used(n, g) <=> Used(mem, g))
    BY <2>3, <2>4, KeptTiles
  <2> QED BY <2>1, <2>2, <2>5
<1>12. nh \notin H
  BY <1>1, <1>2, <1>11
<1>13. Tiles(n, H \cup {nh})
  <2>1. First \in H \cup {nh}
    BY DEF Tiles
  <2>2. ASSUME NEW g \in H \cup {nh} PROVE IsBlock(n, g)
    BY <1>9, <1>10, <1>11
  <2>3. ASSUME NEW g \in H \cup {nh} PROVE After(n, g) \in H \cup {nh} \cup {Last}
    <3>1. g \in H => After(mem, g) \in H \cup {Last}
      BY TileFacts
    <3>2. After(mem, h) \in H \cup {Last}
      BY TileFacts
    <3> QED BY <1>9, <1>10, <1>11, <3>1, <3>2
  <2>4. ASSUME NEW g \in H \cup {nh}, g # First
        PROVE  \E x \in H \cup {nh} : After(n, x) = g
    <3>1. CASE g = nh
      BY <1>9, <3>1
    <3>2. CASE g \in H
      <4>1. PICK x \in H : After(mem, x) = g
        BY <2>4, <3>2 DEF Tiles
      <4> QED BY <1>10, <1>11, <4>1
    <3> QED BY <3>1, <3>2
  <2>5. ASSUME NEW g \in H \cup {nh}, NEW x \in H \cup {nh}, g < x
        PROVE  After(n, g) <= x
    <3>1. CASE g = h
      <4>1. x = nh \/ After(mem, h) <= x
        BY <1>1, <1>2, <1>11, <2>5, <3>1
      <4>2. x \in Nat
        BY <1>2, <1>11, <1>1
      <4> QED BY <1>1, <1>2, <1>9, <3>1, <4>1, <4>2
    <3>2. CASE g = nh
      <4>1. x \in H \ {h}
        BY <1>1, <1>2, <2>5, <3>2
      <4> QED BY <1>1, <1>2, <1>10, <1>11, <2>5, <3>2, <4>1
    <3>3. CASE g \in H \ {h}
      <4>1. CASE x \in H
        <5>1. g < x => After(mem, g) <= x
          BY <3>3, <4>1, TileFacts
        <5> QED BY <1>11, <2>5, <3>3, <5>1
      <4>2. CASE x = nh
        BY <1>1, <1>2, <1>11, <2>5, <3>3, <4>2
      <4> QED BY <4>1, <4>2
    <3> QED BY <3>1, <3>2, <3>3
  <2>6. Within(changed, First, Last)
    <3>1. \A a \in changed : a \in Int /\ h < a /\ a < After(mem, h)
      BY <1>5
    <3> QED BY <1>1, <3>1 DEF Within
  <2>7. /\ \A a \in 0 .. First - 1 : n[a] = 0
        /\ \A a \in Last .. HeapSize - 1 : n[a] = 0
    <3>1. Differ(mem, n, changed)
      BY <1>5, <1>6 DEF Differ
    <3> QED BY <2>6, <3>1, KeptPadding
  <2> QED BY <2>1, <2>2, <2>3, <2>4, <2>5, <2>7 DEF Tiles
<1> QED BY <1>4, <1>8, <1>9, <1>10, <1>11, <1>12, <1>13

(* free makes one block of those from left to right, or marks a single one *)
(* free, which comes to the same.                                          *)
InOrder(left, right) == left <= right
Kept(H, left, right) == {x \in H : x <= left \/ right < x}
Merged(n, left, right) ==
  n = [mem EXCEPT ![left + 1] = 0,
                  ![left + 2] = FooterOf(mem, right) - left - HeaderWords,
                  ![FooterOf(mem, right) + 1] = left]

LEMMA MergeBlocks ==
  ASSUME NEW H, H \subseteq Address, mem \in [Address -> Word], Tiles(mem, H),
         NEW left \in H, NEW right \in H, InOrder(left, right),
         NEW n, Merged(n, left, right), NEW K, K = Kept(H, left, right)
  PROVE  /\ n \in [Address -> Word]
         /\ Tiles(n, K)
         /\ ~ Used(n, left) /\ After(n, left) = After(mem, right)
         /\ \A g \in K \ {left} : /\ Size(n, g) = Size(mem, g)
                                  /\ After(n, g) = After(mem, g)
                                  /\ Used(n, g) <=> Used(mem, g)
<1> USE DEF Kept, InOrder
<1> DEFINE f == FooterOf(mem, right)
<1>1. /\ IsBlock(mem, left) /\ IsBlock(mem, right)
      /\ left \in Nat /\ right \in Nat /\ 2 <= left /\ Size(mem, right) \in Nat
      /\ f = right + 3 + Size(mem, right)
      /\ After(mem, right) = right + 5 + Size(mem, right)
      /\ After(mem, right) <= Last
      /\ Last = HeapSize - 3 /\ HeapSize \in Nat /\ Last \in Nat
      /\ HeaderWords = 3 /\ FooterWords = 2 /\ TagWords = 5 /\ First = 2
  BY TileFacts, Layout DEF Sizes
<1> HIDE DEF f
<1> DEFINE size == f - left - 3
           changed == {left + 1, left + 2, f + 1}
<1>2. /\ f \in Nat /\ f + 2 = After(mem, right) /\ size \in Nat
      /\ left + 2 < f /\ left + 3 + size = f
      /\ left + 1 \in Address /\ left + 2 \in Address /\ left \in Address
      /\ f \in Address /\ f + 1 \in Address
  <2>1. /\ f \in Nat /\ f + 2 = After(mem, right) /\ f - left - 3 \in Nat
        /\ left + 2 < f /\ left + 3 + (f - left - 3) = f
        /\ f + 1 < HeapSize
    BY <1>1
  <2>2. /\ left + 1 \in 0 .. HeapSize - 1 /\ left + 2 \in 0 .. HeapSize - 1
        /\ left \in 0 .. HeapSize - 1
        /\ f \in 0 .. HeapSize - 1 /\ f + 1 \in 0 .. HeapSize - 1
    BY <1>1, <2>1
  <2> QED BY <2>1, <2>2 DEF Address
<1>3. n = [mem EXCEPT ![left + 1] = 0, ![left + 2] = size, ![f + 1] = left]
  BY <1>1 DEF Merged, f
<1>4. changed \in SUBSET Int /\ \A a \in changed : left < a /\ a < After(mem, right)
  BY <1>1, <1>2
<1> HIDE DEF size
<1>5. /\ n[left + 1] = 0 /\ n[left + 2] = size /\ n[f + 1] = left
      /\ \A a \in Address \ changed : n[a] = mem[a]
  BY <1>1, <1>2, <1>3
<1>6. n[left] = mem[left] /\ n[f] = mem[f]
  BY <1>1, <1>2, <1>5
<1>7. n \in [Address -> Word]
  <2>1. {0, size, left} \subseteq Word
    BY <1>1, <1>2 DEF Word
  <2> QED BY <1>3, <2>1
<1>8. IsBlock(n, left) /\ ~ Used(n, left) /\ After(n, left) = After(mem, right)
  <2>1. /\ Size(n, left) = size /\ FooterOf(n, left) = f
        /\ After(n, left) = After(mem, right) /\ ~ Used(n, left)
    BY <1>1, <1>2, <1>5 DEF Size, FooterOf, After, Used
  <2>2. mem[f] = FooterMagic
    BY <1>1 DEF IsBlock, f
  <2>3. mem[left] = HeaderMagic /\ left \in First .. Last - TagWords
    BY <1>1 DEF IsBlock, IsHeader
  <2> QED BY <1>1, <1>2, <1>5, <1>6, <2>1, <2>2, <2>3
          DEF IsBlock, IsHeader, HeaderOf
<1> HIDE DEF changed
<1>9. Differ(mem, n, changed)
  BY <1>4, <1>5 DEF Differ
<1>10. \A g \in H : g \in Nat /\ After(mem, g) \in Nat /\ g < After(mem, g)
  BY TileFacts
<1>11. ASSUME NEW g \in K \ {left}
       PROVE  /\ g \in H /\ IsBlock(n, g) /\ Size(n, g) = Size(mem, g)
              /\ After(n, g) = After(mem, g) /\ (Used(n, g) <=> Used(mem, g))
              /\ \/ g < left /\ After(mem, g) <= left
                 \/ right < g /\ After(mem, right) <= g
  <2>1. g \in H /\ (g < left \/ right < g)
    BY <1>1, <1>10
  <2>2. (g < left => After(mem, g) <= left) /\ (right < g => After(mem, right) <= g)
    BY <2>1, TileFacts
  <2>3. Outside(changed, g, After(mem, g))
    BY <1>1, <1>4, <1>10, <2>1, <2>2 DEF Outside
  <2>4. /\ IsBlock(n, g) /\ Size(n, g) = Size(mem, g)
        /\ After(n, g) = After(mem, g) /\ (Used(n, g) <=> Used(mem, g))
    BY <1>9, <2>1, <2>3, KeptTiles
  <2> QED BY <2>1, <2>2, <2>4
<1>12. left \in K
  BY <1>1
<1>13. Tiles(n, K)
  <2>1. First \in K
    <3>1. First \in H
      BY DEF Tiles
    <3> QED BY <1>1, <3>1
  <2>2. ASSUME NEW g \in K PROVE IsBlock(n, g)
    BY <1>8, <1>11
  <2>3. ASSUME NEW g \in K PROVE After(n, g) \in K \cup {Last}
    <3>1. CASE g = left
      <4>1. After(mem, right) \in H \cup {Last} /\ right < After(mem, right)
        BY TileFacts
      <4> QED BY <1>8, <3>1, <4>1
    <3>2. CASE g # left
      <4>1. g \in H /\ After(n, g) = After(mem, g) /\ After(mem, g) \in H \cup {Last}
        BY <1>11, <3>2, TileFacts
      <4>2. After(mem, g) <= left \/ right < After(mem, g)
        BY <1>1, <1>10, <1>11, <3>2, <4>1
      <4> QED BY <4>1, <4>2
    <3> QED BY <3>1, <3>2
  <2>4. ASSUME NEW g \in K, g # First
        PROVE  \E x \in K : After(n, x) = g
    <3>1. PICK x \in H : After(mem, x) = g
      BY <2>4 DEF Tiles
    <3>2. CASE x < left \/ right < x
      <4>1. x \in K \ {left}
        BY <1>1, <1>10, <3>2
      <4> QED BY <1>11, <3>1, <4>1
    <3>3. CASE ~ (x < left \/ right < x)
      <4>1. x = right
        <5>1. x < right => After(mem, x) <= right
          BY TileFacts
        <5>2. left < g
          BY <1>1, <1>10, <3>1, <3>3
        <5>3. right < g
          BY <1>1, <1>10, <5>2
        <5> QED BY <1>1, <1>10, <3>1, <3>3, <5>1, <5>3
      <4> QED BY <1>8, <1>12, <3>1, <4>1
    <3> QED BY <3>2, <3>3
  <2>5. ASSUME NEW g \in K, NEW x \in K, g < x
        PROVE  After(n, g) <= x
    <3>1. CASE g = left
      <4>1. x \in K \ {left} /\ ~ (x < left)
        BY <1>1, <1>10, <2>5, <3>1
      <4> QED BY <1>8, <1>11, <3>1, <4>1
    <3>2. CASE g # left
      <4>1. g < x => After(mem, g) <= x
        BY TileFacts
      <4> QED BY <1>11, <2>5, <3>2, <4>1
    <3> QED BY <3>1, <3>2
  <2>6. Within(changed, First, Last)
    <3>1. \A a \in changed : a \in Int /\ left < a /\ a < After(mem, right)
      BY <1>4
    <3> QED BY <1>1, <3>1 DEF Within
  <2>7. /\ \A a \in 0 .. First - 1 : n[a] = 0
        /\ \A a \in Last .. HeapSize - 1 : n[a] = 0
    BY <1>9, <2>6, KeptPadding
  <2> QED BY <2>1, <2>2, <2>3, <2>4, <2>5, <2>7 DEF Tiles
<1> QED BY <1>7, <1>8, <1>11, <1>13

-----------------------------------------------------------------------------
(* What the headers of the chain are. *)

LEMMA ChainIsTiles ==
  ASSUME NEW H, H \subseteq Address, Tiles(mem, H)
  PROVE  Chain = H
<1> DEFINE step == [h \in Address |-> IF IsHeader(mem, h) THEN After(mem, h) ELSE h]
           at == Walk(First, step)
           S == H \cup {Last}
           passed == {at[n] : n \in 0 .. HeapSize}
           missed == {h \in H : h \notin passed}
<1>1. /\ \A h \in H : /\ h \in Nat /\ h \in Address /\ IsHeader(mem, h)
                      /\ h < After(mem, h) /\ h < HeapSize
                      /\ After(mem, h) \in H \cup {Last}
      /\ Last \in Address /\ First \in H /\ HeapSize \in Nat
  <2>1. Last = HeapSize - 3 /\ HeapSize \in Nat /\ HeapSize > 10
    BY Layout DEF Sizes
  <2>2. Last \in Address /\ First \in H
    BY <2>1 DEF Address, Tiles
  <2>3. ASSUME NEW h \in H
        PROVE  /\ h \in Nat /\ h \in Address /\ IsHeader(mem, h)
               /\ h < After(mem, h) /\ h < HeapSize
               /\ After(mem, h) \in H \cup {Last}
    <3>1. /\ h \in Nat /\ IsHeader(mem, h) /\ h + 5 <= Last
          /\ h < After(mem, h) /\ After(mem, h) \in H \cup {Last}
      BY TileFacts
    <3> QED BY <2>1, <3>1
  <2> QED BY <2>1, <2>2, <2>3
<1>2. ~ IsHeader(mem, Last)
  BY NotHeader
<1>3. \A h \in S : step[h] \in S
  BY <1>1, <1>2
<1>4. \A h \in H : step[h] = After(mem, h)
  BY <1>1
<1> HIDE DEF step
<1>5. at = [n \in 0 .. HeapSize |-> IF n = 0 THEN First ELSE step[at[n - 1]]]
  BY WalkEquation
<1>6. \A n \in 0 .. HeapSize : at[n] \in S
  BY <1>1, <1>3, WalkStays
<1>7. Chain = {h \in passed : IsHeader(mem, h)}
  BY DEF Chain, step
<1> HIDE DEF at
<1>8. \A n \in 0 .. HeapSize : at[n] \in H => n <= at[n]
  <2> DEFINE slow == {n \in 0 .. HeapSize : at[n] \in H /\ ~ (n <= at[n])}
  <2> SUFFICES ASSUME slow # {} PROVE FALSE
    OBVIOUS
  <2>1. slow \subseteq Nat
    BY <1>1
  <2>2. PICK n \in slow : \A y \in slow : n <= y
    BY <2>1, LeastOfNat
  <2>3. n # 0 /\ n \in Nat
    BY <1>1, <2>1, <2>2
  <2>4. n - 1 \in 0 .. HeapSize /\ n - 1 \notin slow
    BY <1>1, <2>2, <2>3
  <2>5. at[n] = step[at[n - 1]] /\ at[n - 1] \in S /\ at[n] \in H
    BY <1>5, <1>6, <2>2, <2>3, <2>4
  <2>6. at[n - 1] # Last
    <3>1. step[Last] = Last
      BY <1>1, <1>2 DEF step
    <3>2. Last \notin H
      BY <1>1, <1>2
    <3> QED BY <2>5, <3>1, <3>2
  <2>7. at[n - 1] \in H /\ at[n - 1] < at[n] /\ n - 1 <= at[n - 1]
    BY <1>1, <1>4, <2>4, <2>5, <2>6
  <2>8. at[n - 1] \in Nat /\ at[n] \in Nat
    BY <1>1, <2>5, <2>7
  <2> QED BY <2>2, <2>3, <2>7, <2>8
<1>9. missed = {}
  <2> SUFFICES ASSUME missed # {} PROVE FALSE
    OBVIOUS
  <2>1. missed \subseteq Nat
    BY <1>1
  <2>2. PICK h \in missed : \A y \in missed : h <= y
    BY <2>1, LeastOfNat
  <2>3. First \in passed
    <3>1. 0 \in 0 .. HeapSize
      BY <1>1
    <3>2. at[0] = First
      BY <1>5, <3>1
    <3> QED BY <3>1, <3>2
  <2>4. h # First /\ h \in H
    BY <2>2, <2>3
  <2>5. PICK g \in H : After(mem, g) = h
    BY <2>4 DEF Tiles
  <2>6. g < h /\ g \in passed
    <3>1. g < h /\ ~ (h <= g)
      BY <1>1, <2>4, <2>5
    <3> QED BY <2>2, <3>1
  <2>7. PICK n \in 0 .. HeapSize : at[n] = g
    BY <2>6
  <2>8. n <= g /\ g < HeapSize /\ g \in Nat
    BY <1>1, <1>8, <2>7
  <2>9. n + 1 \in 0 .. HeapSize /\ n + 1 # 0 /\ (n + 1) - 1 = n
    BY <1>1, <2>8
  <2>10. at[n + 1] = h
    BY <1>4, <1>5, <2>5, <2>7, <2>9
  <2> QED BY <2>2, <2>9, <2>10
<1>10. \A h \in passed : IsHeader(mem, h) => h \in H
  BY <1>2, <1>6
<1> QED BY <1>1, <1>7, <1>9, <1>10

-----------------------------------------------------------------------------
(* The steps. *)

LEMMA InitIInv == Init => IInv
<1> SUFFICES ASSUME Init PROVE IInv
  OBVIOUS
<1> DEFINE size == HeapSize - 10
           f == HeapSize - 5
<1>1. /\ First = 2 /\ Last = HeapSize - 3 /\ FooterWords = 2
      /\ HeaderWords = 3 /\ TagWords = 5 /\ HeapSize \in Nat /\ HeapSize > 10
      /\ Last - First - TagWords = size /\ Last - FooterWords = f
      /\ size \in Nat /\ f \in Nat /\ f > 5
  BY Layout DEF Sizes
<1>2. /\ mem = [a \in Address |->
                  CASE a < 2 \/ a >= HeapSize - 3 -> 0
                    [] a = 2                      -> HeaderMagic
                    [] a = 2 + 1                  -> 0
                    [] a = 2 + 2                  -> size
                    [] a = f                      -> FooterMagic
                    [] a = f + 1                  -> 2
                    [] OTHER                      -> Data]
      /\ live = {} /\ writes = 0
  BY <1>1 DEF Init, heap
<1> HIDE DEF size, f
<1>3. /\ mem[2] = HeaderMagic /\ mem[3] = 0 /\ mem[4] = size
      /\ mem[f] = FooterMagic /\ mem[f + 1] = 2
  <2>1. /\ 2 \in Address /\ 3 \in Address /\ 4 \in Address
        /\ f \in Address /\ f + 1 \in Address /\ f + 2 = HeapSize - 3
    BY <1>1 DEF Address, f
  <2> QED BY <1>1, <1>2, <2>1
<1>4. TypeOK
  <2>1. mem \in [Address -> Word]
    BY <1>1, <1>2 DEF Word
  <2> QED BY <1>2, <2>1, WriteAssumption DEF TypeOK
<1> DEFINE H == {First}
<1>5. IsBlock(mem, First) /\ After(mem, First) = Last /\ ~ Used(mem, First)
  <2>1. /\ IsHeader(mem, 2) /\ mem[2 + 1] = 0 /\ Size(mem, 2) = size
        /\ FooterOf(mem, 2) = f /\ After(mem, 2) = Last
    BY <1>1, <1>3 DEF IsHeader, Size, FooterOf, After, size, f
  <2>2. 2 \in First .. Last - TagWords /\ Last <= Last
    BY <1>1
  <2> QED BY <1>1, <1>3, <2>1, <2>2 DEF IsBlock, Used, HeaderOf
<1>6. Tiles(mem, H)
  <2>1. \A a \in 0 .. First - 1 : mem[a] = 0
    BY <1>1, <1>2 DEF Address
  <2>2. \A a \in Last .. HeapSize - 1 : mem[a] = 0
    BY <1>1, <1>2 DEF Address
  <2>3. ~ (First < First)
    BY <1>1
  <2> QED BY <1>5, <2>1, <2>2, <2>3 DEF Tiles
<1>7. Owned(mem, H, live)
  BY <1>2, <1>5 DEF Owned
<1>8. Coalesced(mem, H)
  <2>1. Last # First
    BY <1>1
  <2> QED BY <1>5, <2>1 DEF Coalesced
<1>9. H \in SUBSET Address
  BY <1>1 DEF Address
<1> QED BY <1>4, <1>6, <1>7, <1>8, <1>9 DEF IInv

(* The block that becomes used gets an owner. *)
LEMMA OwnedAllocate ==
  ASSUME NEW m, NEW n, NEW H, NEW K, H \subseteq K, H \subseteq Nat, TypeOK,
         Owned(m, H, live), NEW h \in H, ~ Used(m, h), Used(n, h),
         NEW count \in Nat, count <= Size(n, h), Size(n, h) <= count + TagWords,
         \A g \in H \ {h} : Size(n, g) = Size(m, g) /\ (Used(n, g) <=> Used(m, g)),
         \A g \in K \ H : ~ Used(n, g)
  PROVE  Owned(n, K, live \cup {<<h + HeaderWords, count>>})
<1> DEFINE new == <<h + HeaderWords, count>>
<1>1. /\ HeaderWords = 3 /\ h \in Nat /\ new[1] = h + HeaderWords /\ new[2] = count
      /\ new[1] - HeaderWords = h
  BY Layout DEF Sizes
<1>2. \A r \in live : r[1] \in Nat
  BY DEF TypeOK, Address
<1> HIDE DEF new
<1>3. ASSUME NEW r \in live
      PROVE  /\ r[1] - HeaderWords \in H /\ r[1] - HeaderWords # h
             /\ Used(m, r[1] - HeaderWords)
             /\ r[2] <= Size(m, r[1] - HeaderWords)
             /\ Size(m, r[1] - HeaderWords) <= r[2] + TagWords
             /\ r[1] # new[1]
  BY <1>1 DEF Owned
<1>4. ASSUME NEW r \in live \cup {new}
      PROVE  /\ r[1] - HeaderWords \in K
             /\ Used(n, r[1] - HeaderWords)
             /\ r[2] <= Size(n, r[1] - HeaderWords)
             /\ Size(n, r[1] - HeaderWords) <= r[2] + TagWords
  BY <1>1, <1>3
<1>5. ASSUME NEW g \in K, Used(n, g)
      PROVE  \E r \in live \cup {new} : r[1] = g + HeaderWords
  <2>1. g \in H
    BY <1>5
  <2>2. CASE g = h
    BY <1>1, <2>2
  <2>3. CASE g # h
    BY <1>5, <2>1, <2>3 DEF Owned
  <2> QED BY <2>2, <2>3
<1>6. \A r, s \in live \cup {new} : r[1] = s[1] => r = s
  BY <1>3 DEF Owned
<1> QED BY <1>4, <1>5, <1>6 DEF Owned, new

LEMMA AllocateIInv ==
  ASSUME IInv, NEW count \in Counts, allocate(count)
  PROVE  IInv'
<1>1. PICK H \in SUBSET Address :
        Tiles(mem, H) /\ Owned(mem, H, live) /\ Coalesced(mem, H)
  BY DEF IInv
<1>2. TypeOK /\ mem \in [Address -> Word] /\ H \subseteq Address /\ count \in Nat
  BY <1>1, CountAssumption DEF IInv, TypeOK
<1> DEFINE h == Fit(count)
<1>3. h \in H /\ ~ Used(mem, h) /\ Size(mem, h) >= count
  <2>1. h # NULL
    BY DEF allocate
  <2> QED BY <1>1, <1>2, <2>1, FitProperties
<1> DEFINE region == <<h + HeaderWords, count>>
<1>4. /\ Size(mem, h) > count + TagWords => mem' = Split(h, count)
      /\ ~ (Size(mem, h) > count + TagWords) => Marked(mem, mem', h)
      /\ live' = live \cup {region} /\ writes' = writes
  BY DEF allocate, Marked
<1>5. /\ h \in Nat /\ h + 5 <= Last /\ Size(mem, h) \in Nat /\ Last = HeapSize - 3
      /\ HeapSize \in Nat /\ HeaderWords = 3 /\ TagWords = 5
  BY <1>1, <1>3, TileFacts, Layout DEF Sizes
<1>6. \A g \in H : g \in Nat /\ g < After(mem, g) /\ After(mem, g) \in Nat
                   /\ After(mem, g) <= Last /\ After(mem, g) \in H \cup {Last}
  BY <1>1, TileFacts
<1> HIDE DEF h
<1>7. live' \in SUBSET (Address \X Counts) /\ writes' \in 0 .. MaxWrites
  <2>1. h + HeaderWords \in Address
    BY <1>5 DEF Address
  <2> QED BY <1>2, <1>4, <2>1 DEF TypeOK
<1> HIDE DEF region
<1>8. CASE Size(mem, h) > count + TagWords
  <2> DEFINE nh == h + TagWords + count
             K == H \cup {nh}
  <2>1. mem' = Split(h, count)
    BY <1>4, <1>8
  <2>2. /\ mem' \in [Address -> Word] /\ nh \in Address /\ nh \notin H
        /\ Tiles(mem', K)
        /\ Used(mem', h) /\ Size(mem', h) = count /\ After(mem', h) = nh
        /\ ~ Used(mem', nh) /\ After(mem', nh) = After(mem, h)
        /\ \A g \in H \ {h} : /\ Size(mem', g) = Size(mem, g)
                              /\ After(mem', g) = After(mem, g)
                              /\ Used(mem', g) <=> Used(mem, g)
    BY <1>1, <1>2, <1>3, <1>8, <2>1, SplitBlocks
  <2>3. nh \in Nat /\ h < nh /\ nh < After(mem, h) /\ nh # Last
    <3>1. nh \in Nat /\ h < nh
      BY <1>2, <1>5
    <3>2. After(mem, h) = h + 5 + Size(mem, h) /\ After(mem, h) <= Last
      BY <1>1, <1>3, TileFacts
    <3> QED BY <1>2, <1>5, <1>8, <3>1, <3>2
  <2> HIDE DEF nh
  <2>4. Owned(mem', K, live')
    <3>1. count <= count /\ count <= count + TagWords
      BY <1>2, <1>5
    <3>2. \A g \in K \ H : ~ Used(mem', g)
      BY <2>2
    <3> QED BY <1>1, <1>2, <1>3, <1>4, <1>6, <2>2, <3>1, <3>2, OwnedAllocate DEF region
  <2>5. Coalesced(mem', K)
    <3> SUFFICES ASSUME NEW g \in K, ~ Used(mem', g), After(mem', g) \in K
                 PROVE  Used(mem', After(mem', g))
      BY DEF Coalesced
    <3>1. g # h
      BY <2>2
    <3>2. CASE g = nh
      <4>1. After(mem', g) = After(mem, h) /\ After(mem, h) # nh /\ After(mem, h) # h
        BY <1>3, <1>6, <2>2, <2>3, <3>2
      <4>2. After(mem, h) \in H
        BY <4>1
      <4>3. Used(mem, After(mem, h))
        BY <1>1, <1>3, <4>2 DEF Coalesced
      <4> QED BY <2>2, <4>1, <4>2, <4>3
    <3>3. CASE g # nh
      <4>1. g \in H \ {h} /\ After(mem', g) = After(mem, g) /\ ~ Used(mem, g)
        BY <2>2, <3>1, <3>3
      <4>2. After(mem, g) \in H
        BY <1>6, <2>2, <2>3, <4>1
      <4>3. Used(mem, After(mem, g))
        BY <1>1, <4>1, <4>2 DEF Coalesced
      <4> QED BY <1>3, <2>2, <4>1, <4>2, <4>3
    <3> QED BY <3>2, <3>3
  <2>6. K \in SUBSET Address
    BY <1>1, <2>2
  <2> QED BY <1>7, <2>2, <2>4, <2>5, <2>6 DEF IInv, TypeOK
<1>9. CASE ~ (Size(mem, h) > count + TagWords)
  <2>1. Marked(mem, mem', h)
    BY <1>4, <1>9
  <2>2. /\ mem' \in [Address -> Word] /\ Tiles(mem', H)
        /\ \A g \in H : Size(mem', g) = Size(mem, g) /\ After(mem', g) = After(mem, g)
        /\ Used(mem', h)
        /\ \A g \in H \ {h} : Used(mem', g) <=> Used(mem, g)
    BY <1>1, <1>2, <1>3, <2>1, MarkUsed
  <2>3. Owned(mem', H, live')
    <3>1. count <= Size(mem', h) /\ Size(mem', h) <= count + TagWords
      BY <1>2, <1>3, <1>5, <1>9, <2>2
    <3> QED BY <1>1, <1>2, <1>3, <1>4, <1>6, <2>2, <3>1, OwnedAllocate DEF region
  <2>4. Coalesced(mem', H)
    BY <1>1, <1>3, <2>2 DEF Coalesced
  <2> QED BY <1>1, <1>7, <2>2, <2>3, <2>4 DEF IInv, TypeOK
<1> QED BY <1>8, <1>9

(* What free writes, for one block as for several.                         *)
LEMMA FreeWrites ==
  ASSUME NEW H, H \subseteq Address, mem \in [Address -> Word], Tiles(mem, H),
         NEW h \in H
  PROVE  [mem EXCEPT ![h + 1] = 0] =
           [mem EXCEPT ![h + 1] = 0,
                       ![h + 2] = FooterOf(mem, h) - h - HeaderWords,
                       ![FooterOf(mem, h) + 1] = h]
<1> DEFINE f == FooterOf(mem, h)
<1>1. /\ IsBlock(mem, h) /\ h \in Nat /\ Size(mem, h) \in Nat
      /\ f = h + 3 + Size(mem, h) /\ h + 5 + Size(mem, h) = After(mem, h)
      /\ After(mem, h) <= Last /\ Last = HeapSize - 3 /\ HeaderWords = 3
      /\ HeapSize \in Nat
  BY TileFacts, Layout DEF Sizes
<1>2. mem[h + 2] = f - h - HeaderWords /\ mem[f + 1] = h
  <2>1. mem[h + 2] = Size(mem, h) /\ mem[f + 1] = h
    BY <1>1 DEF Size, IsBlock, HeaderOf
  <2> QED BY <1>1, <2>1
<1>3. /\ h + 2 \in Address /\ f + 1 \in Address
      /\ h + 2 # h + 1 /\ f + 1 # h + 1 /\ f + 1 # h + 2
  BY <1>1 DEF Address
<1> HIDE DEF f
<1> DEFINE one == [mem EXCEPT ![h + 1] = 0]
           all == [mem EXCEPT ![h + 1] = 0, ![h + 2] = f - h - HeaderWords,
                              ![f + 1] = h]
<1>4. one \in [Address -> Word] /\ DOMAIN all = Address
  <2>1. DOMAIN mem = Address /\ 0 \in Word
    BY DEF Word
  <2> QED BY <2>1
<1>5. \A a \in Address : one[a] = all[a]
  BY <1>2, <1>3
<1>6. one = all
  <2>1. /\ one = [a \in Address |-> one[a]]
        /\ all = [a \in Address |-> all[a]]
    BY <1>4
  <2> HIDE DEF one, all
  <2> QED BY <1>5, <2>1
<1> QED BY <1>6 DEF f

LEMMA FreeIInv ==
  ASSUME IInv, NEW r \in live, free(r)
  PROVE  IInv'
<1>1. PICK H \in SUBSET Address :
        Tiles(mem, H) /\ Owned(mem, H, live) /\ Coalesced(mem, H)
  BY DEF IInv
<1>2. TypeOK /\ mem \in [Address -> Word] /\ H \subseteq Address
  BY <1>1 DEF IInv, TypeOK
<1> DEFINE h == r[1] - HeaderWords
           left == LeftMost(h)
           right == RightMost(h)
           K == Kept(H, left, right)
<1>3. h \in H /\ Used(mem, h) /\ h \in Nat /\ \A x \in H : x \in Nat
  BY <1>1, TileFacts DEF Owned
<1>4. /\ left \in H /\ left <= h
      /\ \A x \in H : left <= x /\ x < h => ~ Used(mem, x)
      /\ \A g \in H : After(mem, g) = left => Used(mem, g)
  BY <1>1, <1>2, <1>3, LeftMostProperties
<1>5. /\ right \in H /\ h <= right
      /\ \A x \in H : h < x /\ x <= right => ~ Used(mem, x)
      /\ After(mem, right) \in H => Used(mem, After(mem, right))
  BY <1>1, <1>2, <1>3, RightMostProperties
<1>6. /\ mem' = IF ~IsHeader(mem, h) THEN mem
                ELSE IF left = right
                  THEN [mem EXCEPT ![h + 1] = 0]
                  ELSE [mem EXCEPT ![left + 1] = 0,
                                   ![left + 2] = FooterOf(mem, right) - left - HeaderWords,
                                   ![FooterOf(mem, right) + 1] = left]
      /\ live' = live \ {r} /\ writes' = writes
  BY DEF free
<1> HIDE DEF h, left, right
<1>7. Merged(mem', left, right)
  <2>1. IsHeader(mem, h)
    BY <1>1, <1>3, TileFacts
  <2>2. CASE left = right
    <3>1. left = h /\ right = h
      BY <1>3, <1>4, <1>5, <2>2
    <3>2. mem' = [mem EXCEPT ![h + 1] = 0]
      BY <1>6, <2>1, <2>2
    <3> QED BY <1>1, <1>2, <1>3, <3>1, <3>2, FreeWrites DEF Merged
  <2>3. CASE left # right
    BY <1>6, <2>1, <2>3 DEF Merged
  <2> QED BY <2>2, <2>3
<1>8. left <= right /\ left \in Nat /\ right \in Nat
  BY <1>3, <1>4, <1>5
<1>8a. K = {x \in H : x <= left \/ right < x}
  BY DEF Kept
<1>8b. K = Kept(H, left, right) /\ InOrder(left, right)
  BY <1>8 DEF InOrder
<1> HIDE DEF K
<1>9. /\ mem' \in [Address -> Word]
      /\ Tiles(mem', K)
      /\ ~ Used(mem', left) /\ After(mem', left) = After(mem, right)
      /\ \A g \in K \ {left} : /\ Size(mem', g) = Size(mem, g)
                               /\ After(mem', g) = After(mem, g)
                               /\ Used(mem', g) <=> Used(mem, g)
  BY <1>1, <1>2, <1>4, <1>5, <1>7, <1>8b, MergeBlocks
<1>10. ASSUME NEW x \in H, Used(mem, x), x # h PROVE x \in K \ {left}
  BY <1>3, <1>4, <1>5, <1>8, <1>10, <1>8a
<1>11. K \subseteq H /\ \A x \in K \ {left} : x # h
  BY <1>3, <1>4, <1>5, <1>8, <1>8a
<1>12. HeaderWords = 3 /\ \A s \in live : s[1] \in Nat /\ s[1] - HeaderWords + HeaderWords = s[1]
  BY <1>2, Layout DEF TypeOK, Address, Sizes
<1>13. Owned(mem', K, live')
  <2>1. ASSUME NEW s \in live'
        PROVE  /\ s[1] - HeaderWords \in K
               /\ Used(mem', s[1] - HeaderWords)
               /\ s[2] <= Size(mem', s[1] - HeaderWords)
               /\ Size(mem', s[1] - HeaderWords) <= s[2] + TagWords
    <3>1. s \in live /\ s # r
      BY <1>6
    <3> DEFINE x == s[1] - HeaderWords
    <3>2. /\ x \in H /\ Used(mem, x) /\ s[2] <= Size(mem, x)
          /\ Size(mem, x) <= s[2] + TagWords
      BY <1>1, <3>1 DEF Owned
    <3>3. x # h
      <4>1. s[1] # r[1]
        BY <1>1, <3>1 DEF Owned
      <4> QED BY <1>12, <3>1, <4>1 DEF h
    <3> HIDE DEF x
    <3>4. x \in K \ {left}
      BY <1>10, <3>2, <3>3
    <3>5. x \in K /\ Used(mem', x) /\ Size(mem', x) = Size(mem, x)
      BY <1>9, <3>2, <3>4
    <3> QED BY <3>2, <3>5 DEF x
  <2>2. ASSUME NEW g \in K, Used(mem', g)
        PROVE  \E s \in live' : s[1] = g + HeaderWords
    <3>1. g \in K \ {left} /\ g \in H /\ g # h /\ Used(mem, g)
      BY <1>9, <1>11, <2>2
    <3>2. PICK s \in live : s[1] = g + HeaderWords
      BY <1>1, <3>1 DEF Owned
    <3>3. s # r
      BY <1>3, <1>12, <3>1, <3>2 DEF h
    <3> QED BY <1>6, <3>2, <3>3
  <2>3. \A s, t \in live' : s[1] = t[1] => s = t
    BY <1>1, <1>6 DEF Owned
  <2> QED BY <2>1, <2>2, <2>3 DEF Owned
<1>14. Coalesced(mem', K)
  <2> SUFFICES ASSUME NEW g \in K, ~ Used(mem', g), After(mem', g) \in K
               PROVE  Used(mem', After(mem', g))
    BY DEF Coalesced
  <2>1. CASE g = left
    <3>1. After(mem', g) = After(mem, right)
      BY <1>9, <2>1
    <3>2. After(mem, right) \in H /\ right < After(mem, right)
      BY <1>1, <1>5, <1>11, <3>1, TileFacts
    <3>3. After(mem, right) \in K \ {left}
      BY <1>3, <1>8, <1>8a, <3>1, <3>2
    <3>4. Used(mem, After(mem, right))
      BY <1>5, <3>2
    <3> QED BY <1>9, <3>1, <3>3, <3>4
  <2>2. CASE g # left
    <3>1. /\ After(mem', g) = After(mem, g) /\ ~ Used(mem, g) /\ g \in H
          /\ After(mem, g) \in H
      BY <1>9, <1>11, <2>2
    <3>2. Used(mem, After(mem, g))
      BY <1>1, <3>1 DEF Coalesced
    <3>3. After(mem, g) # left
      BY <1>4, <3>1
    <3> QED BY <1>9, <3>1, <3>2, <3>3
  <2> QED BY <2>1, <2>2
<1>15. live' \in SUBSET (Address \X Counts) /\ writes' \in 0 .. MaxWrites
  BY <1>2, <1>6 DEF TypeOK
<1>16. K \in SUBSET Address
  BY <1>2, <1>11
<1> QED BY <1>9, <1>13, <1>14, <1>15, <1>16 DEF IInv, TypeOK

LEMMA WriteIInv ==
  ASSUME IInv, NEW r \in live, Write(r)
  PROVE  IInv'
<1>1. PICK H \in SUBSET Address :
        Tiles(mem, H) /\ Owned(mem, H, live) /\ Coalesced(mem, H)
  BY DEF IInv
<1>2. TypeOK /\ mem \in [Address -> Word] /\ H \subseteq Address
  BY <1>1 DEF IInv, TypeOK
<1> DEFINE h == r[1] - HeaderWords
<1>3. /\ h \in H /\ r[2] <= Size(mem, h) /\ r[2] \in Nat
      /\ h + HeaderWords = r[1]
  <2>1. r[1] \in Nat /\ r[2] \in Nat
    <3>1. r \in Address \X Counts
      BY <1>2 DEF TypeOK
    <3>2. r[1] \in Address /\ r[2] \in Counts
      BY <3>1
    <3>3. r[1] \in Nat
      BY <3>2, HeapAssumption DEF Address
    <3>4. r[2] \in Nat
      BY <3>2, CountAssumption
    <3> QED BY <3>3, <3>4
  <2> QED BY <1>1, <2>1, Layout DEF Owned, Sizes
<1>4. /\ mem' = [a \in Address |->
                   IF h + HeaderWords <= a /\ a < h + HeaderWords + r[2]
                     THEN Data ELSE mem[a]]
      /\ live' = live /\ writes' \in 0 .. MaxWrites
  <2>1. /\ mem' = [a \in Address |->
                     IF r[1] <= a /\ a < r[1] + r[2] THEN Data ELSE mem[a]]
        /\ live' = live /\ writes' = writes + 1 /\ writes < MaxWrites
    BY DEF Write
  <2>2. writes' \in 0 .. MaxWrites
    BY <1>2, <2>1, WriteAssumption DEF TypeOK
  <2> QED BY <1>3, <2>1, <2>2
<1> HIDE DEF h
<1>5. /\ mem' \in [Address -> Word] /\ Tiles(mem', H)
      /\ \A g \in H : /\ Size(mem', g) = Size(mem, g) /\ After(mem', g) = After(mem, g)
                      /\ Used(mem', g) <=> Used(mem, g)
  BY <1>1, <1>2, <1>3, <1>4, WritePayload
<1>6. Owned(mem', H, live') /\ Coalesced(mem', H)
  BY <1>1, <1>4, <1>5 DEF Owned, Coalesced
<1> QED BY <1>1, <1>2, <1>4, <1>5, <1>6 DEF IInv, TypeOK

LEMMA Invariance == Spec => []IInv
<1>1. IInv /\ [Next]_vars => IInv'
  <2> SUFFICES ASSUME IInv, [Next]_vars PROVE IInv'
    OBVIOUS
  <2>1. CASE Next
    BY <2>1, AllocateIInv, FreeIInv, WriteIInv DEF Next
  <2>2. CASE UNCHANGED vars
    BY <2>2 DEF vars, IInv, TypeOK, Tiles, Owned, Coalesced, IsBlock, IsHeader,
                Used, Size, FooterOf, After, HeaderOf
  <2> QED BY <2>1, <2>2
<1> QED BY <1>1, InitIInv, PTL DEF Spec

-----------------------------------------------------------------------------
(* The theorems. *)

(* Every word of memory holds a tag, a number or data, and the regions in  *)
(* use begin in the heap, whatever sequence of new and delete was run.     *)
(* That no store leaves the heap is BlocksAlwaysTile: every tag that new   *)
(* and delete write is found in its place.                                 *)
THEOREM TypeCorrect == Spec => []TypeOK
<1>1. IInv => TypeOK
  BY DEF IInv
<1> QED BY <1>1, Invariance, PTL

LEMMA TilesGiveBlocks == IInv => BlocksTileHeap
<1> SUFFICES ASSUME IInv PROVE BlocksTileHeap
  OBVIOUS
<1>1. PICK H \in SUBSET Address :
        Tiles(mem, H) /\ Owned(mem, H, live) /\ Coalesced(mem, H)
  BY DEF IInv
<1>2. Chain = H
  BY <1>1, ChainIsTiles
<1>3. H # {}
  BY <1>1 DEF Tiles
<1>4. ASSUME NEW h \in H
      PROVE  /\ After(mem, h) \in H \cup {Last}
             /\ mem[FooterOf(mem, h)] = FooterMagic
             /\ HeaderOf(mem, FooterOf(mem, h)) = h
  BY <1>1 DEF Tiles, IsBlock
<1>5. /\ HeaderWords = 3 /\ \A h \in H : h \in Nat
      /\ \A r \in live : r[1] \in Nat
  BY <1>1, TileFacts, Layout DEF Sizes, IInv, TypeOK, Address
<1>6. {h + HeaderWords : h \in {c \in H : Used(mem, c)}} = {r[1] : r \in live}
  <2>1. ASSUME NEW h \in H, Used(mem, h)
        PROVE  h + HeaderWords \in {r[1] : r \in live}
    BY <1>1, <2>1 DEF Owned
  <2>2. ASSUME NEW r \in live
        PROVE  \E h \in H : Used(mem, h) /\ h + HeaderWords = r[1]
    <3>1. /\ r[1] - HeaderWords \in H /\ Used(mem, r[1] - HeaderWords)
      BY <1>1 DEF Owned
    <3>2. (r[1] - HeaderWords) + HeaderWords = r[1]
      BY <1>5
    <3> QED BY <3>1, <3>2
  <2> QED BY <2>1, <2>2
<1>7. \A r \in live : /\ r[2] <= Size(mem, r[1] - HeaderWords)
                      /\ Size(mem, r[1] - HeaderWords) <= r[2] + TagWords
  BY <1>1 DEF Owned
<1> QED BY <1>2, <1>3, <1>4, <1>6, <1>7 DEF BlocksTileHeap

(* Whatever the order of allocations and releases, the blocks tile the     *)
(* heap from end to end, every footer leads back to its header, and the    *)
(* used blocks are exactly the regions callers own.                        *)
THEOREM BlocksAlwaysTile == Spec => []BlocksTileHeap
BY TilesGiveBlocks, Invariance, PTL

LEMMA NoGapIsMissed ==
  ASSUME IInv, NEW count \in Counts, Fit(count) = NULL,
         NEW a \in First .. Last, Gap(a, count + TagWords)
  PROVE  FALSE
<1>1. PICK H \in SUBSET Address :
        Tiles(mem, H) /\ Owned(mem, H, live) /\ Coalesced(mem, H)
  BY DEF IInv
<1>2. /\ count \in Nat /\ a \in Nat /\ First <= a /\ a <= Last
      /\ HeaderWords = 3 /\ TagWords = 5 /\ Last \in Nat
  BY CountAssumption, Layout DEF Sizes
<1>3. \A g \in H : Used(mem, g) \/ Size(mem, g) < count
  <2>1. H \subseteq Address /\ NULL = 0
    BY <1>1 DEF NULL
  <2> QED BY <1>1, <1>2, <2>1, FitProperties
<1>4. a + count + TagWords <= Last
  BY <1>2 DEF Gap
<1>5. ASSUME NEW g \in H, Used(mem, g)
      PROVE  After(mem, g) <= a \/ a + count + TagWords <= g
  <2>1. PICK r \in live : r[1] = g + HeaderWords
    BY <1>1, <1>5 DEF Owned
  <2>2. g \in Nat
    BY <1>1, TileFacts
  <2>3. r[1] - HeaderWords = g
    BY <1>2, <2>1, <2>2
  <2>4. After(mem, g) <= a \/ a + (count + TagWords) <= g
    BY <2>3 DEF Gap
  <2> QED BY <1>2, <2>2, <2>4
<1>6. PICK h \in H : h <= a /\ a < After(mem, h)
  <2>1. a \in First .. Last - 1
    BY <1>2, <1>4
  <2> QED BY <1>1, <2>1, InSomeBlock
<1>7. /\ h \in Nat /\ Size(mem, h) \in Nat /\ After(mem, h) = h + 5 + Size(mem, h)
      /\ After(mem, h) \in H \cup {Last} /\ After(mem, h) \in Nat
  BY <1>1, <1>6, TileFacts
<1>8. ~ Used(mem, h)
  <2>1. ~ (After(mem, h) <= a) /\ ~ (a + count + TagWords <= h)
    BY <1>2, <1>6, <1>7
  <2> QED BY <1>5, <2>1
<1>9. After(mem, h) < a + count + TagWords
  BY <1>2, <1>3, <1>6, <1>7, <1>8
<1>10. After(mem, h) \in H
  BY <1>2, <1>4, <1>7, <1>9
<1>11. Used(mem, After(mem, h))
  BY <1>1, <1>8, <1>10 DEF Coalesced
<1> DEFINE g == After(mem, h)
<1>12. g < After(mem, g) /\ After(mem, g) \in Nat
  BY <1>1, <1>10, TileFacts
<1>13. After(mem, g) <= a \/ a + count + TagWords <= g
  BY <1>5, <1>10, <1>11
<1> HIDE DEF g
<1>14. g \in Nat /\ a < g /\ g < a + count + TagWords
  BY <1>6, <1>7, <1>9 DEF g
<1> QED BY <1>2, <1>12, <1>13, <1>14

LEMMA TilesLoseNothing == IInv => NoSpaceIsLost
<1> SUFFICES ASSUME IInv PROVE NoSpaceIsLost
  OBVIOUS
<1>1. PICK H \in SUBSET Address :
        Tiles(mem, H) /\ Owned(mem, H, live) /\ Coalesced(mem, H)
  BY DEF IInv
<1>2. Chain = H
  BY <1>1, ChainIsTiles
<1>3. NoAdjacentFree
  BY <1>1, <1>2 DEF NoAdjacentFree, Coalesced
<1>4. FitIsComplete
  BY NoGapIsMissed DEF FitIsComplete
<1> QED BY <1>3, <1>4 DEF NoSpaceIsLost

(* Freed memory never stays fragmented: no two neighbours are free, and a  *)
(* request fails only when no gap has room for it and its tags.            *)
THEOREM NoSpaceIsEverLost == Spec => []NoSpaceIsLost
BY TilesLoseNothing, Invariance, PTL

LEMMA AllocateIsAllocate ==
  ASSUME IInv, NEW count \in Counts, allocate(count)
  PROVE  Regions!Allocate(count)
<1>1. PICK H \in SUBSET Address :
        Tiles(mem, H) /\ Owned(mem, H, live) /\ Coalesced(mem, H)
  BY DEF IInv
<1> DEFINE h == Fit(count)
           a == h + HeaderWords
<1>2. /\ h \in H /\ ~ Used(mem, h) /\ count <= Size(mem, h) /\ count \in Nat
      /\ live' = live \cup {<<a, count>>}
  <2>1. h # NULL /\ live' = live \cup {<<a, count>>}
    BY DEF allocate
  <2>2. count \in Nat /\ H \subseteq Address
    BY <1>1, CountAssumption
  <2>3. Size(mem, h) \in Nat /\ h \in H /\ ~ Used(mem, h) /\ Size(mem, h) >= count
    BY <1>1, <2>1, <2>2, FitProperties, TileFacts
  <2> QED BY <2>1, <2>2, <2>3
<1> HIDE DEF h
<1>3. /\ h \in Nat /\ 2 <= h /\ Size(mem, h) \in Nat
      /\ After(mem, h) = h + 5 + Size(mem, h) /\ After(mem, h) <= Last
      /\ a = h + 3 /\ Last \in Nat /\ First = 2
  BY <1>1, <1>2, TileFacts, Layout DEF Sizes
<1>4. a \in First .. Last - 1 /\ a .. a + count - 1 \subseteq First .. Last - 1
  BY <1>2, <1>3
<1>5. ASSUME NEW r \in live
      PROVE  /\ r[1] # a
             /\ (r[1] .. r[1] + r[2] - 1) \cap (a .. a + count - 1) = {}
  <2> DEFINE g == r[1] - HeaderWords
  <2>1. g \in H /\ Used(mem, g) /\ r[2] <= Size(mem, g)
    BY <1>1 DEF Owned
  <2>2. r[1] = g + 3 /\ r[2] \in Nat
    <3>1. r[1] \in Address /\ r[2] \in Counts
      BY DEF IInv, TypeOK
    <3>2. r[1] \in Int
      BY <3>1, HeapAssumption DEF Address
    <3>3. r[2] \in Nat
      BY <3>1, CountAssumption
    <3>4. HeaderWords = 3
      BY Layout DEF Sizes
    <3> QED BY <3>2, <3>3, <3>4
  <2> HIDE DEF g
  <2>3. /\ g \in Nat /\ Size(mem, g) \in Nat
        /\ After(mem, g) = g + 5 + Size(mem, g)
        /\ (g < h => After(mem, g) <= h) /\ (h < g => After(mem, h) <= g)
    BY <1>1, <1>2, <2>1, TileFacts
  <2>4. g # h
    BY <1>2, <2>1
  <2>5. r[1] + r[2] <= a \/ a + count <= r[1]
    BY <1>2, <1>3, <2>1, <2>2, <2>3, <2>4
  <2>6. r[1] # a /\ r[1] \in Nat
    BY <1>3, <2>2, <2>3, <2>4
  <2> HIDE DEF a
  <2>7. a \in Nat
    BY <1>3
  <2> QED BY <1>2, <2>2, <2>5, <2>6, <2>7
<1> HIDE DEF a
<1>6. /\ Regions!Words(<<a, count>>) = a .. a + count - 1
      /\ \A r \in live : Regions!Words(r) = r[1] .. r[1] + r[2] - 1
  BY DEF Regions!Words
<1> QED BY <1>2, <1>4, <1>5, <1>6 DEF Regions!Allocate

(* new and delete keep the promise of HeapRegions: every region they hand  *)
(* out lies inside the heap and shares no word with one still in use.      *)
THEOREM ImplementsRegions == Spec => RefinesRegions
<1>1. Init => Regions!Init
  BY DEF Init, Regions!Init
<1>2. IInv /\ [Next]_vars => [Regions!Next]_live
  <2> SUFFICES ASSUME IInv, [Next]_vars PROVE [Regions!Next]_live
    OBVIOUS
  <2>1. ASSUME NEW count \in Counts, allocate(count) PROVE Regions!Next
    BY <2>1, AllocateIsAllocate DEF Regions!Next
  <2>2. ASSUME NEW r \in live, free(r) PROVE Regions!Next
    BY <2>2 DEF free, Regions!Next, Regions!Free
  <2>3. ASSUME NEW r \in live, Write(r) PROVE UNCHANGED live
    BY <2>3 DEF Write
  <2>4. CASE UNCHANGED vars
    BY <2>4 DEF vars
  <2> QED BY <2>1, <2>2, <2>3, <2>4 DEF Next
<1> QED BY <1>1, <1>2, Invariance, PTL DEF Spec, RefinesRegions, Regions!Spec

=============================================================================
