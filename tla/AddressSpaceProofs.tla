------------------------- MODULE AddressSpaceProofs -------------------------
(***************************************************************************)
(* Theorems about AddressSpace for any number of processes, threads and    *)
(* blocks, any layout and any size of tables.                              *)
(***************************************************************************)
EXTENDS AddressSpace, SequenceTheorems, FiniteSetTheorems,
        WellFoundedInduction, TLAPS

-----------------------------------------------------------------------------
(* The least of a set. *)

(* A set of naturals that is not empty has a least element, and Min is it. *)
LEMMA MinOfNat ==
  ASSUME NEW S, S \subseteq Nat, S # {}
  PROVE  Min(S) \in S /\ \A y \in S : Min(S) <= y
<1>1. PICK x \in S : \A y \in S : ~ (<<y, x>> \in OpToRel(<, Nat))
  BY WFMin, NatLessThanWellFounded
<1>2. \A y \in S : x <= y
  <2> SUFFICES ASSUME NEW y \in S PROVE x <= y
    OBVIOUS
  <2>1. <<y, x>> \notin OpToRel(<, Nat)
    BY <1>1
  <2>2. ~ (y < x)
    BY <2>1 DEF OpToRel
  <2> QED BY <2>2
<1> QED BY <1>2 DEF Min

-----------------------------------------------------------------------------
(* The inductive invariant. *)

(* What the lists of a process hold when it is not there. *)
Absent(p) ==
  /\ entries[p] = [f \in Frame |-> Template]
  /\ m_used_blocks[p] = << >>
  /\ m_stack_blocks[p] = {}
  /\ m_heap_address[p] = HeapBase
  /\ threads[p] = << >>

(* The places there are for stacks. *)
Positions == {StackTop - i * StackPages : i \in 0 .. Cardinality(Workers)}

(* The stacks of the threads are those that are marked, each at a place of *)
(* its own, the main thread's at the top.                                  *)
StacksApart(p) ==
  /\ Main \in DOMAIN threads[p]
  /\ threads[p][Main].m_stack = StackTop
  /\ m_stack_blocks[p] = {threads[p][t].m_stack : t \in DOMAIN threads[p]}
  /\ m_stack_blocks[p] \subseteq Positions
  /\ \A t, u \in DOMAIN threads[p] :
       threads[p][t].m_stack = threads[p][u].m_stack => t = u

Shape ==
  /\ DOMAIN m_used_blocks = Process /\ DOMAIN m_stack_blocks = Process
  /\ DOMAIN threads = Process
  /\ \A o \in orphans : o.m_used_blocks \in Seq(Block \cup LowPages)
  /\ \A p \in Process : IF Live(p) THEN StacksApart(p) ELSE Absent(p)

(* A list names a block once. *)
Once(list) ==
  \A i, j \in DOMAIN list : list[i] = list[j] /\ i # j => list[i] = NULL

(* The blocks on the lists of p, each on one of them. *)
Own(p) == OwnBlocks(p) \ LowPages
Lost == (UNION {Range(o.m_used_blocks) : o \in orphans}) \ LowPages

ListsApart(p) ==
  /\ Once(m_used_blocks[p])
  /\ m_page_directory[p] \notin Range(m_used_blocks[p]) \ LowPages
  /\ \A t \in DOMAIN threads[p] :
       /\ Once(threads[p][t].m_used_blocks)
       /\ m_page_directory[p] \notin StackBlocks(p, t) \ LowPages
       /\ Range(m_used_blocks[p]) \cap StackBlocks(p, t) \subseteq LowPages
       /\ \A u \in DOMAIN threads[p] \ {t} :
            StackBlocks(p, t) \cap StackBlocks(p, u) \subseteq LowPages

Books ==
  /\ held = {FirstBlock} \cup (UNION {Own(p) : p \in Process}) \cup Lost
  /\ FirstBlock \notin Lost
  /\ \A p \in Process :
       /\ FirstBlock \notin Own(p)
       /\ Own(p) \cap Lost = {}
       /\ ListsApart(p)
       /\ \A q \in Process \ {p} : Own(p) \cap Own(q) = {}
  /\ \A o \in orphans :
       /\ Once(o.m_used_blocks)
       /\ \A x \in orphans \ {o} :
            Range(o.m_used_blocks) \cap Range(x.m_used_blocks) \subseteq LowPages

(* The frames that are given tables for good, and those of the workers'    *)
(* stacks.                                                                 *)
Image == ImageBase .. ImageBase + ImagePages - 1
Frames(pages) == {v \div PagesPerTable : v \in pages}
FirstFrames == Frames(FirstStack \cup Image)
WorkerFrames ==
  Frames(StackTop - Cardinality(Thread) * StackPages .. StackTop - StackPages - 1)

TableLists(p) ==
  \A f \in Frame :
    \/ entries[p][f] \in Range(m_used_blocks[p]) \cup StackBlocks(p, Main)
                           \cup {NULL, Template}
    \/ f \in WorkerFrames \ FirstFrames

Tables ==
  /\ mode = "boot" => Intact
  /\ \A p \in Process : Live(p) =>
       /\ TableLists(p)
       /\ \A f \in FirstFrames : entries[p][f] # Template
  /\ Intact =>
       \A p, q \in Process : \A f, g \in Frame :
         entries[p][f] = entries[q][g] /\ entries[p][f] # Template => p = q /\ f = g

(* Where a page leads: to nothing, to the process, to the thread whose     *)
(* stack it is in, or astray, into a stack whose thread is gone.           *)
DeadStacks(p) ==
  (UNION {StackOf(StackTop - i * StackPages) : i \in 1 .. Cardinality(Workers)})
    \ UNION {StackOf(threads[p][t].m_stack) : t \in DOMAIN threads[p]}

PageLeads(p, v) ==
  \/ Mapped(p, v) \in Range(m_used_blocks[p]) \cup {NotPresent}
  \/ \E t \in DOMAIN threads[p] : /\ v \in StackOf(threads[p][t].m_stack)
                                  /\ Mapped(p, v) \in StackBlocks(p, t)
  \/ v \in DeadStacks(p)

OwnPagesApart(p) ==
  LET stacks == {StackOf(threads[p][t].m_stack) : t \in DOMAIN threads[p]}
      pages == OwnPages(p) \cup UNION stacks
  IN  /\ \A v \in OwnPages(p) : Mapped(p, v) \in Range(m_used_blocks[p])
      /\ \A t \in DOMAIN threads[p] :
           \A v \in StackOf(threads[p][t].m_stack) :
             Mapped(p, v) \in StackBlocks(p, t)
      /\ \A v, w \in pages : Mapped(p, v) = Mapped(p, w) =>
           v = w \/ Mapped(p, v) \in LowPages
      /\ \A v \in Image : Mapped(p, v) = Mapped(p, ImageBase) + (v - ImageBase)

Pages ==
  Intact =>
    \A p \in Process : Live(p) =>
      /\ \A v \in Page : PageLeads(p, v)
      /\ HeapIsApart(p) => OwnPagesApart(p)

IInv == TypeOK /\ Shape /\ Books /\ Tables /\ Pages

-----------------------------------------------------------------------------
(* The constants. *)

Sizes ==
  /\ StackPages \in Nat /\ StackPages > 0 /\ ImagePages \in Nat /\ ImagePages > 0
  /\ PagesPerTable \in Nat /\ PagesPerTable > 0
  /\ BlockCount \in Nat /\ BlockCount > 0 /\ NumUser \in Nat
  /\ NULL = 0 /\ FirstBlock = StackPages /\ EndBlock = FirstBlock + BlockCount
  /\ LowPages = 0 .. StackPages - 1 /\ Block = FirstBlock .. EndBlock - 1
  /\ FirstBlock \in Nat /\ EndBlock \in Nat
  /\ ImageBase \in Nat /\ HeapBase \in Nat /\ StackTop \in Nat
  /\ ImageBase + ImagePages <= HeapBase

LEMMA Layout == Sizes
BY CountAssumption, PageAssumption, LayoutAssumption
   DEF Sizes, NULL, FirstBlock, EndBlock, LowPages, Block

LEMMA Kinds ==
  /\ NULL \in LowPages /\ NULL \notin Block /\ Block \cap LowPages = {}
  /\ Block \subseteq Nat /\ LowPages \subseteq Nat
  /\ FirstBlock \in Block /\ Template \notin Block \cup {NULL}
  /\ NotPresent \notin Block \cup LowPages
BY Layout, EntryAssumption DEF Sizes

(* The number of threads is finite, and so is the room for their stacks.   *)
Room ==
  /\ Cardinality(Workers) \in Nat
  /\ IsFiniteSet(Thread) /\ Cardinality(Thread) = Cardinality(Workers) + 1
  /\ HeapBase + (1 + Cardinality(Workers)) * StackPages <= StackTop

LEMMA ThreadRoom == Room
<1>1. Cardinality(Workers) \in Nat
  BY ThreadAssumption, FS_CardinalityType
<1>2. IsFiniteSet(Thread) /\ Cardinality(Thread) = Cardinality(Workers) + 1
  BY ThreadAssumption, FS_AddElement DEF Thread
<1> QED BY <1>1, <1>2, LayoutAssumption DEF Room

LEMMA DivFacts ==
  ASSUME NEW v \in Nat
  PROVE  /\ v \div PagesPerTable \in Nat
         /\ v % PagesPerTable \in Entry
         /\ v = PagesPerTable * (v \div PagesPerTable) + (v % PagesPerTable)
<1>1. PagesPerTable \in Nat /\ PagesPerTable > 0
  BY Layout DEF Sizes
<1> QED BY <1>1 DEF Entry

(* A page has a frame and an entry of its own. *)
LEMMA PageFacts ==
  ASSUME NEW v \in Page
  PROVE  /\ v \div PagesPerTable \in Frame /\ v % PagesPerTable \in Entry
         /\ \A w \in Page : /\ v \div PagesPerTable = w \div PagesPerTable
                            /\ v % PagesPerTable = w % PagesPerTable
                            => v = w
<1>1. v \in Nat /\ \A w \in Page : w \in Nat
  BY Layout DEF Page, Sizes
<1>2. v \div PagesPerTable \in Frame
  BY DEF Frame
<1>3. /\ v % PagesPerTable \in Entry
      /\ v = PagesPerTable * (v \div PagesPerTable) + (v % PagesPerTable)
  BY <1>1, DivFacts
<1>4. ASSUME NEW w \in Page, v \div PagesPerTable = w \div PagesPerTable,
             v % PagesPerTable = w % PagesPerTable
      PROVE  v = w
  <2>1. w = PagesPerTable * (w \div PagesPerTable) + (w % PagesPerTable)
    BY <1>1, DivFacts
  <2> QED BY <1>3, <1>4, <2>1
<1> QED BY <1>2, <1>3, <1>4

-----------------------------------------------------------------------------
(* Lists. *)

LEMMA RangeAppend ==
  ASSUME NEW S, NEW s \in Seq(S), NEW x \in S
  PROVE  Append(s, x) \in Seq(S) /\ Range(Append(s, x)) = Range(s) \cup {x}
<1>1. /\ Append(s, x) \in Seq(S) /\ Len(Append(s, x)) = Len(s) + 1
      /\ \A i \in 1 .. Len(s) : Append(s, x)[i] = s[i]
      /\ Append(s, x)[Len(s) + 1] = x
  BY AppendProperties
<1>2. /\ DOMAIN s = 1 .. Len(s) /\ Len(s) \in Nat
      /\ DOMAIN Append(s, x) = 1 .. Len(s) + 1
  BY <1>1
<1> QED BY <1>1, <1>2 DEF Range

LEMMA OnceAppend ==
  ASSUME NEW S, NEW s \in Seq(S), NEW x \in S, Once(s),
         x \notin Range(s) \/ x = NULL
  PROVE  Once(Append(s, x))
<1>1. /\ Len(Append(s, x)) = Len(s) + 1 /\ Append(s, x) \in Seq(S)
      /\ \A i \in 1 .. Len(s) : Append(s, x)[i] = s[i]
      /\ Append(s, x)[Len(s) + 1] = x
  BY AppendProperties
<1>2. /\ DOMAIN s = 1 .. Len(s) /\ Len(s) \in Nat
      /\ DOMAIN Append(s, x) = 1 .. Len(s) + 1
  BY <1>1
<1>3. \A i \in 1 .. Len(s) : s[i] \in Range(s)
  BY <1>2 DEF Range
<1> QED BY <1>1, <1>2, <1>3 DEF Once

LEMMA EmptyList ==
  Range(<< >>) = {} /\ Once(<< >>)
BY DEF Range, Once

-----------------------------------------------------------------------------
(* The helpers, field by field. *)

TableType == [Entry -> Block \cup LowPages \cup {NotPresent}]

Building ==
  [held : SUBSET Block, cursor : FirstBlock .. EndBlock,
   tables : [Block \cup {NULL} -> TableType],
   dir : [Frame -> Block \cup {NULL, Template}],
   list : Seq(Block \cup LowPages), block : Block \cup {NULL}, null : BOOLEAN]

Run(block, count) == block .. block + count - 1

(* g is what allocate_blocks makes of s. *)
Given(s, g, count) ==
  /\ g \in Building
  /\ g.tables = s.tables /\ g.dir = s.dir /\ g.list = s.list
  /\ \/ g.block = NULL /\ g.held = s.held /\ g.null = TRUE
     \/ /\ g.block \in Block
        /\ Run(g.block, count) \subseteq Block \ s.held
        /\ g.held = s.held \cup Run(g.block, count)
        /\ g.null = s.null

LEMMA AllocateGives ==
  ASSUME NEW s \in Building, NEW count \in Nat, count > 0
  PROVE  Given(s, allocate_blocks(s, count), count)
<1> DEFINE from == IF s.cursor = EndBlock THEN FirstBlock ELSE s.cursor
           runs == {b \in from .. EndBlock - count :
                      (b .. b + count - 1) \cap s.held = {}}
           b == Min(runs)
           g == allocate_blocks(s, count)
<1>1. /\ FirstBlock \in Nat /\ EndBlock \in Nat /\ FirstBlock < EndBlock
      /\ Block = FirstBlock .. EndBlock - 1
  BY Layout DEF Sizes
<1>2. from \in FirstBlock .. EndBlock
  BY <1>1 DEF Building
<1>3. CASE runs = {}
  <2>1. g = [s EXCEPT !.cursor = EndBlock, !.block = NULL, !.null = TRUE]
    BY <1>3 DEF allocate_blocks
  <2>2. EndBlock \in FirstBlock .. EndBlock
    BY <1>1
  <2>3. /\ g \in Building
        /\ g.tables = s.tables /\ g.dir = s.dir /\ g.list = s.list
        /\ g.block = NULL /\ g.held = s.held /\ g.null = TRUE
    BY <2>1, <2>2 DEF Building
  <2> QED BY <2>3 DEF Given
<1>4. CASE runs # {}
  <2>1. g = [s EXCEPT !.cursor = b + count - 1, !.block = b,
                      !.held = @ \cup (b .. b + count - 1)]
    BY <1>4 DEF allocate_blocks
  <2>2. runs \subseteq Nat
    BY <1>1, <1>2
  <2>3. b \in runs
    BY <1>4, <2>2, MinOfNat
  <2> HIDE DEF g, b
  <2>4. /\ b \in Block /\ b + count - 1 \in FirstBlock .. EndBlock
        /\ b .. b + count - 1 \subseteq Block
        /\ (b .. b + count - 1) \cap s.held = {}
    BY <1>1, <1>2, <2>3
  <2>5. s.held \subseteq Block
    BY DEF Building
  <2>6. /\ g \in Building
        /\ g.tables = s.tables /\ g.dir = s.dir /\ g.list = s.list
        /\ g.block = b /\ g.held = s.held \cup (b .. b + count - 1)
        /\ g.null = s.null
    BY <2>1, <2>4, <2>5 DEF Building
  <2> QED BY <2>4, <2>6 DEF Given, Run, g
<1> QED BY <1>3, <1>4

LEMMA RecordGives ==
  ASSUME NEW s \in Building, NEW b \in Block \cup LowPages
  PROVE  /\ Record(s, b) \in Building
         /\ Record(s, b).held = s.held /\ Record(s, b).tables = s.tables
         /\ Record(s, b).dir = s.dir /\ Record(s, b).null = s.null
         /\ Record(s, b).list = Append(s.list, b)
<1>1. s.list \in Seq(Block \cup LowPages)
  BY DEF Building
<1>2. Append(s.list, b) \in Seq(Block \cup LowPages)
  BY <1>1, AppendProperties
<1> QED BY <1>2 DEF Record, Building

(* m is what becomes of s when b is recorded and v is mapped to it; c is   *)
(* the block of the table that is cloned.                                  *)
FrameOf(v) == v \div PagesPerTable
EntryOf(v) == v % PagesPerTable

MapInto(s, m, v, b) ==
  /\ s.dir[FrameOf(v)] # Template
  /\ m.held = s.held /\ m.dir = s.dir /\ m.null = s.null
  /\ m.list = Append(s.list, b)
  /\ m.tables = [s.tables EXCEPT ![s.dir[FrameOf(v)]][EntryOf(v)] = b]

MapClone(s, m, v, b, c) ==
  /\ s.dir[FrameOf(v)] = Template
  /\ m.dir = [s.dir EXCEPT ![FrameOf(v)] = c]
  /\ m.tables = [s.tables EXCEPT ![c] = [EmptyTable EXCEPT ![EntryOf(v)] = b]]
  /\ \/ /\ c = NULL /\ m.held = s.held /\ m.null = TRUE
        /\ m.list = Append(s.list, b)
     \/ /\ c \in Block \ s.held /\ m.held = s.held \cup {c} /\ m.null = s.null
        /\ m.list = Append(Append(s.list, b), c)

MapStep(s, m, v, b) ==
  /\ m \in Building
  /\ MapInto(s, m, v, b) \/ \E c \in Block \cup {NULL} : MapClone(s, m, v, b, c)

LEMMA EmptyTableType ==
  ASSUME NEW e \in Entry, NEW b \in Block \cup LowPages
  PROVE  EmptyTable \in TableType /\ [EmptyTable EXCEPT ![e] = b] \in TableType
BY DEF EmptyTable, TableType

LEMMA MapGives ==
  ASSUME NEW s \in Building, NEW v \in Page, NEW b \in Block \cup LowPages
  PROVE  MapStep(s, map_physical(Record(s, b), v, b), v, b)
<1> DEFINE r == Record(s, b)
           f == FrameOf(v)
           e == EntryOf(v)
           m == map_physical(r, v, b)
           fresh == allocate_blocks(r, 1)
<1>1. /\ r \in Building /\ r.held = s.held /\ r.tables = s.tables /\ r.dir = s.dir
      /\ r.null = s.null /\ r.list = Append(s.list, b)
  BY RecordGives
<1>2. f \in Frame /\ e \in Entry
  BY PageFacts DEF FrameOf, EntryOf
<1>3. Given(r, fresh, 1)
  BY <1>1, AllocateGives
<1> DEFINE clone == IF fresh.block = NULL THEN fresh ELSE Record(fresh, fresh.block)
           own == IF r.dir[f] = Template
                    THEN [clone EXCEPT !.dir[f] = fresh.block,
                                       !.tables[fresh.block] = EmptyTable]
                    ELSE r
<1>4. m = [own EXCEPT !.tables[own.dir[f]][e] = b]
  BY DEF map_physical, FrameOf, EntryOf
<1> HIDE DEF m, r, fresh, f, e
<1>5. CASE s.dir[f] # Template
  <2>1. m = [r EXCEPT !.tables[r.dir[f]][e] = b]
    BY <1>1, <1>4, <1>5
  <2>2. r.dir[f] \in Block \cup {NULL}
    BY <1>1, <1>2, <1>5 DEF Building
  <2>3. [r.tables EXCEPT ![r.dir[f]][e] = b] \in [Block \cup {NULL} -> TableType]
    BY <1>1, <1>2, <2>2 DEF Building, TableType
  <2>4. /\ m \in Building
        /\ m.held = r.held /\ m.dir = r.dir /\ m.null = r.null /\ m.list = r.list
        /\ m.tables = [r.tables EXCEPT ![r.dir[f]][e] = b]
    BY <1>1, <2>1, <2>3 DEF Building
  <2>5. MapInto(s, m, v, b)
    BY <1>1, <1>5, <2>4 DEF MapInto, f, e
  <2> QED BY <2>4, <2>5 DEF MapStep, m, r
<1>6. CASE s.dir[f] = Template
  <2> DEFINE c == fresh.block
  <2>1. /\ fresh \in Building /\ fresh.tables = s.tables /\ fresh.dir = s.dir
        /\ fresh.list = Append(s.list, b)
        /\ \/ c = NULL /\ fresh.held = s.held /\ fresh.null = TRUE
           \/ /\ c \in Block \ s.held /\ c # NULL
              /\ fresh.held = s.held \cup {c} /\ fresh.null = s.null
    <3>1. ASSUME c \in Block PROVE Run(c, 1) = {c} /\ c # NULL
      <4>1. c \in Nat
        BY <3>1, Kinds
      <4> QED BY <3>1, <4>1, Kinds DEF Run
    <3> QED BY <1>1, <1>3, <3>1 DEF Given
  <2>2. /\ clone \in Building /\ clone.tables = s.tables /\ clone.dir = s.dir
        /\ clone.held = fresh.held /\ clone.null = fresh.null
        /\ clone.list = IF c = NULL THEN fresh.list ELSE Append(fresh.list, c)
    BY <2>1, RecordGives
  <2>3. own = [clone EXCEPT !.dir[f] = c, !.tables[c] = EmptyTable]
    BY <1>1, <1>6
  <2> HIDE DEF c, clone, own
  <2>4. c \in Block \cup {NULL}
    BY <2>1
  <2>5. /\ [clone.dir EXCEPT ![f] = c] \in [Frame -> Block \cup {NULL, Template}]
        /\ [clone.tables EXCEPT ![c] = EmptyTable] \in [Block \cup {NULL} -> TableType]
    BY <1>2, <2>2, <2>4, EmptyTableType DEF Building
  <2>6. /\ own \in Building
        /\ own.dir = [clone.dir EXCEPT ![f] = c]
        /\ own.tables = [clone.tables EXCEPT ![c] = EmptyTable]
        /\ own.held = clone.held /\ own.null = clone.null /\ own.list = clone.list
    BY <2>2, <2>3, <2>5 DEF Building
  <2>7. own.dir[f] = c
    BY <1>2, <2>2, <2>6 DEF Building
  <2>8. m = [own EXCEPT !.tables[c][e] = b]
    BY <1>4, <2>7
  <2>9. /\ [own.tables EXCEPT ![c][e] = b] \in [Block \cup {NULL} -> TableType]
        /\ [own.tables EXCEPT ![c][e] = b] =
             [s.tables EXCEPT ![c] = [EmptyTable EXCEPT ![e] = b]]
    <3>1. s.tables \in [Block \cup {NULL} -> TableType]
      BY DEF Building
    <3>2. EmptyTable \in TableType /\ [EmptyTable EXCEPT ![e] = b] \in TableType
      BY <1>2, EmptyTableType
    <3> QED BY <2>2, <2>4, <2>6, <3>1, <3>2
  <2>10. /\ m \in Building
         /\ m.held = own.held /\ m.dir = own.dir /\ m.null = own.null
         /\ m.list = own.list /\ m.tables = [own.tables EXCEPT ![c][e] = b]
    BY <2>6, <2>8, <2>9 DEF Building
  <2>11. MapClone(s, m, v, b, c)
    BY <1>6, <2>1, <2>2, <2>6, <2>9, <2>10 DEF MapClone, f, e
  <2> QED BY <2>4, <2>10, <2>11 DEF MapStep, m, r
<1> QED BY <1>5, <1>6

-----------------------------------------------------------------------------
(* What is recorded.  base is held by others, pending has been given out   *)
(* and is not recorded yet.                                                *)

Accounts(s, base, pending) ==
  /\ s.held = base \cup ((Range(s.list) \cup pending) \ LowPages)
  /\ (Range(s.list) \cup pending) \cap base = {}
  /\ Range(s.list) \cap pending \subseteq {NULL}
  /\ Once(s.list)

LEMMA AccountsGiven ==
  ASSUME NEW s \in Building, NEW g, NEW count \in Nat, count > 0, Given(s, g, count),
         NEW base \in SUBSET Block, Accounts(s, base, {}),
         g.block # NULL \/ count <= StackPages,
         Range(s.list) \cap LowPages \subseteq {NULL}
  PROVE  /\ Accounts(g, base, Run(g.block, count))
         /\ Run(g.block, count) \subseteq Block \cup LowPages
<1> DEFINE run == Run(g.block, count)
<1>1. CASE g.block = NULL
  <2>1. run \subseteq LowPages
    BY <1>1, Layout DEF Sizes, Run, Given
  <2>2. g.held = s.held /\ g.list = s.list
    BY <1>1, Kinds DEF Given
  <2> HIDE DEF run
  <2> QED BY <2>1, <2>2, Kinds DEF Accounts, run
<1>2. CASE g.block # NULL
  <2>1. /\ run \subseteq Block \ s.held /\ g.held = s.held \cup run
        /\ g.list = s.list
    BY <1>2 DEF Given
  <2> HIDE DEF run
  <2>2. Range(s.list) \cap run = {}
    <3>1. Range(s.list) \ LowPages \subseteq s.held
      BY DEF Accounts
    <3> QED BY <2>1, <3>1, Kinds
  <2> QED BY <2>1, <2>2, Kinds DEF Accounts, run
<1> QED BY <1>1, <1>2

LEMMA AccountsMap ==
  ASSUME NEW s \in Building, NEW m, NEW v, NEW b, MapStep(s, m, v, b),
         NEW base \in SUBSET Block, NEW pending \in SUBSET (Block \cup LowPages),
         Accounts(s, base, pending), b \in pending
  PROVE  Accounts(m, base, pending \ {b})
<1> DEFINE L == Append(s.list, b)
<1>1. s.list \in Seq(Block \cup LowPages) /\ b \in Block \cup LowPages
  BY DEF Building
<1>2. L \in Seq(Block \cup LowPages) /\ Range(L) = Range(s.list) \cup {b}
  BY <1>1, RangeAppend
<1>3. Once(L)
  <2>1. b \notin Range(s.list) \/ b = NULL
    BY DEF Accounts
  <2> QED BY <1>1, <2>1, OnceAppend DEF Accounts
<1> HIDE DEF L
<1>4. ASSUME m.held = s.held, m.list = L
      PROVE  Accounts(m, base, pending \ {b})
  BY <1>2, <1>3, <1>4 DEF Accounts
<1>5. ASSUME NEW c \in Block \ s.held, m.held = s.held \cup {c}, m.list = Append(L, c)
      PROVE  Accounts(m, base, pending \ {b})
  <2>1. c \notin Range(L) /\ c \notin pending /\ c \notin base /\ c \notin LowPages
    <3>1. c \notin LowPages
      BY Kinds
    <3>2. /\ base \subseteq s.held /\ Range(s.list) \ LowPages \subseteq s.held
          /\ pending \ LowPages \subseteq s.held
      BY DEF Accounts
    <3> QED BY <1>2, <3>1, <3>2
  <2>2. Range(m.list) = Range(L) \cup {c} /\ Once(m.list)
    BY <1>2, <1>3, <1>5, <2>1, RangeAppend, OnceAppend
  <2> QED BY <1>2, <1>5, <2>1, <2>2 DEF Accounts
<1> QED BY <1>4, <1>5 DEF MapStep, MapInto, MapClone, L

-----------------------------------------------------------------------------
(* The tables: each of one frame only, none of them one of those kept for  *)
(* other directories, which stay as they were.                             *)

TablesApart(s, kept, old) ==
  /\ kept \subseteq s.held
  /\ \A f \in Frame : /\ s.dir[f] \in s.held \cup {Template, NULL}
                      /\ s.dir[f] \notin kept
  /\ \A f, g \in Frame :
       s.dir[f] = s.dir[g] /\ s.dir[f] \notin {Template, NULL} => f = g
  /\ \A b \in kept : s.tables[b] = old[b]

LEMMA TablesGiven ==
  ASSUME NEW s \in Building, NEW g, NEW count, Given(s, g, count),
         NEW kept, NEW old, TablesApart(s, kept, old)
  PROVE  TablesApart(g, kept, old)
<1>1. s.held \subseteq g.held /\ g.dir = s.dir /\ g.tables = s.tables
  BY DEF Given
<1> QED BY <1>1 DEF TablesApart

LEMMA TablesMap ==
  ASSUME NEW s \in Building, NEW m, NEW v \in Page, NEW b, MapStep(s, m, v, b),
         NEW kept, NEW old, TablesApart(s, kept, old)
  PROVE  TablesApart(m, kept, old)
<1> DEFINE f == FrameOf(v)
<1>1. /\ f \in Frame /\ s.dir \in [Frame -> Block \cup {NULL, Template}]
      /\ s.tables \in [Block \cup {NULL} -> TableType] /\ s.held \subseteq Block
      /\ kept \subseteq Block
  BY PageFacts DEF FrameOf, Building, TablesApart
<1>2. ASSUME MapInto(s, m, v, b) PROVE TablesApart(m, kept, old)
  <2>1. /\ m.held = s.held /\ m.dir = s.dir
        /\ m.tables = [s.tables EXCEPT ![s.dir[f]][EntryOf(v)] = b]
    BY <1>2 DEF MapInto
  <2>2. \A x \in kept : m.tables[x] = s.tables[x]
    <3>1. s.dir[f] \notin kept
      BY <1>1 DEF TablesApart
    <3> QED BY <1>1, <2>1, <3>1
  <2> QED BY <2>1, <2>2 DEF TablesApart
<1>3. ASSUME NEW c \in Block \cup {NULL}, MapClone(s, m, v, b, c)
      PROVE  TablesApart(m, kept, old)
  <2>1. /\ s.dir[f] = Template /\ m.dir = [s.dir EXCEPT ![f] = c]
        /\ m.tables = [s.tables EXCEPT ![c] = [EmptyTable EXCEPT ![EntryOf(v)] = b]]
        /\ \/ c = NULL /\ m.held = s.held
           \/ c \in Block \ s.held /\ m.held = s.held \cup {c}
    BY <1>3 DEF MapClone
  <2> HIDE DEF f
  <2>2. c \notin kept
    BY <1>1, <2>1, Kinds DEF TablesApart
  <2>3. \A x \in kept : m.tables[x] = s.tables[x]
    BY <1>1, <2>1, <2>2
  <2>4. \A g \in Frame : m.dir[g] = IF g = f THEN c ELSE s.dir[g]
    BY <1>1, <2>1
  <2>5. \A g \in Frame \ {f} : c \in Block => s.dir[g] # c
    BY <1>1, <2>1, Kinds DEF TablesApart
  <2> QED BY <2>1, <2>2, <2>3, <2>4, <2>5 DEF TablesApart
<1> QED BY <1>2, <1>3 DEF MapStep

-----------------------------------------------------------------------------
(* The pages. *)

At(s, v) ==
  LET table == s.dir[v \div PagesPerTable]
  IN  IF table = Template THEN NotPresent ELSE s.tables[table][v % PagesPerTable]

NoTableAtNull(s) == \A f \in Frame : s.dir[f] # NULL

(* The way from s to m: pages of S were mapped, tables were cloned for     *)
(* their frames and recorded, and no other page leads elsewhere.           *)
Onward(s, m, S) ==
  /\ Range(s.list) \subseteq Range(m.list)
  /\ \A f \in Frame :
       \/ m.dir[f] = s.dir[f]
       \/ /\ s.dir[f] = Template /\ f \in Frames(S)
          /\ m.dir[f] \in Range(m.list) \cup {NULL}
  /\ \A f \in Frames(S) : m.dir[f] # Template
  /\ ~ m.null => ~ s.null /\ (NoTableAtNull(s) => NoTableAtNull(m))
  /\ NoTableAtNull(m) =>
       /\ NoTableAtNull(s)
       /\ \A w \in Page \ S : At(m, w) = At(s, w)

LEMMA OnwardGiven ==
  ASSUME NEW s \in Building, NEW g, NEW count, Given(s, g, count)
  PROVE  Onward(s, g, {})
<1>1. g.dir = s.dir /\ g.tables = s.tables /\ g.list = s.list /\ (~ g.null => ~ s.null)
  BY DEF Given
<1>2. Frames({}) = {}
  BY DEF Frames
<1> QED BY <1>1, <1>2 DEF Onward, NoTableAtNull, At

LEMMA OnwardTwice ==
  ASSUME NEW s, NEW m, NEW n, NEW S, NEW T, Onward(s, m, S), Onward(m, n, T),
         S \cup T \subseteq Page
  PROVE  Onward(s, n, S \cup T)
<1>1. \A f : f \in Frames(S \cup T) <=> f \in Frames(S) \/ f \in Frames(T)
  BY DEF Frames
<1>2. Range(s.list) \subseteq Range(n.list)
  BY DEF Onward
<1>3. ASSUME NEW f \in Frame
      PROVE  \/ n.dir[f] = s.dir[f]
             \/ /\ s.dir[f] = Template /\ f \in Frames(S \cup T)
                /\ n.dir[f] \in Range(n.list) \cup {NULL}
  <2>1. Range(m.list) \subseteq Range(n.list)
    BY DEF Onward
  <2> QED BY <1>1, <2>1 DEF Onward
<1>4. ASSUME NEW f \in Frames(S \cup T) PROVE n.dir[f] # Template
  <2>1. f \in Frame
    BY <1>4 DEF Frames, Frame
  <2>2. CASE f \in Frames(T)
    BY <2>2 DEF Onward
  <2>3. CASE f \in Frames(S)
    <3>1. m.dir[f] # Template
      BY <2>3 DEF Onward
    <3> QED BY <2>1, <3>1 DEF Onward
  <2> QED BY <1>1, <1>4, <2>2, <2>3
<1>5. ~ n.null => ~ s.null /\ (NoTableAtNull(s) => NoTableAtNull(n))
  BY DEF Onward
<1>6. NoTableAtNull(n) =>
        NoTableAtNull(s) /\ \A w \in Page \ (S \cup T) : At(n, w) = At(s, w)
  BY DEF Onward
<1> QED BY <1>2, <1>3, <1>4, <1>5, <1>6 DEF Onward

MapsOne(s, m, v, b) ==
  /\ Onward(s, m, {v})
  /\ Range(m.list) \subseteq Range(s.list) \cup {b} \cup Block
  /\ b \in Range(m.list)
  /\ NoTableAtNull(m) => At(m, v) = b

LEMMA OnwardMap ==
  ASSUME NEW s \in Building, NEW m, NEW v \in Page, NEW b \in Block \cup LowPages,
         MapStep(s, m, v, b), NEW kept, NEW old, TablesApart(s, kept, old)
  PROVE  MapsOne(s, m, v, b)
<1> DEFINE f == FrameOf(v)
           e == EntryOf(v)
           L == Append(s.list, b)
<1>1. /\ f \in Frame /\ e \in Entry /\ s.dir \in [Frame -> Block \cup {NULL, Template}]
      /\ s.tables \in [Block \cup {NULL} -> TableType] /\ s.held \subseteq Block
      /\ s.list \in Seq(Block \cup LowPages)
  BY PageFacts DEF FrameOf, EntryOf, Building
<1>2. L \in Seq(Block \cup LowPages) /\ Range(L) = Range(s.list) \cup {b}
  BY <1>1, RangeAppend
<1>3. Frames({v}) = {f}
  BY DEF Frames, FrameOf
<1>4. \A w \in Page : /\ FrameOf(w) \in Frame /\ EntryOf(w) \in Entry
                      /\ w # v => FrameOf(w) # f \/ EntryOf(w) # e
  BY PageFacts DEF FrameOf, EntryOf
<1>5. /\ \A w : At(s, w) = IF s.dir[FrameOf(w)] = Template THEN NotPresent
                           ELSE s.tables[s.dir[FrameOf(w)]][EntryOf(w)]
      /\ \A w : At(m, w) = IF m.dir[FrameOf(w)] = Template THEN NotPresent
                           ELSE m.tables[m.dir[FrameOf(w)]][EntryOf(w)]
  BY DEF At, FrameOf, EntryOf
<1> HIDE DEF f, e, L
<1>6. ASSUME MapInto(s, m, v, b)
      PROVE  MapsOne(s, m, v, b)
  <2>1. /\ s.dir[f] # Template /\ m.dir = s.dir /\ m.list = L
        /\ m.null = s.null /\ m.tables = [s.tables EXCEPT ![s.dir[f]][e] = b]
    BY <1>6 DEF MapInto, f, e, L
  <2>2. s.dir[f] \in Block \cup {NULL}
    BY <1>1, <2>1
  <2>3. /\ m.tables[s.dir[f]] = [s.tables[s.dir[f]] EXCEPT ![e] = b]
        /\ \A x \in Block \cup {NULL} : x # s.dir[f] => m.tables[x] = s.tables[x]
    BY <1>1, <2>1, <2>2
  <2>4. /\ m.tables[s.dir[f]][e] = b
        /\ \A x \in Entry : x # e => m.tables[s.dir[f]][x] = s.tables[s.dir[f]][x]
    <3>1. s.tables[s.dir[f]] \in TableType
      BY <1>1, <2>2
    <3> QED BY <1>1, <2>3, <3>1 DEF TableType
  <2>5. ASSUME NoTableAtNull(s), NEW w \in Page, w # v PROVE At(m, w) = At(s, w)
    <3>1. CASE s.dir[FrameOf(w)] = Template
      BY <1>5, <2>1, <3>1
    <3>2. CASE s.dir[FrameOf(w)] # Template /\ FrameOf(w) = f
      BY <1>4, <1>5, <2>1, <2>4, <2>5, <3>2
    <3>3. CASE s.dir[FrameOf(w)] # Template /\ FrameOf(w) # f
      <4>1. s.dir[FrameOf(w)] # s.dir[f]
        BY <1>1, <1>4, <2>1, <2>5, <3>3 DEF TablesApart, NoTableAtNull
      <4>2. s.dir[FrameOf(w)] \in Block \cup {NULL}
        BY <1>1, <1>4, <3>3
      <4> QED BY <1>5, <2>1, <2>3, <3>3, <4>1, <4>2
    <3> QED BY <3>1, <3>2, <3>3
  <2>6. At(m, v) = b
    BY <1>5, <2>1, <2>4 DEF f, e
  <2>7. NoTableAtNull(m) <=> NoTableAtNull(s)
    BY <2>1 DEF NoTableAtNull
  <2>8. Onward(s, m, {v})
    BY <1>2, <1>3, <2>1, <2>5, <2>7 DEF Onward
  <2> QED BY <1>2, <2>1, <2>6, <2>8 DEF MapsOne
<1>7. ASSUME NEW c \in Block \cup {NULL}, MapClone(s, m, v, b, c)
      PROVE  MapsOne(s, m, v, b)
  <2>1. /\ s.dir[f] = Template /\ m.dir = [s.dir EXCEPT ![f] = c]
        /\ m.tables = [s.tables EXCEPT ![c] = [EmptyTable EXCEPT ![e] = b]]
        /\ \/ c = NULL /\ m.list = L /\ m.null = TRUE
           \/ c \in Block \ s.held /\ m.list = Append(L, c) /\ m.null = s.null
    BY <1>7 DEF MapClone, f, e, L
  <2>2. \A g \in Frame : m.dir[g] = IF g = f THEN c ELSE s.dir[g]
    BY <1>1, <2>1
  <2>3. /\ Range(s.list) \subseteq Range(m.list)
        /\ Range(m.list) \subseteq Range(s.list) \cup {b} \cup Block
        /\ b \in Range(m.list) /\ c \in Range(m.list) \cup {NULL}
    <3>1. CASE m.list = L
      BY <1>2, <2>1, <3>1, Kinds
    <3>2. CASE m.list = Append(L, c) /\ c \in Block
      <4>1. Range(m.list) = Range(L) \cup {c}
        BY <1>2, <3>2, RangeAppend
      <4> QED BY <1>2, <3>2, <4>1
    <3> QED BY <2>1, <3>1, <3>2, <1>2
  <2>4. c # Template
    BY Kinds
  <2>5. /\ m.tables[c][e] = b
        /\ \A x \in Entry : x # e => m.tables[c][x] = NotPresent
        /\ \A x \in Block \cup {NULL} : x # c => m.tables[x] = s.tables[x]
    BY <1>1, <2>1 DEF EmptyTable
  <2>6. ASSUME NoTableAtNull(m), NEW w \in Page, w # v PROVE At(m, w) = At(s, w)
    <3>1. CASE FrameOf(w) = f
      BY <1>4, <1>5, <2>1, <2>2, <2>4, <2>5, <2>6, <3>1, <1>1
    <3>2. CASE FrameOf(w) # f
      <4>1. m.dir[FrameOf(w)] = s.dir[FrameOf(w)]
        BY <1>4, <2>2, <3>2
      <4>2. CASE s.dir[FrameOf(w)] = Template
        BY <1>5, <4>1, <4>2
      <4>3. CASE s.dir[FrameOf(w)] # Template
        <5>1. s.dir[FrameOf(w)] \in Block \cup {NULL} /\ s.dir[FrameOf(w)] # c
          <6>1. c # NULL
            BY <1>1, <2>2, <2>6 DEF NoTableAtNull
          <6> QED BY <1>1, <1>4, <2>1, <4>3, <6>1 DEF TablesApart
        <5> QED BY <1>5, <2>5, <4>1, <4>3, <5>1
      <4> QED BY <4>2, <4>3
    <3> QED BY <3>1, <3>2
  <2>7. At(m, v) = b
    BY <1>1, <1>5, <2>2, <2>4, <2>5 DEF f, e
  <2>8. NoTableAtNull(m) => NoTableAtNull(s)
    BY <1>1, <2>1, <2>2, Kinds DEF NoTableAtNull
  <2>9. ~ m.null => ~ s.null /\ (NoTableAtNull(s) => NoTableAtNull(m))
    BY <2>1, <2>2, Kinds DEF NoTableAtNull
  <2>10. Onward(s, m, {v})
    BY <1>1, <1>3, <2>1, <2>2, <2>3, <2>4, <2>6, <2>8, <2>9 DEF Onward
  <2> QED BY <2>3, <2>7, <2>10 DEF MapsOne
<1> QED BY <1>6, <1>7 DEF MapStep

-----------------------------------------------------------------------------
(* A run of blocks is mapped. *)

LEMMA OnwardSelf ==
  ASSUME NEW s PROVE Onward(s, s, {})
BY DEF Onward, Frames

MapsInTurn(s, first, count, pages, mapped) ==
  /\ MapRun(s, first, count, pages) = mapped[count]
  /\ mapped = [i \in 0 .. count |->
        IF i = 0 THEN s
        ELSE map_physical(Record(mapped[i - 1], first + i - 1), pages[i - 1],
                          first + i - 1)]

LEMMA MapRunEquation ==
  ASSUME NEW s, NEW first, NEW count \in Nat, NEW pages
  PROVE  \E mapped : MapsInTurn(s, first, count, pages, mapped)
<1> DEFINE Step(r, i) ==
             map_physical(Record(r, first + i - 1), pages[i - 1], first + i - 1)
           Fixed(N, f) == f = [i \in 0 .. N |-> IF i = 0 THEN s ELSE Step(f[i - 1], i)]
           missing == {N \in Nat : ~ \E f : Fixed(N, f)}
<1>1. MapRun(s, first, count, pages) = (CHOOSE f : Fixed(count, f))[count]
  BY DEF MapRun
<1> HIDE DEF Step
<1>2. missing = {}
  <2> SUFFICES ASSUME missing # {} PROVE FALSE
    OBVIOUS
  <2>1. missing \subseteq Nat
    OBVIOUS
  <2>2. PICK N \in missing : \A y \in missing : N <= y
    BY <2>1, MinOfNat
  <2>3. N # 0
    <3>1. Fixed(0, [i \in 0 .. 0 |-> s])
      OBVIOUS
    <3> QED BY <2>2, <3>1
  <2>4. N - 1 \in Nat /\ N - 1 \notin missing
    <3>1. N \in Nat
      BY <2>1, <2>2
    <3>2. N - 1 \in Nat /\ ~ (N <= N - 1)
      BY <2>3, <3>1
    <3> QED BY <2>2, <3>2
  <2>5. PICK f : Fixed(N - 1, f)
    BY <2>4
  <2> DEFINE g == [i \in 0 .. N |-> IF i = 0 THEN s ELSE Step(f[i - 1], i)]
  <2>6. \A i \in 0 .. N - 1 : g[i] = f[i]
    <3>1. \A i \in 0 .. N - 1 : i \in 0 .. N
      BY <2>1, <2>2
    <3>2. DOMAIN f = 0 .. N - 1
      BY <2>5
    <3>3. \A i \in 0 .. N - 1 : f[i] = IF i = 0 THEN s ELSE Step(f[i - 1], i)
      BY <2>5
    <3> QED BY <3>1, <3>3
  <2>7. Fixed(N, g)
    <3>1. ASSUME NEW i \in 0 .. N, i # 0 PROVE Step(f[i - 1], i) = Step(g[i - 1], i)
      <4>1. i - 1 \in 0 .. N - 1
        BY <2>1, <2>2, <3>1
      <4> QED BY <2>6, <4>1
    <3> QED BY <3>1
  <2> QED BY <2>2, <2>7
<1>3. \E f : Fixed(count, f)
  BY <1>2
<1> QED BY <1>1, <1>3 DEF Step, MapsInTurn

(* What is left of a run when i of its blocks are mapped. *)
Mapping(s, base, kept, old, first, count, pages, i, r) ==
  /\ r \in Building
  /\ Accounts(r, base, Run(first + i, count - i))
  /\ TablesApart(r, kept, old)
  /\ Onward(s, r, {pages[j] : j \in 0 .. i - 1})
  /\ Range(r.list) \subseteq Range(s.list) \cup Run(first, count) \cup Block
  /\ \A j \in 0 .. i - 1 : first + j \in Range(r.list)
  /\ NoTableAtNull(r) => \A j \in 0 .. i - 1 : At(r, pages[j]) = first + j

LEMMA MappingStep ==
  ASSUME NEW s, NEW base \in SUBSET Block, NEW kept, NEW old,
         NEW first \in Nat, NEW count \in Nat,
         Run(first, count) \subseteq Block \cup LowPages,
         NEW pages \in [0 .. count - 1 -> Page],
         \A j, k \in 0 .. count - 1 : pages[j] = pages[k] => j = k,
         NEW i \in 0 .. count - 1, NEW r,
         Mapping(s, base, kept, old, first, count, pages, i, r),
         NEW m, m = map_physical(Record(r, first + i), pages[i], first + i)
  PROVE  Mapping(s, base, kept, old, first, count, pages, i + 1, m)
<1> DEFINE b == first + i
           v == pages[i]
           pending == Run(first + i, count - i)
           seen == {pages[j] : j \in 0 .. i - 1}
<1>1. /\ r \in Building /\ Accounts(r, base, pending) /\ TablesApart(r, kept, old)
      /\ Onward(s, r, seen)
      /\ Range(r.list) \subseteq Range(s.list) \cup Run(first, count) \cup Block
      /\ \A j \in 0 .. i - 1 : first + j \in Range(r.list)
      /\ NoTableAtNull(r) => \A j \in 0 .. i - 1 : At(r, pages[j]) = first + j
  BY DEF Mapping
<1>2. /\ b \in Nat /\ b \in Run(first, count) /\ b \in pending /\ v \in Page
      /\ pending \subseteq Run(first, count)
      /\ pending \ {b} = Run(first + (i + 1), count - (i + 1))
  <2>1. b \in Nat /\ v \in Page
    OBVIOUS
  <2>2. b \in Run(first, count) /\ b \in pending /\ pending \subseteq Run(first, count)
    BY DEF Run
  <2>3. pending \ {b} = Run(first + (i + 1), count - (i + 1))
    BY DEF Run
  <2> QED BY <2>1, <2>2, <2>3
<1>3. {pages[j] : j \in 0 .. (i + 1) - 1} = seen \cup {v}
  <2>1. \A j : j \in 0 .. (i + 1) - 1 <=> j \in 0 .. i - 1 \/ j = i
    OBVIOUS
  <2> QED BY <2>1
<1>4. \A j \in 0 .. i - 1 : pages[j] # v /\ pages[j] \in Page
  OBVIOUS
<1>5. seen \subseteq Page
  BY <1>4
<1>6. m = map_physical(Record(r, b), v, b)
  OBVIOUS
<1>7. v \notin seen
  BY <1>4
<1> HIDE DEF b, v, pending, seen
<1>8. b \in Block \cup LowPages /\ v \in Page
  BY <1>2
<1>9. MapStep(r, m, v, b)
  BY <1>1, <1>2, <1>6, <1>8, MapGives
<1>10. m \in Building
  BY <1>9 DEF MapStep
<1>11. Accounts(m, base, pending \ {b})
  <2>1. pending \in SUBSET (Block \cup LowPages)
    BY <1>2
  <2> QED BY <1>1, <1>2, <1>9, <2>1, AccountsMap
<1>12. TablesApart(m, kept, old)
  BY <1>1, <1>2, <1>9, TablesMap
<1>13. /\ Onward(r, m, {v})
       /\ Range(m.list) \subseteq Range(r.list) \cup {b} \cup Block
       /\ b \in Range(m.list)
       /\ NoTableAtNull(m) => At(m, v) = b
  <2>1. MapsOne(r, m, v, b)
    BY <1>1, <1>8, <1>9, OnwardMap
  <2> QED BY <2>1 DEF MapsOne
<1>14. Onward(s, m, seen \cup {v})
  <2>1. seen \cup {v} \subseteq Page
    BY <1>2, <1>5
  <2> QED BY <1>1, <1>13, <2>1, OnwardTwice
<1>15. Range(m.list) \subseteq Range(s.list) \cup Run(first, count) \cup Block
  BY <1>1, <1>2, <1>13
<1>16. ASSUME NEW j \in 0 .. (i + 1) - 1
       PROVE  /\ first + j \in Range(m.list)
              /\ NoTableAtNull(m) => At(m, pages[j]) = first + j
  <2>1. CASE j = i
    BY <1>13, <2>1 DEF b, v
  <2>2. CASE j # i
    <3>1. j \in 0 .. i - 1
      BY <2>2
    <3>2. first + j \in Range(m.list)
      BY <1>1, <1>13, <3>1 DEF Onward
    <3>3. ASSUME NoTableAtNull(m) PROVE At(m, pages[j]) = first + j
      <4>1. NoTableAtNull(r) /\ At(m, pages[j]) = At(r, pages[j])
        BY <1>4, <1>13, <3>1, <3>3 DEF Onward
      <4> QED BY <1>1, <3>1, <4>1
    <3> QED BY <3>2, <3>3
  <2> QED BY <2>1, <2>2
<1> QED BY <1>2, <1>3, <1>10, <1>11, <1>12, <1>14, <1>15, <1>16 DEF Mapping

LEMMA MapRunGives ==
  ASSUME NEW s \in Building, NEW base \in SUBSET Block, NEW kept, NEW old,
         NEW first \in Nat, NEW count \in Nat,
         Run(first, count) \subseteq Block \cup LowPages,
         NEW pages \in [0 .. count - 1 -> Page],
         \A j, k \in 0 .. count - 1 : pages[j] = pages[k] => j = k,
         Accounts(s, base, Run(first, count)), TablesApart(s, kept, old)
  PROVE  Mapping(s, base, kept, old, first, count, pages, count,
                 MapRun(s, first, count, pages))
<1> DEFINE Good(i, r) == Mapping(s, base, kept, old, first, count, pages, i, r)
<1>0. PICK mapped : MapsInTurn(s, first, count, pages, mapped)
  BY MapRunEquation
<1>1. /\ MapRun(s, first, count, pages) = mapped[count]
      /\ mapped = [i \in 0 .. count |->
            IF i = 0 THEN s
            ELSE map_physical(Record(mapped[i - 1], first + i - 1),
                              pages[i - 1], first + i - 1)]
  BY <1>0 DEF MapsInTurn
<1>2. Good(0, s)
  <2>1. {pages[j] : j \in 0 .. 0 - 1} = {} /\ first + 0 = first /\ count - 0 = count
    OBVIOUS
  <2>2. \A j \in 0 .. 0 - 1 : FALSE
    OBVIOUS
  <2> QED BY <2>1, <2>2, OnwardSelf DEF Mapping
<1>3. ASSUME NEW i \in 0 .. count - 1, Good(i, mapped[i])
      PROVE  Good(i + 1, mapped[i + 1])
  <2>1. i + 1 \in 0 .. count /\ i + 1 # 0 /\ (i + 1) - 1 = i
        /\ first + (i + 1) - 1 = first + i
    OBVIOUS
  <2>2. mapped[i + 1] = map_physical(Record(mapped[i], first + i), pages[i], first + i)
    BY <1>1, <2>1
  <2> QED BY <1>3, <2>2, MappingStep
<1> DEFINE bad == {i \in 0 .. count : ~ Good(i, mapped[i])}
<1> HIDE DEF Good
<1>4. bad = {}
  <2> SUFFICES ASSUME bad # {} PROVE FALSE
    OBVIOUS
  <2>1. bad \subseteq Nat
    OBVIOUS
  <2>2. PICK i \in bad : \A y \in bad : i <= y
    BY <2>1, MinOfNat
  <2>3. i # 0
    BY <1>1, <1>2, <2>2
  <2>4. i - 1 \in 0 .. count - 1 /\ ~ (i <= i - 1) /\ (i - 1) + 1 = i
        /\ i - 1 \in 0 .. count
    BY <2>2, <2>3
  <2>5. Good(i - 1, mapped[i - 1])
    BY <2>2, <2>4
  <2>6. Good((i - 1) + 1, mapped[(i - 1) + 1])
    BY <1>3, <2>4, <2>5
  <2> QED BY <2>2, <2>4, <2>6
<1>5. Good(count, mapped[count])
  BY <1>4
<1> QED BY <1>1, <1>5 DEF Good

-----------------------------------------------------------------------------
(* The heap grows page by page.                                            *)

ExpandStep(r, v) ==
  LET given == allocate_blocks(r, 1)
  IN  map_physical(Record(given, given.block), v, given.block)

ExpandsInTurn(s, heap, count, expanded) ==
  /\ expand_heap(s, heap, count) = expanded[count]
  /\ expanded = [i \in 0 .. count |->
        IF i = 0 THEN s ELSE ExpandStep(expanded[i - 1], heap + i - 1)]

LEMMA ExpandEquation ==
  ASSUME NEW s, NEW heap \in Nat, NEW count \in Nat
  PROVE  \E expanded : ExpandsInTurn(s, heap, count, expanded)
<1> DEFINE Step(r, i) == ExpandStep(r, heap + i - 1)
           Fixed(N, f) == f = [i \in 0 .. N |-> IF i = 0 THEN s ELSE Step(f[i - 1], i)]
           missing == {N \in Nat : ~ \E f : Fixed(N, f)}
<1>1. expand_heap(s, heap, count) = (CHOOSE f : Fixed(count, f))[count]
  BY DEF expand_heap, ExpandStep
<1> HIDE DEF Step
<1>2. missing = {}
  <2> SUFFICES ASSUME missing # {} PROVE FALSE
    OBVIOUS
  <2>1. missing \subseteq Nat
    OBVIOUS
  <2>2. PICK N \in missing : \A y \in missing : N <= y
    BY <2>1, MinOfNat
  <2>3. N # 0
    <3>1. Fixed(0, [i \in 0 .. 0 |-> s])
      OBVIOUS
    <3> QED BY <2>2, <3>1
  <2>4. N - 1 \in Nat /\ N - 1 \notin missing
    <3>1. N \in Nat
      BY <2>1, <2>2
    <3>2. N - 1 \in Nat /\ ~ (N <= N - 1)
      BY <2>3, <3>1
    <3> QED BY <2>2, <3>2
  <2>5. PICK f : Fixed(N - 1, f)
    BY <2>4
  <2> DEFINE g == [i \in 0 .. N |-> IF i = 0 THEN s ELSE Step(f[i - 1], i)]
  <2>6. \A i \in 0 .. N - 1 : g[i] = f[i]
    <3>1. \A i \in 0 .. N - 1 : i \in 0 .. N
      BY <2>1, <2>2
    <3>2. \A i \in 0 .. N - 1 : f[i] = IF i = 0 THEN s ELSE Step(f[i - 1], i)
      BY <2>5
    <3> QED BY <3>1, <3>2
  <2>7. Fixed(N, g)
    <3>1. ASSUME NEW i \in 0 .. N, i # 0 PROVE Step(f[i - 1], i) = Step(g[i - 1], i)
      <4>1. i - 1 \in 0 .. N - 1
        BY <2>1, <2>2, <3>1
      <4> QED BY <2>6, <4>1
    <3> QED BY <3>1
  <2> QED BY <2>2, <2>7
<1>3. \E f : Fixed(count, f)
  BY <1>2
<1> QED BY <1>1, <1>3 DEF Step, ExpandsInTurn

(* What is there when the heap has grown from page heap to page top.       *)
Grown(s, base, kept, old, heap, top, r) ==
  /\ r \in Building
  /\ Accounts(r, base, {})
  /\ TablesApart(r, kept, old)
  /\ Onward(s, r, heap .. top - 1)
  /\ s.held \subseteq r.held
  /\ Range(r.list) \cap LowPages \subseteq {NULL}
  /\ NoTableAtNull(r) =>
       /\ \A v \in heap .. top - 1 :
            At(r, v) \in Range(r.list) /\ At(r, v) \notin s.held
       /\ \A v, w \in heap .. top - 1 :
            At(r, v) = At(r, w) => v = w \/ At(r, v) = NULL

LEMMA GrownStep ==
  ASSUME NEW s \in Building, NEW base \in SUBSET Block, NEW kept, NEW old,
         NEW heap \in Nat, NEW top \in Nat, heap <= top, top < StackTop,
         NEW r, Grown(s, base, kept, old, heap, top, r)
  PROVE  Grown(s, base, kept, old, heap, top + 1, ExpandStep(r, top))
<1> DEFINE g == allocate_blocks(r, 1)
           b == g.block
           m == map_physical(Record(g, b), top, b)
           before == heap .. top - 1
<1>1. /\ r \in Building /\ Accounts(r, base, {}) /\ TablesApart(r, kept, old)
      /\ Onward(s, r, before) /\ s.held \subseteq r.held
      /\ Range(r.list) \cap LowPages \subseteq {NULL}
      /\ NoTableAtNull(r) =>
           /\ \A v \in before : At(r, v) \in Range(r.list) /\ At(r, v) \notin s.held
           /\ \A v, w \in before : At(r, v) = At(r, w) => v = w \/ At(r, v) = NULL
  BY DEF Grown
<1>2. ExpandStep(r, top) = m
  BY DEF ExpandStep
<1>3. top \in Page /\ before \subseteq Page /\ top \notin before
      /\ heap .. (top + 1) - 1 = before \cup {top}
  BY Layout DEF Page, Sizes
<1>4. Given(r, g, 1)
  BY <1>1, AllocateGives
<1> HIDE DEF g, b, m, before
<1>5. /\ g \in Building /\ g.list = r.list /\ g.held = r.held \cup (Run(b, 1) \ {NULL})
      /\ Run(b, 1) = {b} /\ b \in Block \cup {NULL}
      /\ b = NULL \/ b \notin r.held
  <2>1. b \in Block \cup {NULL} /\ g \in Building
    BY <1>4 DEF Given, b
  <2>2. b \in Nat
    BY <2>1, Kinds
  <2>3. Run(b, 1) = {b}
    BY <2>2 DEF Run
  <2> QED BY <1>4, <2>1, <2>3, Kinds DEF Given, b
<1>6. Accounts(g, base, {b})
  <2>1. b # NULL \/ 1 <= StackPages
    BY Layout DEF Sizes
  <2>2. Accounts(g, base, Run(b, 1))
    BY <1>1, <1>4, <2>1, AccountsGiven DEF b
  <2> QED BY <1>5, <2>2
<1>7. TablesApart(g, kept, old) /\ Onward(r, g, {})
  BY <1>1, <1>4, TablesGiven, OnwardGiven
<1>8. b \in Block \cup LowPages
  BY <1>5, Kinds
<1>9. MapStep(g, m, top, b)
  BY <1>3, <1>5, <1>8, MapGives DEF m
<1>10. m \in Building
  BY <1>9 DEF MapStep
<1>11. Accounts(m, base, {})
  <2>1. {b} \in SUBSET (Block \cup LowPages) /\ b \in {b} /\ {b} \ {b} = {}
    BY <1>8
  <2>2. Accounts(m, base, {b} \ {b})
    BY <1>5, <1>6, <1>9, <2>1, AccountsMap
  <2> QED BY <2>1, <2>2
<1>12. TablesApart(m, kept, old)
  BY <1>3, <1>5, <1>7, <1>9, TablesMap
<1>13. /\ Onward(g, m, {top})
       /\ Range(m.list) \subseteq Range(r.list) \cup {b} \cup Block
       /\ b \in Range(m.list)
       /\ NoTableAtNull(m) => At(m, top) = b
  <2>1. MapsOne(g, m, top, b)
    BY <1>3, <1>5, <1>7, <1>8, <1>9, OnwardMap
  <2> QED BY <1>5, <2>1 DEF MapsOne
<1>14. Onward(r, m, {top})
  <2>1. {} \cup {top} = {top} /\ {} \cup {top} \subseteq Page
    BY <1>3
  <2>2. Onward(r, m, {} \cup {top})
    BY <1>7, <1>13, <2>1, OnwardTwice
  <2> QED BY <2>1, <2>2
<1>15. Onward(s, m, before \cup {top})
  <2>1. before \cup {top} \subseteq Page
    BY <1>3
  <2> QED BY <1>1, <1>14, <2>1, OnwardTwice
<1>16. s.held \subseteq m.held
  <2>1. g.held \subseteq m.held
    BY <1>9 DEF MapStep, MapInto, MapClone
  <2> QED BY <1>1, <1>5, <2>1
<1>17. Range(m.list) \cap LowPages \subseteq {NULL}
  BY <1>1, <1>5, <1>13, Kinds
<1>18. ASSUME NoTableAtNull(m)
       PROVE  /\ \A v \in before \cup {top} :
                   At(m, v) \in Range(m.list) /\ At(m, v) \notin s.held
              /\ \A v, w \in before \cup {top} :
                   At(m, v) = At(m, w) => v = w \/ At(m, v) = NULL
  <2>1. At(m, top) = b /\ b \in Range(m.list) /\ b \notin s.held
    <3>1. NULL \notin s.held
      BY Kinds DEF Building
    <3> QED BY <1>1, <1>5, <1>13, <1>18, <3>1
  <2>2. NoTableAtNull(r) /\ \A v \in before : At(m, v) = At(r, v)
    BY <1>3, <1>14, <1>18 DEF Onward
  <2>3. Range(r.list) \subseteq Range(m.list)
    BY <1>14 DEF Onward
  <2>4. \A v \in before : At(m, v) = b => b = NULL
    <3>1. Range(r.list) \ LowPages \subseteq r.held
      BY <1>1 DEF Accounts
    <3> QED BY <1>1, <1>5, <2>2, <3>1
  <2> QED BY <1>1, <2>1, <2>2, <2>3, <2>4
<1> QED BY <1>2, <1>3, <1>10, <1>11, <1>12, <1>15, <1>16, <1>17, <1>18 DEF Grown

LEMMA ExpandGives ==
  ASSUME NEW s \in Building, NEW base \in SUBSET Block, NEW kept, NEW old,
         NEW heap \in Nat, NEW count \in Nat, heap + count <= StackTop,
         Accounts(s, base, {}), TablesApart(s, kept, old),
         Range(s.list) \cap LowPages \subseteq {NULL}
  PROVE  Grown(s, base, kept, old, heap, heap + count, expand_heap(s, heap, count))
<1> DEFINE Good(i, r) == Grown(s, base, kept, old, heap, heap + i, r)
<1>0. PICK expanded : ExpandsInTurn(s, heap, count, expanded)
  BY ExpandEquation
<1>1. /\ expand_heap(s, heap, count) = expanded[count]
      /\ expanded = [i \in 0 .. count |->
            IF i = 0 THEN s ELSE ExpandStep(expanded[i - 1], heap + i - 1)]
  BY <1>0 DEF ExpandsInTurn
<1>2. Good(0, s)
  <2>1. heap .. (heap + 0) - 1 = {}
    OBVIOUS
  <2> QED BY <2>1, OnwardSelf DEF Grown
<1>3. ASSUME NEW i \in 0 .. count - 1, Good(i, expanded[i])
      PROVE  Good(i + 1, expanded[i + 1])
  <2>1. i + 1 \in 0 .. count /\ i + 1 # 0 /\ (i + 1) - 1 = i
        /\ heap + (i + 1) - 1 = heap + i /\ heap + (i + 1) = (heap + i) + 1
        /\ heap + i \in Nat /\ heap <= heap + i /\ heap + i < StackTop
    BY Layout DEF Sizes
  <2>2. expanded[i + 1] = ExpandStep(expanded[i], heap + i)
    BY <1>1, <2>1
  <2>3. Grown(s, base, kept, old, heap, (heap + i) + 1, ExpandStep(expanded[i], heap + i))
    BY <1>3, <2>1, GrownStep
  <2> QED BY <2>1, <2>2, <2>3
<1> DEFINE bad == {i \in 0 .. count : ~ Good(i, expanded[i])}
<1> HIDE DEF Good
<1>4. bad = {}
  <2> SUFFICES ASSUME bad # {} PROVE FALSE
    OBVIOUS
  <2>1. bad \subseteq Nat
    OBVIOUS
  <2>2. PICK i \in bad : \A y \in bad : i <= y
    BY <2>1, MinOfNat
  <2>3. i # 0
    BY <1>1, <1>2, <2>2
  <2>4. i - 1 \in 0 .. count - 1 /\ ~ (i <= i - 1) /\ (i - 1) + 1 = i
        /\ i - 1 \in 0 .. count
    BY <2>2, <2>3
  <2>5. Good(i - 1, expanded[i - 1])
    BY <2>2, <2>4
  <2>6. Good((i - 1) + 1, expanded[(i - 1) + 1])
    BY <1>3, <2>4, <2>5
  <2> QED BY <2>2, <2>4, <2>6
<1>5. Good(count, expanded[count])
  BY <1>4
<1> QED BY <1>1, <1>5 DEF Good

-----------------------------------------------------------------------------
(* The places for stacks, from the top down, do not meet.                  *)

LEMMA Times ==
  ASSUME NEW i \in Nat, NEW j \in Nat, NEW k \in Nat, i < j
  PROVE  i * k \in Nat /\ j * k \in Nat /\ i * k + k <= j * k
<1>1. PICK d \in Nat : j = i + 1 + d
  <2>1. j - i - 1 \in Nat /\ j = i + 1 + (j - i - 1)
    OBVIOUS
  <2> QED BY <2>1
<1>2. d * k \in Nat /\ (i + 1 + d) * k = i * k + k + d * k
  OBVIOUS
<1> QED BY <1>1, <1>2

Place(i) == StackTop - i * StackPages

PlaceFits(i) ==
  /\ Place(i) \in Nat /\ Place(i) <= StackTop /\ HeapBase + StackPages <= Place(i)
  /\ StackTop - Cardinality(Thread) * StackPages <= Place(i) - StackPages
  /\ Place(i) = StackTop \/ (i > 0 /\ Place(i) <= StackTop - StackPages)
  /\ \A j \in 0 .. Cardinality(Workers) :
       j # i => Place(j) <= Place(i) - StackPages \/ Place(i) <= Place(j) - StackPages

LEMMA Fits ==
  ASSUME NEW i \in 0 .. Cardinality(Workers)
  PROVE  PlaceFits(i)
<1> DEFINE W == Cardinality(Workers)
<1>1. /\ W \in Nat /\ Cardinality(Thread) = W + 1 /\ StackPages \in Nat
      /\ StackTop \in Nat /\ HeapBase \in Nat /\ HeapBase + (1 + W) * StackPages <= StackTop
      /\ i \in Nat /\ i < W + 1
  BY Layout, ThreadRoom DEF Sizes, Room
<1>2. i * StackPages \in Nat /\ i * StackPages + StackPages <= (W + 1) * StackPages
  BY <1>1, Times
<1>3. (1 + W) * StackPages = (W + 1) * StackPages /\ (W + 1) * StackPages \in Nat
  BY <1>1
<1>4. /\ Place(i) \in Nat /\ Place(i) <= StackTop /\ HeapBase + StackPages <= Place(i)
      /\ StackTop - Cardinality(Thread) * StackPages <= Place(i) - StackPages
  <2> HIDE DEF W
  <2> DEFINE x == i * StackPages
             y == (W + 1) * StackPages
  <2>1. /\ x \in Nat /\ y \in Nat /\ x + StackPages <= y /\ HeapBase + y <= StackTop
        /\ Place(i) = StackTop - x /\ Cardinality(Thread) * StackPages = y
    BY <1>1, <1>2, <1>3 DEF Place, W
  <2> HIDE DEF x, y
  <2> QED BY <1>1, <2>1
<1>5. Place(i) = StackTop \/ (i > 0 /\ Place(i) <= StackTop - StackPages)
  <2>1. CASE i = 0
    <3>1. 0 * StackPages = 0
      BY <1>1
    <3> QED BY <1>1, <2>1, <3>1 DEF Place
  <2>2. CASE i > 0
    <3>1. 0 * StackPages = 0 /\ 0 * StackPages + StackPages <= i * StackPages
      BY <1>1, <2>2, Times
    <3> QED BY <1>1, <1>2, <2>2, <3>1 DEF Place
  <2> QED BY <1>1, <2>1, <2>2
<1>6. ASSUME NEW j \in 0 .. W, j # i
      PROVE  Place(j) <= Place(i) - StackPages \/ Place(i) <= Place(j) - StackPages
  <2>1. CASE i < j
    <3>1. i * StackPages + StackPages <= j * StackPages /\ j * StackPages \in Nat
      BY <1>1, <2>1, Times
    <3> QED BY <1>1, <1>2, <3>1 DEF Place
  <2>2. CASE j < i
    <3>1. j * StackPages + StackPages <= i * StackPages /\ j * StackPages \in Nat
      BY <1>1, <2>2, Times
    <3> QED BY <1>1, <1>2, <3>1 DEF Place
  <2> QED BY <1>1, <1>6, <2>1, <2>2
<1> QED BY <1>4, <1>5, <1>6 DEF PlaceFits

(* The stack at a place: above the heap's base, in the pages there are.    *)
StackFits(x) ==
  /\ x \in Nat /\ x <= StackTop /\ HeapBase + StackPages <= x
  /\ StackTop - Cardinality(Thread) * StackPages <= x - StackPages
  /\ x = StackTop \/ /\ x <= StackTop - StackPages
                     /\ \E i \in 1 .. Cardinality(Workers) : x = Place(i)
  /\ \A y \in Positions : y # x => StackOf(x) \cap StackOf(y) = {}
  /\ StackOf(x) \subseteq Page
  /\ StackOf(x) \cap (ImageBase .. HeapBase - 1) = {}

LEMMA StacksFit ==
  ASSUME NEW x \in Positions PROVE StackFits(x)
<1>1. PICK i \in 0 .. Cardinality(Workers) : x = Place(i)
  BY DEF Positions, Place
<1>2. /\ x \in Nat /\ x <= StackTop /\ HeapBase + StackPages <= x
      /\ StackTop - Cardinality(Thread) * StackPages <= x - StackPages
      /\ x = StackTop \/ (i > 0 /\ x <= StackTop - StackPages)
      /\ \A j \in 0 .. Cardinality(Workers) :
           j # i => Place(j) <= x - StackPages \/ x <= Place(j) - StackPages
  <2>1. PlaceFits(i)
    BY Fits
  <2> QED BY <1>1, <2>1 DEF PlaceFits
<1>3. /\ StackPages \in Nat /\ StackTop \in Nat /\ HeapBase \in Nat /\ ImageBase \in Nat
      /\ Cardinality(Workers) \in Nat
  BY Layout, ThreadRoom DEF Sizes, Room
<1>4. ASSUME NEW y \in Positions, y # x PROVE StackOf(x) \cap StackOf(y) = {}
  <2>1. PICK j \in 0 .. Cardinality(Workers) : y = Place(j)
    BY DEF Positions, Place
  <2>2. y <= x - StackPages \/ x <= y - StackPages
    BY <1>1, <1>2, <1>4, <2>1
  <2>3. y \in Nat
    BY <2>1, Fits DEF PlaceFits
  <2> QED BY <1>2, <1>3, <2>2, <2>3 DEF StackOf
<1>5. x = StackTop \/ /\ x <= StackTop - StackPages
                      /\ \E k \in 1 .. Cardinality(Workers) : x = Place(k)
  <2>1. CASE x = StackTop
    BY <2>1
  <2>2. CASE i > 0 /\ x <= StackTop - StackPages
    BY <1>1, <1>3, <2>2
  <2> QED BY <1>2, <2>1, <2>2
<1>6. StackOf(x) \subseteq Page /\ StackOf(x) \cap (ImageBase .. HeapBase - 1) = {}
  BY <1>2, <1>3 DEF StackOf, Page
<1> QED BY <1>2, <1>4, <1>5, <1>6 DEF StackFits

LEMMA TopIsPosition ==
  StackTop \in Positions
<1>1. 0 \in 0 .. Cardinality(Workers) /\ StackTop - 0 * StackPages = StackTop
  BY Layout, ThreadRoom DEF Sizes, Room
<1> QED BY <1>1 DEF Positions

(* The search in thread::thread finds a place that no thread has.          *)
LEMMA FreeStackGives ==
  ASSUME NEW used, IsFiniteSet(used), Cardinality(used) <= Cardinality(Workers)
  PROVE  FreeStack(used) \in Positions \ used
<1> DEFINE n == Cardinality(used)
           indexes == {i \in 0 .. n : Place(i) \notin used}
           places == {v \in {StackTop - i * StackPages : i \in 0 .. n} : v \notin used}
<1>1. n \in Nat /\ Cardinality(Workers) \in Nat
  BY FS_CardinalityType, ThreadRoom DEF Room
<1>2. \A i, j \in 0 .. n :
        /\ i < j => Place(j) <= Place(i)
        /\ i # j => Place(i) # Place(j)
        /\ Place(i) \in Nat
  <2> SUFFICES ASSUME NEW i \in 0 .. n, NEW j \in 0 .. n
               PROVE  /\ i < j => Place(j) <= Place(i)
                      /\ i # j => Place(i) # Place(j)
                      /\ Place(i) \in Nat
    OBVIOUS
  <2>1. i \in 0 .. Cardinality(Workers) /\ j \in 0 .. Cardinality(Workers)
    BY <1>1
  <2>2. Place(i) \in Nat /\ Place(j) \in Nat
    BY <2>1, Fits DEF PlaceFits
  <2>3. i # j => Place(j) <= Place(i) - StackPages \/ Place(i) <= Place(j) - StackPages
    BY <2>1, Fits DEF PlaceFits
  <2>4. i < j => Place(j) <= Place(i)
    <3> SUFFICES ASSUME i < j PROVE Place(j) <= Place(i)
      OBVIOUS
    <3>1. i * StackPages + StackPages <= j * StackPages /\ i * StackPages \in Nat
          /\ j * StackPages \in Nat
      BY <1>1, Layout, Times DEF Sizes
    <3> QED BY <3>1, Layout DEF Place, Sizes
  <2>5. i # j => Place(i) # Place(j)
    BY <2>2, <2>3, Layout DEF Sizes
  <2> QED BY <2>2, <2>4, <2>5
<1>3. indexes # {}
  <2> SUFFICES ASSUME \A i \in 0 .. n : Place(i) \in used PROVE FALSE
    OBVIOUS
  <2> DEFINE f == [i \in 0 .. n |-> Place(i)]
  <2>1. f \in [0 .. n -> used]
    OBVIOUS
  <2>2. IsFiniteSet(0 .. n) /\ Cardinality(0 .. n) = n + 1
    BY <1>1, FS_Interval
  <2>3. n < n + 1
    BY <1>1
  <2>4. \E i, j \in 0 .. n : i # j /\ f[i] = f[j]
    <3> HIDE DEF f
    <3> QED BY <2>1, <2>2, <2>3, FS_PigeonHole
  <2> QED BY <1>2, <2>4
<1>4. PICK k \in indexes : \A i \in indexes : k <= i
  <2>1. indexes \subseteq Nat
    BY <1>1
  <2> QED BY <1>3, <2>1, MinOfNat
<1>5. Place(k) \in places /\ \A v \in places : Place(k) >= v
  <2>1. Place(k) \in places
    BY DEF Place
  <2>2. ASSUME NEW v \in places PROVE Place(k) >= v
    <3>1. PICK i \in indexes : v = Place(i)
      BY DEF Place
    <3>2. k <= i /\ k \in 0 .. n /\ i \in 0 .. n
      BY <1>4, <3>1
    <3>3. CASE i = k
      BY <1>2, <3>1, <3>2, <3>3
    <3>4. CASE k < i
      BY <1>2, <3>1, <3>2, <3>4
    <3> QED BY <1>1, <3>2, <3>3, <3>4
  <2> QED BY <2>1, <2>2
<1>6. FreeStack(used) \in places
  <2>1. FreeStack(used) = CHOOSE x \in places : \A v \in places : x >= v
    BY DEF FreeStack, Max
  <2> HIDE DEF places
  <2> QED BY <1>5, <2>1
<1>7. places \subseteq Positions
  BY <1>1 DEF Positions
<1> QED BY <1>6, <1>7

(* thread::thread: r is what becomes of s when a stack is made at x.       *)
NewStack(s, kept, old, x, r) ==
  /\ r \in Building
  /\ s.held \subseteq r.held
  /\ Accounts(r, s.held, {})
  /\ TablesApart(r, kept, old)
  /\ \A f \in Frame :
       \/ r.dir[f] = s.dir[f]
       \/ /\ s.dir[f] = Template /\ f \in Frames(StackOf(x))
          /\ r.dir[f] \in Range(r.list) \cup {NULL}
  /\ \A f \in Frames(StackOf(x)) : r.dir[f] # Template
  /\ ~ r.null => ~ s.null /\ (NoTableAtNull(s) => NoTableAtNull(r))
  /\ NoTableAtNull(r) =>
       /\ NoTableAtNull(s)
       /\ \A w \in Page \ StackOf(x) : At(r, w) = At(s, w)
       /\ \A v \in StackOf(x) : At(r, v) \in Range(r.list)
       /\ \A v, w \in StackOf(x) : At(r, v) = At(r, w) => v = w

LEMMA NewThreadGives ==
  ASSUME NEW s \in Building, NEW kept, NEW old, TablesApart(s, kept, old),
         NEW used, NEW x, x = FreeStack(used), x \in Positions
  PROVE  NewStack(s, kept, old, x, NewThread(s, used))
<1> DEFINE e == [s EXCEPT !.list = << >>]
           g == allocate_blocks(e, StackPages)
           pages == [i \in 0 .. StackPages - 1 |-> FreeStack(used) - (i + 1)]
           r == NewThread(s, used)
           first == g.block
           run == Run(first, StackPages)
<1>1. /\ e \in Building /\ e.held = s.held /\ e.dir = s.dir /\ e.tables = s.tables
      /\ e.list = << >> /\ e.null = s.null
  <2>1. << >> \in Seq(Block \cup LowPages)
    BY EmptySeq
  <2> HIDE DEF e
  <2>2. e = [s EXCEPT !.list = << >>]
    BY DEF e
  <2> QED BY <2>1, <2>2 DEF Building
<1>2. r = MapRun(g, first, StackPages, pages)
  BY DEF NewThread
<1>3. /\ StackPages \in Nat /\ StackPages > 0 /\ x \in Nat /\ StackOf(x) \subseteq Page
      /\ StackPages <= x
  BY Layout, StacksFit DEF Sizes, StackFits
<1>4. Given(e, g, StackPages)
  <2> HIDE DEF e
  <2> QED BY <1>1, <1>3, AllocateGives
<1>5. /\ \A j \in 0 .. StackPages - 1 :
           pages[j] = x - (j + 1) /\ pages[j] \in StackOf(x)
      /\ \A v \in StackOf(x) :
           x - 1 - v \in 0 .. StackPages - 1 /\ pages[x - 1 - v] = v
      /\ DOMAIN pages = 0 .. StackPages - 1
  BY <1>3, SMTT(40) DEF StackOf
<1> HIDE DEF e, g, pages, r
<1>6. /\ pages \in [0 .. StackPages - 1 -> Page]
      /\ \A j, k \in 0 .. StackPages - 1 : pages[j] = pages[k] => j = k
      /\ {pages[j] : j \in 0 .. StackPages - 1} = StackOf(x)
  <2>1. pages = [j \in 0 .. StackPages - 1 |-> pages[j]]
    BY DEF pages
  <2>2. pages \in [0 .. StackPages - 1 -> Page]
    BY <1>3, <1>5, <2>1
  <2>3. {pages[j] : j \in 0 .. StackPages - 1} = StackOf(x)
    BY <1>5
  <2>4. \A j, k \in 0 .. StackPages - 1 : pages[j] = pages[k] => j = k
    BY <1>3, <1>5
  <2> QED BY <2>2, <2>3, <2>4
<1>7. g \in Building /\ first \in Block \cup {NULL} /\ first \in Nat
  BY <1>4, Kinds DEF Given, Building
<1>8. Accounts(g, s.held, run) /\ run \subseteq Block \cup LowPages
  <2>1. Range(e.list) = {} /\ Once(e.list) /\ Accounts(e, s.held, {})
    BY <1>1, EmptyList DEF Accounts
  <2>2. s.held \in SUBSET Block /\ (g.block # NULL \/ StackPages <= StackPages)
        /\ Range(e.list) \cap LowPages \subseteq {NULL}
    BY <1>3, <2>1 DEF Building
  <2> QED BY <1>1, <1>3, <1>4, <2>1, <2>2, AccountsGiven
<1>9. TablesApart(e, kept, old) /\ TablesApart(g, kept, old) /\ Onward(e, g, {})
  <2>1. TablesApart(e, kept, old)
    BY <1>1 DEF TablesApart
  <2> QED BY <1>1, <1>4, <2>1, TablesGiven, OnwardGiven
<1>10. Mapping(g, s.held, kept, old, first, StackPages, pages, StackPages, r)
  <2>1. s.held \in SUBSET Block
    BY DEF Building
  <2> HIDE DEF first
  <2> QED BY <1>2, <1>3, <1>6, <1>7, <1>8, <1>9, <2>1, MapRunGives
<1>11. /\ r \in Building /\ TablesApart(r, kept, old)
       /\ Accounts(r, s.held, Run(first + StackPages, StackPages - StackPages))
       /\ Onward(g, r, StackOf(x))
       /\ \A j \in 0 .. StackPages - 1 : first + j \in Range(r.list)
       /\ NoTableAtNull(r) =>
            \A j \in 0 .. StackPages - 1 : At(r, pages[j]) = first + j
  BY <1>6, <1>10 DEF Mapping
<1>12. Accounts(r, s.held, {}) /\ s.held \subseteq r.held
  <2>1. Run(first + StackPages, StackPages - StackPages) = {}
    BY <1>3, <1>7 DEF Run
  <2> QED BY <1>11, <2>1 DEF Accounts
<1>13. Onward(e, r, StackOf(x))
  <2>1. {} \cup StackOf(x) = StackOf(x) /\ {} \cup StackOf(x) \subseteq Page
    BY <1>3
  <2>2. Onward(e, r, {} \cup StackOf(x))
    BY <1>9, <1>11, <2>1, OnwardTwice
  <2> QED BY <2>1, <2>2
<1>14. (NoTableAtNull(e) <=> NoTableAtNull(s)) /\ \A w : At(e, w) = At(s, w)
  BY <1>1 DEF NoTableAtNull, At
<1>15. /\ \A f \in Frame :
            \/ r.dir[f] = s.dir[f]
            \/ /\ s.dir[f] = Template /\ f \in Frames(StackOf(x))
               /\ r.dir[f] \in Range(r.list) \cup {NULL}
       /\ \A f \in Frames(StackOf(x)) : r.dir[f] # Template
       /\ ~ r.null => ~ s.null /\ (NoTableAtNull(s) => NoTableAtNull(r))
       /\ NoTableAtNull(r) =>
            /\ NoTableAtNull(s)
            /\ \A w \in Page \ StackOf(x) : At(r, w) = At(s, w)
  BY <1>1, <1>13, <1>14 DEF Onward
<1>16. ASSUME NoTableAtNull(r)
       PROVE  /\ \A v \in StackOf(x) : At(r, v) \in Range(r.list)
              /\ \A v, w \in StackOf(x) : At(r, v) = At(r, w) => v = w
  <2>1. \A v \in StackOf(x) :
          /\ x - 1 - v \in 0 .. StackPages - 1
          /\ At(r, v) = first + (x - 1 - v)
    BY <1>5, <1>11, <1>16
  <2>2. \A v \in StackOf(x) : At(r, v) \in Range(r.list)
    BY <1>11, <2>1
  <2>3. ASSUME NEW v \in StackOf(x), NEW w \in StackOf(x), At(r, v) = At(r, w)
        PROVE  v = w
    <3>1. v \in Nat /\ w \in Nat
      BY <1>3 DEF StackOf
    <3>2. first + (x - 1 - v) = first + (x - 1 - w)
      BY <2>1, <2>3
    <3> HIDE DEF first
    <3> QED BY <1>3, <1>7, <3>1, <3>2
  <2> QED BY <2>2, <2>3
<1> QED BY <1>11, <1>12, <1>15, <1>16 DEF NewStack, r

-----------------------------------------------------------------------------
(* From the records that are built to the state.                           *)

ProcessShape(p) == IF Live(p) THEN StacksApart(p) ELSE Absent(p)

ProcessType(p) ==
  /\ m_used_blocks[p] \in Seq(Block \cup {NULL})
  /\ m_stack_blocks[p] \subseteq StackPages .. StackTop
  /\ DOMAIN threads[p] \subseteq Thread
  /\ \A t \in DOMAIN threads[p] :
       /\ threads[p][t].m_stack \in m_stack_blocks[p]
       /\ threads[p][t].m_used_blocks \in Seq(Block \cup LowPages)

ProcessPages(p) ==
  /\ \A v \in Page : PageLeads(p, v)
  /\ HeapIsApart(p) => OwnPagesApart(p)

ProcessTables(p) ==
  Live(p) => /\ TableLists(p)
             /\ \A f \in FirstFrames : entries[p][f] # Template

(* No table is named twice.                                                *)
TablesNamedOnce ==
  \A p, q \in Process : \A f, g \in Frame :
    entries[p][f] = entries[q][g] /\ entries[p][f] # Template => p = q /\ f = g

(* What no step of another process touches.                                *)
Same(p) ==
  /\ m_page_directory'[p] = m_page_directory[p]
  /\ entries'[p] = entries[p]
  /\ m_used_blocks'[p] = m_used_blocks[p]
  /\ m_stack_blocks'[p] = m_stack_blocks[p]
  /\ m_heap_address'[p] = m_heap_address[p]
  /\ threads'[p] = threads[p]

SameAs(p) ==
  /\ Live(p)' <=> Live(p)
  /\ Own(p)' = Own(p)
  /\ ListsApart(p) => ListsApart(p)'
  /\ ProcessShape(p) => ProcessShape(p)'
  /\ ProcessType(p) => ProcessType(p)'
  /\ ProcessTables(p) => ProcessTables(p)'

LEMMA SameProcess ==
  ASSUME NEW p \in Process, Same(p)
  PROVE  SameAs(p)
<1>1. Live(p)' <=> Live(p)
  BY DEF Same, Live
<1>2. Own(p)' = Own(p)
  BY DEF Same, Own, OwnBlocks, StackBlocks
<1>3. ListsApart(p) => ListsApart(p)'
  BY DEF Same, ListsApart, StackBlocks
<1>4. StacksApart(p) => StacksApart(p)'
  BY DEF Same, StacksApart
<1>5. Absent(p) => Absent(p)'
  BY DEF Same, Absent
<1>6. ProcessType(p) => ProcessType(p)'
  BY DEF Same, ProcessType
<1>7. TableLists(p) => TableLists(p)'
  BY DEF Same, TableLists, StackBlocks
<1>8. ProcessTables(p) => ProcessTables(p)'
  BY <1>1, <1>7 DEF ProcessTables, Same
<1>9. ProcessShape(p) => ProcessShape(p)'
  BY <1>1, <1>4, <1>5 DEF ProcessShape
<1> QED BY <1>1, <1>2, <1>3, <1>6, <1>8, <1>9 DEF SameAs

LEMMA PagesThereAre ==
  ASSUME TypeOK, Shape, NEW p \in Process, Live(p)
  PROVE  /\ OwnPages(p) \subseteq Page
         /\ \A t \in DOMAIN threads[p] : StackFits(threads[p][t].m_stack)
         /\ m_heap_address[p] \in HeapBase .. StackTop
<1>1. m_heap_address[p] \in HeapBase .. StackTop
  BY DEF TypeOK
<1>2. OwnPages(p) \subseteq Page
  <2>1. Room /\ Sizes
    BY Layout, ThreadRoom
  <2> QED BY <1>1, <2>1 DEF OwnPages, HeapPages, Page, Sizes
<1>3. \A t \in DOMAIN threads[p] : threads[p][t].m_stack \in Positions
  BY DEF Shape, StacksApart
<1> QED BY <1>1, <1>2, <1>3, StacksFit

LEMMA SamePages ==
  ASSUME TypeOK, Shape, NEW p \in Process, Live(p), Same(p), ProcessPages(p),
         \A v \in Page : Mapped(p, v)' = Mapped(p, v)
  PROVE  ProcessPages(p)'
<1>1. /\ m_used_blocks'[p] = m_used_blocks[p] /\ threads'[p] = threads[p]
      /\ m_heap_address'[p] = m_heap_address[p]
  BY DEF Same
<1>2. /\ DeadStacks(p)' = DeadStacks(p)
      /\ \A t : StackBlocks(p, t)' = StackBlocks(p, t)
      /\ OwnPages(p)' = OwnPages(p)
      /\ HeapIsApart(p)' <=> HeapIsApart(p)
  BY <1>1 DEF DeadStacks, StackBlocks, OwnPages, HeapPages, HeapIsApart
<1>3. \A v \in Page : PageLeads(p, v)'
  BY <1>1, <1>2 DEF ProcessPages, PageLeads
<1>4. ASSUME OwnPagesApart(p) PROVE OwnPagesApart(p)'
  <2> DEFINE pages == OwnPages(p) \cup UNION {StackOf(threads[p][t].m_stack) : t \in DOMAIN threads[p]}
  <2>1. /\ OwnPages(p) \subseteq Page
        /\ \A t \in DOMAIN threads[p] : StackOf(threads[p][t].m_stack) \subseteq Page
        /\ Image \subseteq OwnPages(p) /\ ImageBase \in Image
    <3>1. ImageBase \in Image
      BY Layout DEF Sizes, Image
    <3> QED BY <3>1, PagesThereAre DEF OwnPages, Image, StackFits
  <2>2. pages' = pages /\ pages \subseteq Page
    BY <1>1, <1>2, <2>1
  <2>3. /\ \A v \in OwnPages(p) : Mapped(p, v) \in Range(m_used_blocks[p])
        /\ \A t \in DOMAIN threads[p] :
             \A v \in StackOf(threads[p][t].m_stack) :
               Mapped(p, v) \in StackBlocks(p, t)
        /\ \A v, w \in pages : Mapped(p, v) = Mapped(p, w) =>
             v = w \/ Mapped(p, v) \in LowPages
        /\ \A v \in Image : Mapped(p, v) = Mapped(p, ImageBase) + (v - ImageBase)
    BY <1>4 DEF OwnPagesApart
  <2> HIDE DEF pages
  <2>4. \A v \in OwnPages(p)' : Mapped(p, v)' \in Range(m_used_blocks[p])'
    BY <1>1, <1>2, <2>1, <2>3
  <2>5. \A t \in DOMAIN threads'[p] :
          \A v \in StackOf(threads'[p][t].m_stack) :
            Mapped(p, v)' \in StackBlocks(p, t)'
    BY <1>1, <1>2, <2>1, <2>3
  <2>6. \A v, w \in pages' : Mapped(p, v)' = Mapped(p, w)' =>
          v = w \/ Mapped(p, v)' \in LowPages
    BY <2>2, <2>3
  <2>7. \A v \in Image : Mapped(p, v)' = Mapped(p, ImageBase)' + (v - ImageBase)
    BY <2>1, <2>3
  <2> QED BY <2>4, <2>5, <2>6, <2>7 DEF OwnPagesApart, pages
<1> QED BY <1>2, <1>3, <1>4 DEF ProcessPages

(* The tables of the other processes. *)
Kept(p) == UNION {Range(entries[q]) \ {Template} : q \in Process \ {p}}

LEMMA TablesInUse ==
  ASSUME TypeOK, Shape, Intact
  PROVE  /\ NULL \notin held
         /\ \A q \in Process : \A f \in Frame :
              entries[q][f] \in held \cup {Template} /\ entries[q][f] # NULL
<1>1. NULL \notin held
  BY Kinds DEF TypeOK
<1>2. ASSUME NEW q \in Process, NEW f \in Frame
      PROVE  entries[q][f] \in held \cup {Template}
  <2>1. DOMAIN entries[q] = Frame
    BY DEF TypeOK
  <2>2. CASE Live(q)
    BY <2>1, <2>2 DEF Intact, Range
  <2>3. CASE ~ Live(q)
    BY <2>3 DEF Shape, Absent
  <2> QED BY <2>2, <2>3
<1> QED BY <1>1, <1>2, Kinds

Started(p, list, s) ==
  /\ s \in Building
  /\ s.held = held /\ s.list = list /\ s.null = FALSE
  /\ s.dir = entries[p] /\ s.tables = tables
  /\ NoTableAtNull(s)
  /\ TablesApart(s, Kept(p), tables)
  /\ \A v : At(s, v) = Mapped(p, v)

LEMMA StartGives ==
  ASSUME TypeOK, Shape, Tables, Intact, NEW p \in Process,
         NEW list \in Seq(Block \cup LowPages)
  PROVE  Started(p, list, Start(p, list))
<1> DEFINE s == Start(p, list)
<1>1. /\ s \in Building
      /\ s.held = held /\ s.list = list /\ s.null = FALSE
      /\ s.dir = entries[p] /\ s.tables = tables
  BY DEF TypeOK, Start, Building, TableType
<1> HIDE DEF s
<1>2. NoTableAtNull(s)
  BY <1>1, TablesInUse DEF NoTableAtNull
<1>3. \A v : At(s, v) = Mapped(p, v)
  BY <1>1 DEF At, Mapped
<1>4. /\ \A b \in Kept(p) : \E q \in Process \ {p} : \E f \in Frame :
           b = entries[q][f] /\ b # Template
  BY DEF Kept, Range, TypeOK
<1>5. Kept(p) \subseteq held
  BY <1>4, TablesInUse
<1>6. TablesNamedOnce
  BY DEF Tables, TablesNamedOnce
<1>7. \A f \in Frame : entries[p][f] \notin Kept(p)
  BY <1>4, <1>6 DEF TablesNamedOnce
<1>8. \A f \in Frame : entries[p][f] \in held \cup {Template}
  BY TablesInUse
<1>9. \A f, g \in Frame : entries[p][f] = entries[p][g] /\ entries[p][f] # Template => f = g
  BY <1>6 DEF TablesNamedOnce
<1>10. TablesApart(s, Kept(p), tables)
  BY <1>1, <1>5, <1>7, <1>8, <1>9 DEF TablesApart
<1> QED BY <1>1, <1>2, <1>3, <1>10 DEF Started, s

Builds(p, s) ==
  /\ held' = s.held /\ tables' = s.tables
  /\ entries' = [entries EXCEPT ![p] = s.dir]

Built(p, s) ==
  /\ \A v : Mapped(p, v)' = At(s, v)
  /\ \A q \in Process \ {p} :
       entries'[q] = entries[q] /\ \A v \in Page : Mapped(q, v)' = Mapped(q, v)
  /\ NoTableAtNull(s) => Intact' /\ TablesNamedOnce'
  /\ Live(p)' /\ Intact' => NoTableAtNull(s)

LEMMA BuildsGives ==
  ASSUME TypeOK, Shape, Tables, Intact, NEW p \in Process, NEW s \in Building,
         Builds(p, s), TablesApart(s, Kept(p), tables), held \subseteq s.held
  PROVE  Built(p, s)
<1>1. /\ held' = s.held /\ tables' = s.tables
      /\ entries'[p] = s.dir /\ \A q \in Process \ {p} : entries'[q] = entries[q]
      /\ DOMAIN s.dir = Frame /\ \A q \in Process : DOMAIN entries[q] = Frame
  BY DEF Builds, TypeOK, Building
<1>2. \A v : Mapped(p, v)' = At(s, v)
  BY <1>1 DEF Mapped, At
<1>3. \A q \in Process \ {p} : \A f \in Frame :
        entries[q][f] # Template => entries[q][f] \in Kept(p)
  BY <1>1 DEF Kept, Range
<1>4. ASSUME NEW q \in Process \ {p}, NEW v \in Page
      PROVE  Mapped(q, v)' = Mapped(q, v)
  <2>1. v \div PagesPerTable \in Frame
    BY PageFacts
  <2>2. entries[q][v \div PagesPerTable] # Template =>
          s.tables[entries[q][v \div PagesPerTable]] =
            tables[entries[q][v \div PagesPerTable]]
    BY <1>3, <2>1 DEF TablesApart
  <2> QED BY <1>1, <2>2 DEF Mapped
<1>5. ASSUME NoTableAtNull(s) PROVE Intact'
  <2>1. ASSUME NEW q \in Process, NEW f \in Frame
        PROVE  entries'[q][f] \in s.held \cup {Template}
    <3>1. CASE q = p
      BY <1>1, <1>5, <3>1 DEF TablesApart, NoTableAtNull
    <3>2. CASE q # p
      BY <1>1, <3>2, TablesInUse
    <3> QED BY <3>1, <3>2
  <2>2. \A q \in Process : DOMAIN entries'[q] = Frame
    BY <1>1
  <2> QED BY <1>1, <2>1, <2>2 DEF Intact, Range
<1>6. ASSUME NoTableAtNull(s) PROVE TablesNamedOnce'
  <2>1. TablesNamedOnce
    BY DEF Tables, TablesNamedOnce
  <2>2. \A f, g \in Frame : s.dir[f] = s.dir[g] /\ s.dir[f] # Template => f = g
    BY <1>6 DEF TablesApart, NoTableAtNull
  <2>3. \A q \in Process \ {p} : \A f, g \in Frame :
          s.dir[f] = entries[q][g] => s.dir[f] = Template
    BY <1>3 DEF TablesApart
  <2>4. ASSUME NEW q \in Process, NEW r \in Process, NEW f \in Frame, NEW g \in Frame,
               entries'[q][f] = entries'[r][g], entries'[q][f] # Template
        PROVE  q = r /\ f = g
    <3>1. CASE q = p /\ r = p
      BY <1>1, <2>2, <2>4, <3>1
    <3>2. CASE q = p /\ r # p
      BY <1>1, <2>3, <2>4, <3>2
    <3>3. CASE q # p /\ r = p
      BY <1>1, <2>3, <2>4, <3>3
    <3>4. CASE q # p /\ r # p
      BY <1>1, <2>1, <2>4, <3>4 DEF TablesNamedOnce
    <3> QED BY <3>1, <3>2, <3>3, <3>4
  <2> QED BY <2>4 DEF TablesNamedOnce
<1>7. ASSUME Live(p)', Intact' PROVE NoTableAtNull(s)
  <2>1. Range(entries'[p]) \ {Template} \subseteq held'
    BY <1>7 DEF Intact
  <2>2. \A f \in Frame : s.dir[f] \in s.held \cup {Template}
    BY <1>1, <2>1 DEF Range
  <2>3. NULL \notin s.held /\ NULL # Template
    BY Kinds DEF Building
  <2> QED BY <2>2, <2>3 DEF NoTableAtNull
<1> QED BY <1>1, <1>2, <1>4, <1>5, <1>6, <1>7 DEF Built

-----------------------------------------------------------------------------
(* The books when blocks are given to one process, or taken from it.       *)

OrphansApart ==
  \A o \in orphans :
    /\ Once(o.m_used_blocks)
    /\ \A x \in orphans \ {o} :
         Range(o.m_used_blocks) \cap Range(x.m_used_blocks) \subseteq LowPages

LEMMA BooksGrow ==
  ASSUME Books, NEW p \in Process, NEW N, N \cap held = {}, held' = held \cup N,
         Own(p)' = Own(p) \cup N, ListsApart(p)', orphans' = orphans,
         \A q \in Process \ {p} : Own(q)' = Own(q) /\ ListsApart(q)'
  PROVE  Books'
<1>1. /\ held = {FirstBlock} \cup (UNION {Own(q) : q \in Process}) \cup Lost
      /\ \A q \in Process : /\ FirstBlock \notin Own(q) /\ Own(q) \cap Lost = {}
                            /\ \A r \in Process \ {q} : Own(q) \cap Own(r) = {}
      /\ FirstBlock \notin Lost
  BY DEF Books
<1>2. Lost' = Lost /\ OrphansApart'
  BY DEF Lost, Books, OrphansApart
<1> HIDE DEF Own, Lost
<1>3. \A q \in Process : Own(q) \cap N = {}
  BY <1>1
<1>4. FirstBlock \notin N /\ Lost \cap N = {}
  <2>1. FirstBlock \in held /\ Lost \subseteq held
    BY <1>1
  <2> QED BY <2>1
<1>5. held' = {FirstBlock} \cup (UNION {Own(q)' : q \in Process}) \cup Lost'
  <2>1. \A b : (\E q \in Process : b \in Own(q)') <=> b \in N \/ \E q \in Process : b \in Own(q)
    BY <1>3
  <2>2. \A b : b \in held' <=> \/ b = FirstBlock \/ b \in Lost'
                             \/ \E q \in Process : b \in Own(q)'
    BY <1>1, <1>2, <1>4, <2>1
  <2> QED BY <2>2
<1>6. ASSUME NEW q \in Process
      PROVE  /\ FirstBlock \notin Own(q)' /\ Own(q)' \cap Lost' = {}
             /\ ListsApart(q)'
             /\ \A r \in Process \ {q} : Own(q)' \cap Own(r)' = {}
  <2>1. CASE q = p
    BY <1>1, <1>2, <1>3, <1>4, <2>1
  <2>2. CASE q # p
    BY <1>1, <1>2, <1>3, <1>4, <2>2
  <2> QED BY <2>1, <2>2
<1> QED BY <1>1, <1>2, <1>5, <1>6 DEF Books, OrphansApart

LEMMA BooksShrink ==
  ASSUME Books, NEW p \in Process, NEW N, N \subseteq Own(p), held' = held \ N,
         Own(p)' = Own(p) \ N, ListsApart(p)', orphans' = orphans,
         \A q \in Process \ {p} : Own(q)' = Own(q) /\ ListsApart(q)'
  PROVE  Books'
<1>1. /\ held = {FirstBlock} \cup (UNION {Own(q) : q \in Process}) \cup Lost
      /\ \A q \in Process : /\ FirstBlock \notin Own(q) /\ Own(q) \cap Lost = {}
                            /\ \A r \in Process \ {q} : Own(q) \cap Own(r) = {}
      /\ FirstBlock \notin Lost
  BY DEF Books
<1>2. Lost' = Lost /\ OrphansApart'
  BY DEF Lost, Books, OrphansApart
<1>3. \A q \in Process \ {p} : Own(q) \cap N = {}
  BY <1>1
<1>4. FirstBlock \notin N /\ Lost \cap N = {}
  BY <1>1
<1>5. held' = {FirstBlock} \cup (UNION {Own(q)' : q \in Process}) \cup Lost'
  <2>1. \A b : (\E q \in Process : b \in Own(q)') <=> b \notin N /\ \E q \in Process : b \in Own(q)
    BY <1>3
  <2>2. \A b : b \in held' <=> \/ b = FirstBlock \/ b \in Lost'
                             \/ \E q \in Process : b \in Own(q)'
    BY <1>1, <1>2, <1>4, <2>1
  <2> QED BY <2>2
<1>6. ASSUME NEW q \in Process
      PROVE  /\ FirstBlock \notin Own(q)' /\ Own(q)' \cap Lost' = {}
             /\ ListsApart(q)'
             /\ \A r \in Process \ {q} : Own(q)' \cap Own(r)' = {}
  <2>1. CASE q = p
    BY <1>1, <1>2, <2>1
  <2>2. CASE q # p
    BY <1>1, <1>2, <2>2
  <2> QED BY <2>1, <2>2
<1> QED BY <1>1, <1>2, <1>5, <1>6 DEF Books, OrphansApart

LEMMA BooksDelete ==
  ASSUME Books, NEW p \in Process, NEW N, N \subseteq Own(p), held' = held \ N,
         Own(p)' = {}, Lost' = Lost \cup (Own(p) \ N), ListsApart(p)', OrphansApart',
         \A q \in Process \ {p} : Own(q)' = Own(q) /\ ListsApart(q)'
  PROVE  Books'
<1>1. /\ held = {FirstBlock} \cup (UNION {Own(q) : q \in Process}) \cup Lost
      /\ \A q \in Process : /\ FirstBlock \notin Own(q) /\ Own(q) \cap Lost = {}
                            /\ \A r \in Process \ {q} : Own(q) \cap Own(r) = {}
      /\ FirstBlock \notin Lost
  BY DEF Books
<1>2. \A q \in Process \ {p} : Own(q) \cap Own(p) = {}
  BY <1>1
<1>3. held' = {FirstBlock} \cup (UNION {Own(q)' : q \in Process}) \cup Lost'
  <2>1. \A b : (\E q \in Process : b \in Own(q)') <=>
                b \notin Own(p) /\ \E q \in Process : b \in Own(q)
    BY <1>2
  <2>2. FirstBlock \notin Own(p) /\ Own(p) \cap Lost = {}
    BY <1>1
  <2>3. \A b : b \in held' <=> \/ b = FirstBlock \/ b \in Lost'
                             \/ \E q \in Process : b \in Own(q)'
    BY <1>1, <2>1, <2>2
  <2> QED BY <2>3
<1>4. ASSUME NEW q \in Process
      PROVE  /\ FirstBlock \notin Own(q)' /\ Own(q)' \cap Lost' = {}
             /\ ListsApart(q)'
             /\ \A r \in Process \ {q} : Own(q)' \cap Own(r)' = {}
  <2>1. CASE q = p
    BY <1>1, <2>1
  <2>2. CASE q # p
    BY <1>1, <1>2, <2>2
  <2> QED BY <2>1, <2>2
<1>5. FirstBlock \notin Lost'
  BY <1>1
<1> QED BY <1>3, <1>4, <1>5 DEF Books, OrphansApart

-----------------------------------------------------------------------------
(* From the processes to the invariant.                                    *)

GlobalType ==
  /\ mode \in {"boot", "run", "lost"}
  /\ held \subseteq Block
  /\ cursor \in FirstBlock .. EndBlock
  /\ tables \in [Block \cup {NULL} -> TableType]
  /\ m_page_directory \in [Process -> Block \cup {NULL}]
  /\ entries \in [Process -> [Frame -> Block \cup {NULL, Template}]]
  /\ m_heap_address \in [Process -> HeapBase .. StackTop]

Domains ==
  /\ DOMAIN m_used_blocks = Process /\ DOMAIN m_stack_blocks = Process
  /\ DOMAIN threads = Process

ProcessHolds(p) ==
  /\ ProcessType(p) /\ ProcessShape(p) /\ ListsApart(p) /\ ProcessTables(p)
  /\ Intact => (Live(p) => ProcessPages(p))

LEMMA Parts ==
  /\ TypeOK <=> GlobalType /\ \A p \in Process : ProcessType(p)
  /\ Shape <=> /\ Domains /\ \A p \in Process : ProcessShape(p)
               /\ \A o \in orphans : o.m_used_blocks \in Seq(Block \cup LowPages)
  /\ Tables <=> /\ mode = "boot" => Intact
                /\ \A p \in Process : ProcessTables(p)
                /\ Intact => TablesNamedOnce
  /\ Pages <=> \A p \in Process : Intact => (Live(p) => ProcessPages(p))
<1>1. TypeOK <=> GlobalType /\ \A p \in Process : ProcessType(p)
  BY DEF TypeOK, GlobalType, ProcessType, TableType
<1>2. Shape <=> /\ Domains /\ \A p \in Process : ProcessShape(p)
                /\ \A o \in orphans : o.m_used_blocks \in Seq(Block \cup LowPages)
  BY DEF Shape, Domains, ProcessShape
<1>3. Tables <=> /\ mode = "boot" => Intact
                 /\ \A p \in Process : ProcessTables(p)
                 /\ Intact => TablesNamedOnce
  BY DEF Tables, ProcessTables, TablesNamedOnce
<1>4. Pages <=> \A p \in Process : Intact => (Live(p) => ProcessPages(p))
  BY DEF Pages, ProcessPages
<1> QED BY <1>1, <1>2, <1>3, <1>4

(* The other way, after a step. *)
LEMMA Whole ==
  ASSUME GlobalType', Domains', Books', \A p \in Process : ProcessHolds(p)',
         \A o \in orphans' : o.m_used_blocks \in Seq(Block \cup LowPages),
         mode' = "boot" => Intact', Intact' => TablesNamedOnce'
  PROVE  IInv'
<1>1. \A p \in Process :
        /\ ProcessType(p)' /\ ProcessShape(p)' /\ ProcessTables(p)'
        /\ Intact' => (Live(p)' => ProcessPages(p)')
  BY DEF ProcessHolds
<1>2. TypeOK'
  BY <1>1 DEF TypeOK, GlobalType, ProcessType, TableType
<1>3. Shape'
  BY <1>1 DEF Shape, Domains, ProcessShape
<1>4. Tables'
  BY <1>1 DEF Tables, ProcessTables, TablesNamedOnce
<1>5. Pages'
  BY <1>1 DEF Pages, ProcessPages
<1> QED BY <1>2, <1>3, <1>4, <1>5 DEF IInv

(* A process that a step leaves alone. *)
LEMMA Untouched ==
  ASSUME IInv, Intact, NEW q \in Process, Same(q),
         Intact' => \A v \in Page : Mapped(q, v)' = Mapped(q, v)
  PROVE  ProcessHolds(q)' /\ Own(q)' = Own(q)
<1>1. SameAs(q)
  BY SameProcess
<1>2. ProcessType(q) /\ ProcessShape(q) /\ ProcessTables(q) /\ ListsApart(q)
  BY Parts DEF IInv, Books
<1>3. ASSUME Intact', Live(q)' PROVE ProcessPages(q)'
  <2>1. Live(q)
    BY <1>1, <1>3 DEF SameAs
  <2>2. ProcessPages(q)
    BY <2>1, Parts DEF IInv
  <2> QED BY <1>3, <2>1, <2>2, SamePages DEF IInv
<1> QED BY <1>1, <1>2, <1>3 DEF SameAs, ProcessHolds

-----------------------------------------------------------------------------
(* sys_thread. *)

(* There is a place for the stack of a thread more. *)
LEMMA UsedStacks ==
  ASSUME TypeOK, Shape, NEW p \in Process, Live(p),
         NEW t \in Workers, t \notin DOMAIN threads[p]
  PROVE  /\ IsFiniteSet(m_stack_blocks[p])
         /\ Cardinality(m_stack_blocks[p]) <= Cardinality(Workers)
<1> DEFINE D == DOMAIN threads[p]
           f == [u \in D |-> threads[p][u].m_stack]
<1>1. /\ D \subseteq Thread \ {t} /\ t \in Thread
      /\ m_stack_blocks[p] = {threads[p][u].m_stack : u \in D}
  BY DEF TypeOK, Shape, StacksApart, Thread
<1>2. /\ IsFiniteSet(Thread \ {t})
      /\ Cardinality(Thread \ {t}) = Cardinality(Workers)
  <2>1. IsFiniteSet(Thread \ {t}) /\ Cardinality(Thread \ {t}) = Cardinality(Thread) - 1
    BY <1>1, ThreadRoom, FS_RemoveElement DEF Room
  <2> QED BY <2>1, ThreadRoom DEF Room
<1>3. IsFiniteSet(D) /\ Cardinality(D) <= Cardinality(Workers)
  BY <1>1, <1>2, FS_Subset
<1>4. f \in Surjection(D, m_stack_blocks[p])
  BY <1>1 DEF Surjection
<1> HIDE DEF D, f
<1>5. /\ IsFiniteSet(m_stack_blocks[p])
      /\ Cardinality(m_stack_blocks[p]) <= Cardinality(D)
  BY <1>3, <1>4, FS_Surjection
<1>6. /\ Cardinality(D) \in Nat /\ Cardinality(Workers) \in Nat
      /\ Cardinality(m_stack_blocks[p]) \in Nat
  BY <1>3, <1>5, FS_CardinalityType, ThreadRoom DEF Room
<1> QED BY <1>3, <1>5, <1>6

(* What the threads of p are when t has got a stack at x. *)
WithThread(p, t, x, list) ==
  /\ DOMAIN threads'[p] = DOMAIN threads[p] \cup {t}
  /\ threads'[p][t].m_stack = x /\ threads'[p][t].m_used_blocks = list
  /\ \A u \in DOMAIN threads[p] : threads'[p][u] = threads[p][u]
  /\ m_stack_blocks'[p] = m_stack_blocks[p] \cup {x}
  /\ m_page_directory'[p] = m_page_directory[p]
  /\ m_used_blocks'[p] = m_used_blocks[p]
  /\ m_heap_address'[p] = m_heap_address[p]

ThreadMade(p, t, x, s) ==
  /\ Live(p) /\ Intact /\ mode = "run" /\ mode' = mode
  /\ t \in Workers /\ t \notin DOMAIN threads[p]
  /\ x \in Positions \ m_stack_blocks[p]
  /\ s \in Building
  /\ NewStack(Start(p, << >>), Kept(p), tables, x, s)
  /\ Builds(p, s) /\ cursor' = s.cursor
  /\ WithThread(p, t, x, s.list)
  /\ \A q \in Process \ {p} : Same(q)
  /\ Domains'
  /\ UNCHANGED <<m_page_directory, m_heap_address, orphans>>

LEMMA MakesThread ==
  ASSUME IInv, NEW p \in Process, NEW t \in Workers, sys_thread(p, t)
  PROVE  \E x, s : ThreadMade(p, t, x, s)
<1> DEFINE used == m_stack_blocks[p]
           x == FreeStack(used)
           s == NewThread(Start(p, << >>), used)
           new == [m_stack |-> x, m_used_blocks |-> s.list]
<1>1. /\ TypeOK /\ Shape /\ Tables /\ Live(p) /\ Intact /\ mode = "run"
      /\ t \notin DOMAIN threads[p]
  BY DEF IInv, sys_thread, Running
<1>2. x \in Positions \ used
  <2> HIDE DEF x
  <2>1. IsFiniteSet(used) /\ Cardinality(used) <= Cardinality(Workers)
    BY <1>1, UsedStacks
  <2> QED BY <2>1, FreeStackGives DEF x
<1>3. Started(p, << >>, Start(p, << >>))
  BY <1>1, EmptySeq, StartGives
<1>4. NewStack(Start(p, << >>), Kept(p), tables, x, s)
  BY <1>2, <1>3, NewThreadGives DEF Started
<1>5. s \in Building
  BY <1>4 DEF NewStack
<1>6. /\ Commit(s) /\ entries' = [entries EXCEPT ![p] = s.dir]
      /\ m_stack_blocks' = [m_stack_blocks EXCEPT ![p] = @ \cup {x}]
      /\ threads' = [threads EXCEPT ![p] =
                       [u \in DOMAIN @ \cup {t} |-> IF u = t THEN new ELSE @[u]]]
      /\ UNCHANGED <<mode, m_page_directory, m_used_blocks, m_heap_address, orphans>>
  BY DEF sys_thread
<1> HIDE DEF x, s
<1>7. /\ DOMAIN m_used_blocks = Process /\ DOMAIN m_stack_blocks = Process
      /\ DOMAIN threads = Process /\ DOMAIN entries = Process
  BY <1>1 DEF Shape, TypeOK
<1>8. WithThread(p, t, x, s.list)
  BY <1>1, <1>6, <1>7 DEF WithThread
<1>9. \A q \in Process \ {p} : Same(q)
  BY <1>6, <1>7 DEF Same
<1>10. Domains'
  BY <1>6, <1>7 DEF Domains
<1>11. Builds(p, s) /\ cursor' = s.cursor
  BY <1>6 DEF Builds, Commit
<1>12. ThreadMade(p, t, x, s)
  BY <1>1, <1>2, <1>4, <1>5, <1>6, <1>8, <1>9, <1>10, <1>11 DEF ThreadMade
<1> QED BY <1>12

(* What the lists of a process name is in use. *)
LEMMA Listed ==
  ASSUME Books, NEW p \in Process
  PROVE  /\ Own(p) \subseteq held
         /\ Range(m_used_blocks[p]) \subseteq held \cup LowPages
         /\ m_page_directory[p] \in held \cup LowPages
         /\ \A t \in DOMAIN threads[p] : StackBlocks(p, t) \subseteq held \cup LowPages
<1>1. Own(p) \subseteq held
  BY DEF Books
<1> QED BY <1>1 DEF Own, OwnBlocks

(* A heap that is apart is below every stack there can be. *)
LEMMA HeapBelow ==
  ASSUME NEW h \in Nat, h <= StackTop - Cardinality(Thread) * StackPages,
         NEW x \in Positions
  PROVE  (Image \cup (HeapBase .. h - 1)) \cap StackOf(x) = {}
<1>1. /\ x \in Nat /\ StackTop - Cardinality(Thread) * StackPages <= x - StackPages
      /\ StackOf(x) \cap (ImageBase .. HeapBase - 1) = {}
  BY StacksFit DEF StackFits
<1>2. /\ StackPages \in Nat /\ ImageBase \in Nat /\ HeapBase \in Nat /\ StackTop \in Nat
      /\ ImagePages \in Nat /\ ImageBase + ImagePages <= HeapBase
  BY Layout DEF Sizes
<1> DEFINE low == StackTop - Cardinality(Thread) * StackPages
<1>3. h <= low /\ low <= x - StackPages
  BY <1>1
<1>4. low \in Int
  BY <1>2, ThreadRoom DEF Room
<1> HIDE DEF low
<1>5. Image \cap StackOf(x) = {}
  BY <1>1, <1>2 DEF Image
<1>6. (HeapBase .. h - 1) \cap StackOf(x) = {}
  BY <1>1, <1>2, <1>3, <1>4 DEF StackOf
<1> QED BY <1>5, <1>6

(* The pages of the first stack and the image are pages there are.         *)
LEMMA FirstPages ==
  /\ FirstStack \subseteq Page /\ Image \subseteq Page
  /\ FirstFrames \subseteq Frame
<1>1. FirstStack \subseteq Page
  BY TopIsPosition, StacksFit DEF FirstStack, StackFits
<1>2. Image \subseteq Page
  <2>1. HeapBase <= StackTop
    BY Layout, TopIsPosition, StacksFit DEF StackFits, Sizes
  <2> QED BY <2>1, Layout DEF Image, Page, Sizes
<1> QED BY <1>1, <1>2 DEF FirstFrames, Frames, Frame

(* A sequence is one of any set its elements are in. *)
LEMMA SeqRange ==
  ASSUME NEW S, NEW T, NEW list \in Seq(S)
  PROVE  /\ Range(list) \subseteq S
         /\ Range(list) \subseteq T => list \in Seq(T)
<1>1. /\ Len(list) \in Nat /\ list \in [1 .. Len(list) -> S]
  OBVIOUS
<1>2. Range(list) \subseteq S
  BY <1>1 DEF Range
<1>3. ASSUME Range(list) \subseteq T PROVE list \in Seq(T)
  <2>1. \A i \in 1 .. Len(list) : list[i] \in T
    BY <1>1, <1>3 DEF Range
  <2> QED BY <1>1, <2>1, SeqDef
<1> QED BY <1>2, <1>3

LEMMA ThreadMadeShape ==
  ASSUME IInv, NEW p \in Process, NEW t, NEW x, NEW s, ThreadMade(p, t, x, s)
  PROVE  ProcessType(p)' /\ ProcessShape(p)'
<1>1. /\ ProcessType(p) /\ ProcessShape(p) /\ Live(p) /\ StacksApart(p)
  BY Parts DEF IInv, ThreadMade, ProcessShape
<1>2. /\ DOMAIN threads'[p] = DOMAIN threads[p] \cup {t} /\ t \notin DOMAIN threads[p]
      /\ threads'[p][t].m_stack = x /\ threads'[p][t].m_used_blocks = s.list
      /\ \A u \in DOMAIN threads[p] : threads'[p][u] = threads[p][u]
      /\ m_stack_blocks'[p] = m_stack_blocks[p] \cup {x}
      /\ m_page_directory'[p] = m_page_directory[p]
      /\ m_used_blocks'[p] = m_used_blocks[p]
      /\ x \in Positions \ m_stack_blocks[p] /\ t \in Workers
  BY DEF ThreadMade, WithThread
<1>3. Live(p)'
  BY <1>1, <1>2 DEF Live
<1>4. x \in StackPages .. StackTop
  <2>1. StackFits(x)
    BY <1>2, StacksFit
  <2> QED BY <2>1, Layout DEF StackFits, Sizes
<1>5. s.list \in Seq(Block \cup LowPages)
  BY DEF ThreadMade, Building
<1>6. ProcessType(p)'
  <2>1. /\ m_used_blocks'[p] \in Seq(Block \cup {NULL})
        /\ m_stack_blocks'[p] \subseteq StackPages .. StackTop
    BY <1>1, <1>2, <1>4 DEF ProcessType
  <2>2. DOMAIN threads'[p] \subseteq Thread
    BY <1>1, <1>2 DEF ProcessType, Thread
  <2>3. \A u \in DOMAIN threads'[p] :
          /\ threads'[p][u].m_stack \in m_stack_blocks'[p]
          /\ threads'[p][u].m_used_blocks \in Seq(Block \cup LowPages)
    BY <1>1, <1>2, <1>5 DEF ProcessType
  <2> QED BY <2>1, <2>2, <2>3 DEF ProcessType
<1>7. StacksApart(p)'
  <2>1. Main \in DOMAIN threads'[p] /\ threads'[p][Main].m_stack = StackTop
    BY <1>1, <1>2 DEF StacksApart
  <2>2. m_stack_blocks'[p] = {threads'[p][u].m_stack : u \in DOMAIN threads'[p]}
    BY <1>1, <1>2 DEF StacksApart
  <2>3. m_stack_blocks'[p] \subseteq Positions
    BY <1>1, <1>2 DEF StacksApart
  <2>4. \A u, w \in DOMAIN threads'[p] :
          threads'[p][u].m_stack = threads'[p][w].m_stack => u = w
    BY <1>1, <1>2 DEF StacksApart
  <2> QED BY <2>1, <2>2, <2>3, <2>4 DEF StacksApart
<1> QED BY <1>3, <1>6, <1>7 DEF ProcessShape

LEMMA ThreadMadeBooks ==
  ASSUME IInv, NEW p \in Process, NEW t, NEW x, NEW s, ThreadMade(p, t, x, s)
  PROVE  ListsApart(p)' /\ Books'
<1> DEFINE N == Range(s.list) \ LowPages
<1>1. /\ DOMAIN threads'[p] = DOMAIN threads[p] \cup {t} /\ t \notin DOMAIN threads[p]
      /\ threads'[p][t].m_used_blocks = s.list
      /\ \A u \in DOMAIN threads[p] : threads'[p][u] = threads[p][u]
      /\ m_page_directory'[p] = m_page_directory[p]
      /\ m_used_blocks'[p] = m_used_blocks[p]
  BY DEF ThreadMade, WithThread
<1>2. Books /\ ListsApart(p) /\ TypeOK
  BY DEF IInv, Books
<1>3. held' = held \cup N /\ Range(s.list) \cap held = {} /\ Once(s.list)
  <2>1. held' = s.held /\ Accounts(s, Start(p, << >>).held, {})
    BY DEF ThreadMade, NewStack, Builds
  <2>2. Start(p, << >>).held = held
    BY DEF Start
  <2> QED BY <2>1, <2>2 DEF Accounts
<1>4. /\ StackBlocks(p, t)' = Range(s.list)
      /\ \A u \in DOMAIN threads[p] : StackBlocks(p, u)' = StackBlocks(p, u)
  BY <1>1 DEF StackBlocks
<1>5. Own(p)' = Own(p) \cup N
  BY <1>1, <1>4 DEF Own, OwnBlocks
<1>6. /\ Range(m_used_blocks[p]) \subseteq held \cup LowPages
      /\ m_page_directory[p] \in held \cup LowPages
      /\ \A u \in DOMAIN threads[p] : StackBlocks(p, u) \subseteq held \cup LowPages
  BY <1>2, Listed
<1>7. ListsApart(p)'
  <2>1. /\ Once(m_used_blocks'[p])
        /\ m_page_directory'[p] \notin Range(m_used_blocks'[p]) \ LowPages
    BY <1>1, <1>2 DEF ListsApart
  <2>2. ASSUME NEW u \in DOMAIN threads'[p]
        PROVE  /\ Once(threads'[p][u].m_used_blocks)
               /\ m_page_directory'[p] \notin StackBlocks(p, u)' \ LowPages
               /\ Range(m_used_blocks'[p]) \cap StackBlocks(p, u)' \subseteq LowPages
    <3>1. CASE u = t
      BY <1>1, <1>3, <1>4, <1>6, <3>1
    <3>2. CASE u # t
      BY <1>1, <1>2, <1>4, <2>2, <3>2 DEF ListsApart
    <3> QED BY <3>1, <3>2
  <2>3. ASSUME NEW u \in DOMAIN threads'[p], NEW w \in DOMAIN threads'[p], u # w
        PROVE  StackBlocks(p, u)' \cap StackBlocks(p, w)' \subseteq LowPages
    <3>1. CASE u = t
      BY <1>1, <1>3, <1>4, <1>6, <2>3, <3>1
    <3>2. CASE w = t
      BY <1>1, <1>3, <1>4, <1>6, <2>3, <3>2
    <3>3. CASE u # t /\ w # t
      BY <1>1, <1>2, <1>4, <2>3, <3>3 DEF ListsApart
    <3> QED BY <3>1, <3>2, <3>3
  <2> QED BY <2>1, <2>2, <2>3 DEF ListsApart
<1>8. \A q \in Process \ {p} : Own(q)' = Own(q) /\ ListsApart(q)'
  <2>1. \A q \in Process \ {p} : SameAs(q) /\ ListsApart(q)
    BY <1>2, SameProcess DEF ThreadMade, Books
  <2> QED BY <2>1 DEF SameAs
<1>9. orphans' = orphans /\ N \cap held = {}
  BY <1>3 DEF ThreadMade
<1> HIDE DEF N
<1>10. Books'
  BY <1>2, <1>3, <1>5, <1>7, <1>8, <1>9, BooksGrow
<1> QED BY <1>7, <1>10

LEMMA ThreadMadeTables ==
  ASSUME IInv, NEW p \in Process, NEW t, NEW x, NEW s, ThreadMade(p, t, x, s)
  PROVE  ProcessTables(p)' /\ Built(p, s)
<1>1. /\ DOMAIN threads'[p] = DOMAIN threads[p] \cup {t} /\ t \notin DOMAIN threads[p]
      /\ \A u \in DOMAIN threads[p] : threads'[p][u] = threads[p][u]
      /\ m_used_blocks'[p] = m_used_blocks[p] /\ Live(p) /\ Intact
      /\ x \in Positions \ m_stack_blocks[p]
  BY DEF ThreadMade, WithThread
<1>2. TypeOK /\ Shape /\ Tables /\ ProcessTables(p) /\ StacksApart(p)
  BY <1>1, Parts DEF IInv, ProcessShape
<1>3. Started(p, << >>, Start(p, << >>))
  BY <1>1, <1>2, EmptySeq, StartGives
<1>4. /\ s \in Building /\ held \subseteq s.held /\ TablesApart(s, Kept(p), tables)
      /\ \A f \in Frame :
           \/ s.dir[f] = entries[p][f]
           \/ entries[p][f] = Template /\ f \in Frames(StackOf(x))
      /\ Builds(p, s)
  BY <1>3 DEF ThreadMade, NewStack, Started
<1>5. Built(p, s)
  BY <1>1, <1>2, <1>4, BuildsGives
<1>6. entries'[p] = s.dir
  BY <1>2, <1>4 DEF Builds, TypeOK
<1>7. StackBlocks(p, Main)' = StackBlocks(p, Main)
  BY <1>1, <1>2 DEF StackBlocks, StacksApart
<1>8. Frames(StackOf(x)) \subseteq WorkerFrames
  <2>1. StackTop \in m_stack_blocks[p]
    BY <1>2 DEF StacksApart
  <2>2. /\ x <= StackTop - StackPages /\ x \in Nat
        /\ StackTop - Cardinality(Thread) * StackPages <= x - StackPages
    BY <1>1, <2>1, StacksFit DEF StackFits
  <2>3. StackOf(x) \subseteq
          StackTop - Cardinality(Thread) * StackPages .. StackTop - StackPages - 1
    <3> DEFINE low == StackTop - Cardinality(Thread) * StackPages
    <3>1. low \in Int /\ StackTop \in Nat /\ StackPages \in Nat
      BY Layout, ThreadRoom DEF Sizes, Room
    <3>2. low <= x - StackPages
      BY <2>2
    <3> HIDE DEF low
    <3>3. StackOf(x) \subseteq low .. StackTop - StackPages - 1
      BY <2>2, <3>1, <3>2 DEF StackOf
    <3> QED BY <3>3 DEF low
  <2> QED BY <2>3 DEF Frames, WorkerFrames
<1>9. FirstFrames \subseteq Frame
  BY FirstPages
<1>10. /\ TableLists(p)
       /\ \A f \in FirstFrames : entries[p][f] # Template
  BY <1>1, <1>2 DEF ProcessTables
<1>11. \A f \in FirstFrames : entries'[p][f] # Template
  BY <1>4, <1>6, <1>9, <1>10
<1>12. TableLists(p)'
  BY <1>1, <1>4, <1>6, <1>7, <1>8, <1>10 DEF TableLists
<1> QED BY <1>5, <1>11, <1>12 DEF ProcessTables

LEMMA ThreadMadePages ==
  ASSUME IInv, NEW p \in Process, NEW t, NEW x, NEW s, ThreadMade(p, t, x, s), Intact'
  PROVE  ProcessPages(p)'
<1> DEFINE new == StackOf(x)
           old == UNION {StackOf(threads[p][u].m_stack) : u \in DOMAIN threads[p]}
<1>1. /\ DOMAIN threads'[p] = DOMAIN threads[p] \cup {t} /\ t \notin DOMAIN threads[p]
      /\ threads'[p][t].m_stack = x /\ threads'[p][t].m_used_blocks = s.list
      /\ \A u \in DOMAIN threads[p] : threads'[p][u] = threads[p][u]
      /\ m_page_directory'[p] = m_page_directory[p]
      /\ m_used_blocks'[p] = m_used_blocks[p]
      /\ m_heap_address'[p] = m_heap_address[p] /\ Live(p) /\ Intact
      /\ x \in Positions \ m_stack_blocks[p]
  BY DEF ThreadMade, WithThread
<1>2. TypeOK /\ Shape /\ Tables /\ Books /\ ProcessPages(p) /\ StacksApart(p)
  BY <1>1, Parts DEF IInv, ProcessShape
<1>3. Started(p, << >>, Start(p, << >>))
  BY <1>1, <1>2, EmptySeq, StartGives
<1>4. NoTableAtNull(s) /\ \A v : Mapped(p, v)' = At(s, v)
  <2>1. Live(p)'
    BY <1>1 DEF Live
  <2> QED BY <2>1, ThreadMadeTables DEF Built
<1>5. /\ \A v \in Page \ new : Mapped(p, v)' = Mapped(p, v)
      /\ \A v \in new : Mapped(p, v)' \in Range(s.list)
      /\ \A v, w \in new : Mapped(p, v)' = Mapped(p, w)' => v = w
      /\ Range(s.list) \cap held = {}
  <2>1. NewStack(Start(p, << >>), Kept(p), tables, x, s)
    BY DEF ThreadMade
  <2> QED BY <1>3, <1>4, <2>1 DEF NewStack, Started, Accounts
<1>6. new \subseteq Page /\ \A y \in Positions \ {x} : StackOf(y) \cap new = {}
  BY <1>1, StacksFit DEF StackFits
<1>7. \A u \in DOMAIN threads[p] :
        StackOf(threads[p][u].m_stack) \cap new = {}
  <2>1. \A u \in DOMAIN threads[p] : threads[p][u].m_stack \in Positions \ {x}
    BY <1>1, <1>2 DEF StacksApart
  <2> QED BY <1>6, <2>1
<1>8. /\ OwnPages(p) \subseteq Page /\ old \subseteq Page
      /\ \A u \in DOMAIN threads[p] : StackOf(threads[p][u].m_stack) \subseteq Page
  BY <1>1, <1>2, PagesThereAre DEF StackFits
<1> HIDE DEF new
<1>9. /\ StackBlocks(p, t)' = Range(s.list)
      /\ \A u \in DOMAIN threads[p] : StackBlocks(p, u)' = StackBlocks(p, u)
      /\ OwnPages(p)' = OwnPages(p) /\ (HeapIsApart(p)' <=> HeapIsApart(p))
  BY <1>1 DEF StackBlocks, OwnPages, HeapPages, HeapIsApart
<1>10. DeadStacks(p)' = DeadStacks(p) \ new
  <2>1. (UNION {StackOf(threads[p][u].m_stack) : u \in DOMAIN threads[p]})' = old \cup new
    BY <1>1 DEF new
  <2> HIDE DEF old
  <2> QED BY <2>1 DEF DeadStacks, old
<1>11. ASSUME NEW v \in Page PROVE PageLeads(p, v)'
  <2>1. CASE v \in new
    <3>1. t \in DOMAIN threads'[p] /\ v \in StackOf(threads'[p][t].m_stack)
          /\ Mapped(p, v)' \in StackBlocks(p, t)'
      BY <1>1, <1>5, <1>9, <2>1 DEF new
    <3> QED BY <3>1 DEF PageLeads
  <2>2. CASE v \notin new
    <3>1. Mapped(p, v)' = Mapped(p, v) /\ PageLeads(p, v)
      BY <1>2, <1>5, <2>2 DEF ProcessPages
    <3>2. CASE Mapped(p, v) \in Range(m_used_blocks[p]) \cup {NotPresent}
      BY <1>1, <3>1, <3>2 DEF PageLeads
    <3>3. ASSUME NEW u \in DOMAIN threads[p], v \in StackOf(threads[p][u].m_stack),
                 Mapped(p, v) \in StackBlocks(p, u)
          PROVE  PageLeads(p, v)'
      <4>1. /\ u \in DOMAIN threads'[p] /\ v \in StackOf(threads'[p][u].m_stack)
            /\ Mapped(p, v)' \in StackBlocks(p, u)'
        BY <1>1, <1>9, <3>1, <3>3
      <4> QED BY <4>1 DEF PageLeads
    <3>4. CASE v \in DeadStacks(p)
      BY <1>10, <2>2, <3>4 DEF PageLeads
    <3> QED BY <3>1, <3>2, <3>3, <3>4 DEF PageLeads
  <2> QED BY <2>1, <2>2
<1>12. ASSUME HeapIsApart(p) PROVE OwnPagesApart(p)'
  <2> DEFINE pages == OwnPages(p) \cup old
  <2>1. OwnPages(p) \cap new = {}
    <3>1. /\ m_heap_address[p] \in Nat
          /\ m_heap_address[p] <= StackTop - Cardinality(Thread) * StackPages
      BY <1>2, <1>12, Layout DEF TypeOK, Sizes, HeapIsApart
    <3>2. (Image \cup (HeapBase .. m_heap_address[p] - 1)) \cap StackOf(x) = {}
      BY <1>1, <3>1, HeapBelow
    <3> QED BY <3>2 DEF new, OwnPages, HeapPages, Image
  <2>2. /\ \A v \in OwnPages(p) : Mapped(p, v) \in Range(m_used_blocks[p])
        /\ \A u \in DOMAIN threads[p] :
             \A v \in StackOf(threads[p][u].m_stack) :
               Mapped(p, v) \in StackBlocks(p, u)
        /\ \A v, w \in pages : Mapped(p, v) = Mapped(p, w) =>
             v = w \/ Mapped(p, v) \in LowPages
        /\ \A v \in Image : Mapped(p, v) = Mapped(p, ImageBase) + (v - ImageBase)
    BY <1>2, <1>12 DEF ProcessPages, OwnPagesApart
  <2>3. \A v \in pages : /\ Mapped(p, v) \in held \cup LowPages
                         /\ v \in Page \ new
    BY <1>2, <1>7, <1>8, <2>1, <2>2, Listed
  <2>4. \A v \in OwnPages(p)' : Mapped(p, v)' \in Range(m_used_blocks'[p])
    BY <1>1, <1>5, <1>9, <2>2, <2>3
  <2>5. ASSUME NEW u \in DOMAIN threads'[p], NEW v \in StackOf(threads'[p][u].m_stack)
        PROVE  Mapped(p, v)' \in StackBlocks(p, u)'
    <3>1. CASE u = t
      BY <1>1, <1>5, <1>9, <3>1 DEF new
    <3>2. CASE u # t
      <4>1. u \in DOMAIN threads[p] /\ v \in StackOf(threads[p][u].m_stack)
        BY <1>1, <2>5, <3>2
      <4>2. v \in pages
        BY <4>1
      <4> QED BY <1>5, <1>9, <2>2, <2>3, <4>1, <4>2
    <3> QED BY <3>1, <3>2
  <2>6. (OwnPages(p) \cup UNION {StackOf(threads[p][u].m_stack) : u \in DOMAIN threads[p]})'
          = pages \cup new
    BY <1>1, <1>9 DEF new
  <2> HIDE DEF pages
  <2>7. ASSUME NEW v \in pages \cup new, NEW w \in pages \cup new,
               Mapped(p, v)' = Mapped(p, w)'
        PROVE  v = w \/ Mapped(p, v)' \in LowPages
    <3>1. CASE v \in pages /\ w \in pages
      BY <1>5, <2>2, <2>3, <2>7, <3>1
    <3>2. CASE v \in new /\ w \in new
      BY <1>5, <2>7, <3>2
    <3>3. CASE v \in pages /\ w \in new
      BY <1>5, <2>3, <2>7, <3>3
    <3>4. CASE v \in new /\ w \in pages
      BY <1>5, <2>3, <2>7, <3>4
    <3> QED BY <3>1, <3>2, <3>3, <3>4
  <2>8. \A v \in Image : Mapped(p, v)' = Mapped(p, ImageBase)' + (v - ImageBase)
    <3>1. Image \subseteq OwnPages(p) /\ ImageBase \in Image
      BY Layout DEF Image, OwnPages, Sizes
    <3>2. \A v \in Image : Mapped(p, v)' = Mapped(p, v)
      BY <1>5, <2>3, <3>1 DEF pages
    <3> QED BY <2>2, <3>1, <3>2
  <2> QED BY <2>4, <2>5, <2>6, <2>7, <2>8 DEF OwnPagesApart
<1> QED BY <1>9, <1>11, <1>12 DEF ProcessPages

LEMMA SysThreadKeeps ==
  ASSUME IInv, NEW p \in Process, NEW t \in Workers, sys_thread(p, t)
  PROVE  IInv'
<1>1. PICK x, s : ThreadMade(p, t, x, s)
  BY MakesThread
<1>2. ProcessType(p)' /\ ProcessShape(p)'
  BY <1>1, ThreadMadeShape
<1>3. ListsApart(p)' /\ Books'
  BY <1>1, ThreadMadeBooks
<1>4. ProcessTables(p)' /\ Built(p, s)
  BY <1>1, ThreadMadeTables
<1>5. Intact' => ProcessPages(p)'
  BY <1>1, ThreadMadePages
<1>6. ProcessHolds(p)'
  BY <1>2, <1>3, <1>4, <1>5 DEF ProcessHolds
<1>7. \A q \in Process \ {p} : ProcessHolds(q)'
  BY <1>1, <1>4, Untouched DEF ThreadMade, Built
<1>8. /\ mode' = "run" /\ Domains' /\ Live(p)'
      /\ orphans' = orphans /\ s \in Building /\ Builds(p, s) /\ cursor' = s.cursor
      /\ UNCHANGED <<m_page_directory, m_heap_address>> /\ GlobalType
  BY <1>1, Parts DEF ThreadMade, Live, IInv
<1>9. GlobalType'
  BY <1>8 DEF GlobalType, Builds, Building
<1>10. \A o \in orphans' : o.m_used_blocks \in Seq(Block \cup LowPages)
  BY <1>8 DEF IInv, Shape
<1>11. Intact' => TablesNamedOnce'
  BY <1>4, <1>8 DEF Built
<1>12. \A q \in Process : ProcessHolds(q)'
  BY <1>6, <1>7
<1>13. mode' = "boot" => Intact'
  BY <1>8
<1>14. Domains' /\ Books'
  BY <1>3, <1>8
<1> QED BY <1>9, <1>10, <1>11, <1>12, <1>13, <1>14, Whole

-----------------------------------------------------------------------------
(* sys_alloc. *)

HeapGrown(p, top, s) ==
  /\ Live(p) /\ Intact /\ mode = "run" /\ mode' = mode
  /\ m_heap_address[p] <= top /\ top \in HeapBase .. StackTop
  /\ s \in Building
  /\ Started(p, m_used_blocks[p], Start(p, m_used_blocks[p]))
  /\ Grown(Start(p, m_used_blocks[p]), held \ Range(m_used_blocks[p]), Kept(p),
           tables, m_heap_address[p], top, s)
  /\ Builds(p, s) /\ cursor' = s.cursor
  /\ m_page_directory' = m_page_directory /\ orphans' = orphans
  /\ m_stack_blocks'[p] = m_stack_blocks[p] /\ threads'[p] = threads[p]
  /\ m_used_blocks'[p] = s.list /\ m_heap_address'[p] = top
  /\ m_heap_address' \in [Process -> HeapBase .. StackTop]
  /\ \A q \in Process \ {p} : Same(q)
  /\ Domains'

LEMMA GrowsHeap ==
  ASSUME IInv, NEW p \in Process, NEW count \in HeapRequests, sys_alloc(p, count)
  PROVE  \E top, s : HeapGrown(p, top, s)
<1> DEFINE list == m_used_blocks[p]
           heap == m_heap_address[p]
           s0 == Start(p, list)
           s == expand_heap(s0, heap, count)
<1>1. /\ TypeOK /\ Shape /\ Tables /\ Books /\ Live(p) /\ Intact /\ mode = "run"
      /\ ListsApart(p) /\ heap + count <= StackTop /\ count \in Nat
  BY RequestAssumption DEF IInv, sys_alloc, Running, Books
<1>2. list \in Seq(Block \cup {NULL})
  BY <1>1 DEF TypeOK
<1>3. list \in Seq(Block \cup LowPages) /\ Range(list) \subseteq Block \cup {NULL}
  BY <1>2, SeqRange, Kinds
<1>4. Started(p, list, s0)
  BY <1>1, <1>3, StartGives
<1>5. heap \in Nat /\ heap \in HeapBase .. StackTop /\ heap + count \in HeapBase .. StackTop
      /\ heap <= heap + count
  BY <1>1, Layout DEF TypeOK, Sizes
<1> HIDE DEF s, s0
<1>6. Accounts(s0, held \ Range(list), {})
  <2>1. Range(list) \ LowPages \subseteq held
    BY <1>1, Listed
  <2>2. held \cap LowPages = {}
    BY <1>1, Kinds DEF TypeOK
  <2>3. s0.held = held /\ s0.list = list
    BY <1>4 DEF Started
  <2>4. Once(list)
    BY <1>1 DEF ListsApart
  <2>5. held = (held \ Range(list)) \cup ((Range(list) \cup {}) \ LowPages)
    BY <2>1, <2>2
  <2>6. (Range(list) \cup {}) \cap (held \ Range(list)) = {}
    OBVIOUS
  <2> QED BY <2>3, <2>4, <2>5, <2>6 DEF Accounts
<1>7. Grown(s0, held \ Range(list), Kept(p), tables, heap, heap + count, s)
  <2>1. /\ s0 \in Building /\ TablesApart(s0, Kept(p), tables) /\ s0.list = list
        /\ held \ Range(list) \in SUBSET Block
    BY <1>1, <1>4 DEF Started, TypeOK
  <2>2. Range(s0.list) \cap LowPages \subseteq {NULL}
    BY <1>3, <2>1, Kinds
  <2> HIDE DEF heap, list
  <2> QED BY <1>1, <1>5, <1>6, <2>1, <2>2, ExpandGives DEF s
<1>8. s \in Building
  BY <1>7 DEF Grown
<1>9. /\ Commit(s) /\ entries' = [entries EXCEPT ![p] = s.dir]
      /\ m_used_blocks' = [m_used_blocks EXCEPT ![p] = s.list]
      /\ m_heap_address' = [m_heap_address EXCEPT ![p] = heap + count]
      /\ UNCHANGED <<mode, m_page_directory, m_stack_blocks, threads, orphans>>
  BY DEF sys_alloc, s, s0
<1>10. /\ DOMAIN m_used_blocks = Process /\ DOMAIN m_stack_blocks = Process
       /\ DOMAIN threads = Process /\ DOMAIN entries = Process
       /\ m_heap_address \in [Process -> HeapBase .. StackTop]
  BY <1>1 DEF Shape, TypeOK
<1>11. /\ m_stack_blocks'[p] = m_stack_blocks[p] /\ threads'[p] = threads[p]
       /\ m_used_blocks'[p] = s.list /\ m_heap_address'[p] = heap + count
       /\ m_heap_address' \in [Process -> HeapBase .. StackTop]
  BY <1>5, <1>9, <1>10
<1>12. \A q \in Process \ {p} : Same(q)
  BY <1>9, <1>10 DEF Same
<1>13. Domains'
  BY <1>9, <1>10 DEF Domains
<1>14. Builds(p, s) /\ cursor' = s.cursor
  BY <1>9 DEF Builds, Commit
<1>15. HeapGrown(p, heap + count, s)
  BY <1>1, <1>4, <1>5, <1>7, <1>8, <1>9, <1>11, <1>12, <1>13, <1>14 DEF HeapGrown, s0
<1> QED BY <1>15

(* What grew, seen from the state before. *)
GrownList(p, s) ==
  /\ s.list \in Seq(Block \cup {NULL}) /\ Once(s.list)
  /\ Range(m_used_blocks[p]) \subseteq Range(s.list)
  /\ Range(s.list) \cap held \subseteq Range(m_used_blocks[p])
  /\ held' = held \cup (Range(s.list) \ (LowPages \cup Range(m_used_blocks[p])))

LEMMA HeapGrownList ==
  ASSUME IInv, NEW p \in Process, NEW top, NEW s, HeapGrown(p, top, s)
  PROVE  GrownList(p, s)
<1> DEFINE list == m_used_blocks[p]
           s0 == Start(p, list)
<1>1. Grown(s0, held \ Range(list), Kept(p), tables, m_heap_address[p], top, s)
      /\ held' = s.held /\ s0.list = list /\ s0.held = held
  BY DEF HeapGrown, Builds, Started
<1> HIDE DEF s0
<1>2. /\ s \in Building /\ Accounts(s, held \ Range(list), {})
      /\ Onward(s0, s, m_heap_address[p] .. top - 1)
      /\ Range(s.list) \cap LowPages \subseteq {NULL} /\ held \subseteq s.held
  BY <1>1 DEF Grown
<1>3. s.list \in Seq(Block \cup {NULL})
  <2>1. s.list \in Seq(Block \cup LowPages)
    BY <1>2 DEF Building
  <2>2. Range(s.list) \subseteq Block \cup LowPages
    BY <2>1, SeqRange
  <2>3. Range(s.list) \subseteq Block \cup {NULL}
    BY <1>2, <2>2
  <2> QED BY <2>1, <2>3, SeqRange
<1>4. Range(list) \subseteq Range(s.list)
  BY <1>1, <1>2 DEF Onward
<1>5. /\ s.held = (held \ Range(list)) \cup (Range(s.list) \ LowPages)
      /\ Range(s.list) \cap (held \ Range(list)) = {}
      /\ Once(s.list)
  BY <1>2 DEF Accounts
<1>6. Range(s.list) \cap held \subseteq Range(list)
  BY <1>5
<1>7. held' = held \cup (Range(s.list) \ (LowPages \cup Range(list)))
  <2>1. Range(list) \subseteq held \cup LowPages
    BY Listed DEF IInv
  <2> HIDE DEF list
  <2> QED BY <1>1, <1>2, <1>5, <2>1
<1> QED BY <1>3, <1>4, <1>5, <1>6, <1>7 DEF GrownList

LEMMA HeapGrownShape ==
  ASSUME IInv, NEW p \in Process, NEW top, NEW s, HeapGrown(p, top, s)
  PROVE  ProcessType(p)' /\ ProcessShape(p)' /\ Live(p)'
<1>1. /\ ProcessType(p) /\ ProcessShape(p) /\ Live(p) /\ StacksApart(p)
      /\ m_stack_blocks'[p] = m_stack_blocks[p] /\ threads'[p] = threads[p]
      /\ m_page_directory' = m_page_directory /\ m_used_blocks'[p] = s.list
  BY Parts DEF IInv, HeapGrown, ProcessShape
<1>2. s.list \in Seq(Block \cup {NULL})
  BY HeapGrownList DEF GrownList
<1>3. ProcessType(p)'
  BY <1>1, <1>2 DEF ProcessType
<1>4. Live(p)' /\ StacksApart(p)'
  BY <1>1 DEF Live, StacksApart
<1> QED BY <1>3, <1>4 DEF ProcessShape

LEMMA HeapGrownBooks ==
  ASSUME IInv, NEW p \in Process, NEW top, NEW s, HeapGrown(p, top, s)
  PROVE  ListsApart(p)' /\ Books'
<1> DEFINE N == Range(s.list) \ (LowPages \cup Range(m_used_blocks[p]))
<1>1. /\ threads'[p] = threads[p] /\ m_page_directory'[p] = m_page_directory[p]
      /\ m_used_blocks'[p] = s.list /\ orphans' = orphans
  BY DEF HeapGrown
<1>2. Books /\ ListsApart(p)
  BY DEF IInv, Books
<1>3. /\ Once(s.list) /\ Range(m_used_blocks[p]) \subseteq Range(s.list)
      /\ held' = held \cup N
      /\ Range(s.list) \cap held \subseteq Range(m_used_blocks[p])
  BY HeapGrownList DEF GrownList
<1>4. \A u : StackBlocks(p, u)' = StackBlocks(p, u)
  BY <1>1 DEF StackBlocks
<1>5. Own(p)' = Own(p) \cup N
  BY <1>1, <1>3, <1>4 DEF Own, OwnBlocks
<1>6. /\ m_page_directory[p] \in held \cup LowPages
      /\ \A u \in DOMAIN threads[p] : StackBlocks(p, u) \subseteq held \cup LowPages
  BY <1>2, Listed
<1>7. ListsApart(p)'
  <2>1. m_page_directory'[p] \notin Range(m_used_blocks'[p]) \ LowPages
    BY <1>1, <1>2, <1>3, <1>6 DEF ListsApart
  <2>2. \A u \in DOMAIN threads[p] :
          Range(m_used_blocks'[p]) \cap StackBlocks(p, u) \subseteq LowPages
    BY <1>1, <1>2, <1>3, <1>6 DEF ListsApart
  <2> QED BY <1>1, <1>2, <1>3, <1>4, <2>1, <2>2 DEF ListsApart
<1>8. \A q \in Process \ {p} : Own(q)' = Own(q) /\ ListsApart(q)'
  <2>1. \A q \in Process \ {p} : SameAs(q) /\ ListsApart(q)
    BY <1>2, SameProcess DEF HeapGrown, Books
  <2> QED BY <2>1 DEF SameAs
<1>9. N \cap held = {}
  BY <1>3
<1> HIDE DEF N
<1>10. Books'
  BY <1>1, <1>2, <1>3, <1>5, <1>7, <1>8, <1>9, BooksGrow
<1> QED BY <1>7, <1>10

LEMMA HeapGrownTables ==
  ASSUME IInv, NEW p \in Process, NEW top, NEW s, HeapGrown(p, top, s)
  PROVE  ProcessTables(p)' /\ Built(p, s)
<1> DEFINE s0 == Start(p, m_used_blocks[p])
           new == m_heap_address[p] .. top - 1
<1>1. /\ threads'[p] = threads[p] /\ m_used_blocks'[p] = s.list /\ Live(p) /\ Intact
      /\ s \in Building /\ Builds(p, s) /\ Started(p, m_used_blocks[p], s0)
      /\ Grown(s0, held \ Range(m_used_blocks[p]), Kept(p), tables,
               m_heap_address[p], top, s)
  BY DEF HeapGrown
<1>2. TypeOK /\ Shape /\ Tables /\ ProcessTables(p) /\ StacksApart(p)
  BY <1>1, Parts DEF IInv, ProcessShape
<1> HIDE DEF s0
<1>3. /\ held \subseteq s.held /\ TablesApart(s, Kept(p), tables)
      /\ Range(m_used_blocks[p]) \subseteq Range(s.list)
      /\ \A f \in Frame :
           \/ s.dir[f] = entries[p][f]
           \/ entries[p][f] = Template /\ s.dir[f] \in Range(s.list) \cup {NULL}
  BY <1>1 DEF Grown, Onward, Started
<1>4. Built(p, s)
  BY <1>1, <1>2, <1>3, BuildsGives
<1>5. entries'[p] = s.dir
  BY <1>1, <1>2 DEF Builds, TypeOK
<1>6. StackBlocks(p, Main)' = StackBlocks(p, Main)
  BY <1>1 DEF StackBlocks
<1>7. TableLists(p) /\ \A f \in FirstFrames : entries[p][f] # Template
  BY <1>1, <1>2 DEF ProcessTables
<1>8. TableLists(p)'
  BY <1>1, <1>3, <1>5, <1>6, <1>7 DEF TableLists
<1>9. \A f \in FirstFrames : s.dir[f] # Template
  BY <1>3, <1>7, FirstPages, Kinds DEF TableLists, IInv, TypeOK, Building
<1> QED BY <1>4, <1>5, <1>8, <1>9 DEF ProcessTables

LEMMA HeapGrownPages ==
  ASSUME IInv, NEW p \in Process, NEW top, NEW s, HeapGrown(p, top, s), Intact'
  PROVE  ProcessPages(p)'
<1> DEFINE list == m_used_blocks[p]
           s0 == Start(p, list)
           new == m_heap_address[p] .. top - 1
           old == UNION {StackOf(threads[p][u].m_stack) : u \in DOMAIN threads[p]}
           pages == OwnPages(p) \cup old
<1>1. /\ threads'[p] = threads[p] /\ m_used_blocks'[p] = s.list
      /\ m_heap_address'[p] = top /\ Live(p) /\ Intact
      /\ m_heap_address[p] <= top /\ top \in HeapBase .. StackTop
      /\ Started(p, list, s0)
      /\ Grown(s0, held \ Range(list), Kept(p), tables, m_heap_address[p], top, s)
  BY DEF HeapGrown
<1> HIDE DEF s0
<1>2. TypeOK /\ Shape /\ Tables /\ Books /\ ProcessPages(p) /\ StacksApart(p)
  BY <1>1, Parts DEF IInv, ProcessShape
<1>3. NoTableAtNull(s) /\ \A v : Mapped(p, v)' = At(s, v)
  BY HeapGrownShape, HeapGrownTables DEF Built
<1>4. /\ \A v \in Page \ new : Mapped(p, v)' = Mapped(p, v)
      /\ \A v \in new : Mapped(p, v)' \in Range(s.list) /\ Mapped(p, v)' \notin held
      /\ \A v, w \in new : Mapped(p, v)' = Mapped(p, w)' =>
           v = w \/ Mapped(p, v)' \in LowPages
      /\ Range(list) \subseteq Range(s.list)
  BY <1>1, <1>3, Kinds DEF Grown, Onward, Started
<1>5. /\ HeapBase \in Nat /\ StackTop \in Nat /\ ImageBase \in Nat /\ ImagePages \in Nat
      /\ ImageBase + ImagePages <= HeapBase /\ top \in Nat
      /\ m_heap_address[p] \in Nat /\ HeapBase <= m_heap_address[p]
      /\ Image \subseteq Page /\ ImageBase \in Image
  BY <1>1, <1>2, Layout, FirstPages DEF Sizes, TypeOK, Image
<1>6. /\ OwnPages(p) \subseteq Page /\ old \subseteq Page
      /\ \A u \in DOMAIN threads[p] : StackOf(threads[p][u].m_stack) \subseteq Page
  BY <1>1, <1>2, PagesThereAre DEF StackFits
<1>7. /\ OwnPages(p)' = OwnPages(p) \cup new /\ new \cap OwnPages(p) = {}
      /\ OwnPages(p)' = Image \cup (HeapBase .. top - 1)
      /\ OwnPages(p) = Image \cup (HeapBase .. m_heap_address[p] - 1)
  <2>1. OwnPages(p)' = Image \cup (HeapBase .. top - 1)
    BY <1>1 DEF OwnPages, HeapPages, Image
  <2>2. OwnPages(p) = Image \cup (HeapBase .. m_heap_address[p] - 1)
    BY DEF OwnPages, HeapPages, Image
  <2>3. HeapBase .. top - 1 = (HeapBase .. m_heap_address[p] - 1) \cup new
    BY <1>1, <1>5
  <2>4. new \cap (HeapBase .. m_heap_address[p] - 1) = {} /\ new \cap Image = {}
    BY <1>5 DEF Image
  <2> HIDE DEF new
  <2> QED BY <2>1, <2>2, <2>3, <2>4
<1> HIDE DEF new
<1>8. /\ \A u : StackBlocks(p, u)' = StackBlocks(p, u)
      /\ DeadStacks(p)' = DeadStacks(p)
  BY <1>1 DEF StackBlocks, DeadStacks
<1>9. ASSUME NEW v \in Page PROVE PageLeads(p, v)'
  <2>1. CASE v \in new
    BY <1>1, <1>4, <2>1 DEF PageLeads
  <2>2. CASE v \notin new
    <3>1. Mapped(p, v)' = Mapped(p, v) /\ PageLeads(p, v)
      BY <1>2, <1>4, <2>2 DEF ProcessPages
    <3> HIDE DEF list
    <3>2. CASE Mapped(p, v) \in Range(list) \cup {NotPresent}
      BY <1>1, <1>4, <3>1, <3>2 DEF PageLeads
    <3>3. CASE Mapped(p, v) \notin Range(list) \cup {NotPresent}
      BY <1>1, <1>8, <3>1, <3>3 DEF PageLeads, list
    <3> QED BY <3>2, <3>3
  <2> QED BY <2>1, <2>2
<1>10. ASSUME HeapIsApart(p)' PROVE OwnPagesApart(p)'
  <2>1. top <= StackTop - Cardinality(Thread) * StackPages
    BY <1>1, <1>10 DEF HeapIsApart
  <2>2. HeapIsApart(p)
    <3> DEFINE low == StackTop - Cardinality(Thread) * StackPages
    <3>1. low \in Int
      BY <1>5, Layout, ThreadRoom DEF Room, Sizes
    <3>2. top <= low
      BY <2>1
    <3> HIDE DEF low
    <3>3. m_heap_address[p] <= low
      BY <1>1, <1>5, <3>1, <3>2
    <3> QED BY <3>3 DEF HeapIsApart, low
  <2>3. \A u \in DOMAIN threads[p] : StackOf(threads[p][u].m_stack) \cap new = {}
    <3>1. \A u \in DOMAIN threads[p] : threads[p][u].m_stack \in Positions
      BY <1>2 DEF StacksApart
    <3> QED BY <1>5, <1>7, <2>1, <3>1, HeapBelow
  <2>4. /\ \A v \in OwnPages(p) : Mapped(p, v) \in Range(list)
        /\ \A u \in DOMAIN threads[p] :
             \A v \in StackOf(threads[p][u].m_stack) :
               Mapped(p, v) \in StackBlocks(p, u)
        /\ \A v, w \in pages : Mapped(p, v) = Mapped(p, w) =>
             v = w \/ Mapped(p, v) \in LowPages
        /\ \A v \in Image : Mapped(p, v) = Mapped(p, ImageBase) + (v - ImageBase)
    BY <1>2, <2>2 DEF ProcessPages, OwnPagesApart
  <2>5. \A v \in pages : /\ Mapped(p, v) \in held \cup LowPages
                         /\ v \in Page \ new
    BY <1>2, <1>6, <1>7, <2>3, <2>4, Listed
  <2>6. \A v \in OwnPages(p)' : Mapped(p, v)' \in Range(m_used_blocks'[p])
    BY <1>1, <1>4, <1>7, <2>4, <2>5
  <2>7. \A u \in DOMAIN threads'[p] : \A v \in StackOf(threads'[p][u].m_stack) :
          Mapped(p, v)' \in StackBlocks(p, u)'
    BY <1>1, <1>4, <1>8, <2>4, <2>5
  <2>8. (OwnPages(p) \cup UNION {StackOf(threads[p][u].m_stack) : u \in DOMAIN threads[p]})'
          = pages \cup new
    BY <1>1, <1>7
  <2> HIDE DEF pages
  <2>9. ASSUME NEW v \in pages \cup new, NEW w \in pages \cup new,
               Mapped(p, v)' = Mapped(p, w)'
        PROVE  v = w \/ Mapped(p, v)' \in LowPages
    <3>1. CASE v \in pages /\ w \in pages
      BY <1>4, <2>4, <2>5, <2>9, <3>1
    <3>2. CASE v \in new /\ w \in new
      BY <1>4, <2>9, <3>2
    <3>3. CASE v \in pages /\ w \in new
      BY <1>4, <2>5, <2>9, <3>3
    <3>4. CASE v \in new /\ w \in pages
      BY <1>4, <2>5, <2>9, <3>4
    <3> QED BY <3>1, <3>2, <3>3, <3>4
  <2>10. \A v \in Image : Mapped(p, v)' = Mapped(p, ImageBase)' + (v - ImageBase)
    <3>1. Image \subseteq pages
      BY <1>7 DEF pages
    <3>2. \A v \in Image : Mapped(p, v)' = Mapped(p, v)
      BY <1>4, <2>5, <3>1
    <3> QED BY <1>5, <2>4, <3>2
  <2> QED BY <2>6, <2>7, <2>8, <2>9, <2>10 DEF OwnPagesApart
<1> QED BY <1>9, <1>10 DEF ProcessPages

LEMMA SysAllocKeeps ==
  ASSUME IInv, NEW p \in Process, NEW count \in HeapRequests, sys_alloc(p, count)
  PROVE  IInv'
<1>1. PICK top, s : HeapGrown(p, top, s)
  BY GrowsHeap
<1>2. ProcessType(p)' /\ ProcessShape(p)' /\ Live(p)'
  BY <1>1, HeapGrownShape
<1>3. ListsApart(p)' /\ Books'
  BY <1>1, HeapGrownBooks
<1>4. ProcessTables(p)' /\ Built(p, s)
  BY <1>1, HeapGrownTables
<1>5. Intact' => ProcessPages(p)'
  BY <1>1, HeapGrownPages
<1>6. ProcessHolds(p)'
  BY <1>2, <1>3, <1>4, <1>5 DEF ProcessHolds
<1>7. \A q \in Process \ {p} : ProcessHolds(q)'
  BY <1>1, <1>4, Untouched DEF HeapGrown, Built
<1>8. /\ mode' = "run" /\ Domains'
      /\ orphans' = orphans /\ s \in Building /\ Builds(p, s) /\ cursor' = s.cursor
      /\ m_page_directory' = m_page_directory
      /\ m_heap_address' \in [Process -> HeapBase .. StackTop] /\ GlobalType
  BY <1>1, Parts DEF HeapGrown, IInv
<1>9. GlobalType'
  BY <1>8 DEF GlobalType, Builds, Building
<1>10. \A o \in orphans' : o.m_used_blocks \in Seq(Block \cup LowPages)
  BY <1>8 DEF IInv, Shape
<1>11. Intact' => TablesNamedOnce'
  BY <1>2, <1>4 DEF Built
<1>12. \A q \in Process : ProcessHolds(q)'
  BY <1>6, <1>7
<1>13. mode' = "boot" => Intact'
  BY <1>8
<1>14. Domains' /\ Books'
  BY <1>3, <1>8
<1> QED BY <1>9, <1>10, <1>11, <1>12, <1>13, <1>14, Whole

-----------------------------------------------------------------------------
(* create_process.  Once NULL was given, the record says so. *)

WasNull(s) ==
  /\ DOMAIN s = {"held", "cursor", "tables", "dir", "list", "block", "null"}
  /\ s.null = TRUE

LEMMA NullAllocate ==
  ASSUME NEW s, NEW count, WasNull(s)
  PROVE  WasNull(allocate_blocks(s, count))
<1> DEFINE a == [s EXCEPT !.cursor = EndBlock, !.block = NULL, !.null = TRUE]
           b(x, y) == [s EXCEPT !.cursor = x + count - 1, !.block = x,
                                !.held = @ \cup (x .. x + count - 1)]
<1>1. WasNull(a)
  BY DEF WasNull
<1>2. \A x : WasNull([s EXCEPT !.cursor = x + count - 1, !.block = x,
                                !.held = @ \cup (x .. x + count - 1)])
  BY DEF WasNull
<1> QED BY <1>1, <1>2 DEF allocate_blocks

LEMMA NullRecord ==
  ASSUME NEW s, NEW b, WasNull(s)
  PROVE  WasNull(Record(s, b))
BY DEF WasNull, Record

LEMMA NullMap ==
  ASSUME NEW s, NEW v, NEW b, WasNull(s)
  PROVE  WasNull(map_physical(s, v, b))
<1> DEFINE fresh == allocate_blocks(s, 1)
           clone == IF fresh.block = NULL THEN fresh ELSE Record(fresh, fresh.block)
           table == [clone EXCEPT !.dir[v \div PagesPerTable] = fresh.block,
                                  !.tables[fresh.block] = EmptyTable]
           own == IF s.dir[v \div PagesPerTable] = Template THEN table ELSE s
<1>1. WasNull(fresh)
  BY NullAllocate
<1>2. WasNull(clone)
  BY <1>1, NullRecord
<1> HIDE DEF fresh, clone
<1>3. WasNull(table)
  BY <1>2 DEF WasNull
<1> HIDE DEF table
<1>4. WasNull(own)
  BY <1>3
<1> HIDE DEF own
<1>5. map_physical(s, v, b) =
        [own EXCEPT !.tables[own.dir[v \div PagesPerTable]][v % PagesPerTable] = b]
  BY DEF map_physical, own, table, clone, fresh
<1> QED BY <1>4, <1>5 DEF WasNull

LEMMA NullMapRun ==
  ASSUME NEW s, NEW first, NEW count \in Nat, NEW pages, WasNull(s)
  PROVE  WasNull(MapRun(s, first, count, pages))
<1>0. PICK mapped : MapsInTurn(s, first, count, pages, mapped)
  BY MapRunEquation
<1>1. /\ MapRun(s, first, count, pages) = mapped[count]
      /\ mapped = [i \in 0 .. count |->
            IF i = 0 THEN s
            ELSE map_physical(Record(mapped[i - 1], first + i - 1),
                              pages[i - 1], first + i - 1)]
  BY <1>0 DEF MapsInTurn
<1> DEFINE bad == {i \in 0 .. count : ~ WasNull(mapped[i])}
<1>2. bad = {}
  <2> SUFFICES ASSUME bad # {} PROVE FALSE
    OBVIOUS
  <2>1. bad \subseteq Nat
    OBVIOUS
  <2>2. PICK i \in bad : \A y \in bad : i <= y
    BY <2>1, MinOfNat
  <2>3. i # 0
    BY <1>1, <2>2
  <2>4. i - 1 \in 0 .. count /\ ~ (i <= i - 1) /\ i \in 0 .. count
    BY <2>2, <2>3
  <2>5. WasNull(mapped[i - 1])
    BY <2>2, <2>4
  <2>6. mapped[i] = map_physical(Record(mapped[i - 1], first + i - 1), pages[i - 1],
                                 first + i - 1)
    BY <1>1, <2>3, <2>4
  <2>7. WasNull(mapped[i])
    BY <2>5, <2>6, NullMap, NullRecord
  <2> QED BY <2>2, <2>7
<1>3. WasNull(mapped[count])
  BY <1>2
<1> QED BY <1>1, <1>3

LEMMA NullThread ==
  ASSUME NEW s, NEW used, WasNull(s)
  PROVE  WasNull(NewThread(s, used))
<1> DEFINE e == [s EXCEPT !.list = << >>]
           g == allocate_blocks(e, StackPages)
           pages == [i \in 0 .. StackPages - 1 |-> FreeStack(used) - (i + 1)]
<1>1. WasNull(e)
  BY DEF WasNull
<1>2. WasNull(g)
  BY <1>1, NullAllocate
<1>3. NewThread(s, used) = MapRun(g, g.block, StackPages, pages)
  BY DEF NewThread
<1>4. StackPages \in Nat
  BY Layout DEF Sizes
<1> HIDE DEF e, g, pages
<1> QED BY <1>2, <1>3, <1>4, NullMapRun

LEMMA NullGiven ==
  ASSUME NEW s \in Building, NEW g, NEW count, Given(s, g, count),
         s.null = TRUE \/ g.block = NULL
  PROVE  WasNull(g)
<1>1. g \in Building /\ g.null = TRUE
  BY Kinds DEF Given, Building
<1> QED BY <1>1 DEF WasNull, Building

LEMMA FirstFreeStack ==
  FreeStack({}) = StackTop
<1>1. Cardinality({}) = 0
  BY FS_EmptySet
<1>2. {StackTop - i * StackPages : i \in 0 .. 0} = {StackTop}
  <2>1. StackTop - 0 * StackPages = StackTop
    BY Layout DEF Sizes
  <2>2. \A i : i \in 0 .. 0 <=> i = 0
    OBVIOUS
  <2> QED BY <2>1, <2>2
<1>3. {v \in {StackTop} : v \notin {}} = {StackTop}
  OBVIOUS
<1>4. FreeStack({}) = Max({StackTop})
  BY <1>1, <1>2, <1>3 DEF FreeStack
<1>5. \A v \in {StackTop} : StackTop >= v
  BY Layout DEF Sizes
<1>6. Max({StackTop}) \in {StackTop}
  BY <1>5 DEF Max
<1> QED BY <1>4, <1>6

(* The process without its thread: its directory is block d, the image is  *)
(* mapped.                                                                 *)
ImageMapped(p, d, proc) ==
  /\ d \in Block \ held
  /\ proc \in Building /\ NoTableAtNull(proc) /\ TablesApart(proc, Kept(p), tables)
  /\ proc.held = held \cup {d} \cup Range(proc.list)
  /\ Range(proc.list) \subseteq Block /\ Once(proc.list)
  /\ Range(proc.list) \cap (held \cup {d}) = {}
  /\ \A f \in Frame :
       proc.dir[f] = Template
         \/ proc.dir[f] \in Range(proc.list)
  /\ \A f \in Frames(Image) : proc.dir[f] # Template
  /\ \A v \in Image :
       /\ At(proc, v) \in Range(proc.list)
       /\ At(proc, v) = At(proc, ImageBase) + (v - ImageBase)
  /\ \A v \in Page \ Image : At(proc, v) = NotPresent
  /\ At(proc, ImageBase) \in Nat

ImageRun == [i \in 0 .. ImagePages - 1 |-> ImageBase + i]

LEMMA MapsImage ==
  ASSUME TypeOK, Shape, Tables, Intact, NEW p \in Process, ~ Live(p),
         NEW dir, dir = allocate_blocks(Start(p, << >>), 1),
         NEW image, image = allocate_blocks(dir, ImagePages),
         NEW proc, proc = MapRun(image, image.block, ImagePages, ImageRun)
  PROVE  WasNull(proc) \/ ImageMapped(p, dir.block, proc)
<1> DEFINE s0 == Start(p, << >>)
           d == dir.block
           first == image.block
           run == Run(first, ImagePages)
           kept == Kept(p)
<1>1. Started(p, << >>, s0)
  BY EmptySeq, StartGives
<1>2. /\ s0 \in Building /\ s0.held = held /\ s0.list = << >>
      /\ NoTableAtNull(s0) /\ TablesApart(s0, kept, tables)
      /\ \A v \in Page : At(s0, v) = NotPresent
      /\ \A f \in Frame : s0.dir[f] = Template
  <2>1. \A f \in Frame : entries[p][f] = Template
    BY DEF Shape, Absent
  <2>2. \A v \in Page : Mapped(p, v) = NotPresent
    BY <2>1, PageFacts DEF Mapped
  <2> QED BY <1>1, <2>1, <2>2 DEF Started
<1>3. ImagePages \in Nat /\ ImagePages > 0 /\ ImageBase \in Nat
  BY Layout DEF Sizes
<1> HIDE DEF s0, kept
<1>4. Given(s0, dir, 1)
  BY <1>2, AllocateGives DEF s0
<1>5. dir \in Building
  BY <1>4 DEF Given
<1>6. Given(dir, image, ImagePages)
  BY <1>3, <1>5, AllocateGives
<1>7. image \in Building
  BY <1>6 DEF Given
<1>8. CASE d = NULL
  <2>1. WasNull(dir)
    BY <1>2, <1>4, <1>8, NullGiven
  <2>2. WasNull(image)
    BY <2>1, NullAllocate
  <2> QED BY <1>3, <2>2, NullMapRun
<1>9. CASE first = NULL
  <2>1. WasNull(image)
    BY <1>5, <1>6, <1>9, NullGiven
  <2> QED BY <1>3, <2>1, NullMapRun
<1>10. CASE d # NULL /\ first # NULL
  <2>1. d \in Block \ held /\ dir.held = held \cup {d} /\ dir.list = << >>
    <3>1. d \in Block /\ d \in Nat
      BY <1>4, <1>10, Kinds DEF Given
    <3>2. Run(d, 1) = {d}
      BY <3>1 DEF Run
    <3> QED BY <1>2, <1>4, <1>10, <3>1, <3>2 DEF Given
  <2>2. first \in Block /\ first \in Nat /\ run \subseteq Block
    BY <1>6, <1>10, Kinds DEF Given
  <2>3. Accounts(image, dir.held, run) /\ image.list = << >>
    <3>1. Accounts(dir, dir.held, {}) /\ Range(dir.list) = {}
      BY <2>1, EmptyList DEF Accounts
    <3>2. dir.held \in SUBSET Block /\ Range(dir.list) \cap LowPages \subseteq {NULL}
      BY <1>5, <3>1 DEF Building
    <3>3. Accounts(image, dir.held, run)
      BY <1>3, <1>5, <1>6, <1>10, <3>1, <3>2, AccountsGiven
    <3> QED BY <1>6, <2>1, <3>3 DEF Given
  <2>4. /\ TablesApart(dir, kept, tables) /\ TablesApart(image, kept, tables)
        /\ NoTableAtNull(image)
        /\ image.dir = s0.dir /\ \A v : At(image, v) = At(s0, v)
    <3>1. TablesApart(dir, kept, tables)
      BY <1>2, <1>4, TablesGiven
    <3>2. TablesApart(image, kept, tables)
      BY <1>5, <1>6, <3>1, TablesGiven
    <3>3. image.dir = s0.dir /\ image.tables = s0.tables
      BY <1>4, <1>6 DEF Given
    <3> QED BY <1>2, <3>1, <3>2, <3>3 DEF NoTableAtNull, At
  <2>5. /\ ImageRun \in [0 .. ImagePages - 1 -> Page]
        /\ \A j, k \in 0 .. ImagePages - 1 : ImageRun[j] = ImageRun[k] => j = k
        /\ {ImageRun[j] : j \in 0 .. ImagePages - 1} = Image
        /\ \A v \in Image : /\ v - ImageBase \in 0 .. ImagePages - 1
                            /\ ImageRun[v - ImageBase] = v
    <3>1. \A j \in 0 .. ImagePages - 1 : ImageRun[j] = ImageBase + j /\ ImageRun[j] \in Image
      BY <1>3 DEF Image, ImageRun
    <3>2. \A v \in Image : /\ v - ImageBase \in 0 .. ImagePages - 1
                           /\ ImageBase + (v - ImageBase) = v
      BY <1>3 DEF Image
    <3>3. ImageRun = [j \in 0 .. ImagePages - 1 |-> ImageRun[j]]
      BY DEF ImageRun
    <3> HIDE DEF d
    <3>4. ImageRun \in [0 .. ImagePages - 1 -> Page]
      BY <3>1, <3>3, FirstPages
    <3>5. {ImageRun[j] : j \in 0 .. ImagePages - 1} = Image
      BY <3>1, <3>2
    <3>6. \A j, k \in 0 .. ImagePages - 1 : ImageRun[j] = ImageRun[k] => j = k
      BY <1>3, <3>1
    <3> QED BY <3>1, <3>2, <3>4, <3>5, <3>6
  <2>6. Mapping(image, dir.held, kept, tables, first, ImagePages, ImageRun, ImagePages, proc)
    <3>1. dir.held \in SUBSET Block /\ run \subseteq Block \cup LowPages
      BY <1>5, <2>2 DEF Building
    <3>2. proc = MapRun(image, first, ImagePages, ImageRun)
      OBVIOUS
    <3>3. /\ Accounts(image, dir.held, run) /\ TablesApart(image, kept, tables)
          /\ ImageRun \in [0 .. ImagePages - 1 -> Page]
          /\ \A j, k \in 0 .. ImagePages - 1 : ImageRun[j] = ImageRun[k] => j = k
      BY <2>3, <2>4, <2>5
    <3> HIDE DEF first
    <3> QED BY <1>3, <1>7, <2>2, <3>1, <3>2, <3>3, MapRunGives
  <2>7. /\ proc \in Building /\ TablesApart(proc, kept, tables)
        /\ Accounts(proc, dir.held, Run(first + ImagePages, ImagePages - ImagePages))
        /\ Onward(image, proc, Image)
        /\ Range(proc.list) \subseteq Range(image.list) \cup run \cup Block
        /\ \A j \in 0 .. ImagePages - 1 : first + j \in Range(proc.list)
        /\ NoTableAtNull(proc) =>
             \A j \in 0 .. ImagePages - 1 : At(proc, ImageRun[j]) = first + j
    BY <2>5, <2>6 DEF Mapping
  <2>8. Run(first + ImagePages, ImagePages - ImagePages) = {}
    BY <1>3, <2>2 DEF Run
  <2>9. /\ Range(proc.list) \subseteq Block
        /\ proc.held = held \cup {d} \cup Range(proc.list) /\ Once(proc.list)
        /\ Range(proc.list) \cap (held \cup {d}) = {}
    <3>1. Range(proc.list) \subseteq Block
      BY <2>2, <2>3, <2>7, EmptyList
    <3> QED BY <2>1, <2>7, <2>8, <3>1, Kinds DEF Accounts
  <2>10. CASE ~ NoTableAtNull(proc)
    <3>1. proc.null = TRUE
      BY <2>4, <2>7, <2>10 DEF Onward, Building
    <3> QED BY <2>7, <3>1 DEF WasNull, Building
  <2>11. CASE NoTableAtNull(proc)
    <3>1. /\ \A f \in Frame : proc.dir[f] = Template \/ proc.dir[f] \in Range(proc.list)
          /\ \A f \in Frames(Image) : proc.dir[f] # Template
      BY <1>2, <2>4, <2>7, <2>11 DEF Onward, NoTableAtNull
    <3>2. \A v \in Page \ Image : At(proc, v) = NotPresent
      BY <1>2, <2>4, <2>7, <2>11 DEF Onward
    <3>3. \A v \in Image : At(proc, v) = first + (v - ImageBase)
                           /\ At(proc, v) \in Range(proc.list)
      <4> SUFFICES ASSUME NEW v \in Image
                   PROVE  /\ At(proc, v) = first + (v - ImageBase)
                          /\ At(proc, v) \in Range(proc.list)
        OBVIOUS
      <4>1. v - ImageBase \in 0 .. ImagePages - 1 /\ ImageRun[v - ImageBase] = v
        BY <2>5
      <4>2. /\ At(proc, ImageRun[v - ImageBase]) = first + (v - ImageBase)
            /\ first + (v - ImageBase) \in Range(proc.list)
        BY <2>7, <2>11, <4>1
      <4> QED BY <4>1, <4>2
    <3>4. ImageBase \in Image /\ ImageBase - ImageBase = 0 /\ first + 0 = first
      BY <1>3, <2>2 DEF Image
    <3>5. At(proc, ImageBase) = first
      BY <3>3, <3>4
    <3>6. \A v \in Image : At(proc, v) = At(proc, ImageBase) + (v - ImageBase)
      BY <3>3, <3>5
    <3>7. At(proc, ImageBase) \in Nat
      BY <2>2, <3>5
    <3>8. \A v \in Image : At(proc, v) \in Range(proc.list)
      BY <3>3
    <3>9. TablesApart(proc, Kept(p), tables)
      BY <2>7 DEF kept
    <3> HIDE DEF first, d
    <3>10. d \in Block \ held /\ proc \in Building
      BY <2>1, <2>7
    <3>11. ImageMapped(p, d, proc)
      BY <2>9, <2>11, <3>1, <3>2, <3>6, <3>7, <3>8, <3>9, <3>10 DEF ImageMapped
    <3> QED BY <3>11 DEF d
  <2> QED BY <2>10, <2>11
<1> QED BY <1>8, <1>9, <1>10

ProcessMade(p, d, proc, main) ==
  /\ ~ Live(p) /\ Intact /\ mode = "boot" /\ mode' \in {"boot", "run"}
  /\ ImageMapped(p, d, proc)
  /\ NewStack(proc, Kept(p), tables, StackTop, main)
  /\ main \in Building /\ NoTableAtNull(main)
  /\ Builds(p, main) /\ cursor' = main.cursor
  /\ m_page_directory' \in [Process -> Block \cup {NULL}]
  /\ m_page_directory'[p] = d /\ m_used_blocks'[p] = proc.list
  /\ m_stack_blocks'[p] = {StackTop}
  /\ DOMAIN threads'[p] = {Main} /\ threads'[p][Main].m_stack = StackTop
  /\ threads'[p][Main].m_used_blocks = main.list
  /\ m_heap_address' = m_heap_address /\ orphans' = orphans
  /\ \A q \in Process \ {p} : Same(q)
  /\ Domains'

LEMMA MakesProcess ==
  ASSUME IInv, NEW p \in Process, create_process(p)
  PROVE  \/ mode' = "lost" /\ UNCHANGED <<memory, m_page_directory, entries,
              m_used_blocks, m_stack_blocks, m_heap_address, threads, orphans>>
         \/ \E d, proc, main : ProcessMade(p, d, proc, main)
<1> DEFINE dir == allocate_blocks(Start(p, << >>), 1)
           image == allocate_blocks(dir, ImagePages)
           proc == MapRun(image, image.block, ImagePages, ImageRun)
           main == NewThread(proc, {})
           new == [t \in {Main} |-> [m_stack |-> StackTop, m_used_blocks |-> main.list]]
<1>1. /\ TypeOK /\ Shape /\ Tables /\ mode = "boot" /\ ~ Live(p) /\ Intact
  BY DEF IInv, create_process, Tables
<1>2. IF main.null THEN NoMemory
      ELSE /\ Commit(main)
           /\ mode' = IF p = Idle THEN "run" ELSE "boot"
           /\ m_page_directory' = [m_page_directory EXCEPT ![p] = dir.block]
           /\ entries' = [entries EXCEPT ![p] = main.dir]
           /\ m_used_blocks' = [m_used_blocks EXCEPT ![p] = proc.list]
           /\ m_stack_blocks' = [m_stack_blocks EXCEPT ![p] = {StackTop}]
           /\ threads' = [threads EXCEPT ![p] = new]
           /\ UNCHANGED <<m_heap_address, orphans>>
  BY DEF create_process, ImageRun
<1>3. WasNull(proc) \/ ImageMapped(p, dir.block, proc)
  BY <1>1, MapsImage
<1> HIDE DEF main, proc
<1>4. CASE main.null
  BY <1>2, <1>4 DEF NoMemory
<1>5. CASE ~ main.null
  <2> DEFINE d == dir.block
  <2>1. ImageMapped(p, d, proc)
    <3>1. CASE WasNull(proc)
      BY <1>5, <3>1, NullThread DEF main, WasNull
    <3> QED BY <1>3, <3>1
  <2> HIDE DEF d
  <2>2. NewStack(proc, Kept(p), tables, StackTop, main)
    BY <2>1, FirstFreeStack, TopIsPosition, NewThreadGives DEF main, ImageMapped
  <2>3. main \in Building /\ NoTableAtNull(main)
    BY <1>5, <2>1, <2>2 DEF NewStack, ImageMapped
  <2>4. /\ Commit(main) /\ mode' \in {"boot", "run"}
        /\ m_page_directory' = [m_page_directory EXCEPT ![p] = d]
        /\ entries' = [entries EXCEPT ![p] = main.dir]
        /\ m_used_blocks' = [m_used_blocks EXCEPT ![p] = proc.list]
        /\ m_stack_blocks' = [m_stack_blocks EXCEPT ![p] = {StackTop}]
        /\ threads' = [threads EXCEPT ![p] = new]
        /\ UNCHANGED <<m_heap_address, orphans>>
    BY <1>2, <1>5 DEF d
  <2>5. /\ DOMAIN m_used_blocks = Process /\ DOMAIN m_stack_blocks = Process
        /\ DOMAIN threads = Process /\ DOMAIN entries = Process
        /\ m_page_directory \in [Process -> Block \cup {NULL}]
    BY <1>1 DEF Shape, TypeOK
  <2> HIDE DEF dir, image
  <2>6. /\ m_page_directory' \in [Process -> Block \cup {NULL}]
        /\ m_page_directory'[p] = d /\ m_used_blocks'[p] = proc.list
        /\ m_stack_blocks'[p] = {StackTop} /\ threads'[p] = new
    BY <2>1, <2>4, <2>5 DEF ImageMapped
  <2>7. /\ DOMAIN new = {Main} /\ new[Main].m_stack = StackTop
        /\ new[Main].m_used_blocks = main.list
    OBVIOUS
  <2>8. \A q \in Process \ {p} : Same(q)
    BY <2>4, <2>5 DEF Same
  <2>9. Domains'
    BY <2>4, <2>5 DEF Domains
  <2>10. Builds(p, main) /\ cursor' = main.cursor
    BY <2>4 DEF Builds, Commit
  <2>11. ProcessMade(p, d, proc, main)
    BY <1>1, <2>1, <2>2, <2>3, <2>4, <2>6, <2>7, <2>8, <2>9, <2>10 DEF ProcessMade
  <2> QED BY <2>11
<1> QED BY <1>4, <1>5

LEMMA ProcessMadeShape ==
  ASSUME IInv, NEW p \in Process, NEW d, NEW proc, NEW main,
         ProcessMade(p, d, proc, main)
  PROVE  ProcessType(p)' /\ ProcessShape(p)' /\ Live(p)'
<1>1. /\ m_page_directory'[p] = d /\ d \in Block /\ m_used_blocks'[p] = proc.list
      /\ m_stack_blocks'[p] = {StackTop}
      /\ DOMAIN threads'[p] = {Main} /\ threads'[p][Main].m_stack = StackTop
      /\ threads'[p][Main].m_used_blocks = main.list
      /\ Range(proc.list) \subseteq Block
      /\ proc.list \in Seq(Block \cup LowPages) /\ main.list \in Seq(Block \cup LowPages)
  BY DEF ProcessMade, ImageMapped, Building
<1>2. Live(p)'
  BY <1>1, Kinds DEF Live
<1>3. StackTop \in StackPages .. StackTop
  <2>1. StackFits(StackTop)
    BY TopIsPosition, StacksFit
  <2> QED BY <2>1, Layout DEF StackFits, Sizes
<1>4. ProcessType(p)'
  <2>1. proc.list \in Seq(Block \cup {NULL})
    BY <1>1, SeqRange
  <2> QED BY <1>1, <1>3, <2>1 DEF ProcessType, Thread
<1>5. StacksApart(p)'
  BY <1>1, TopIsPosition DEF StacksApart
<1> QED BY <1>2, <1>4, <1>5 DEF ProcessShape

LEMMA AbsentOwnsNothing ==
  ASSUME Shape, NEW p \in Process, ~ Live(p)
  PROVE  Own(p) = {}
<1>1. /\ m_page_directory[p] = NULL /\ m_used_blocks[p] = << >> /\ threads[p] = << >>
  BY DEF Shape, Absent, Live
<1>2. DOMAIN << >> = {} /\ Range(<< >>) = {}
  BY EmptyList
<1> QED BY <1>1, <1>2, Kinds DEF Own, OwnBlocks

LEMMA ProcessMadeBooks ==
  ASSUME IInv, NEW p \in Process, NEW d, NEW proc, NEW main,
         ProcessMade(p, d, proc, main)
  PROVE  ListsApart(p)' /\ Books'
<1> DEFINE N == {d} \cup Range(proc.list) \cup (Range(main.list) \ LowPages)
<1>1. /\ m_page_directory'[p] = d /\ m_used_blocks'[p] = proc.list
      /\ DOMAIN threads'[p] = {Main} /\ threads'[p][Main].m_used_blocks = main.list
      /\ orphans' = orphans /\ ~ Live(p) /\ held' = main.held
  BY DEF ProcessMade, Builds
<1>2. Books /\ Shape
  BY DEF IInv
<1>3. /\ d \in Block \ held /\ Range(proc.list) \subseteq Block /\ Once(proc.list)
      /\ Range(proc.list) \cap (held \cup {d}) = {}
      /\ proc.held = held \cup {d} \cup Range(proc.list)
  BY DEF ProcessMade, ImageMapped
<1>4. /\ main.held = proc.held \cup (Range(main.list) \ LowPages)
      /\ Range(main.list) \cap proc.held = {} /\ Once(main.list)
  BY DEF ProcessMade, NewStack, Accounts
<1>5. StackBlocks(p, Main)' = Range(main.list)
  BY <1>1 DEF StackBlocks
<1>6. Own(p) = {}
  BY <1>1, <1>2, AbsentOwnsNothing
<1>7. Own(p)' = N
  <2>1. {d} \cap LowPages = {} /\ Range(proc.list) \cap LowPages = {}
    BY <1>3, Kinds
  <2>2. Own(p)' = ({d} \cup Range(proc.list) \cup Range(main.list)) \ LowPages
    BY <1>1, <1>5 DEF Own, OwnBlocks
  <2> QED BY <2>1, <2>2
<1>8. ListsApart(p)'
  BY <1>1, <1>3, <1>4, <1>5 DEF ListsApart
<1>9. \A q \in Process \ {p} : Own(q)' = Own(q) /\ ListsApart(q)'
  <2>1. \A q \in Process \ {p} : SameAs(q) /\ ListsApart(q)
    BY <1>2, SameProcess DEF ProcessMade, Books
  <2> QED BY <2>1 DEF SameAs
<1>10. N \cap held = {} /\ held' = held \cup N
  BY <1>1, <1>3, <1>4
<1>11. Own(p)' = Own(p) \cup N
  BY <1>6, <1>7
<1> HIDE DEF N
<1>12. Books'
  BY <1>1, <1>2, <1>8, <1>9, <1>10, <1>11, BooksGrow
<1> QED BY <1>8, <1>12

LEMMA ProcessMadeTables ==
  ASSUME IInv, NEW p \in Process, NEW d, NEW proc, NEW main,
         ProcessMade(p, d, proc, main)
  PROVE  ProcessTables(p)' /\ Built(p, main)
<1>1. /\ TypeOK /\ Shape /\ Tables
  BY DEF IInv
<1>2. /\ m_used_blocks'[p] = proc.list /\ threads'[p][Main].m_used_blocks = main.list
      /\ Builds(p, main) /\ main \in Building /\ Intact
      /\ NewStack(proc, Kept(p), tables, StackTop, main)
      /\ ImageMapped(p, d, proc)
  BY DEF ProcessMade
<1>3. held \subseteq main.held /\ TablesApart(main, Kept(p), tables)
  BY <1>2 DEF NewStack, ImageMapped
<1>4. Built(p, main)
  BY <1>1, <1>2, <1>3, BuildsGives
<1>5. entries'[p] = main.dir
  BY <1>1, <1>2 DEF Builds, TypeOK
<1>6. StackBlocks(p, Main)' = Range(main.list)
  BY <1>2 DEF StackBlocks
<1>7. /\ \A f \in Frame :
           \/ main.dir[f] = proc.dir[f]
           \/ /\ proc.dir[f] = Template
              /\ main.dir[f] \in Range(main.list) \cup {NULL}
      /\ \A f \in Frames(StackOf(StackTop)) : main.dir[f] # Template
      /\ \A f \in Frame : proc.dir[f] = Template \/ proc.dir[f] \in Range(proc.list)
      /\ \A f \in Frames(Image) : proc.dir[f] # Template
  BY <1>2 DEF NewStack, ImageMapped
<1>8. TableLists(p)'
  BY <1>2, <1>5, <1>6, <1>7 DEF TableLists
<1>9. ASSUME NEW f \in FirstFrames PROVE main.dir[f] # Template
  <2>1. f \in Frame
    BY FirstPages
  <2>2. f \in Frames(StackOf(StackTop)) \/ f \in Frames(Image)
    BY DEF FirstFrames, Frames, FirstStack
  <2> QED BY <1>7, <2>1, <2>2
<1> QED BY <1>4, <1>5, <1>8, <1>9 DEF ProcessTables

LEMMA ProcessMadePages ==
  ASSUME IInv, NEW p \in Process, NEW d, NEW proc, NEW main,
         ProcessMade(p, d, proc, main)
  PROVE  ProcessPages(p)'
<1> DEFINE stack == StackOf(StackTop)
<1>1. /\ m_used_blocks'[p] = proc.list
      /\ DOMAIN threads'[p] = {Main} /\ threads'[p][Main].m_stack = StackTop
      /\ threads'[p][Main].m_used_blocks = main.list
      /\ m_heap_address'[p] = HeapBase /\ NoTableAtNull(main)
      /\ NewStack(proc, Kept(p), tables, StackTop, main) /\ ImageMapped(p, d, proc)
  <2>1. m_heap_address[p] = HeapBase
    BY DEF ProcessMade, IInv, Shape, Absent
  <2> QED BY <2>1 DEF ProcessMade
<1>2. \A v : Mapped(p, v)' = At(main, v)
  BY ProcessMadeTables DEF Built
<1>3. /\ \A v \in Page \ stack : Mapped(p, v)' = At(proc, v)
      /\ \A v \in stack : Mapped(p, v)' \in Range(main.list)
      /\ \A v, w \in stack : Mapped(p, v)' = Mapped(p, w)' => v = w
      /\ Range(main.list) \cap proc.held = {}
  BY <1>1, <1>2 DEF NewStack, Accounts
<1>4. /\ \A v \in Image :
           /\ At(proc, v) \in Range(proc.list)
           /\ At(proc, v) = At(proc, ImageBase) + (v - ImageBase)
      /\ \A v \in Page \ Image : At(proc, v) = NotPresent
      /\ Range(proc.list) \subseteq proc.held
      /\ At(proc, ImageBase) \in Nat
  BY <1>1 DEF ImageMapped
<1>5. /\ stack \subseteq Page /\ Image \subseteq Page /\ Image \cap stack = {}
      /\ ImageBase \in Image /\ \A v \in Image : v \in Nat /\ ImageBase \in Nat
  <2>1. StackFits(StackTop)
    BY TopIsPosition, StacksFit
  <2>2. Image \subseteq ImageBase .. HeapBase - 1
    BY Layout DEF Sizes, Image
  <2>3. ImageBase \in Image /\ \A v \in Image : v \in Nat /\ ImageBase \in Nat
    BY Layout DEF Sizes, Image
  <2> QED BY <2>1, <2>2, <2>3, FirstPages DEF StackFits
<1>6. OwnPages(p)' = Image
  <2>1. HeapPages(p)' = {}
    BY <1>1, Layout DEF HeapPages, Sizes
  <2> QED BY <2>1 DEF OwnPages, Image
<1>7. StackBlocks(p, Main)' = Range(main.list)
  BY <1>1 DEF StackBlocks
<1>8. ASSUME NEW v \in Page PROVE PageLeads(p, v)'
  <2>1. CASE v \in stack
    BY <1>1, <1>3, <1>7, <2>1 DEF PageLeads
  <2>2. CASE v \in Image
    BY <1>1, <1>3, <1>4, <1>5, <2>2 DEF PageLeads
  <2>3. CASE v \notin stack /\ v \notin Image
    BY <1>1, <1>3, <1>4, <2>3 DEF PageLeads
  <2> QED BY <2>1, <2>2, <2>3
<1>9. OwnPagesApart(p)'
  <2>1. (OwnPages(p) \cup UNION {StackOf(threads[p][u].m_stack) : u \in DOMAIN threads[p]})'
          = Image \cup stack
    BY <1>1, <1>6
  <2>2. \A v \in Image : /\ Mapped(p, v)' = At(proc, v)
                         /\ Mapped(p, v)' = Mapped(p, ImageBase)' + (v - ImageBase)
    BY <1>3, <1>4, <1>5
  <2>3. Mapped(p, ImageBase)' \in Nat
    BY <1>4, <1>5, <2>2
  <2> HIDE DEF stack
  <2>4. ASSUME NEW v \in Image \cup stack, NEW w \in Image \cup stack,
               Mapped(p, v)' = Mapped(p, w)'
        PROVE  v = w
    <3>1. CASE v \in Image /\ w \in Image
      <4> DEFINE b == Mapped(p, ImageBase)'
      <4>1. b + (v - ImageBase) = b + (w - ImageBase) /\ b \in Nat
        BY <2>2, <2>3, <2>4, <3>1
      <4>2. v \in Nat /\ w \in Nat /\ ImageBase \in Nat
        BY <1>5, <3>1
      <4> HIDE DEF b
      <4> QED BY <4>1, <4>2
    <3>2. CASE v \in stack /\ w \in stack
      BY <1>3, <2>4, <3>2
    <3>3. CASE v \in Image /\ w \in stack
      BY <1>3, <1>4, <2>2, <2>4, <3>3
    <3>4. CASE v \in stack /\ w \in Image
      BY <1>3, <1>4, <2>2, <2>4, <3>4
    <3> QED BY <3>1, <3>2, <3>3, <3>4
  <2>5. \A v \in OwnPages(p)' : Mapped(p, v)' \in Range(m_used_blocks'[p])
    BY <1>1, <1>4, <1>6, <2>2
  <2>6. \A u \in DOMAIN threads'[p] : \A v \in StackOf(threads'[p][u].m_stack) :
          Mapped(p, v)' \in StackBlocks(p, u)'
    BY <1>1, <1>3, <1>7 DEF stack
  <2> QED BY <2>1, <2>2, <2>4, <2>5, <2>6 DEF OwnPagesApart
<1> QED BY <1>8, <1>9 DEF ProcessPages

LEMMA CreateProcessKeeps ==
  ASSUME IInv, NEW p \in Process, create_process(p)
  PROVE  IInv'
<1>1. CASE mode' = "lost" /\ UNCHANGED <<memory, m_page_directory, entries,
              m_used_blocks, m_stack_blocks, m_heap_address, threads, orphans>>
  <2>1. /\ GlobalType /\ Domains /\ Books /\ Tables /\ Shape /\ Intact
        /\ \A q \in Process : ProcessHolds(q)
    <3>1. Intact
      BY DEF IInv, Tables, create_process
    <3> QED BY <3>1, Parts DEF IInv, ProcessHolds, Books
  <2>2. \A q \in Process : Same(q)
    BY <1>1 DEF Same
  <2>3. \A q \in Process : \A v : Mapped(q, v)' = Mapped(q, v)
    BY <1>1 DEF Mapped, memory
  <2>4. \A q \in Process : ProcessHolds(q)'
    BY <2>1, <2>2, <2>3, Untouched
  <2>5. GlobalType' /\ Domains'
    BY <1>1, <2>1 DEF GlobalType, Domains, memory
  <2>6. Books'
    <3>1. \A q \in Process : Own(q)' = Own(q) /\ ListsApart(q)' /\ ListsApart(q)
      BY <2>1, <2>2, SameProcess DEF SameAs, Books
    <3>2. Lost' = Lost /\ orphans' = orphans /\ held' = held
      BY <1>1 DEF Lost, memory
    <3> QED BY <2>1, <3>1, <3>2 DEF Books
  <2>7. TablesNamedOnce'
    BY <1>1, <2>1 DEF Tables, TablesNamedOnce
  <2>8. \A o \in orphans' : o.m_used_blocks \in Seq(Block \cup LowPages)
    BY <1>1, <2>1 DEF Shape
  <2>9. mode' = "boot" => Intact'
    BY <1>1
  <2> QED BY <2>4, <2>5, <2>6, <2>7, <2>8, <2>9, Whole
<1>2. ASSUME NEW d, NEW proc, NEW main, ProcessMade(p, d, proc, main)
      PROVE  IInv'
  <2>1. ProcessType(p)' /\ ProcessShape(p)' /\ Live(p)'
    BY <1>2, ProcessMadeShape
  <2>2. ListsApart(p)' /\ Books'
    BY <1>2, ProcessMadeBooks
  <2>3. ProcessTables(p)' /\ Built(p, main)
    BY <1>2, ProcessMadeTables
  <2>4. ProcessPages(p)'
    BY <1>2, ProcessMadePages
  <2>5. ProcessHolds(p)'
    BY <2>1, <2>2, <2>3, <2>4 DEF ProcessHolds
  <2>6. \A q \in Process \ {p} : ProcessHolds(q)'
    BY <1>2, <2>3, Untouched DEF ProcessMade, Built
  <2>7. /\ mode' \in {"boot", "run"} /\ Domains' /\ NoTableAtNull(main)
        /\ orphans' = orphans /\ main \in Building /\ Builds(p, main)
        /\ cursor' = main.cursor /\ m_heap_address' = m_heap_address
        /\ m_page_directory' \in [Process -> Block \cup {NULL}] /\ GlobalType
    BY <1>2, Parts DEF ProcessMade, IInv
  <2>8. GlobalType'
    BY <2>7 DEF GlobalType, Builds, Building
  <2>9. \A o \in orphans' : o.m_used_blocks \in Seq(Block \cup LowPages)
    BY <2>7 DEF IInv, Shape
  <2>10. Intact' /\ TablesNamedOnce'
    BY <2>3, <2>7 DEF Built
  <2>11. \A q \in Process : ProcessHolds(q)'
    BY <2>5, <2>6
  <2>12. Domains' /\ Books'
    BY <2>2, <2>7
  <2> QED BY <2>8, <2>9, <2>10, <2>11, <2>12, Whole
<1> QED BY <1>1, <1>2, MakesProcess

-----------------------------------------------------------------------------
(* terminate_thread and terminate_process. *)

(* A directory that is intact after blocks are freed leads where it did.   *)
LEMMA FreedTables ==
  ASSUME IInv, NEW list, free_blocks(list), NEW q \in Process, Same(q), Intact',
         NEW v \in Page
  PROVE  Mapped(q, v)' = Mapped(q, v)
<1> DEFINE f == v \div PagesPerTable
           b == entries[q][f]
<1>1. /\ f \in Frame /\ entries'[q] = entries[q] /\ m_page_directory'[q] = m_page_directory[q]
      /\ DOMAIN entries[q] = Frame /\ DOMAIN tables = Block \cup {NULL}
      /\ b \in Block \cup {NULL, Template}
  BY PageFacts DEF Same, IInv, TypeOK
<1>2. /\ held' = held \ Range(list)
      /\ tables' = [x \in DOMAIN tables |->
                      IF x \in Range(list) THEN EmptyTable ELSE tables[x]]
  BY DEF free_blocks
<1>3. /\ Mapped(q, v)' = IF b = Template THEN NotPresent ELSE tables'[b][v % PagesPerTable]
      /\ Mapped(q, v) = IF b = Template THEN NotPresent ELSE tables[b][v % PagesPerTable]
  BY <1>1 DEF Mapped
<1>4. CASE Live(q)
  <2>1. Range(entries'[q]) \ {Template} \subseteq held'
    BY <1>1, <1>4 DEF Intact, Live
  <2>2. b \in Range(entries'[q])
    BY <1>1 DEF Range
  <2> HIDE DEF b
  <2>3. CASE b # Template
    <3>1. b \notin Range(list) /\ b \in DOMAIN tables
      BY <1>1, <1>2, <2>1, <2>2, <2>3
    <3>2. tables'[b] = tables[b]
      BY <1>2, <3>1
    <3> QED BY <1>3, <3>2
  <2> QED BY <1>3, <2>3
<1>5. CASE ~ Live(q)
  <2>1. b = Template
    BY <1>1, <1>5 DEF IInv, Shape, Absent
  <2> QED BY <1>3, <2>1
<1> QED BY <1>4, <1>5

LEMMA FreedTypes ==
  ASSUME TypeOK, NEW list, free_blocks(list)
  PROVE  /\ mode' \in {"boot", "run", "lost"} /\ (mode = "run" => mode' # "boot")
         /\ held' \subseteq Block /\ cursor' = cursor
         /\ tables' \in [Block \cup {NULL} -> TableType]
         /\ held' = held \ (Range(list) \ LowPages)
<1>1. /\ held' = held \ Range(list)
      /\ tables' = [x \in DOMAIN tables |->
                      IF x \in Range(list) THEN EmptyTable ELSE tables[x]]
      /\ mode' = IF NULL \in Range(list) THEN "lost" ELSE mode
      /\ cursor' = cursor
  BY DEF free_blocks
<1>2. /\ held \subseteq Block /\ held \cap LowPages = {}
      /\ tables \in [Block \cup {NULL} -> TableType]
      /\ mode \in {"boot", "run", "lost"}
  BY Kinds DEF TypeOK, TableType
<1>3. EmptyTable \in TableType
  BY DEF EmptyTable, TableType
<1>4. tables' \in [Block \cup {NULL} -> TableType]
  BY <1>1, <1>2, <1>3
<1> QED BY <1>1, <1>2, <1>4

ThreadGone(p, t) ==
  /\ Live(p) /\ Intact /\ mode = "run"
  /\ t \in DOMAIN threads[p] /\ t # Main
  /\ free_blocks(threads[p][t].m_used_blocks)
  /\ DOMAIN threads'[p] = DOMAIN threads[p] \ {t}
  /\ \A u \in DOMAIN threads[p] \ {t} : threads'[p][u] = threads[p][u]
  /\ m_stack_blocks'[p] = m_stack_blocks[p] \ {threads[p][t].m_stack}
  /\ m_page_directory' = m_page_directory /\ entries' = entries
  /\ m_used_blocks'[p] = m_used_blocks[p] /\ m_heap_address' = m_heap_address
  /\ orphans' = orphans
  /\ \A q \in Process \ {p} : Same(q)
  /\ Domains'

LEMMA LosesThread ==
  ASSUME IInv, NEW p \in Process, NEW t \in Workers, terminate_thread(p, t)
  PROVE  ThreadGone(p, t)
<1>1. /\ DOMAIN m_used_blocks = Process /\ DOMAIN m_stack_blocks = Process
      /\ DOMAIN threads = Process
  BY DEF IInv, Shape
<1>2. /\ Live(p) /\ Intact /\ mode = "run"
      /\ t \in DOMAIN threads[p] /\ t # Main
      /\ free_blocks(threads[p][t].m_used_blocks)
      /\ m_stack_blocks' = [m_stack_blocks EXCEPT ![p] = @ \ {threads[p][t].m_stack}]
      /\ threads' = [threads EXCEPT ![p] = [u \in DOMAIN @ \ {t} |-> @[u]]]
      /\ UNCHANGED <<m_page_directory, entries, m_used_blocks, m_heap_address, orphans>>
  BY DEF terminate_thread, Running
<1>3. threads'[p] = [u \in DOMAIN threads[p] \ {t} |-> threads[p][u]]
  BY <1>1, <1>2
<1>4. \A q \in Process \ {p} : Same(q)
  BY <1>1, <1>2 DEF Same
<1>5. Domains'
  BY <1>1, <1>2 DEF Domains
<1> QED BY <1>1, <1>2, <1>3, <1>4, <1>5 DEF ThreadGone

LEMMA ThreadGoneShape ==
  ASSUME IInv, NEW p \in Process, NEW t, ThreadGone(p, t)
  PROVE  ProcessType(p)' /\ ProcessShape(p)' /\ ProcessTables(p)'
<1>1. /\ ProcessType(p) /\ StacksApart(p) /\ ProcessTables(p) /\ Live(p)
  BY Parts DEF IInv, ProcessShape, ThreadGone
<1>2. /\ DOMAIN threads'[p] = DOMAIN threads[p] \ {t}
      /\ t \in DOMAIN threads[p] /\ t # Main
      /\ \A u \in DOMAIN threads[p] \ {t} : threads'[p][u] = threads[p][u]
      /\ m_stack_blocks'[p] = m_stack_blocks[p] \ {threads[p][t].m_stack}
      /\ m_page_directory' = m_page_directory /\ entries' = entries
      /\ m_used_blocks'[p] = m_used_blocks[p]
  BY DEF ThreadGone
<1>3. \A u \in DOMAIN threads[p] \ {t} :
        threads[p][u].m_stack \in m_stack_blocks[p] \ {threads[p][t].m_stack}
  BY <1>1, <1>2 DEF StacksApart
<1>4. ProcessType(p)'
  <2>1. m_used_blocks'[p] \in Seq(Block \cup {NULL})
    BY <1>1, <1>2 DEF ProcessType
  <2>2. m_stack_blocks'[p] \subseteq StackPages .. StackTop /\ DOMAIN threads'[p] \subseteq Thread
    BY <1>1, <1>2 DEF ProcessType
  <2>3. \A u \in DOMAIN threads'[p] :
          /\ threads'[p][u].m_stack \in m_stack_blocks'[p]
          /\ threads'[p][u].m_used_blocks \in Seq(Block \cup LowPages)
    BY <1>1, <1>2, <1>3 DEF ProcessType
  <2> QED BY <2>1, <2>2, <2>3 DEF ProcessType
<1>5. StacksApart(p)'
  <2>1. Main \in DOMAIN threads'[p] /\ threads'[p][Main].m_stack = StackTop
    BY <1>1, <1>2 DEF StacksApart
  <2>2. m_stack_blocks'[p] = {threads'[p][u].m_stack : u \in DOMAIN threads'[p]}
    BY <1>1, <1>2, <1>3 DEF StacksApart
  <2>3. m_stack_blocks'[p] \subseteq Positions
    BY <1>1, <1>2 DEF StacksApart
  <2>4. \A u, w \in DOMAIN threads'[p] :
          threads'[p][u].m_stack = threads'[p][w].m_stack => u = w
    BY <1>1, <1>2 DEF StacksApart
  <2> QED BY <2>1, <2>2, <2>3, <2>4 DEF StacksApart
<1>6. Live(p)'
  BY <1>1, <1>2 DEF Live
<1>7. TableLists(p)' /\ \A f \in FirstFrames : entries'[p][f] # Template
  <2>1. StackBlocks(p, Main)' = StackBlocks(p, Main)
    BY <1>1, <1>2 DEF StackBlocks, StacksApart
  <2> QED BY <1>1, <1>2, <2>1 DEF ProcessTables, TableLists
<1> QED BY <1>4, <1>5, <1>6, <1>7 DEF ProcessShape, ProcessTables

LEMMA ThreadGoneBooks ==
  ASSUME IInv, NEW p \in Process, NEW t, ThreadGone(p, t)
  PROVE  ListsApart(p)' /\ Books'
<1> DEFINE N == StackBlocks(p, t) \ LowPages
<1>1. /\ DOMAIN threads'[p] = DOMAIN threads[p] \ {t} /\ t \in DOMAIN threads[p]
      /\ \A u \in DOMAIN threads[p] \ {t} : threads'[p][u] = threads[p][u]
      /\ m_page_directory'[p] = m_page_directory[p]
      /\ m_used_blocks'[p] = m_used_blocks[p] /\ orphans' = orphans
      /\ free_blocks(threads[p][t].m_used_blocks)
  BY DEF ThreadGone
<1>2. Books /\ ListsApart(p) /\ TypeOK
  BY DEF IInv, Books
<1>3. held' = held \ N
  BY <1>1, <1>2, FreedTypes DEF StackBlocks
<1>4. \A u \in DOMAIN threads[p] \ {t} : StackBlocks(p, u)' = StackBlocks(p, u)
  BY <1>1 DEF StackBlocks
<1>5. /\ m_page_directory[p] \notin N
      /\ Range(m_used_blocks[p]) \cap N = {}
      /\ \A u \in DOMAIN threads[p] \ {t} : StackBlocks(p, u) \cap N = {}
  BY <1>1, <1>2 DEF ListsApart
<1>6. N \subseteq Own(p)
  BY <1>1 DEF Own, OwnBlocks
<1>7. Own(p)' = Own(p) \ N
  <2>1. \A b : b \in Own(p)' <=>
          /\ b \notin LowPages
          /\ \/ b = m_page_directory[p] \/ b \in Range(m_used_blocks[p])
             \/ \E u \in DOMAIN threads[p] \ {t} : b \in StackBlocks(p, u)
    BY <1>1, <1>4 DEF Own, OwnBlocks
  <2>2. \A b : b \in Own(p) <=>
          /\ b \notin LowPages
          /\ \/ b = m_page_directory[p] \/ b \in Range(m_used_blocks[p])
             \/ \E u \in DOMAIN threads[p] : b \in StackBlocks(p, u)
    BY DEF Own, OwnBlocks
  <2>3. \A b : b \in N <=> b \in StackBlocks(p, t) /\ b \notin LowPages
    OBVIOUS
  <2> HIDE DEF N
  <2> QED BY <1>1, <1>5, <2>1, <2>2, <2>3
<1>8. ListsApart(p)'
  BY <1>1, <1>2, <1>4 DEF ListsApart
<1>9. \A q \in Process \ {p} : Own(q)' = Own(q) /\ ListsApart(q)'
  <2>1. \A q \in Process \ {p} : SameAs(q) /\ ListsApart(q)
    BY <1>2, SameProcess DEF ThreadGone, Books
  <2> QED BY <2>1 DEF SameAs
<1> HIDE DEF N
<1>10. Books'
  BY <1>1, <1>2, <1>3, <1>6, <1>7, <1>8, <1>9, BooksShrink
<1> QED BY <1>8, <1>10

LEMMA ThreadGonePages ==
  ASSUME IInv, NEW p \in Process, NEW t, ThreadGone(p, t), Intact'
  PROVE  ProcessPages(p)'
<1> DEFINE gone == StackOf(threads[p][t].m_stack)
           stacks == UNION {StackOf(threads[p][u].m_stack) : u \in DOMAIN threads[p]}
           left == UNION {StackOf(threads[p][u].m_stack) : u \in DOMAIN threads[p] \ {t}}
           pages == OwnPages(p) \cup stacks
<1>1. /\ DOMAIN threads'[p] = DOMAIN threads[p] \ {t}
      /\ t \in DOMAIN threads[p] /\ t # Main /\ Live(p) /\ Intact
      /\ \A u \in DOMAIN threads[p] \ {t} : threads'[p][u] = threads[p][u]
      /\ m_page_directory' = m_page_directory /\ entries' = entries
      /\ m_used_blocks'[p] = m_used_blocks[p] /\ m_heap_address' = m_heap_address
      /\ free_blocks(threads[p][t].m_used_blocks)
  BY DEF ThreadGone
<1>2. TypeOK /\ Shape /\ ProcessPages(p) /\ StacksApart(p)
  BY <1>1, Parts DEF IInv, ProcessShape
<1>3. \A v \in Page : Mapped(p, v)' = Mapped(p, v)
  <2> SUFFICES ASSUME NEW v \in Page PROVE Mapped(p, v)' = Mapped(p, v)
    OBVIOUS
  <2> DEFINE b == entries[p][v \div PagesPerTable]
             list == threads[p][t].m_used_blocks
  <2>1. /\ v \div PagesPerTable \in Frame /\ DOMAIN entries[p] = Frame
        /\ DOMAIN tables = Block \cup {NULL} /\ b \in Block \cup {NULL, Template}
    BY <1>2, PageFacts DEF TypeOK
  <2>2. Range(entries'[p]) \ {Template} \subseteq held' /\ b \in Range(entries'[p])
    BY <1>1, <2>1 DEF Intact, Live, Range
  <2>3. /\ held' = held \ Range(list)
        /\ tables' = [x \in DOMAIN tables |->
                        IF x \in Range(list) THEN EmptyTable ELSE tables[x]]
    BY <1>1 DEF free_blocks
  <2>4. /\ Mapped(p, v)' = IF b = Template THEN NotPresent ELSE tables'[b][v % PagesPerTable]
        /\ Mapped(p, v) = IF b = Template THEN NotPresent ELSE tables[b][v % PagesPerTable]
    BY <1>1 DEF Mapped
  <2> HIDE DEF b, list
  <2>5. b # Template => tables'[b] = tables[b]
    BY <2>1, <2>2, <2>3
  <2> QED BY <2>4, <2>5
<1>4. /\ \A u \in DOMAIN threads[p] \ {t} : StackBlocks(p, u)' = StackBlocks(p, u)
      /\ OwnPages(p)' = OwnPages(p) /\ (HeapIsApart(p)' <=> HeapIsApart(p))
  BY <1>1 DEF StackBlocks, OwnPages, HeapPages, HeapIsApart
<1>5. (UNION {StackOf(threads[p][u].m_stack) : u \in DOMAIN threads[p]})' = left
  BY <1>1
<1>6. OwnPages(p) \subseteq Page /\ stacks \subseteq Page
      /\ left \subseteq stacks
      /\ \A u \in DOMAIN threads[p] : StackOf(threads[p][u].m_stack) \subseteq Page
  BY <1>1, <1>2, PagesThereAre DEF StackFits
<1>7. gone \cap left = {}
      /\ gone \subseteq UNION {StackOf(StackTop - i * StackPages) : i \in 1 .. Cardinality(Workers)}
  <2>1. /\ threads[p][t].m_stack \in Positions /\ threads[p][t].m_stack # StackTop
        /\ \A u \in DOMAIN threads[p] \ {t} :
             /\ threads[p][u].m_stack \in Positions
             /\ threads[p][u].m_stack # threads[p][t].m_stack
    BY <1>1, <1>2 DEF StacksApart
  <2>2. \A u \in DOMAIN threads[p] \ {t} :
          StackOf(threads[p][t].m_stack) \cap StackOf(threads[p][u].m_stack) = {}
    BY <2>1, StacksFit DEF StackFits
  <2>3. \E i \in 1 .. Cardinality(Workers) : threads[p][t].m_stack = StackTop - i * StackPages
    BY <2>1, StacksFit DEF StackFits, Place
  <2> QED BY <2>2, <2>3
<1>8. /\ DeadStacks(p) = (UNION {StackOf(StackTop - i * StackPages) : i \in 1 .. Cardinality(Workers)}) \ stacks
      /\ DeadStacks(p)' = (UNION {StackOf(StackTop - i * StackPages) : i \in 1 .. Cardinality(Workers)}) \ left
  BY <1>5 DEF DeadStacks
<1> HIDE DEF gone, stacks, left
<1>9. gone \subseteq DeadStacks(p)' /\ DeadStacks(p) \subseteq DeadStacks(p)'
  BY <1>6, <1>7, <1>8
<1>10. ASSUME NEW v \in Page PROVE PageLeads(p, v)'
  <2>1. Mapped(p, v)' = Mapped(p, v) /\ PageLeads(p, v)
    BY <1>2, <1>3 DEF ProcessPages
  <2>2. CASE v \in gone \/ v \in DeadStacks(p)
    BY <1>9, <2>2 DEF PageLeads
  <2>3. CASE Mapped(p, v) \in Range(m_used_blocks[p]) \cup {NotPresent}
    BY <1>1, <2>1, <2>3 DEF PageLeads
  <2>4. ASSUME NEW u \in DOMAIN threads[p], u # t, v \in StackOf(threads[p][u].m_stack),
               Mapped(p, v) \in StackBlocks(p, u)
        PROVE  PageLeads(p, v)'
    <3>1. /\ u \in DOMAIN threads'[p] /\ v \in StackOf(threads'[p][u].m_stack)
          /\ Mapped(p, v)' \in StackBlocks(p, u)'
      BY <1>1, <1>4, <2>1, <2>4
    <3> QED BY <3>1 DEF PageLeads
  <2> QED BY <2>1, <2>2, <2>3, <2>4 DEF PageLeads, gone
<1>11. ASSUME OwnPagesApart(p) PROVE OwnPagesApart(p)'
  <2>1. /\ \A v \in OwnPages(p) : Mapped(p, v) \in Range(m_used_blocks[p])
        /\ \A u \in DOMAIN threads[p] :
             \A v \in StackOf(threads[p][u].m_stack) :
               Mapped(p, v) \in StackBlocks(p, u)
        /\ \A v, w \in pages : Mapped(p, v) = Mapped(p, w) =>
             v = w \/ Mapped(p, v) \in LowPages
        /\ \A v \in Image : Mapped(p, v) = Mapped(p, ImageBase) + (v - ImageBase)
    BY <1>11 DEF OwnPagesApart, stacks
  <2>2. \A v \in OwnPages(p)' : Mapped(p, v)' \in Range(m_used_blocks'[p])
    BY <1>1, <1>3, <1>4, <1>6, <2>1
  <2>3. \A u \in DOMAIN threads'[p] : \A v \in StackOf(threads'[p][u].m_stack) :
          Mapped(p, v)' \in StackBlocks(p, u)'
    BY <1>1, <1>3, <1>4, <1>6, <2>1
  <2>4. (OwnPages(p) \cup UNION {StackOf(threads[p][u].m_stack) : u \in DOMAIN threads[p]})'
          = OwnPages(p) \cup left
    BY <1>4, <1>5
  <2>5. \A v, w \in OwnPages(p) \cup left : Mapped(p, v)' = Mapped(p, w)' =>
          v = w \/ Mapped(p, v)' \in LowPages
    BY <1>3, <1>6, <2>1
  <2>6. \A v \in Image : Mapped(p, v)' = Mapped(p, ImageBase)' + (v - ImageBase)
    <3>1. Image \subseteq Page /\ ImageBase \in Image
      BY FirstPages, Layout DEF Image, Sizes
    <3> QED BY <1>3, <2>1, <3>1
  <2> QED BY <2>2, <2>3, <2>4, <2>5, <2>6 DEF OwnPagesApart
<1> QED BY <1>2, <1>4, <1>10, <1>11 DEF ProcessPages

LEMMA TerminateThreadKeeps ==
  ASSUME IInv, NEW p \in Process, NEW t \in Workers, terminate_thread(p, t)
  PROVE  IInv'
<1>1. ThreadGone(p, t)
  BY LosesThread
<1>2. ProcessType(p)' /\ ProcessShape(p)' /\ ProcessTables(p)'
  BY <1>1, ThreadGoneShape
<1>3. ListsApart(p)' /\ Books'
  BY <1>1, ThreadGoneBooks
<1>4. Intact' => ProcessPages(p)'
  BY <1>1, ThreadGonePages
<1>5. ProcessHolds(p)'
  BY <1>2, <1>3, <1>4 DEF ProcessHolds
<1>6. \A q \in Process \ {p} : ProcessHolds(q)'
  BY <1>1, FreedTables, Untouched DEF ThreadGone
<1>7. /\ mode' \in {"boot", "run", "lost"} /\ mode' # "boot"
      /\ held' \subseteq Block /\ cursor' = cursor
      /\ tables' \in [Block \cup {NULL} -> TableType]
  BY <1>1, FreedTypes DEF IInv, ThreadGone
<1>8. GlobalType' /\ Domains'
  BY <1>1, <1>7, Parts DEF IInv, GlobalType, ThreadGone
<1>9. \A o \in orphans' : o.m_used_blocks \in Seq(Block \cup LowPages)
  BY <1>1 DEF IInv, Shape, ThreadGone
<1>10. Intact' => TablesNamedOnce'
  BY <1>1 DEF IInv, Tables, TablesNamedOnce, ThreadGone
<1>11. \A q \in Process : ProcessHolds(q)'
  BY <1>5, <1>6
<1>12. mode' = "boot" => Intact'
  BY <1>7
<1> QED BY <1>3, <1>8, <1>9, <1>10, <1>11, <1>12, Whole

(* What becomes of thread t of a process p that is deleted. *)
Orphan(p, t) ==
  [process |-> p, thread |-> t, m_used_blocks |-> threads[p][t].m_used_blocks]

ProcessGone(p) ==
  /\ Live(p) /\ Intact /\ mode = "run"
  /\ free_blocks(<<m_page_directory[p]>> \o m_used_blocks[p])
  /\ m_page_directory' = [m_page_directory EXCEPT ![p] = NULL]
  /\ entries' = [entries EXCEPT ![p] = [f \in Frame |-> Template]]
  /\ m_heap_address' = [m_heap_address EXCEPT ![p] = HeapBase]
  /\ orphans' = orphans \cup {Orphan(p, t) : t \in DOMAIN threads[p]}
  /\ Absent(p)' /\ ~ Live(p)'
  /\ \A q \in Process \ {p} : Same(q)
  /\ Domains'

LEMMA LosesProcess ==
  ASSUME IInv, NEW p \in Process, terminate_process(p)
  PROVE  ProcessGone(p)
<1>1. /\ DOMAIN m_used_blocks = Process /\ DOMAIN m_stack_blocks = Process
      /\ DOMAIN threads = Process /\ DOMAIN m_page_directory = Process
      /\ DOMAIN entries = Process /\ DOMAIN m_heap_address = Process
  BY DEF IInv, Shape, TypeOK
<1>2. /\ Live(p) /\ Intact /\ mode = "run"
      /\ free_blocks(<<m_page_directory[p]>> \o m_used_blocks[p])
      /\ m_page_directory' = [m_page_directory EXCEPT ![p] = NULL]
      /\ entries' = [entries EXCEPT ![p] = [f \in Frame |-> Template]]
      /\ m_used_blocks' = [m_used_blocks EXCEPT ![p] = << >>]
      /\ m_stack_blocks' = [m_stack_blocks EXCEPT ![p] = {}]
      /\ m_heap_address' = [m_heap_address EXCEPT ![p] = HeapBase]
      /\ threads' = [threads EXCEPT ![p] = << >>]
      /\ orphans' = orphans \cup {Orphan(p, t) : t \in DOMAIN threads[p]}
  BY DEF terminate_process, Running, Orphan
<1>3. \A q \in Process \ {p} : Same(q)
  BY <1>1, <1>2 DEF Same
<1>4. Domains'
  BY <1>1, <1>2 DEF Domains
<1>5. Absent(p)' /\ ~ Live(p)'
  BY <1>1, <1>2 DEF Absent, Live
<1> QED BY <1>2, <1>3, <1>4, <1>5 DEF ProcessGone

LEMMA ProcessGoneShape ==
  ASSUME IInv, NEW p \in Process, ProcessGone(p)
  PROVE  ProcessHolds(p)' /\ Own(p)' = {}
<1>1. /\ ~ Live(p)' /\ Absent(p)' /\ m_page_directory'[p] = NULL
      /\ m_used_blocks'[p] = << >> /\ m_stack_blocks'[p] = {} /\ threads'[p] = << >>
  BY DEF ProcessGone, Live, Absent
<1>2. DOMAIN threads'[p] = {}
  BY <1>1
<1>3. ProcessType(p)'
  BY <1>1, <1>2 DEF ProcessType
<1>4. ProcessShape(p)' /\ ProcessTables(p)'
  BY <1>1 DEF ProcessShape, ProcessTables
<1>5. ListsApart(p)'
  BY <1>1, <1>2, EmptyList DEF ListsApart
<1>6. Own(p)' = {}
  <2>1. Own(p)' = {NULL} \ LowPages
    BY <1>1, <1>2, EmptyList DEF Own, OwnBlocks
  <2> QED BY <2>1, Kinds
<1> QED BY <1>1, <1>3, <1>4, <1>5, <1>6 DEF ProcessHolds

(* The list that ~process frees. *)
LEMMA DirectoryFirst ==
  ASSUME TypeOK, NEW p \in Process
  PROVE  Range(<<m_page_directory[p]>> \o m_used_blocks[p])
           = {m_page_directory[p]} \cup Range(m_used_blocks[p])
<1> DEFINE d == m_page_directory[p]
           s == m_used_blocks[p]
<1>1. s \in Seq(Block \cup {NULL}) /\ d \in Block \cup {NULL}
  BY DEF TypeOK
<1> HIDE DEF d, s
<1>2. <<d>> \in Seq(Block \cup {NULL}) /\ Len(<<d>>) = 1 /\ <<d>>[1] = d
  BY <1>1
<1>3. /\ <<d>> \o s \in Seq(Block \cup {NULL}) /\ Len(<<d>> \o s) = 1 + Len(s)
      /\ \A i \in 1 .. 1 + Len(s) :
           (<<d>> \o s)[i] = IF i <= 1 THEN <<d>>[i] ELSE s[i - 1]
  BY <1>1, <1>2, ConcatProperties
<1>4. /\ DOMAIN s = 1 .. Len(s) /\ Len(s) \in Nat
      /\ DOMAIN (<<d>> \o s) = 1 .. 1 + Len(s)
  BY <1>1, <1>3
<1>5. \A i \in 1 .. Len(s) : s[i] = (<<d>> \o s)[i + 1] /\ i + 1 \in 1 .. 1 + Len(s)
  BY <1>3, <1>4
<1>6. d = (<<d>> \o s)[1] /\ 1 \in 1 .. 1 + Len(s)
  BY <1>2, <1>3, <1>4
<1>7. \A i \in 1 .. 1 + Len(s) :
        \/ (<<d>> \o s)[i] = d
        \/ i - 1 \in 1 .. Len(s) /\ (<<d>> \o s)[i] = s[i - 1]
  BY <1>2, <1>3, <1>4
<1>8. Range(<<d>> \o s) \subseteq {d} \cup Range(s)
  BY <1>4, <1>7 DEF Range
<1>9. {d} \cup Range(s) \subseteq Range(<<d>> \o s)
  <2>1. \A i \in 1 .. 1 + Len(s) : (<<d>> \o s)[i] \in Range(<<d>> \o s)
    BY <1>4 DEF Range
  <2>2. d \in Range(<<d>> \o s)
    BY <1>6, <2>1
  <2>3. ASSUME NEW b \in Range(s) PROVE b \in Range(<<d>> \o s)
    <3>1. PICK i \in 1 .. Len(s) : b = s[i]
      BY <1>4 DEF Range
    <3> QED BY <1>5, <2>1, <3>1
  <2> QED BY <2>2, <2>3
<1> QED BY <1>8, <1>9 DEF d, s

LEMMA ProcessGoneBooks ==
  ASSUME IInv, NEW p \in Process, ProcessGone(p)
  PROVE  Books'
<1> DEFINE new == {Orphan(p, t) : t \in DOMAIN threads[p]}
           N == ({m_page_directory[p]} \cup Range(m_used_blocks[p])) \ LowPages
<1>1. /\ free_blocks(<<m_page_directory[p]>> \o m_used_blocks[p])
      /\ orphans' = orphans \cup new
      /\ \A q \in Process \ {p} : Same(q)
  BY DEF ProcessGone
<1>2. Books /\ ListsApart(p) /\ TypeOK /\ Own(p) \cap Lost = {}
  BY DEF IInv, Books
<1>3. held' = held \ N
  BY <1>1, <1>2, FreedTypes, DirectoryFirst
<1>4. N \subseteq Own(p)
  BY DEF Own, OwnBlocks
<1>5. Own(p)' = {} /\ ListsApart(p)'
  BY ProcessGoneShape DEF ProcessHolds
<1>6. \A t \in DOMAIN threads[p] : StackBlocks(p, t) \cap N = {}
  BY <1>2 DEF ListsApart
<1>7. \A b : b \in Own(p) \ N <=>
        b \notin LowPages /\ \E t \in DOMAIN threads[p] : b \in StackBlocks(p, t)
  <2>1. \A b : b \in Own(p) <=>
          /\ b \notin LowPages
          /\ \/ b = m_page_directory[p] \/ b \in Range(m_used_blocks[p])
             \/ \E t \in DOMAIN threads[p] : b \in StackBlocks(p, t)
    BY DEF Own, OwnBlocks
  <2> QED BY <1>6, <2>1
<1>8. Lost' = Lost \cup (Own(p) \ N)
  <2>1. \A b : b \in Lost' <=>
          b \notin LowPages /\ \E o \in orphans' : b \in Range(o.m_used_blocks)
    BY DEF Lost
  <2>2. \A b : b \in Lost <=>
          b \notin LowPages /\ \E o \in orphans : b \in Range(o.m_used_blocks)
    BY DEF Lost
  <2>3. \A b : (\E o \in new : b \in Range(o.m_used_blocks)) <=>
                 \E t \in DOMAIN threads[p] : b \in StackBlocks(p, t)
    <3>1. \A t \in DOMAIN threads[p] :
            Range(Orphan(p, t).m_used_blocks) = StackBlocks(p, t)
      BY DEF StackBlocks, Orphan
    <3> QED BY <3>1
  <2> HIDE DEF N, new
  <2> QED BY <1>1, <1>7, <2>1, <2>2, <2>3
<1>9. \A q \in Process \ {p} : Own(q)' = Own(q) /\ ListsApart(q)'
  <2>1. \A q \in Process \ {p} : SameAs(q) /\ ListsApart(q)
    BY <1>1, <1>2, SameProcess DEF Books
  <2> QED BY <2>1 DEF SameAs
<1>10. OrphansApart'
  <2>1. \A o \in orphans : Range(o.m_used_blocks) \ LowPages \subseteq Lost
    BY DEF Lost
  <2>2. \A o \in new : Range(o.m_used_blocks) \ LowPages \subseteq Own(p)
    BY DEF Own, OwnBlocks, StackBlocks, Orphan
  <2>3. \A o \in orphans : \A x \in new :
          Range(o.m_used_blocks) \cap Range(x.m_used_blocks) \subseteq LowPages
    BY <1>2, <2>1, <2>2
  <2>4. \A o, x \in orphans : o # x =>
          Range(o.m_used_blocks) \cap Range(x.m_used_blocks) \subseteq LowPages
    BY <1>2 DEF Books
  <2>5. \A o, x \in new : o # x =>
          Range(o.m_used_blocks) \cap Range(x.m_used_blocks) \subseteq LowPages
    <3> SUFFICES ASSUME NEW t \in DOMAIN threads[p], NEW u \in DOMAIN threads[p],
                        Orphan(p, t) # Orphan(p, u)
                 PROVE  StackBlocks(p, t) \cap StackBlocks(p, u) \subseteq LowPages
      BY DEF StackBlocks, Orphan
    <3>1. t # u
      OBVIOUS
    <3> QED BY <1>2, <3>1 DEF ListsApart
  <2>6. \A o \in orphans \cup new : Once(o.m_used_blocks)
    BY <1>2 DEF Books, ListsApart, Orphan
  <2> HIDE DEF new
  <2>7. \A o, x \in orphans \cup new : o # x =>
          Range(o.m_used_blocks) \cap Range(x.m_used_blocks) \subseteq LowPages
    BY <2>3, <2>4, <2>5
  <2> QED BY <1>1, <2>6, <2>7 DEF OrphansApart
<1> HIDE DEF N
<1> QED BY <1>2, <1>3, <1>4, <1>5, <1>8, <1>9, <1>10, BooksDelete

LEMMA TerminateProcessKeeps ==
  ASSUME IInv, NEW p \in Process, terminate_process(p)
  PROVE  IInv'
<1>1. ProcessGone(p)
  BY LosesProcess
<1>2. ProcessHolds(p)' /\ Books'
  BY <1>1, ProcessGoneShape, ProcessGoneBooks
<1>3. \A q \in Process \ {p} : ProcessHolds(q)'
  BY <1>1, FreedTables, Untouched DEF ProcessGone
<1>4. \A q \in Process : ProcessHolds(q)'
  BY <1>2, <1>3
<1>5. /\ GlobalType /\ TypeOK
      /\ \A o \in orphans : o.m_used_blocks \in Seq(Block \cup LowPages)
      /\ \A t \in DOMAIN threads[p] : threads[p][t].m_used_blocks \in Seq(Block \cup LowPages)
  BY Parts DEF IInv, Shape, ProcessType
<1>6. /\ mode' \in {"boot", "run", "lost"} /\ mode' # "boot"
      /\ held' \subseteq Block /\ cursor' = cursor
      /\ tables' \in [Block \cup {NULL} -> TableType]
  BY <1>1, <1>5, FreedTypes DEF ProcessGone
<1>7. HeapBase \in HeapBase .. StackTop
  <2>1. /\ Cardinality(Workers) \in Nat /\ StackPages \in Nat /\ HeapBase \in Nat /\ StackTop \in Nat
        /\ HeapBase + (1 + Cardinality(Workers)) * StackPages <= StackTop
    BY ThreadRoom, Layout DEF Room, Sizes
  <2>2. (1 + Cardinality(Workers)) * StackPages \in Nat
    BY <2>1, Times
  <2> QED BY <2>1, <2>2
<1>8. GlobalType' /\ Domains'
  <2>1. m_page_directory' \in [Process -> Block \cup {NULL}]
    BY <1>1, <1>5 DEF ProcessGone, GlobalType
  <2>2. entries' \in [Process -> [Frame -> Block \cup {NULL, Template}]]
    BY <1>1, <1>5 DEF ProcessGone, GlobalType
  <2>3. m_heap_address' \in [Process -> HeapBase .. StackTop]
    BY <1>1, <1>5, <1>7 DEF ProcessGone, GlobalType
  <2> QED BY <1>1, <1>5, <1>6, <2>1, <2>2, <2>3 DEF ProcessGone, GlobalType
<1>9. \A o \in orphans' : o.m_used_blocks \in Seq(Block \cup LowPages)
  BY <1>1, <1>5 DEF ProcessGone, Orphan
<1>10. Intact' => TablesNamedOnce'
  <2>1. /\ \A f \in Frame : entries'[p][f] = Template
        /\ \A q \in Process \ {p} : entries'[q] = entries[q]
    BY <1>1 DEF ProcessGone, Absent, Same
  <2>2. TablesNamedOnce
    BY <1>1 DEF IInv, Tables, TablesNamedOnce, ProcessGone
  <2> QED BY <2>1, <2>2 DEF TablesNamedOnce
<1>11. mode' = "boot" => Intact'
  BY <1>6
<1> QED BY <1>2, <1>4, <1>8, <1>9, <1>10, <1>11, Whole

-----------------------------------------------------------------------------
(* The invariant holds. *)

LEMMA InitHolds ==
  ASSUME Init
  PROVE  IInv
<1>1. /\ mode = "boot" /\ held = {FirstBlock} /\ cursor = FirstBlock
      /\ tables = [b \in Block \cup {NULL} |-> EmptyTable]
      /\ m_page_directory = [p \in Process |-> NULL]
      /\ entries = [p \in Process |-> [f \in Frame |-> Template]]
      /\ m_used_blocks = [p \in Process |-> << >>]
      /\ m_stack_blocks = [p \in Process |-> {}]
      /\ m_heap_address = [p \in Process |-> HeapBase]
      /\ threads = [p \in Process |-> << >>] /\ orphans = {}
  BY DEF Init
<1>2. \A p \in Process : Absent(p) /\ ~ Live(p) /\ m_page_directory[p] = NULL
  BY <1>1 DEF Absent, Live
<1>3. \A p \in Process : DOMAIN threads[p] = {}
  BY <1>1
<1>4. FirstBlock \in Block /\ FirstBlock \in FirstBlock .. EndBlock
  BY Kinds, Layout DEF Sizes
<1>5. HeapBase \in HeapBase .. StackTop
  <2>1. /\ Cardinality(Workers) \in Nat /\ StackPages \in Nat /\ HeapBase \in Nat /\ StackTop \in Nat
        /\ HeapBase + (1 + Cardinality(Workers)) * StackPages <= StackTop
    BY ThreadRoom, Layout DEF Room, Sizes
  <2>2. (1 + Cardinality(Workers)) * StackPages \in Nat
    BY <2>1, Times
  <2> QED BY <2>1, <2>2
<1>6. TypeOK
  <2>1. /\ mode \in {"boot", "run", "lost"} /\ held \subseteq Block
        /\ cursor \in FirstBlock .. EndBlock
        /\ m_page_directory \in [Process -> Block \cup {NULL}]
    BY <1>1, <1>4
  <2>2. tables \in [Block \cup {NULL} -> TableType]
    <3>1. EmptyTable \in TableType
      BY DEF EmptyTable, TableType
    <3> QED BY <1>1, <3>1
  <2>3. entries \in [Process -> [Frame -> Block \cup {NULL, Template}]]
    BY <1>1
  <2>4. m_heap_address \in [Process -> HeapBase .. StackTop]
    BY <1>1, <1>5
  <2>5. \A p \in Process : m_used_blocks[p] = << >> /\ m_stack_blocks[p] = {}
    BY <1>1
  <2>6. ASSUME NEW p \in Process PROVE ProcessType(p)
    <3>1. m_used_blocks[p] = << >> /\ m_stack_blocks[p] = {}
      BY <2>5
    <3>2. m_used_blocks[p] \in Seq(Block \cup {NULL})
      BY <3>1
    <3> QED BY <1>3, <3>1, <3>2 DEF ProcessType
  <2> QED BY <2>1, <2>2, <2>3, <2>4, <2>6, Parts DEF GlobalType
<1>7. Shape
  BY <1>1, <1>2 DEF Shape
<1>8. Books
  <2>1. \A p \in Process : Own(p) = {}
    BY <1>2, <1>7, AbsentOwnsNothing
  <2>2. Lost = {}
    BY <1>1 DEF Lost
  <2>3. \A p \in Process : ListsApart(p)
    BY <1>2, <1>3, EmptyList DEF ListsApart, Absent
  <2> QED BY <1>1, <2>1, <2>2, <2>3 DEF Books
<1>9. Tables
  BY <1>1, <1>2 DEF Tables, Intact
<1>10. Pages
  BY <1>2 DEF Pages
<1> QED BY <1>6, <1>7, <1>8, <1>9, <1>10 DEF IInv

LEMMA Stutters ==
  ASSUME IInv, UNCHANGED vars
  PROVE  IInv'
<1>1. /\ mode' = mode /\ held' = held /\ cursor' = cursor /\ tables' = tables
      /\ m_page_directory' = m_page_directory /\ entries' = entries
      /\ m_used_blocks' = m_used_blocks /\ m_stack_blocks' = m_stack_blocks
      /\ m_heap_address' = m_heap_address /\ threads' = threads /\ orphans' = orphans
  BY DEF vars, memory
<1>2. \A p \in Process : Same(p)
  BY <1>1 DEF Same
<1>3. /\ GlobalType /\ Domains /\ Books /\ Tables
      /\ \A p \in Process : /\ ProcessType(p) /\ ProcessShape(p) /\ ProcessTables(p)
                            /\ ListsApart(p)
                            /\ Intact => (Live(p) => ProcessPages(p))
      /\ \A o \in orphans : o.m_used_blocks \in Seq(Block \cup LowPages)
  BY Parts DEF IInv, Books, Shape
<1>4. Intact' <=> Intact
  BY <1>1 DEF Intact, Live
<1>5. \A p \in Process : \A v : Mapped(p, v)' = Mapped(p, v)
  BY <1>1 DEF Mapped
<1>6. ASSUME NEW p \in Process PROVE ProcessHolds(p)' /\ Own(p)' = Own(p)
  <2>1. SameAs(p)
    BY <1>2, SameProcess
  <2>2. ASSUME Intact', Live(p)' PROVE ProcessPages(p)'
    <3>1. Live(p)
      BY <2>1, <2>2 DEF SameAs
    <3>2. Intact
      BY <1>4, <2>2
    <3>3. ProcessPages(p)
      BY <1>3, <3>1, <3>2
    <3> QED BY <1>2, <1>5, <3>1, <3>3, SamePages DEF IInv
  <2>3. ProcessType(p)' /\ ProcessShape(p)' /\ ProcessTables(p)' /\ ListsApart(p)'
    BY <1>3, <2>1 DEF SameAs
  <2>4. Own(p)' = Own(p)
    BY <2>1 DEF SameAs
  <2> QED BY <2>2, <2>3, <2>4 DEF ProcessHolds
<1>7. GlobalType' /\ Domains'
  BY <1>1, <1>3 DEF GlobalType, Domains
<1>8. Books'
  <2>1. \A p \in Process : Own(p)' = Own(p) /\ ListsApart(p)'
    BY <1>6 DEF ProcessHolds
  <2>2. Lost' = Lost
    BY <1>1 DEF Lost
  <2> QED BY <1>1, <1>3, <2>1, <2>2 DEF Books
<1>9. Intact' => TablesNamedOnce'
  BY <1>1, <1>3, <1>4 DEF Tables, TablesNamedOnce
<1>10. mode' = "boot" => Intact'
  BY <1>1, <1>3, <1>4 DEF Tables
<1>11. \A o \in orphans' : o.m_used_blocks \in Seq(Block \cup LowPages)
  BY <1>1, <1>3
<1> QED BY <1>6, <1>7, <1>8, <1>9, <1>10, <1>11, Whole

LEMMA Inductive == Spec => []IInv
<1>1. Init => IInv
  BY InitHolds
<1>2. IInv /\ [Next]_vars => IInv'
  <2> SUFFICES ASSUME IInv, [Next]_vars PROVE IInv'
    OBVIOUS
  <2>1. CASE UNCHANGED vars
    BY <2>1, Stutters
  <2>2. ASSUME NEW p \in Process, create_process(p) PROVE IInv'
    BY <2>2, CreateProcessKeeps
  <2>3. ASSUME NEW p \in Process, NEW t \in Workers, sys_thread(p, t) PROVE IInv'
    BY <2>3, SysThreadKeeps
  <2>4. ASSUME NEW p \in Process, NEW t \in Workers, terminate_thread(p, t) PROVE IInv'
    BY <2>4, TerminateThreadKeeps
  <2>5. ASSUME NEW p \in Process, NEW count \in HeapRequests, sys_alloc(p, count) PROVE IInv'
    BY <2>5, SysAllocKeeps
  <2>6. ASSUME NEW p \in Process, terminate_process(p) PROVE IInv'
    BY <2>6, TerminateProcessKeeps
  <2> QED BY <2>1, <2>2, <2>3, <2>4, <2>5, <2>6 DEF Next
<1> QED BY <1>1, <1>2, PTL DEF Spec

-----------------------------------------------------------------------------
(* What follows from it. *)

(* What the objects of one process hold is apart. *)
LEMMA ListsOfOne ==
  ASSUME TypeOK, Books, NEW p \in Process, NEW x \in Lists(p)
  PROVE  /\ Once(x.list) /\ Range(x.list) \ LowPages \subseteq Own(p)
         /\ \A y \in Lists(p) \ {x} : Range(x.list) \cap Range(y.list) \subseteq LowPages
<1> DEFINE first == <<m_page_directory[p]>>
           directory == [owner |-> <<"directory", p>>, list |-> first]
           process == [owner |-> <<"process", p>>, list |-> m_used_blocks[p]]
           Of(t) == [owner |-> <<"thread", p, t>>, list |-> threads[p][t].m_used_blocks]
<1>1. Range(first) = {m_page_directory[p]} /\ Once(first)
  <2>1. DOMAIN first = {1} /\ first[1] = m_page_directory[p]
    OBVIOUS
  <2> QED BY <2>1 DEF Range, Once
<1>2. ListsApart(p)
  BY DEF Books
<1>3. \A y \in Lists(p) :
        y = directory \/ y = process \/ \E t \in DOMAIN threads[p] : y = Of(t)
  BY DEF Lists
<1>4. /\ directory.list = first /\ process.list = m_used_blocks[p]
      /\ \A t \in DOMAIN threads[p] : Of(t).list = threads[p][t].m_used_blocks
  OBVIOUS
<1> HIDE DEF first, directory, process, Of
<1>5. Once(x.list)
  BY <1>1, <1>2, <1>3, <1>4 DEF ListsApart
<1>6. Range(x.list) \ LowPages \subseteq Own(p)
  BY <1>1, <1>3, <1>4 DEF Own, OwnBlocks, StackBlocks
<1>7. ASSUME NEW y \in Lists(p), y # x
      PROVE  Range(x.list) \cap Range(y.list) \subseteq LowPages
  <2>1. /\ m_page_directory[p] \notin Range(m_used_blocks[p]) \ LowPages
        /\ \A t \in DOMAIN threads[p] :
             /\ m_page_directory[p] \notin Range(threads[p][t].m_used_blocks) \ LowPages
             /\ Range(m_used_blocks[p]) \cap Range(threads[p][t].m_used_blocks) \subseteq LowPages
    BY <1>2 DEF ListsApart, StackBlocks
  <2>2. \A t \in DOMAIN threads[p] : \A u \in DOMAIN threads[p] : t # u =>
          Range(threads[p][t].m_used_blocks) \cap Range(threads[p][u].m_used_blocks)
            \subseteq LowPages
    BY <1>2 DEF ListsApart, StackBlocks
  <2>3. CASE x = directory
    BY <1>1, <1>3, <1>4, <1>7, <2>1, <2>3
  <2>4. CASE x = process
    BY <1>1, <1>3, <1>4, <1>7, <2>1, <2>4
  <2>5. ASSUME NEW t \in DOMAIN threads[p], x = Of(t)
        PROVE  Range(x.list) \cap Range(y.list) \subseteq LowPages
    <3>1. CASE y = directory \/ y = process
      BY <1>1, <1>4, <2>1, <2>5, <3>1
    <3>2. ASSUME NEW u \in DOMAIN threads[p], y = Of(u)
          PROVE  Range(x.list) \cap Range(y.list) \subseteq LowPages
      <4>1. t # u
        BY <1>7, <2>5, <3>2
      <4> QED BY <1>4, <2>2, <2>5, <3>2, <4>1
    <3> QED BY <1>3, <3>1, <3>2
  <2> QED BY <1>3, <2>3, <2>4, <2>5
<1> QED BY <1>5, <1>6, <1>7

(* And of the threads whose process is deleted. *)
LEMMA ListsOfOrphans ==
  ASSUME Books, NEW x \in OrphanLists
  PROVE  /\ Once(x.list) /\ Range(x.list) \ LowPages \subseteq Lost
         /\ \A y \in OrphanLists \ {x} : Range(x.list) \cap Range(y.list) \subseteq LowPages
<1> DEFINE Of(o) == [owner |-> <<"orphan", o.process, o.thread>>, list |-> o.m_used_blocks]
<1>1. \A y \in OrphanLists : \E o \in orphans : y = Of(o)
  BY DEF OrphanLists
<1>2. \A o \in orphans : Of(o).list = o.m_used_blocks
  OBVIOUS
<1> HIDE DEF Of
<1>3. PICK o \in orphans : x = Of(o)
  BY <1>1
<1>4. x.list = o.m_used_blocks
  BY <1>2, <1>3
<1>5. Once(x.list) /\ Range(x.list) \ LowPages \subseteq Lost
  BY <1>4 DEF Books, Lost
<1>6. ASSUME NEW y \in OrphanLists, y # x
      PROVE  Range(x.list) \cap Range(y.list) \subseteq LowPages
  <2>1. PICK u \in orphans : y = Of(u)
    BY <1>1
  <2>2. u # o
    BY <1>3, <1>6, <2>1
  <2> QED BY <1>2, <1>4, <2>1, <2>2 DEF Books
<1> QED BY <1>5, <1>6

LEMMA ListsOfAll ==
  ASSUME TypeOK, Shape, Books
  PROVE  BlocksAreAccounted
<1>1. \A x : x \in AllLists <=>
        \/ \E p \in Process : Live(p) /\ x \in Lists(p)
        \/ x \in OrphanLists
  BY DEF AllLists
<1>2. \A p \in Process : \A q \in Process : p # q => Own(p) \cap Own(q) = {}
  BY DEF Books
<1>3. \A p \in Process : Own(p) \cap Lost = {}
  BY DEF Books
<1>4. held = {FirstBlock} \cup UNION {Range(x.list) \ LowPages : x \in AllLists}
  <2>1. \A b : b \in Lost => \E x \in OrphanLists : b \in Range(x.list) \ LowPages
    <3> SUFFICES ASSUME NEW b \in Lost
                 PROVE  \E x \in OrphanLists : b \in Range(x.list) \ LowPages
      OBVIOUS
    <3>1. PICK o \in orphans : b \in Range(o.m_used_blocks) \ LowPages
      BY DEF Lost
    <3>2. [owner |-> <<"orphan", o.process, o.thread>>, list |-> o.m_used_blocks]
            \in OrphanLists
      BY DEF OrphanLists
    <3> QED BY <3>1, <3>2
  <2>2. ASSUME NEW p \in Process, NEW b \in Own(p)
        PROVE  Live(p) /\ \E x \in Lists(p) : b \in Range(x.list) \ LowPages
    <3>1. Live(p)
      BY AbsentOwnsNothing
    <3>2. /\ b \notin LowPages
          /\ \/ b = m_page_directory[p] \/ b \in Range(m_used_blocks[p])
             \/ \E t \in DOMAIN threads[p] : b \in Range(threads[p][t].m_used_blocks)
      BY DEF Own, OwnBlocks, StackBlocks
    <3>3. Range(<<m_page_directory[p]>>) = {m_page_directory[p]}
      BY DEF Range
    <3>4. CASE b = m_page_directory[p]
      <4>1. [owner |-> <<"directory", p>>, list |-> <<m_page_directory[p]>>] \in Lists(p)
        BY DEF Lists
      <4> QED BY <3>1, <3>2, <3>3, <3>4, <4>1
    <3>5. CASE b \in Range(m_used_blocks[p])
      <4>1. [owner |-> <<"process", p>>, list |-> m_used_blocks[p]] \in Lists(p)
        BY DEF Lists
      <4> QED BY <3>1, <3>2, <3>5, <4>1
    <3>6. ASSUME NEW t \in DOMAIN threads[p], b \in Range(threads[p][t].m_used_blocks)
          PROVE  \E x \in Lists(p) : b \in Range(x.list) \ LowPages
      <4>1. [owner |-> <<"thread", p, t>>, list |-> threads[p][t].m_used_blocks] \in Lists(p)
        BY DEF Lists
      <4> QED BY <3>2, <3>6, <4>1
    <3> QED BY <3>1, <3>2, <3>4, <3>5, <3>6
  <2>3. \A p \in Process : \A x \in Lists(p) : Range(x.list) \ LowPages \subseteq Own(p)
    BY ListsOfOne
  <2>4. \A x \in OrphanLists : Range(x.list) \ LowPages \subseteq Lost
    BY ListsOfOrphans
  <2>5. \A b : b \in held <=>
          b = FirstBlock \/ (\E p \in Process : b \in Own(p)) \/ b \in Lost
    BY DEF Books
  <2>6. \A b : b \in held <=>
          b = FirstBlock \/ \E x \in AllLists : b \in Range(x.list) \ LowPages
    BY <1>1, <2>1, <2>2, <2>3, <2>4, <2>5
  <2> QED BY <2>6
<1>5. ASSUME NEW x \in AllLists
      PROVE  /\ Once(x.list)
             /\ \A y \in AllLists \ {x} : Range(x.list) \cap Range(y.list) \subseteq LowPages
  <2>1. ASSUME x \in OrphanLists, NEW y \in AllLists, y # x
        PROVE  Range(x.list) \cap Range(y.list) \subseteq LowPages
    <3>1. Range(x.list) \ LowPages \subseteq Lost
      BY <2>1, ListsOfOrphans
    <3>2. ASSUME NEW p \in Process, y \in Lists(p)
          PROVE  Range(x.list) \cap Range(y.list) \subseteq LowPages
      BY <1>3, <3>1, <3>2, ListsOfOne
    <3>3. CASE y \in OrphanLists
      BY <2>1, <3>3, ListsOfOrphans
    <3> QED BY <1>1, <3>2, <3>3
  <2>2. ASSUME NEW p \in Process, x \in Lists(p), NEW y \in AllLists, y # x
        PROVE  Range(x.list) \cap Range(y.list) \subseteq LowPages
    <3>1. Range(x.list) \ LowPages \subseteq Own(p)
      BY <2>2, ListsOfOne
    <3>2. CASE y \in OrphanLists
      <4>1. Range(y.list) \ LowPages \subseteq Lost
        BY <3>2, ListsOfOrphans
      <4> QED BY <1>3, <3>1, <4>1
    <3>3. ASSUME NEW q \in Process, y \in Lists(q)
          PROVE  Range(x.list) \cap Range(y.list) \subseteq LowPages
      <4>1. Range(y.list) \ LowPages \subseteq Own(q)
        BY <3>3, ListsOfOne
      <4>2. CASE p = q
        BY <2>2, <3>3, <4>2, ListsOfOne
      <4>3. CASE p # q
        BY <1>2, <3>1, <4>1, <4>3
      <4> QED BY <4>2, <4>3
    <3> QED BY <1>1, <3>2, <3>3
  <2>3. Once(x.list)
    BY <1>1, ListsOfOne, ListsOfOrphans
  <2> QED BY <1>1, <2>1, <2>2, <2>3
<1> QED BY <1>4, <1>5 DEF BlocksAreAccounted, Once

LEMMA Follows ==
  ASSUME IInv
  PROVE  /\ TypeOK /\ BlocksAreAccounted /\ PagesAreOwn
         /\ StaleOnlyInDeadStacks /\ TablesOutliveUse
<1>1. TypeOK /\ BlocksAreAccounted
  BY ListsOfAll DEF IInv
<1>2. PagesAreOwn
  <2> SUFFICES ASSUME NEW p \in Process, Live(p), HeapIsApart(p), Intact
               PROVE  OwnPagesApart(p)
    BY DEF PagesAreOwn, OwnPagesApart, Image
  <2> QED BY DEF IInv, Pages
<1>3. StaleOnlyInDeadStacks
  <2> SUFFICES ASSUME NEW p \in Process, Live(p), Intact, NEW v \in Page
               PROVE  \/ Mapped(p, v) \in OwnBlocks(p) \cup {NotPresent}
                      \/ v \in DeadStacks(p)
    BY DEF StaleOnlyInDeadStacks, DeadStacks
  <2>1. PageLeads(p, v)
    BY DEF IInv, Pages
  <2>2. /\ Range(m_used_blocks[p]) \subseteq OwnBlocks(p)
        /\ \A t \in DOMAIN threads[p] : StackBlocks(p, t) \subseteq OwnBlocks(p)
    BY DEF OwnBlocks
  <2> QED BY <2>1, <2>2 DEF PageLeads
<1>4. TablesOutliveUse
  <2> SUFFICES ASSUME NEW p \in Process, Live(p), NEW f \in Frame
               PROVE  \/ entries[p][f] \in held \cup {NULL, Template}
                      \/ f \in WorkerFrames \ FirstFrames
    BY DEF TablesOutliveUse, WorkerFrames, FirstFrames, Frames, Image
  <2>1. TableLists(p) /\ StacksApart(p)
    BY DEF IInv, Tables, Shape
  <2>2. Own(p) \subseteq held
    BY DEF IInv, Books
  <2>3. /\ Range(m_used_blocks[p]) \ LowPages \subseteq held
        /\ StackBlocks(p, Main) \ LowPages \subseteq held
    BY <2>1, <2>2 DEF Own, OwnBlocks, StacksApart
  <2>4. entries[p][f] \in Block \cup {NULL, Template}
    BY DEF IInv, TypeOK
  <2>5. \A b \in Block : b \notin LowPages
    BY Kinds
  <2> QED BY <2>1, <2>3, <2>4, <2>5 DEF TableLists
<1> QED BY <1>1, <1>2, <1>3, <1>4

(* The model of the address spaces is well typed: memory is given out only *)
(* within its bounds, and each thread's stack is one of those its process  *)
(* marks as taken.  (Where the heap ends is sys_alloc's guard, a bound of  *)
(* the model and not of the code.)                                         *)
THEOREM TypeCorrect == Spec => []TypeOK
BY Inductive, Follows, PTL

(* Every block that is marked as used is on the list of exactly one owner, *)
(* once: a process (its directory apart), one of its threads, or a thread  *)
(* whose process is gone.  Two owners share no block, even if their lists  *)
(* are equal: the destructors free no block twice, and what they leave     *)
(* behind are the stacks of the threads that ~process does not delete.     *)
THEOREM BlocksAreAlwaysAccounted == Spec => []BlocksAreAccounted
BY Inductive, Follows, PTL

(* As long as the heap is below the stacks and no table was lost, what     *)
(* map_physical has mapped stays mapped: each page of image, heap and      *)
(* stacks to memory on the list of its owner, no two to the same block.    *)
THEOREM PagesAreAlwaysOwn == Spec => []PagesAreOwn
BY Inductive, Follows, PTL

(* As long as no table was lost, the only pages of a process that lead to  *)
(* blocks it does not own are those of the stacks of threads that have     *)
(* exited.                                                                 *)
THEOREM OnlyDeadStacksAreStale == Spec => []StaleOnlyInDeadStacks
BY Inductive, Follows, PTL

(* The only page tables a directory names after ~thread has freed them are *)
(* those of further stacks; the tables of the image and of the first stack *)
(* last as long as the process.                                            *)
THEOREM TablesAlwaysOutliveUse == Spec => []TablesOutliveUse
BY Inductive, Follows, PTL

=============================================================================
