----------------------------- MODULE Containers -----------------------------
(***************************************************************************)
(* The containers of libcpp, as far as the kernel calls them: linked_list  *)
(* (the processes), array_list (threads, blocks and stacks of a process)   *)
(* and string (the line of a terminal and the input of a process, with the *)
(* loops of keyboard_event and flush_input_buffer that move characters     *)
(* from one to the other and on to the reader).  Their memory is modelled  *)
(* slot by slot; the other modules have sequences in their place.          *)
(*                                                                         *)
(* m_data holds all that was written through the pointer, so that it gets  *)
(* longer than m_reserved when something is written past the end of the    *)
(* array.  new leaves Junk.  Constructors that nothing calls, clear and    *)
(* the assignments of string are left out.                                 *)
(***************************************************************************)
EXTENDS Integers, SequencesExt

CONSTANTS
  Value,      \* objects and addresses that are put on lists
  Node,       \* places the heap has for nodes
  SizeRange,  \* 2^32
  Char,       \* characters that can be typed, other than Newline
  Newline,
  ReadSizes,  \* the counts programs pass to sys_read
  MaxLine,    \* bound on the characters of a line
  NULL, NUL, Junk

ASSUME SizeAssumption == SizeRange \in Nat \ {0}
ASSUME NodeAssumption == NULL \notin Node
ASSUME ReadAssumption == ReadSizes \subseteq Nat /\ MaxLine \in Nat

VARIABLES
  linked,          \* linked_list: m_first and m_size
  node,            \* the nodes in use: value and next
  array,           \* array_list: m_data, m_reserved and m_size
  line,            \* terminal::m_input_buffer
  m_input_buffer,  \* process::m_input_buffer
  m_sys_read_count,
  received         \* what has been stored through m_sys_read_buffer

lists == <<linked, node, array>>
input == <<line, m_input_buffer, m_sys_read_count, received>>
vars == <<lists, input>>

-----------------------------------------------------------------------------
(* Arrays. *)

New(size) == [i \in 1 .. size |-> Junk]

(* data after src has been stored from index `at` (from 0) on. *)
Stored(data, at, src) ==
  SubSeq(data, 1, at) \o src \o SubSeq(data, at + Len(src) + 1, Len(data))

-----------------------------------------------------------------------------
(* linked_list *)

(* Where a loop from node first on is after each of its rounds. *)
Walk(first, step, rounds) ==
  LET at[k \in 0 .. rounds] == IF k = 0 THEN first ELSE step[at[k - 1]]
  IN  at

(* The node that operator[] reaches after i steps. *)
At == Walk(linked.m_first, [n \in DOMAIN node |-> node[n].next], linked.m_size)

(* Where the loop of add stops: no way to the end has more steps than      *)
(* there are nodes.                                                        *)
LastNode ==
  LET step == [n \in DOMAIN node |->
                 IF node[n].next = NULL THEN n ELSE node[n].next]
      rounds == Cardinality(DOMAIN node)
  IN  Walk(linked.m_first, step, rounds)[rounds]

Elements == [i \in 1 .. linked.m_size |-> node[At[i - 1]].value]

(* The nodes with one more, which ends the list. *)
WithNode(nodes, n, v) ==
  [x \in DOMAIN nodes \cup {n} |->
     IF x = n THEN [value |-> v, next |-> NULL] ELSE nodes[x]]

linked_add(v) ==
  /\ v \notin Range(Elements)
  /\ \E n \in Node \ DOMAIN node :
       IF linked.m_first = NULL
         THEN /\ linked' = [linked EXCEPT !.m_first = n, !.m_size = @ + 1]
              /\ node' = WithNode(node, n, v)
         ELSE /\ linked' = [linked EXCEPT !.m_size = @ + 1]
              /\ node' = WithNode([node EXCEPT ![LastNode].next = n], n, v)
  /\ UNCHANGED <<array, input>>

(* The caller's index is legal. *)
linked_remove(i) ==
  /\ i < linked.m_size
  /\ IF i > 0
       THEN LET current == At[i - 1]
                next == node[node[current].next].next
            IN  /\ linked' = [linked EXCEPT !.m_size = @ - 1]
                /\ node' = [n \in DOMAIN node \ {node[current].next} |->
                              IF n = current THEN [node[n] EXCEPT !.next = next]
                                             ELSE node[n]]
       ELSE /\ linked' = [m_first |-> node[linked.m_first].next,
                          m_size |-> linked.m_size - 1]
            /\ node' = [n \in DOMAIN node \ {linked.m_first} |-> node[n]]
  /\ UNCHANGED <<array, input>>

-----------------------------------------------------------------------------
(* array_list *)

Slots == SubSeq(array.m_data, 1, array.m_size)

(* -1 when there is none. *)
find(v) ==
  LET places == {i \in 1 .. array.m_size : array.m_data[i] = v}
  IN  IF places = {} THEN -1 ELSE Min(places) - 1

contains(v) == v \in Range(Slots)

(* A new object, or the stack address the search of thread::thread has     *)
(* found free.                                                             *)
array_add(v) ==
  LET data == Stored(array.m_data, array.m_size, <<v>>)
      n == array.m_size + 1
  IN  /\ ~contains(v)
      /\ array' = IF n >= array.m_reserved
                    THEN [m_data |-> Stored(New(2 * array.m_reserved), 0,
                                            SubSeq(data, 1, n)),
                          m_reserved |-> 2 * array.m_reserved, m_size |-> n]
                    ELSE [array EXCEPT !.m_data = data, !.m_size = n]
      /\ UNCHANGED <<linked, node, input>>

(* Mutant: it is always the last element that goes. *)
array_remove_Last(index) ==
  /\ array' = IF index % SizeRange < array.m_size
                THEN [array EXCEPT !.m_size = @ - 1]
                ELSE array
  /\ UNCHANGED <<linked, node, input>>

(* remove fails silently: for find's -1, which has become SizeRange - 1. *)
array_remove(index) ==
  LET i == index % SizeRange
      rest == SubSeq(array.m_data, i + 2, array.m_size)
  IN  /\ array' = IF i < array.m_size
                    THEN [array EXCEPT !.m_data = Stored(@, i, rest),
                                       !.m_size = @ - 1]
                    ELSE array
      /\ UNCHANGED <<linked, node, input>>

-----------------------------------------------------------------------------
(* string *)

Text(s) == SubSeq(s.m_data, 1, s.m_length)

Empty == [m_length |-> 0, m_reserved |-> 1, m_data |-> <<NUL>>]

FromChar(c) == [m_length |-> 1, m_reserved |-> 2, m_data |-> <<c, NUL>>]

(* Mutant: no place is kept for the end of the string. *)
Plus_Full(s, p) ==
  LET n == s.m_length + p.m_length
      grown == IF n > s.m_reserved
                 THEN [s EXCEPT !.m_reserved = n * 2,
                                !.m_data = Stored(New(n * 2), 0, Text(s))]
                 ELSE s
  IN  [grown EXCEPT
         !.m_length = n,
         !.m_data = Stored(Stored(@, s.m_length, Text(p)), n, <<NUL>>)]

(* operator+= *)
Plus(s, p) ==
  LET n == s.m_length + p.m_length
      grown == IF n >= s.m_reserved
                 THEN [s EXCEPT !.m_reserved = n * 2,
                                !.m_data = Stored(New(n * 2), 0, Text(s))]
                 ELSE s
  IN  [grown EXCEPT
         !.m_length = n,
         !.m_data = Stored(Stored(@, s.m_length, Text(p)), n, <<NUL>>)]

(* The last character goes; the first one does, with the end moved up. *)
pop_char(s) ==
  [s EXCEPT !.m_length = @ - 1, !.m_data = Stored(@, s.m_length - 1, <<NUL>>)]

peek_char(s) ==
  [s EXCEPT !.m_length = @ - 1,
            !.m_data = Stored(@, 0, SubSeq(@, 2, s.m_length + 1))]

-----------------------------------------------------------------------------
(* The way of the characters. *)

(* Mutant: the line is taken from its end. *)
Moved_Reversed ==
  LET moved[k \in 0 .. line.m_length] ==
        IF k = 0 THEN <<line, m_input_buffer>>
        ELSE LET s == moved[k - 1]
             IN  <<pop_char(s[1]), Plus(s[2], FromChar(Last(Text(s[1]))))>>
  IN  moved[line.m_length]

(* The loop of keyboard_event: line and m_input_buffer when it ends. *)
Moved ==
  LET moved[k \in 0 .. line.m_length] ==
        IF k = 0 THEN <<line, m_input_buffer>>
        ELSE LET s == moved[k - 1]
             IN  <<peek_char(s[1]), Plus(s[2], FromChar(Text(s[1])[1]))>>
  IN  moved[line.m_length]

(* Characters go from buffer to the reader until one has none left. *)
flush_input_buffer(buffer, count, got) ==
  LET n == Min({buffer.m_length, count})
      flushed[k \in 0 .. n] ==
        IF k = 0 THEN <<buffer, got>>
        ELSE LET s == flushed[k - 1]
             IN  <<peek_char(s[1]), Append(s[2], Text(s[1])[1])>>
  IN  /\ m_input_buffer' = flushed[n][1]
      /\ received' = flushed[n][2]
      /\ m_sys_read_count' = count - n

sys_read(count) ==
  /\ flush_input_buffer(m_input_buffer, count, << >>)
  /\ UNCHANGED <<lists, line>>

KeyChar(c) ==
  /\ m_sys_read_count > 0
  /\ line.m_length < MaxLine
  /\ line' = Plus(line, FromChar(c))
  /\ UNCHANGED <<lists, m_input_buffer, m_sys_read_count, received>>

KeyBackspace ==
  /\ m_sys_read_count > 0
  /\ line.m_length > 0
  /\ line' = pop_char(line)
  /\ UNCHANGED <<lists, m_input_buffer, m_sys_read_count, received>>

KeyEnter ==
  /\ m_sys_read_count > 0
  /\ line' = Moved[1]
  /\ flush_input_buffer(Plus(Moved[2], FromChar(Newline)), m_sys_read_count,
                        received)
  /\ UNCHANGED lists

-----------------------------------------------------------------------------
Init ==
  /\ linked = [m_first |-> NULL, m_size |-> 0]
  /\ node = << >>
  /\ array = [m_data |-> New(1), m_reserved |-> 1, m_size |-> 0]
  /\ line = Empty
  /\ m_input_buffer = Empty
  /\ m_sys_read_count = 0
  /\ received = << >>

Next ==
  \/ \E v \in Value :
       \/ linked_add(v)
       \/ array_add(v)
       \/ array_remove(find(v))
  \/ \E i \in 0 .. linked.m_size : linked_remove(i)
  \/ \E i \in 0 .. array.m_size : array_remove(i)
  \/ \E count \in ReadSizes : sys_read(count)
  \/ \E c \in Char : KeyChar(c)
  \/ KeyBackspace
  \/ KeyEnter

Spec == Init /\ [][Next]_vars

-----------------------------------------------------------------------------
(* Properties. *)

(* Nothing is ever written outside an array: each keeps a slot free for    *)
(* the next element or for the end of the string, through every order of   *)
(* additions and removals that shrink and double it.  The nodes in use are *)
(* those the list leads to, and the last one ends it: none is lost, none   *)
(* is reached after it was deleted.                                        *)
MemoryIsSound ==
  /\ Len(array.m_data) = array.m_reserved /\ array.m_size < array.m_reserved
  /\ \A s \in {line, m_input_buffer} :
       /\ Len(s.m_data) = s.m_reserved /\ s.m_length < s.m_reserved
       /\ s.m_data[s.m_length + 1] = NUL
       /\ Range(Text(s)) \subseteq Char \cup {Newline}
  /\ DOMAIN node = {At[i] : i \in 0 .. linked.m_size - 1}
  /\ At[linked.m_size] = NULL

(* Both lists keep what was added in its order, through every addition,    *)
(* doubling and removal, and each call does what List says of it: what add *)
(* is given comes last, remove takes the element at the index it is given, *)
(* or none when the index is past the end, and remove(find(v)) takes v, or *)
(* none when -1 is what find returns.  A size is one that a size_t holds.  *)
LinkedList == INSTANCE List WITH list <- Elements
ArrayList == INSTANCE List WITH list <- Slots

CallsAreKept ==
  /\ \A v \in Value :
       /\ linked_add(v) => LinkedList!Add(v)
       /\ array_add(v) => ArrayList!Add(v)
       /\ array.m_size < SizeRange /\ array_remove(find(v)) =>
            ArrayList!RemoveFound(v)
  /\ \A i \in 0 .. linked.m_size : linked_remove(i) => LinkedList!RemoveIndex(i)
  /\ \A i \in 0 .. array.m_size :
       array.m_size < SizeRange /\ array_remove(i) => ArrayList!RemoveIndex(i)

RefinesLists == LinkedList!Spec /\ ArrayList!Spec /\ [][CallsAreKept]_vars

(* What is typed, edited and entered reaches the reader in order and once, *)
(* however many reads it is cut into, see InputStream.                     *)
Stream == INSTANCE InputStream
            WITH typed <- Text(m_input_buffer) \o Text(line),
                 entered <- m_input_buffer.m_length,
                 wanted <- m_sys_read_count
RefinesStream == Stream!Spec

=============================================================================
