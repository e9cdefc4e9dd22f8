-------------------------- MODULE ContainersProofs --------------------------
(***************************************************************************)
(* Theorems about Containers for any values, nodes and characters, lists   *)
(* and lines of any length and reads of any size.                          *)
(***************************************************************************)
EXTENDS Containers, SequenceTheorems, FiniteSetTheorems,
        WellFoundedInduction, TLAPS

-----------------------------------------------------------------------------
(* The invariant. *)

Letter == Char \cup {Newline}
Cell == Letter \cup {NUL, Junk}

(* A string with a place left for its end. *)
Sound(s) ==
  /\ s \in [m_length : Nat, m_reserved : Nat, m_data : Seq(Cell)]
  /\ Len(s.m_data) = s.m_reserved /\ s.m_length < s.m_reserved
  /\ s.m_data[s.m_length + 1] = NUL
  /\ Text(s) \in Seq(Letter)

InputInv ==
  /\ Sound(line) /\ Sound(m_input_buffer)
  /\ m_sys_read_count \in Nat
  /\ received \in Seq(Letter)

(* An array with a place left for the next element. *)
ArrayInv ==
  /\ array \in [m_data : Seq(Value \cup {Junk}), m_reserved : Nat, m_size : Nat]
  /\ Len(array.m_data) = array.m_reserved /\ array.m_size < array.m_reserved
  /\ Slots \in Seq(Value)

(* The nodes hang together in the order of w. *)
Chain(w, first, nodes) ==
  /\ \A i, j \in 1 .. Len(w) : w[i] = w[j] => i = j
  /\ DOMAIN nodes = {w[i] : i \in 1 .. Len(w)}
  /\ first = IF Len(w) = 0 THEN NULL ELSE w[1]
  /\ \A i \in 1 .. Len(w) :
       nodes[w[i]].next = IF i = Len(w) THEN NULL ELSE w[i + 1]

LinkedInv ==
  /\ linked \in [m_first : Node \cup {NULL}, m_size : Nat]
  /\ node \in [DOMAIN node -> [value : Value, next : Node \cup {NULL}]]
  /\ \E w \in Seq(Node) : Len(w) = linked.m_size /\ Chain(w, linked.m_first, node)

IInv == InputInv /\ ArrayInv /\ LinkedInv

-----------------------------------------------------------------------------
(* Numbers and sequences. *)

(* A set of naturals that is not empty has a least element, and Min is it. *)
LEMMA MinOfNat ==
  ASSUME NEW S, S \subseteq Nat, S # {}
  PROVE  Min(S) \in S /\ \A y \in S : Min(S) <= y
<1>1. PICK x \in S : \A y \in S : ~ (<<y, x>> \in OpToRel(<, Nat))
  BY WFMin, NatLessThanWellFounded
<1>2. \A y \in S : x <= y
  <2> SUFFICES ASSUME NEW y \in S PROVE x <= y
    OBVIOUS
  <2>1. <<y, x>> \notin OpToRel(<, Nat)
    BY <1>1
  <2>2. ~ (y < x)
    BY <2>1 DEF OpToRel
  <2> QED BY <2>2
<1> QED BY <1>2 DEF Min

(* The smaller of two. *)
LEMMA MinOfTwo ==
  ASSUME NEW a \in Nat, NEW b \in Nat
  PROVE  Min({a, b}) = IF a <= b THEN a ELSE b
<1>1. Min({a, b}) \in {a, b} /\ \A y \in {a, b} : Min({a, b}) <= y
  BY MinOfNat
<1> QED BY <1>1

(* linked_list::remove and array_list::remove: the elements after position *)
(* i move up by one.                                                       *)
LEMMA RemoveAtProperties ==
  ASSUME NEW S, NEW s \in Seq(S), NEW i \in 1 .. Len(s)
  PROVE  /\ RemoveAt(s, i) \in Seq(S)
         /\ Len(RemoveAt(s, i)) = Len(s) - 1
         /\ \A j \in 1 .. Len(s) - 1 :
              RemoveAt(s, i)[j] = IF j < i THEN s[j] ELSE s[j + 1]
<1> DEFINE a == SubSeq(s, 1, i - 1)
           b == SubSeq(s, i + 1, Len(s))
<1>1. Len(s) \in Nat
  OBVIOUS
<1>2. /\ a \in Seq(S)
      /\ Len(a) = i - 1
      /\ \A j \in 1 .. i - 1 : a[j] = s[j]
  <2>1. \A j \in 1 .. i - 1 : s[j] \in S
    BY <1>1
  <2> QED BY <1>1, <2>1, SubSeqProperties
<1>3. /\ b \in Seq(S)
      /\ Len(b) = Len(s) - i
      /\ \A j \in 1 .. Len(s) - i : b[j] = s[j + i]
  <2>1. \A j \in i + 1 .. Len(s) : s[j] \in S
    BY <1>1
  <2> QED BY <1>1, <2>1, SubSeqProperties
<1> HIDE DEF a, b
<1>4. /\ a \o b \in Seq(S)
      /\ Len(a \o b) = Len(s) - 1
      /\ \A j \in 1 .. Len(s) - 1 :
           (a \o b)[j] = IF j < i THEN s[j] ELSE s[j + 1]
  <2>1. /\ a \o b \in Seq(S)
        /\ Len(a \o b) = Len(a) + Len(b)
        /\ \A j \in 1 .. Len(a) + Len(b) :
             (a \o b)[j] = IF j <= Len(a) THEN a[j] ELSE b[j - Len(a)]
    BY <1>2, <1>3, ConcatProperties
  <2>2. Len(a) + Len(b) = Len(s) - 1
    BY <1>1, <1>2, <1>3
  <2>3. ASSUME NEW j \in 1 .. Len(s) - 1
        PROVE  (a \o b)[j] = IF j < i THEN s[j] ELSE s[j + 1]
    <3>1. CASE j < i
      <4>1. j \in 1 .. i - 1
        BY <1>1, <3>1
      <4> QED BY <1>2, <2>1, <2>2, <3>1, <4>1
    <3>2. CASE ~ (j < i)
      <4>1. j - (i - 1) \in 1 .. Len(s) - i /\ ~ (j <= i - 1)
        BY <1>1, <3>2
      <4>2. b[j - (i - 1)] = s[j - (i - 1) + i]
        BY <1>3, <4>1
      <4>3. j - (i - 1) + i = j + 1
        BY <1>1
      <4> QED BY <1>2, <2>1, <2>2, <3>2, <4>1, <4>2, <4>3
    <3> QED BY <3>1, <3>2
  <2> QED BY <2>1, <2>2, <2>3
<1> QED BY <1>4 DEF a, b, RemoveAt

(* The part of a sequence between two places of it. *)
LEMMA Part ==
  ASSUME NEW S, NEW s \in Seq(S), NEW m \in Nat \ {0}, NEW n \in Nat, n <= Len(s), m <= n + 1
  PROVE  /\ SubSeq(s, m, n) \in Seq(S) /\ Len(SubSeq(s, m, n)) = n - m + 1
         /\ \A i \in 1 .. n - m + 1 : SubSeq(s, m, n)[i] = s[m + i - 1]
<1>1. Len(s) \in Nat /\ \A i \in m .. n : i \in 1 .. Len(s)
  BY LenProperties
<1>2. \A i \in m .. n : s[i] \in S
  BY <1>1, ElementOfSeq
<1>3. /\ SubSeq(s, m, n) \in Seq(S)
      /\ Len(SubSeq(s, m, n)) = IF m <= n THEN n - m + 1 ELSE 0
      /\ \A i \in 1 .. n - m + 1 : SubSeq(s, m, n)[i] = s[m + i - 1]
  BY <1>2, SubSeqProperties
<1> QED BY <1>1, <1>3

(* One sequence after the other; it has a name because the provers rewrite *)
(* \o before they use a fact about it.                                     *)
Joined(s, t) == s \o t

LEMMA JoinedGives ==
  ASSUME NEW S, NEW s \in Seq(S), NEW t \in Seq(S)
  PROVE  /\ Joined(s, t) \in Seq(S) /\ Len(Joined(s, t)) = Len(s) + Len(t)
         /\ \A i \in 1 .. Len(s) + Len(t) :
              /\ i <= Len(s) => Joined(s, t)[i] = s[i]
              /\ i > Len(s) => Joined(s, t)[i] = t[i - Len(s)]
<1>1. Len(s) \in Nat /\ Len(t) \in Nat
  BY LenProperties
<1> QED BY <1>1, ConcatProperties DEF Joined

(* A sequence of one element. *)
One(e) == <<e>>

LEMMA OneIs == \A S : \A e \in S : One(e) \in Seq(S) /\ Len(One(e)) = 1 /\ One(e)[1] = e
BY DEF One

(* data after src has been stored from index at on. *)
LEMMA StoredGives ==
  ASSUME NEW S, NEW data \in Seq(S), NEW src \in Seq(S), NEW at \in Nat,
         at + Len(src) <= Len(data)
  PROVE  /\ Stored(data, at, src) \in Seq(S) /\ Len(Stored(data, at, src)) = Len(data)
         /\ \A i \in 1 .. Len(data) :
              Stored(data, at, src)[i] =
                IF i <= at \/ i > at + Len(src) THEN data[i] ELSE src[i - at]
<1> DEFINE left == SubSeq(data, 1, at)
           both == Joined(left, src)
           n == at + Len(src) + 1
           right == SubSeq(data, n, Len(data))
           all == Joined(both, right)
<1>1. Len(src) \in Nat /\ Len(data) \in Nat
  BY LenProperties
<1>2. /\ left \in Seq(S) /\ Len(left) = at
      /\ \A i \in 1 .. at : left[i] = data[i]
  BY <1>1, Part, 1 \in Nat \ {0}
<1>3. /\ right \in Seq(S) /\ Len(right) = Len(data) - (at + Len(src))
      /\ \A i \in 1 .. Len(data) - (at + Len(src)) : right[i] = data[at + Len(src) + i]
  <2>1. n \in Nat \ {0} /\ n <= Len(data) + 1 /\ Len(data) <= Len(data)
    BY <1>1
  <2>2. /\ right \in Seq(S) /\ Len(right) = Len(data) - n + 1
        /\ \A i \in 1 .. Len(data) - n + 1 : right[i] = data[n + i - 1]
    BY <1>1, <2>1, Part
  <2> HIDE DEF right
  <2> QED BY <1>1, <2>2
<1> HIDE DEF left, right
<1>4. /\ both \in Seq(S) /\ Len(both) = at + Len(src)
      /\ \A i \in 1 .. at + Len(src) : both[i] = IF i <= at THEN data[i] ELSE src[i - at]
  <2>1. /\ both \in Seq(S) /\ Len(both) = Len(left) + Len(src)
        /\ \A i \in 1 .. Len(left) + Len(src) :
             /\ i <= Len(left) => both[i] = left[i]
             /\ i > Len(left) => both[i] = src[i - Len(left)]
    <3>1. left \in Seq(S)
      BY <1>2
    <3> QED BY <3>1, JoinedGives
  <2> HIDE DEF both
  <2> QED BY <1>1, <1>2, <2>1
<1> HIDE DEF both
<1>5. /\ all \in Seq(S) /\ Len(all) = Len(data)
      /\ \A i \in 1 .. Len(data) :
           all[i] = IF i <= at + Len(src) THEN both[i] ELSE right[i - (at + Len(src))]
  <2>1. /\ all \in Seq(S) /\ Len(all) = Len(both) + Len(right)
        /\ \A i \in 1 .. Len(both) + Len(right) :
             /\ i <= Len(both) => all[i] = both[i]
             /\ i > Len(both) => all[i] = right[i - Len(both)]
    <3>1. both \in Seq(S)
      BY <1>4
    <3>2. right \in Seq(S)
      BY <1>3
    <3> HIDE DEF n
    <3> QED BY <3>1, <3>2, JoinedGives
  <2> HIDE DEF all
  <2>2. Len(both) + Len(right) = Len(data)
    BY <1>1, <1>3, <1>4
  <2> QED BY <1>1, <1>4, <2>1, <2>2
<1>6. Stored(data, at, src) = all
  BY DEF Stored, Joined, all, both, left, right
<1> HIDE DEF all
<1>7. ASSUME NEW i \in 1 .. Len(data)
      PROVE  all[i] = IF i <= at \/ i > at + Len(src) THEN data[i] ELSE src[i - at]
  <2> DEFINE j == i - (at + Len(src))
  <2>1. CASE i <= at + Len(src)
    <3>1. i \in 1 .. at + Len(src) /\ ~ (i > at + Len(src))
      BY <1>1, <2>1
    <3> QED BY <1>4, <1>5, <3>1
  <2>2. CASE i > at + Len(src)
    <3>1. /\ j \in 1 .. Len(data) - (at + Len(src)) /\ at + Len(src) + j = i
          /\ ~ (i <= at + Len(src))
      BY <1>1, <2>2
    <3>2. right[j] = data[i]
      BY <1>3, <3>1
    <3>3. all[i] = right[j]
      BY <1>5, <3>1
    <3> QED BY <2>2, <3>2, <3>3
  <2> QED BY <1>1, <2>1, <2>2
<1> QED BY <1>5, <1>6, <1>7

LEMMA NewGives ==
  ASSUME NEW n \in Nat, NEW S, Junk \in S
  PROVE  New(n) \in Seq(S) /\ Len(New(n)) = n
<1>1. New(n) \in [1 .. n -> S]
  BY DEF New
<1> QED BY <1>1

-----------------------------------------------------------------------------
(* Strings. *)

(* What is stored behind the last character. *)
End == <<NUL>>

LEMMA EndIs == End \in Seq(Cell) /\ Len(End) = 1 /\ End[1] = NUL
BY DEF End, Cell

LEMMA TextIs ==
  ASSUME NEW s, Sound(s)
  PROVE  /\ s.m_length \in Nat /\ s.m_reserved \in Nat /\ s.m_data \in Seq(Cell)
         /\ Len(s.m_data) = s.m_reserved /\ s.m_length < s.m_reserved
         /\ s.m_data[s.m_length + 1] = NUL
         /\ Text(s) \in Seq(Letter) /\ Len(Text(s)) = s.m_length
         /\ \A i \in 1 .. s.m_length : Text(s)[i] = s.m_data[i]
<1>1. /\ s.m_length \in Nat /\ s.m_reserved \in Nat /\ s.m_data \in Seq(Cell)
      /\ Len(s.m_data) = s.m_reserved /\ s.m_length < s.m_reserved
      /\ s.m_data[s.m_length + 1] = NUL
      /\ Text(s) \in Seq(Letter)
  BY DEF Sound
<1>2. /\ Len(SubSeq(s.m_data, 1, s.m_length)) = s.m_length - 1 + 1
      /\ \A i \in 1 .. s.m_length - 1 + 1 :
           SubSeq(s.m_data, 1, s.m_length)[i] = s.m_data[1 + i - 1]
  BY <1>1, Part, 1 \in Nat \ {0}
<1> QED BY <1>1, <1>2 DEF Text

(* A string is what its memory says. *)
Holds(s, text) ==
  /\ s \in [m_length : Nat, m_reserved : Nat, m_data : Seq(Cell)]
  /\ Len(s.m_data) = s.m_reserved /\ s.m_length < s.m_reserved
  /\ s.m_data[s.m_length + 1] = NUL
  /\ text \in Seq(Letter) /\ Len(text) = s.m_length
  /\ \A i \in 1 .. s.m_length : s.m_data[i] = text[i]

LEMMA IsSound ==
  ASSUME NEW s, NEW text, Holds(s, text)
  PROVE  Sound(s) /\ Text(s) = text
<1>1. /\ s \in [m_length : Nat, m_reserved : Nat, m_data : Seq(Cell)]
      /\ s.m_length \in Nat /\ s.m_data \in Seq(Cell)
      /\ Len(s.m_data) = s.m_reserved /\ s.m_length < s.m_reserved
      /\ s.m_data[s.m_length + 1] = NUL
      /\ text \in Seq(Letter) /\ Len(text) = s.m_length
      /\ \A i \in 1 .. s.m_length : s.m_data[i] = text[i]
  BY DEF Holds
<1>2. /\ Text(s) \in Seq(Cell) /\ Len(Text(s)) = s.m_length
      /\ \A i \in 1 .. s.m_length : Text(s)[i] = s.m_data[i]
  <2>1. /\ SubSeq(s.m_data, 1, s.m_length) \in Seq(Cell)
        /\ Len(SubSeq(s.m_data, 1, s.m_length)) = s.m_length - 1 + 1
        /\ \A i \in 1 .. s.m_length - 1 + 1 :
             SubSeq(s.m_data, 1, s.m_length)[i] = s.m_data[1 + i - 1]
    BY <1>1, Part, 1 \in Nat \ {0}
  <2> QED BY <1>1, <2>1 DEF Text
<1>3. text \in Seq(Cell)
  BY <1>1, SeqMonotonic DEF Cell
<1>4. Text(s) = text
  BY <1>1, <1>2, <1>3, SeqEqual
<1> QED BY <1>1, <1>4 DEF Sound

LEMMA EmptyGives ==
  Sound(Empty) /\ Text(Empty) = << >> /\ Empty.m_length = 0
<1>1. <<NUL>> \in Seq(Cell) /\ Len(<<NUL>>) = 1 /\ <<NUL>>[1] = NUL
  BY DEF Cell
<1>2. << >> \in Seq(Letter) /\ Len(<< >>) = 0
  OBVIOUS
<1>3. /\ Empty \in [m_length : Nat, m_reserved : Nat, m_data : Seq(Cell)]
      /\ Empty.m_length = 0 /\ Empty.m_reserved = 1 /\ Empty.m_data = <<NUL>>
  BY <1>1 DEF Empty
<1>4. \A i \in 1 .. Empty.m_length : Empty.m_data[i] = << >>[i]
  BY <1>3
<1>5. Holds(Empty, << >>)
  BY <1>1, <1>2, <1>3, <1>4 DEF Holds
<1> QED BY <1>3, <1>5, IsSound

LEMMA FromCharGives ==
  ASSUME NEW c \in Letter
  PROVE  /\ Sound(FromChar(c)) /\ Text(FromChar(c)) = One(c)
         /\ FromChar(c).m_length = 1
<1>1. /\ <<c, NUL>> \in Seq(Cell) /\ Len(<<c, NUL>>) = 2
      /\ <<c, NUL>>[1] = c /\ <<c, NUL>>[2] = NUL
  BY DEF Cell
<1>2. One(c) \in Seq(Letter) /\ Len(One(c)) = 1 /\ One(c)[1] = c
  BY OneIs
<1>3. /\ FromChar(c) \in [m_length : Nat, m_reserved : Nat, m_data : Seq(Cell)]
      /\ FromChar(c).m_length = 1 /\ FromChar(c).m_reserved = 2
      /\ FromChar(c).m_data = <<c, NUL>>
  BY <1>1 DEF FromChar
<1>4. \A i \in 1 .. FromChar(c).m_length : FromChar(c).m_data[i] = One(c)[i]
  BY <1>1, <1>2, <1>3
<1>5. FromChar(c).m_data[FromChar(c).m_length + 1] = NUL
  BY <1>1, <1>3
<1>6. Holds(FromChar(c), One(c))
  BY <1>1, <1>2, <1>3, <1>4, <1>5 DEF Holds
<1> QED BY <1>3, <1>6, IsSound

(* operator+= appends. *)
LEMMA PlusGives ==
  ASSUME NEW s, NEW p, Sound(s), Sound(p)
  PROVE  /\ Sound(Plus(s, p)) /\ Text(Plus(s, p)) = Joined(Text(s), Text(p))
         /\ Plus(s, p).m_length = s.m_length + p.m_length
<1> DEFINE n == s.m_length + p.m_length
           full == n >= s.m_reserved
           reserved == IF full THEN n * 2 ELSE s.m_reserved
           room == IF full THEN Stored(New(n * 2), 0, Text(s)) ELSE s.m_data
           with == Stored(room, s.m_length, Text(p))
           data == Stored(with, n, End)
           text == Joined(Text(s), Text(p))
           r == Plus(s, p)
<1>1. /\ s.m_length \in Nat /\ s.m_reserved \in Nat /\ s.m_data \in Seq(Cell)
      /\ Len(s.m_data) = s.m_reserved /\ s.m_length < s.m_reserved
      /\ p.m_length \in Nat /\ n \in Nat
      /\ Text(s) \in Seq(Letter) /\ Len(Text(s)) = s.m_length
      /\ Text(p) \in Seq(Letter) /\ Len(Text(p)) = p.m_length
      /\ \A i \in 1 .. s.m_length : Text(s)[i] = s.m_data[i]
  <2>1. /\ s.m_length \in Nat /\ s.m_reserved \in Nat /\ s.m_data \in Seq(Cell)
        /\ Len(s.m_data) = s.m_reserved /\ s.m_length < s.m_reserved
        /\ Text(s) \in Seq(Letter) /\ Len(Text(s)) = s.m_length
        /\ \A i \in 1 .. s.m_length : Text(s)[i] = s.m_data[i]
    BY TextIs
  <2>2. /\ p.m_length \in Nat
        /\ Text(p) \in Seq(Letter) /\ Len(Text(p)) = p.m_length
    BY TextIs
  <2> QED BY <2>1, <2>2
<1>2. Text(s) \in Seq(Cell) /\ Text(p) \in Seq(Cell)
  BY <1>1, SeqMonotonic DEF Cell
<1>4. reserved \in Nat /\ n < reserved
  BY <1>1
<1>5. /\ room \in Seq(Cell) /\ Len(room) = reserved
      /\ \A i \in 1 .. s.m_length : room[i] = Text(s)[i]
  <2>1. CASE full
    <3> DEFINE more == n * 2
               fresh == New(more)
               copy == Stored(fresh, 0, Text(s))
    <3>1. more \in Nat /\ s.m_length <= more
      BY <1>1
    <3>2. room = copy /\ reserved = more
      BY <2>1
    <3> HIDE DEF more, reserved, room
    <3>3. fresh \in Seq(Cell) /\ Len(fresh) = more
      BY <3>1, NewGives DEF Cell
    <3> HIDE DEF fresh
    <3>4. Text(s) \in Seq(Cell) /\ 0 + Len(Text(s)) <= Len(fresh)
      BY <1>1, <1>2, <3>1, <3>3
    <3>5. /\ copy \in Seq(Cell) /\ Len(copy) = Len(fresh)
          /\ \A i \in 1 .. Len(fresh) : copy[i] =
               IF i <= 0 \/ i > 0 + Len(Text(s)) THEN fresh[i] ELSE Text(s)[i - 0]
      BY <3>3, <3>4, StoredGives, 0 \in Nat
    <3> HIDE DEF copy
    <3>6. ASSUME NEW i \in 1 .. s.m_length PROVE copy[i] = Text(s)[i]
      <4>1. /\ i \in 1 .. Len(fresh) /\ ~ (i <= 0) /\ ~ (i > 0 + Len(Text(s)))
            /\ i - 0 = i
        BY <1>1, <3>1, <3>3
      <4> QED BY <3>5, <4>1
    <3> QED BY <3>2, <3>3, <3>5, <3>6
  <2>2. CASE ~ full
    BY <1>1, <2>2
  <2> QED BY <2>1, <2>2
<1> DEFINE grown == IF full
                      THEN [s EXCEPT !.m_reserved = n * 2,
                                     !.m_data = Stored(New(n * 2), 0, Text(s))]
                      ELSE s
<1>3. /\ grown \in [m_length : Nat, m_reserved : Nat, m_data : Seq(Cell)]
      /\ grown.m_length = s.m_length /\ grown.m_reserved = reserved /\ grown.m_data = room
  <2>1. s \in [m_length : Nat, m_reserved : Nat, m_data : Seq(Cell)]
    BY DEF Sound
  <2>2. CASE full
    BY <1>4, <1>5, <2>1, <2>2
  <2>3. CASE ~ full
    BY <2>1, <2>3
  <2> QED BY <2>2, <2>3
<1>a. r = [grown EXCEPT !.m_length = n, !.m_data = Stored(Stored(@, s.m_length, Text(p)), n, End)]
  BY DEF Plus, End
<1>b. r = [grown EXCEPT !.m_length = n, !.m_data = data]
  <2> HIDE DEF grown, r, room
  <2> QED BY <1>3, <1>a
<1> HIDE DEF r, grown, room, reserved, full
<1>6. /\ with \in Seq(Cell) /\ Len(with) = reserved
      /\ \A i \in 1 .. reserved :
           with[i] = IF i <= s.m_length \/ i > n THEN room[i] ELSE Text(p)[i - s.m_length]
  <2>1. /\ s.m_length + Len(Text(p)) <= Len(room) /\ s.m_length \in Nat
        /\ room \in Seq(Cell) /\ Text(p) \in Seq(Cell)
    BY <1>1, <1>2, <1>4, <1>5
  <2>2. /\ with \in Seq(Cell) /\ Len(with) = Len(room)
        /\ \A i \in 1 .. Len(room) :
             with[i] = IF i <= s.m_length \/ i > s.m_length + Len(Text(p))
                         THEN room[i] ELSE Text(p)[i - s.m_length]
    BY <2>1, StoredGives
  <2> HIDE DEF with
  <2> QED BY <1>1, <1>5, <2>2
<1> HIDE DEF with
<1>7. /\ data \in Seq(Cell) /\ Len(data) = reserved
      /\ \A i \in 1 .. reserved : data[i] = IF i <= n \/ i > n + 1 THEN with[i] ELSE NUL
  <2>2. n + Len(End) <= Len(with) /\ with \in Seq(Cell) /\ n \in Nat
    BY <1>1, <1>4, <1>6, EndIs
  <2>3. /\ data \in Seq(Cell) /\ Len(data) = Len(with)
        /\ \A i \in 1 .. Len(with) : data[i] =
             IF i <= n \/ i > n + Len(End) THEN with[i] ELSE End[i - n]
    <3>1. End \in Seq(Cell)
      BY EndIs
    <3>2. with \in Seq(Cell)
      BY <2>2
    <3> HIDE DEF n
    <3> QED BY <2>2, <3>1, <3>2, StoredGives
  <2> HIDE DEF data, n
  <2>4. \A i \in 1 .. reserved : ~ (i <= n \/ i > n + 1) => i - n = 1
    BY <1>1, <1>4
  <2> QED BY <1>6, <2>3, <2>4, EndIs
<1> HIDE DEF data
<1>8. /\ text \in Seq(Letter) /\ Len(text) = n
      /\ \A i \in 1 .. n : text[i] =
           IF i <= s.m_length THEN Text(s)[i] ELSE Text(p)[i - s.m_length]
  <2>1. Text(s) \in Seq(Letter)
    BY <1>1
  <2>2. Text(p) \in Seq(Letter)
    BY <1>1
  <2>3. /\ text \in Seq(Letter) /\ Len(text) = Len(Text(s)) + Len(Text(p))
        /\ \A i \in 1 .. Len(Text(s)) + Len(Text(p)) :
             /\ i <= Len(Text(s)) => text[i] = Text(s)[i]
             /\ i > Len(Text(s)) => text[i] = Text(p)[i - Len(Text(s))]
    BY <2>1, <2>2, JoinedGives
  <2> HIDE DEF text
  <2> QED BY <1>1, <2>3
<1> HIDE DEF text
<1>9. data[n + 1] = NUL
  BY <1>1, <1>4, <1>7, SMTT(40)
<1>10. \A i \in 1 .. n : data[i] = text[i]
  <2> SUFFICES ASSUME NEW i \in 1 .. n PROVE data[i] = text[i]
    OBVIOUS
  <2>1. i \in 1 .. reserved /\ ~ (i > n) /\ i <= n
    BY <1>1, <1>4
  <2>2. data[i] = with[i]
    BY <1>7, <2>1
  <2>3. with[i] = IF i <= s.m_length THEN room[i] ELSE Text(p)[i - s.m_length]
    BY <1>6, <2>1
  <2>4. i <= s.m_length => room[i] = Text(s)[i]
    BY <1>1, <1>5
  <2> QED BY <1>8, <2>2, <2>3, <2>4
<1>11. /\ r \in [m_length : Nat, m_reserved : Nat, m_data : Seq(Cell)]
       /\ r.m_length = n /\ r.m_reserved = reserved /\ r.m_data = data
  BY <1>1, <1>3, <1>4, <1>7, <1>b
<1>12. Holds(r, text)
  BY <1>4, <1>7, <1>8, <1>9, <1>10, <1>11 DEF Holds
<1>13. Sound(r) /\ Text(r) = text
  BY <1>12, IsSound
<1> QED BY <1>11, <1>13 DEF r, text

(* pop_char takes the last character, peek_char the first. *)
LEMMA PopGives ==
  ASSUME NEW s, Sound(s), s.m_length > 0
  PROVE  /\ Sound(pop_char(s)) /\ pop_char(s).m_length = s.m_length - 1
         /\ Text(pop_char(s)) = SubSeq(Text(s), 1, s.m_length - 1)
<1> DEFINE n == s.m_length - 1
           data == Stored(s.m_data, n, End)
           text == SubSeq(Text(s), 1, n)
           r == pop_char(s)
<1>1. /\ s.m_length \in Nat /\ s.m_reserved \in Nat /\ s.m_data \in Seq(Cell)
      /\ Len(s.m_data) = s.m_reserved /\ s.m_length < s.m_reserved
      /\ n \in Nat
      /\ Text(s) \in Seq(Letter) /\ Len(Text(s)) = s.m_length
      /\ \A i \in 1 .. s.m_length : Text(s)[i] = s.m_data[i]
  BY TextIs
<1>2. /\ s \in [m_length : Nat, m_reserved : Nat, m_data : Seq(Cell)]
      /\ r = [s EXCEPT !.m_length = n, !.m_data = data]
  <2>1. s \in [m_length : Nat, m_reserved : Nat, m_data : Seq(Cell)]
    BY DEF Sound
  <2>2. r = [s EXCEPT !.m_length = @ - 1, !.m_data = Stored(@, n, End)]
    BY DEF pop_char, End
  <2> HIDE DEF r
  <2> QED BY <2>1, <2>2
<1>3. /\ data \in Seq(Cell) /\ Len(data) = s.m_reserved
      /\ \A i \in 1 .. s.m_reserved :
           data[i] = IF i <= n \/ i > n + 1 THEN s.m_data[i] ELSE NUL
  <2>2. n + Len(End) <= Len(s.m_data) /\ n \in Nat /\ s.m_data \in Seq(Cell)
    BY <1>1, EndIs
  <2>3. /\ data \in Seq(Cell) /\ Len(data) = Len(s.m_data)
        /\ \A i \in 1 .. Len(s.m_data) : data[i] =
             IF i <= n \/ i > n + Len(End) THEN s.m_data[i] ELSE End[i - n]
    <3>1. End \in Seq(Cell)
      BY EndIs
    <3>2. s.m_data \in Seq(Cell)
      BY <2>2
    <3> HIDE DEF n
    <3> QED BY <2>2, <3>1, <3>2, StoredGives
  <2> HIDE DEF data, n
  <2>4. \A i \in 1 .. s.m_reserved : ~ (i <= n \/ i > n + 1) => i - n = 1
    BY <1>1
  <2> QED BY <1>1, <2>3, <2>4, EndIs
<1>4. /\ text \in Seq(Letter) /\ Len(text) = n
      /\ \A i \in 1 .. n : text[i] = Text(s)[i]
  <2>1. /\ text \in Seq(Letter) /\ Len(text) = n - 1 + 1
        /\ \A i \in 1 .. n - 1 + 1 : text[i] = Text(s)[1 + i - 1]
    BY <1>1, Part, 1 \in Nat \ {0}
  <2> HIDE DEF text
  <2> QED BY <1>1, <2>1
<1> HIDE DEF r, data, text
<1>5. data[n + 1] = NUL
  <2>1. n + 1 \in 1 .. s.m_reserved /\ ~ (n + 1 <= n) /\ ~ (n + 1 > n + 1)
    BY <1>1
  <2> QED BY <1>3, <2>1
<1>6. \A i \in 1 .. n : data[i] = text[i]
  <2> SUFFICES ASSUME NEW i \in 1 .. n PROVE data[i] = text[i]
    OBVIOUS
  <2>1. i \in 1 .. s.m_reserved /\ i <= n /\ i \in 1 .. s.m_length
    BY <1>1
  <2>2. data[i] = s.m_data[i]
    BY <1>3, <2>1
  <2>3. text[i] = Text(s)[i] /\ Text(s)[i] = s.m_data[i]
    BY <1>1, <1>4, <2>1
  <2> QED BY <2>2, <2>3
<1>7. /\ r \in [m_length : Nat, m_reserved : Nat, m_data : Seq(Cell)]
      /\ r.m_length = n /\ r.m_reserved = s.m_reserved /\ r.m_data = data
  BY <1>1, <1>2, <1>3
<1>8. Holds(r, text)
  BY <1>1, <1>3, <1>4, <1>5, <1>6, <1>7 DEF Holds
<1>9. Sound(r) /\ Text(r) = text
  BY <1>8, IsSound
<1> QED BY <1>7, <1>9 DEF r, text

LEMMA PeekGives ==
  ASSUME NEW s, Sound(s), s.m_length > 0
  PROVE  /\ Sound(peek_char(s)) /\ peek_char(s).m_length = s.m_length - 1
         /\ Text(peek_char(s)) = SubSeq(Text(s), 2, s.m_length)
<1> DEFINE n == s.m_length - 1
           rest == SubSeq(s.m_data, 2, s.m_length + 1)
           data == Stored(s.m_data, 0, rest)
           text == SubSeq(Text(s), 2, s.m_length)
           r == peek_char(s)
<1>1. /\ s.m_length \in Nat /\ s.m_reserved \in Nat /\ s.m_data \in Seq(Cell)
      /\ Len(s.m_data) = s.m_reserved /\ s.m_length < s.m_reserved
      /\ n \in Nat /\ s.m_data[s.m_length + 1] = NUL
      /\ Text(s) \in Seq(Letter) /\ Len(Text(s)) = s.m_length
      /\ \A i \in 1 .. s.m_length : Text(s)[i] = s.m_data[i]
  BY TextIs
<1>2. /\ s \in [m_length : Nat, m_reserved : Nat, m_data : Seq(Cell)]
      /\ r = [s EXCEPT !.m_length = n, !.m_data = data]
  <2>1. s \in [m_length : Nat, m_reserved : Nat, m_data : Seq(Cell)]
    BY DEF Sound
  <2>2. r = [s EXCEPT !.m_length = @ - 1,
                      !.m_data = Stored(@, 0, SubSeq(@, 2, s.m_length + 1))]
    BY DEF peek_char
  <2> HIDE DEF r
  <2> QED BY <2>1, <2>2
<1>3. /\ rest \in Seq(Cell) /\ Len(rest) = s.m_length
      /\ \A i \in 1 .. s.m_length : rest[i] = s.m_data[i + 1]
  <2>1. /\ rest \in Seq(Cell) /\ Len(rest) = s.m_length + 1 - 2 + 1
        /\ \A i \in 1 .. s.m_length + 1 - 2 + 1 : rest[i] = s.m_data[2 + i - 1]
    BY <1>1, Part, 2 \in Nat \ {0}
  <2> HIDE DEF rest
  <2> QED BY <1>1, <2>1
<1> HIDE DEF r, rest
<1>4. /\ data \in Seq(Cell) /\ Len(data) = s.m_reserved
      /\ \A i \in 1 .. s.m_length : data[i] = rest[i]
  <2>1. /\ data \in Seq(Cell) /\ Len(data) = Len(s.m_data)
        /\ \A i \in 1 .. Len(s.m_data) : data[i] =
             IF i <= 0 \/ i > 0 + Len(rest) THEN s.m_data[i] ELSE rest[i - 0]
    BY <1>1, <1>3, StoredGives, 0 \in Nat
  <2> HIDE DEF data
  <2> QED BY <1>1, <1>3, <2>1
<1>5. /\ text \in Seq(Letter) /\ Len(text) = n
      /\ \A i \in 1 .. n : text[i] = Text(s)[i + 1]
  <2>1. /\ text \in Seq(Letter) /\ Len(text) = s.m_length - 2 + 1
        /\ \A i \in 1 .. s.m_length - 2 + 1 : text[i] = Text(s)[2 + i - 1]
    BY <1>1, Part, 2 \in Nat \ {0}
  <2> HIDE DEF text
  <2> QED BY <1>1, <2>1
<1> HIDE DEF data, text
<1>6. data[n + 1] = NUL
  BY <1>1, <1>3, <1>4, SMTT(40)
<1>7. \A i \in 1 .. n : data[i] = text[i]
  <2> SUFFICES ASSUME NEW i \in 1 .. n PROVE data[i] = text[i]
    OBVIOUS
  <2>1. i \in 1 .. s.m_length /\ i + 1 \in 1 .. s.m_length
    BY <1>1
  <2>2. data[i] = rest[i] /\ rest[i] = s.m_data[i + 1]
    BY <1>3, <1>4, <2>1
  <2>3. text[i] = Text(s)[i + 1] /\ Text(s)[i + 1] = s.m_data[i + 1]
    BY <1>1, <1>5, <2>1
  <2> QED BY <2>2, <2>3
<1>8. /\ r \in [m_length : Nat, m_reserved : Nat, m_data : Seq(Cell)]
      /\ r.m_length = n /\ r.m_reserved = s.m_reserved /\ r.m_data = data
  BY <1>1, <1>2, <1>4
<1>9. Holds(r, text)
  BY <1>1, <1>4, <1>5, <1>6, <1>7, <1>8 DEF Holds
<1>10. Sound(r) /\ Text(r) = text
  BY <1>9, IsSound
<1> QED BY <1>8, <1>10 DEF r, text

-----------------------------------------------------------------------------
(* The loops that move characters. *)

(* The head of one sequence moves to the end of the one before it. *)
LEMMA HeadMoves ==
  ASSUME NEW S, NEW u \in Seq(S), NEW t \in Seq(S), Len(t) > 0
  PROVE  /\ t[1] \in S /\ SubSeq(t, 2, Len(t)) \in Seq(S)
         /\ Joined(u, One(t[1])) \in Seq(S)
         /\ Len(Joined(u, One(t[1]))) = Len(u) + 1
         /\ Joined(Joined(u, One(t[1])), SubSeq(t, 2, Len(t))) = Joined(u, t)
<1> DEFINE e == One(t[1])
           v == Joined(u, e)
           rest == SubSeq(t, 2, Len(t))
           a == Joined(v, rest)
           b == Joined(u, t)
<1>1. Len(t) \in Nat /\ Len(u) \in Nat
  BY LenProperties
<1>2. t[1] \in S
  BY <1>1, ElementOfSeq
<1>3. e \in Seq(S) /\ Len(e) = 1 /\ e[1] = t[1]
  BY <1>2, OneIs
<1>4. /\ rest \in Seq(S) /\ Len(rest) = Len(t) - 1
      /\ \A i \in 1 .. Len(t) - 1 : rest[i] = t[i + 1]
  <2> DEFINE m == 2
  <2>1. m \in Nat \ {0} /\ m <= Len(t) + 1 /\ Len(t) <= Len(t)
    BY <1>1
  <2>2. /\ SubSeq(t, m, Len(t)) \in Seq(S) /\ Len(SubSeq(t, m, Len(t))) = Len(t) - m + 1
        /\ \A i \in 1 .. Len(t) - m + 1 : SubSeq(t, m, Len(t))[i] = t[m + i - 1]
    <3> HIDE DEF m
    <3> QED BY <1>1, <2>1, Part
  <2>3. rest = SubSeq(t, m, Len(t)) /\ \A i \in 1 .. Len(t) - 1 : m + i - 1 = i + 1
    BY <1>1
  <2> HIDE DEF rest
  <2> QED BY <1>1, <2>2, <2>3
<1> HIDE DEF e, rest
<1>5. /\ v \in Seq(S) /\ Len(v) = Len(u) + 1
      /\ \A i \in 1 .. Len(u) + 1 : v[i] = IF i <= Len(u) THEN u[i] ELSE t[1]
  <2>1. e \in Seq(S)
    BY <1>3
  <2>2. /\ v \in Seq(S) /\ Len(v) = Len(u) + Len(e)
        /\ \A i \in 1 .. Len(u) + Len(e) :
             /\ i <= Len(u) => v[i] = u[i]
             /\ i > Len(u) => v[i] = e[i - Len(u)]
    BY <2>1, JoinedGives
  <2> HIDE DEF v
  <2>3. \A i \in 1 .. Len(u) + 1 : ~ (i <= Len(u)) => i > Len(u) /\ i - Len(u) = 1
    BY <1>1
  <2> QED BY <1>3, <2>2, <2>3
<1> HIDE DEF v
<1>6. /\ a \in Seq(S) /\ Len(a) = Len(u) + Len(t)
      /\ \A i \in 1 .. Len(u) + Len(t) :
           a[i] = IF i <= Len(u) + 1 THEN v[i] ELSE rest[i - (Len(u) + 1)]
  <2>1. v \in Seq(S)
    BY <1>5
  <2>2. rest \in Seq(S)
    BY <1>4
  <2>3. /\ a \in Seq(S) /\ Len(a) = Len(v) + Len(rest)
        /\ \A i \in 1 .. Len(v) + Len(rest) :
             /\ i <= Len(v) => a[i] = v[i]
             /\ i > Len(v) => a[i] = rest[i - Len(v)]
    BY <2>1, <2>2, JoinedGives
  <2> HIDE DEF a
  <2>4. Len(v) + Len(rest) = Len(u) + Len(t) /\ Len(v) = Len(u) + 1
    BY <1>1, <1>4, <1>5
  <2> QED BY <1>1, <2>3, <2>4
<1>7. /\ b \in Seq(S) /\ Len(b) = Len(u) + Len(t)
      /\ \A i \in 1 .. Len(u) + Len(t) :
           /\ i <= Len(u) => b[i] = u[i]
           /\ i > Len(u) => b[i] = t[i - Len(u)]
  BY JoinedGives
<1> HIDE DEF a, b
<1>8. ASSUME NEW i \in 1 .. Len(u) + Len(t) PROVE a[i] = b[i]
  <2>1. CASE i <= Len(u)
    <3>1. i \in 1 .. Len(u) + 1 /\ i <= Len(u) + 1
      BY <1>1, <2>1
    <3> QED BY <1>5, <1>6, <1>7, <2>1, <3>1
  <2>2. CASE i = Len(u) + 1
    <3>1. i \in 1 .. Len(u) + 1 /\ i <= Len(u) + 1 /\ ~ (i <= Len(u)) /\ i > Len(u)
          /\ i - Len(u) = 1
      BY <1>1, <2>2
    <3>2. a[i] = t[1]
      BY <1>5, <1>6, <3>1
    <3> QED BY <1>7, <3>1, <3>2
  <2>3. CASE i > Len(u) + 1
    <3>1. /\ i - (Len(u) + 1) \in 1 .. Len(t) - 1 /\ ~ (i <= Len(u) + 1) /\ i > Len(u)
          /\ i - (Len(u) + 1) + 1 = i - Len(u)
      BY <1>1, <2>3
    <3>2. a[i] = rest[i - (Len(u) + 1)]
      BY <1>6, <3>1
    <3>3. rest[i - (Len(u) + 1)] = t[i - Len(u)]
      BY <1>4, <3>1
    <3> QED BY <1>7, <3>1, <3>2, <3>3
  <2> QED BY <1>1, <2>1, <2>2, <2>3
<1>9. a = b
  BY <1>6, <1>7, <1>8, SeqEqual
<1> QED BY <1>2, <1>4, <1>5, <1>9 DEF a, b, v, e, rest

(* How much has moved says what has moved. *)
LEMMA MovedIs ==
  ASSUME NEW S, NEW x \in Seq(S), NEW y \in Seq(S), NEW g \in Seq(S), NEW t \in Seq(S),
         NEW n \in Nat, n <= Len(t), Len(x) = Len(g) + n, Joined(x, y) = Joined(g, t)
  PROVE  x = Joined(g, SubSeq(t, 1, n)) /\ y = SubSeq(t, n + 1, Len(t))
<1> DEFINE head == SubSeq(t, 1, n)
           rest == SubSeq(t, n + 1, Len(t))
           a == Joined(g, t)
           c == Joined(x, y)
           b == Joined(g, head)
<1>1. Len(t) \in Nat /\ Len(g) \in Nat /\ Len(x) \in Nat /\ Len(y) \in Nat
  BY LenProperties
<1>2. /\ head \in Seq(S) /\ Len(head) = n
      /\ \A i \in 1 .. n : head[i] = t[i]
  <2>1. /\ head \in Seq(S) /\ Len(head) = n - 1 + 1
        /\ \A i \in 1 .. n - 1 + 1 : head[i] = t[1 + i - 1]
    BY <1>1, Part, 1 \in Nat \ {0}
  <2> HIDE DEF head
  <2> QED BY <1>1, <2>1
<1>3. /\ rest \in Seq(S) /\ Len(rest) = Len(t) - n
      /\ \A i \in 1 .. Len(t) - n : rest[i] = t[n + i]
  <2>1. n + 1 \in Nat \ {0} /\ n + 1 <= Len(t) + 1 /\ Len(t) <= Len(t)
    BY <1>1
  <2>2. /\ rest \in Seq(S) /\ Len(rest) = Len(t) - (n + 1) + 1
        /\ \A i \in 1 .. Len(t) - (n + 1) + 1 : rest[i] = t[(n + 1) + i - 1]
    BY <1>1, <2>1, Part
  <2> HIDE DEF rest
  <2> QED BY <1>1, <2>2
<1> HIDE DEF head, rest
<1>4. /\ Len(a) = Len(g) + Len(t)
      /\ \A i \in 1 .. Len(g) + Len(t) :
           /\ i <= Len(g) => a[i] = g[i]
           /\ i > Len(g) => a[i] = t[i - Len(g)]
  BY JoinedGives, ZenonT(60)
<1>5. /\ Len(c) = Len(x) + Len(y)
      /\ \A i \in 1 .. Len(x) + Len(y) :
           /\ i <= Len(x) => c[i] = x[i]
           /\ i > Len(x) => c[i] = y[i - Len(x)]
  BY JoinedGives, ZenonT(60)
<1>6. /\ b \in Seq(S) /\ Len(b) = Len(g) + n
      /\ \A i \in 1 .. Len(g) + n :
           /\ i <= Len(g) => b[i] = g[i]
           /\ i > Len(g) => b[i] = head[i - Len(g)]
  <2>1. head \in Seq(S)
    BY <1>2
  <2>2. /\ b \in Seq(S) /\ Len(b) = Len(g) + Len(head)
        /\ \A i \in 1 .. Len(g) + Len(head) :
             /\ i <= Len(g) => b[i] = g[i]
             /\ i > Len(g) => b[i] = head[i - Len(g)]
    BY <2>1, JoinedGives
  <2> HIDE DEF b
  <2> QED BY <1>2, <2>2
<1>7. a = c
  OBVIOUS
<1> HIDE DEF a, b, c
<1>8. Len(y) = Len(t) - n
  BY <1>1, <1>4, <1>5, <1>7
<1>9. ASSUME NEW i \in 1 .. Len(g) + n PROVE x[i] = b[i]
  <2>1. i \in 1 .. Len(g) + Len(t) /\ i \in 1 .. Len(x) + Len(y) /\ i <= Len(x)
    BY <1>1, <1>8
  <2>2. x[i] = a[i]
    BY <1>5, <1>7, <2>1
  <2>3. CASE i <= Len(g)
    BY <1>4, <1>6, <2>1, <2>2, <2>3
  <2>4. CASE i > Len(g)
    <3>1. i - Len(g) \in 1 .. n
      BY <1>1, <2>4
    <3>2. head[i - Len(g)] = t[i - Len(g)]
      BY <1>2, <3>1
    <3> QED BY <1>4, <1>6, <2>1, <2>2, <2>4, <3>2
  <2> QED BY <1>1, <2>3, <2>4
<1>10. ASSUME NEW i \in 1 .. Len(t) - n PROVE y[i] = rest[i]
  <2> DEFINE j == Len(g) + n + i
  <2>1. /\ j \in 1 .. Len(g) + Len(t) /\ j > Len(g) /\ j - Len(g) = n + i
        /\ j \in 1 .. Len(x) + Len(y) /\ j > Len(x) /\ j - Len(x) = i
    BY <1>1, <1>8
  <2> HIDE DEF j
  <2>2. c[j] = y[i]
    BY <1>5, <2>1
  <2>3. a[j] = t[n + i]
    BY <1>4, <2>1
  <2> QED BY <1>3, <1>7, <2>2, <2>3
<1>11. x = b
  BY <1>6, <1>9, SeqEqual
<1>12. y = rest
  BY <1>3, <1>8, <1>10, SeqEqual
<1> QED BY <1>11, <1>12 DEF b, head, rest

(* One round of keyboard_event's loop, and the loop. *)
MoveOne(s) == <<peek_char(s[1]), Plus(s[2], FromChar(Text(s[1])[1]))>>

Moving(f, n) ==
  f = [k \in 0 .. n |-> IF k = 0 THEN <<line, m_input_buffer>> ELSE MoveOne(f[k - 1])]

LEMMA MoveOneGives ==
  ASSUME NEW a, NEW b, Sound(a), Sound(b), a.m_length > 0
  PROVE  LET s == MoveOne(<<a, b>>)
         IN  /\ s = <<s[1], s[2]>> /\ Sound(s[1]) /\ Sound(s[2])
             /\ s[1].m_length = a.m_length - 1 /\ s[2].m_length = b.m_length + 1
             /\ Joined(Text(s[2]), Text(s[1])) = Joined(Text(b), Text(a))
<1> DEFINE c == Text(a)[1]
           p == peek_char(a)
           q == Plus(b, FromChar(c))
<1>1. /\ a.m_length \in Nat /\ Text(a) \in Seq(Letter) /\ Len(Text(a)) = a.m_length
      /\ b.m_length \in Nat /\ Text(b) \in Seq(Letter)
  BY TextIs
<1>2. /\ c \in Letter
      /\ Joined(Joined(Text(b), One(c)), SubSeq(Text(a), 2, Len(Text(a))))
           = Joined(Text(b), Text(a))
  <2>1. Text(a) \in Seq(Letter) /\ Len(Text(a)) > 0
    BY <1>1
  <2>2. Text(b) \in Seq(Letter)
    BY <1>1
  <2> QED BY <2>1, <2>2, HeadMoves
<1> HIDE DEF c
<1>3. Sound(p) /\ p.m_length = a.m_length - 1 /\ Text(p) = SubSeq(Text(a), 2, a.m_length)
  BY PeekGives
<1>4. Sound(FromChar(c)) /\ Text(FromChar(c)) = One(c) /\ FromChar(c).m_length = 1
  BY <1>2, FromCharGives
<1>5. Sound(q) /\ Text(q) = Joined(Text(b), One(c)) /\ q.m_length = b.m_length + 1
  BY <1>4, PlusGives
<1>6. MoveOne(<<a, b>>) = <<p, q>>
  BY DEF MoveOne, c
<1>7. Joined(Text(q), Text(p)) = Joined(Text(b), Text(a))
  BY <1>1, <1>2, <1>3, <1>5
<1> HIDE DEF p, q
<1>8. <<p, q>>[1] = p /\ <<p, q>>[2] = q
  OBVIOUS
<1> QED BY <1>3, <1>5, <1>6, <1>7, <1>8

LEMMA MovingExists == \A n \in Nat : \E f : Moving(f, n)
<1> DEFINE missing == {n \in Nat : ~ \E f : Moving(f, n)}
<1> SUFFICES ASSUME missing # {} PROVE FALSE
  OBVIOUS
<1>1. missing \subseteq Nat
  OBVIOUS
<1>2. PICK n \in missing : \A y \in missing : n <= y
  BY <1>1, MinOfNat
<1>3. n # 0
  <2>1. Moving([k \in 0 .. 0 |-> <<line, m_input_buffer>>], 0)
    BY DEF Moving
  <2> QED BY <1>2, <2>1
<1>4. n - 1 \in Nat /\ n - 1 \notin missing
  <2>1. n - 1 \in Nat /\ ~ (n <= n - 1)
    BY <1>1, <1>2, <1>3
  <2> QED BY <1>2, <2>1
<1>5. PICK f : Moving(f, n - 1)
  BY <1>4
<1> DEFINE g == [k \in 0 .. n |->
                   IF k = 0 THEN <<line, m_input_buffer>> ELSE MoveOne(f[k - 1])]
<1>6. \A k \in 0 .. n - 1 : g[k] = f[k]
  <2>1. \A k \in 0 .. n - 1 : k \in 0 .. n
    BY <1>1, <1>2
  <2> QED BY <1>5, <2>1 DEF Moving
<1>7. Moving(g, n)
  <2>1. ASSUME NEW k \in 0 .. n, k # 0 PROVE MoveOne(f[k - 1]) = MoveOne(g[k - 1])
    <3>1. k - 1 \in 0 .. n - 1
      BY <1>1, <1>2, <2>1
    <3> QED BY <1>6, <3>1
  <2> QED BY <2>1 DEF Moving
<1> QED BY <1>2, <1>7

(* The line comes to stand behind what the program had not read yet. *)
LEMMA MovedGives ==
  ASSUME Sound(line), Sound(m_input_buffer)
  PROVE  /\ Sound(Moved[1]) /\ Moved[1].m_length = 0
         /\ Sound(Moved[2]) /\ Moved[2].m_length = m_input_buffer.m_length + line.m_length
         /\ Joined(Text(Moved[2]), Text(Moved[1])) = Joined(Text(m_input_buffer), Text(line))
<1> DEFINE N == line.m_length
           have == m_input_buffer.m_length
           all == Joined(Text(m_input_buffer), Text(line))
           Good(s, k) == /\ s = <<s[1], s[2]>> /\ Sound(s[1]) /\ Sound(s[2])
                         /\ s[1].m_length = N - k /\ s[2].m_length = have + k
                         /\ Joined(Text(s[2]), Text(s[1])) = all
           moved == CHOOSE f : Moving(f, N)
           bad == {k \in 0 .. N : ~ Good(moved[k], k)}
<1>1. N \in Nat /\ have \in Nat
  BY TextIs
<1>2. Moving(moved, N)
  BY <1>1, MovingExists
<1>3. Moved = moved[N]
  BY DEF Moved, Moving, MoveOne
<1> HIDE DEF moved
<1>4. /\ moved[0] = <<line, m_input_buffer>>
      /\ \A k \in 1 .. N : moved[k] = MoveOne(moved[k - 1])
  <2>1. moved = [k \in 0 .. N |-> IF k = 0 THEN <<line, m_input_buffer>>
                                          ELSE MoveOne(moved[k - 1])]
    BY <1>2 DEF Moving
  <2>2. 0 \in 0 .. N /\ \A k \in 1 .. N : k \in 0 .. N /\ k # 0
    BY <1>1
  <2> HIDE DEF N
  <2> QED BY <2>1, <2>2
<1>5. Good(moved[0], 0)
  BY <1>1, <1>4
<1>6. bad = {}
  <2> SUFFICES ASSUME bad # {} PROVE FALSE
    OBVIOUS
  <2>1. bad \subseteq Nat
    BY <1>1
  <2>2. PICK k \in bad : \A y \in bad : k <= y
    <3> HIDE DEF bad
    <3> QED BY <2>1, MinOfNat
  <2>3. k \in 0 .. N /\ k # 0
    BY <1>5, <2>2
  <2>4. k - 1 \in 0 .. N /\ k \in 1 .. N /\ ~ (k <= k - 1)
    BY <1>1, <2>3
  <2>5. Good(moved[k - 1], k - 1)
    BY <2>2, <2>4
  <2> DEFINE a == moved[k - 1][1]
             b == moved[k - 1][2]
             s == MoveOne(<<a, b>>)
  <2>6. /\ moved[k - 1] = <<a, b>> /\ Sound(a) /\ Sound(b)
        /\ a.m_length = N - (k - 1) /\ b.m_length = have + (k - 1)
        /\ Joined(Text(b), Text(a)) = all
    BY <2>5
  <2> HIDE DEF a, b
  <2>7. N - (k - 1) > 0 /\ N - (k - 1) - 1 = N - k /\ have + (k - 1) + 1 = have + k
    BY <1>1, <2>4
  <2>8. /\ s = <<s[1], s[2]>> /\ Sound(s[1]) /\ Sound(s[2])
        /\ s[1].m_length = a.m_length - 1 /\ s[2].m_length = b.m_length + 1
        /\ Joined(Text(s[2]), Text(s[1])) = Joined(Text(b), Text(a))
    BY <2>6, <2>7, MoveOneGives
  <2>9. moved[k] = s
    BY <1>4, <2>4, <2>6
  <2> HIDE DEF s, all
  <2>10. Good(moved[k], k)
    BY <2>6, <2>7, <2>8, <2>9
  <2> QED BY <2>2, <2>10
<1>7. Good(moved[N], N)
  BY <1>1, <1>6
<1> QED BY <1>1, <1>3, <1>7

(* One round of flush_input_buffer's loop, and the loop. *)
FlushOne(s) == <<peek_char(s[1]), Append(s[2], Text(s[1])[1])>>

Flushing(f, buffer, got, n) ==
  f = [k \in 0 .. n |-> IF k = 0 THEN <<buffer, got>> ELSE FlushOne(f[k - 1])]

LEMMA FlushOneGives ==
  ASSUME NEW a, NEW b \in Seq(Letter), Sound(a), a.m_length > 0
  PROVE  LET s == FlushOne(<<a, b>>)
         IN  /\ s = <<s[1], s[2]>> /\ Sound(s[1]) /\ s[1].m_length = a.m_length - 1
             /\ s[2] \in Seq(Letter) /\ Len(s[2]) = Len(b) + 1
             /\ Joined(s[2], Text(s[1])) = Joined(b, Text(a))
<1> DEFINE c == Text(a)[1]
           p == peek_char(a)
           q == Joined(b, One(c))
<1>1. a.m_length \in Nat /\ Text(a) \in Seq(Letter) /\ Len(Text(a)) = a.m_length
  BY TextIs
<1>2. /\ c \in Letter /\ q \in Seq(Letter) /\ Len(q) = Len(b) + 1
      /\ Joined(q, SubSeq(Text(a), 2, Len(Text(a)))) = Joined(b, Text(a))
  <2>1. Text(a) \in Seq(Letter) /\ Len(Text(a)) > 0
    BY <1>1
  <2> QED BY <2>1, HeadMoves
<1>3. Sound(p) /\ p.m_length = a.m_length - 1 /\ Text(p) = SubSeq(Text(a), 2, a.m_length)
  BY PeekGives
<1> HIDE DEF c
<1>4. Append(b, c) = q
  BY <1>2 DEF Joined, One
<1>5. FlushOne(<<a, b>>) = <<p, q>>
  BY <1>4 DEF FlushOne, c
<1>6. Joined(q, Text(p)) = Joined(b, Text(a))
  BY <1>1, <1>2, <1>3
<1> HIDE DEF p, q
<1>7. <<p, q>>[1] = p /\ <<p, q>>[2] = q
  OBVIOUS
<1> QED BY <1>2, <1>3, <1>5, <1>6, <1>7

LEMMA FlushingExists ==
  ASSUME NEW buffer, NEW got
  PROVE  \A n \in Nat : \E f : Flushing(f, buffer, got, n)
<1> DEFINE missing == {n \in Nat : ~ \E f : Flushing(f, buffer, got, n)}
<1> SUFFICES ASSUME missing # {} PROVE FALSE
  OBVIOUS
<1>1. missing \subseteq Nat
  OBVIOUS
<1>2. PICK n \in missing : \A y \in missing : n <= y
  BY <1>1, MinOfNat
<1>3. n # 0
  <2>1. Flushing([k \in 0 .. 0 |-> <<buffer, got>>], buffer, got, 0)
    BY DEF Flushing
  <2> QED BY <1>2, <2>1
<1>4. n - 1 \in Nat /\ n - 1 \notin missing
  <2>1. n - 1 \in Nat /\ ~ (n <= n - 1)
    BY <1>1, <1>2, <1>3
  <2> QED BY <1>2, <2>1
<1>5. PICK f : Flushing(f, buffer, got, n - 1)
  BY <1>4
<1> DEFINE g == [k \in 0 .. n |-> IF k = 0 THEN <<buffer, got>> ELSE FlushOne(f[k - 1])]
<1>6. \A k \in 0 .. n - 1 : g[k] = f[k]
  <2>1. \A k \in 0 .. n - 1 : k \in 0 .. n
    BY <1>1, <1>2
  <2> QED BY <1>5, <2>1 DEF Flushing
<1>7. Flushing(g, buffer, got, n)
  <2>1. ASSUME NEW k \in 0 .. n, k # 0 PROVE FlushOne(f[k - 1]) = FlushOne(g[k - 1])
    <3>1. k - 1 \in 0 .. n - 1
      BY <1>1, <1>2, <2>1
    <3> QED BY <1>6, <3>1
  <2> QED BY <2>1 DEF Flushing
<1> QED BY <1>2, <1>7

(* The reader gets the first characters of buffer, in their order. *)
LEMMA FlushGives ==
  ASSUME NEW buffer, Sound(buffer), NEW count \in Nat, NEW got \in Seq(Letter),
         flush_input_buffer(buffer, count, got)
  PROVE  LET n == Min({buffer.m_length, count})
         IN  /\ n \in Nat /\ n <= buffer.m_length /\ n <= count
             /\ Sound(m_input_buffer') /\ m_input_buffer'.m_length = buffer.m_length - n
             /\ Text(m_input_buffer') = SubSeq(Text(buffer), n + 1, buffer.m_length)
             /\ received' \in Seq(Letter)
             /\ received' = Joined(got, SubSeq(Text(buffer), 1, n))
             /\ m_sys_read_count' = count - n
<1> DEFINE N == Min({buffer.m_length, count})
           all == Joined(got, Text(buffer))
           Good(s, k) == /\ s = <<s[1], s[2]>> /\ Sound(s[1]) /\ s[1].m_length = buffer.m_length - k
                         /\ s[2] \in Seq(Letter) /\ Len(s[2]) = Len(got) + k
                         /\ Joined(s[2], Text(s[1])) = all
           flushed == CHOOSE f : Flushing(f, buffer, got, N)
           bad == {k \in 0 .. N : ~ Good(flushed[k], k)}
<1>1. /\ buffer.m_length \in Nat /\ Text(buffer) \in Seq(Letter)
      /\ Len(Text(buffer)) = buffer.m_length /\ Len(got) \in Nat
  BY TextIs, LenProperties
<1>2. N \in Nat /\ N <= buffer.m_length /\ N <= count
  <2>1. N = IF buffer.m_length <= count THEN buffer.m_length ELSE count
    BY <1>1, MinOfTwo
  <2> HIDE DEF N
  <2> QED BY <1>1, <2>1
<1>3. Flushing(flushed, buffer, got, N)
  BY <1>2, FlushingExists
<1>4. /\ m_input_buffer' = flushed[N][1] /\ received' = flushed[N][2]
      /\ m_sys_read_count' = count - N
  BY DEF flush_input_buffer, Flushing, FlushOne
<1> HIDE DEF flushed, N
<1>5. /\ flushed[0] = <<buffer, got>>
      /\ \A k \in 1 .. N : flushed[k] = FlushOne(flushed[k - 1])
  <2>1. flushed = [k \in 0 .. N |-> IF k = 0 THEN <<buffer, got>>
                                            ELSE FlushOne(flushed[k - 1])]
    BY <1>3 DEF Flushing
  <2>2. 0 \in 0 .. N /\ \A k \in 1 .. N : k \in 0 .. N /\ k # 0
    BY <1>2
  <2> QED BY <2>1, <2>2
<1>6. Good(flushed[0], 0)
  BY <1>1, <1>5
<1>7. bad = {}
  <2> SUFFICES ASSUME bad # {} PROVE FALSE
    OBVIOUS
  <2>1. bad \subseteq Nat
    BY <1>2
  <2>2. PICK k \in bad : \A y \in bad : k <= y
    <3> HIDE DEF bad
    <3> QED BY <2>1, MinOfNat
  <2>3. k \in 0 .. N /\ k # 0
    BY <1>6, <2>2
  <2>4. k - 1 \in 0 .. N /\ k \in 1 .. N /\ ~ (k <= k - 1)
    BY <1>2, <2>3
  <2>5. Good(flushed[k - 1], k - 1)
    BY <2>2, <2>4
  <2> DEFINE a == flushed[k - 1][1]
             b == flushed[k - 1][2]
             s == FlushOne(<<a, b>>)
  <2>6. /\ flushed[k - 1] = <<a, b>> /\ Sound(a) /\ b \in Seq(Letter)
        /\ a.m_length = buffer.m_length - (k - 1) /\ Len(b) = Len(got) + (k - 1)
        /\ Joined(b, Text(a)) = all
    BY <2>5
  <2> HIDE DEF a, b
  <2>7. /\ buffer.m_length - (k - 1) > 0
        /\ buffer.m_length - (k - 1) - 1 = buffer.m_length - k
        /\ Len(got) + (k - 1) + 1 = Len(got) + k
    <3>1. buffer.m_length \in Nat /\ Len(got) \in Nat
      BY <1>1
    <3>2. k \in Nat /\ k <= buffer.m_length
      BY <1>2, <2>4, <3>1
    <3> QED BY <3>1, <3>2
  <2>8. /\ s = <<s[1], s[2]>> /\ Sound(s[1]) /\ s[1].m_length = a.m_length - 1
        /\ s[2] \in Seq(Letter) /\ Len(s[2]) = Len(b) + 1
        /\ Joined(s[2], Text(s[1])) = Joined(b, Text(a))
    BY <2>6, <2>7, FlushOneGives
  <2>9. flushed[k] = s
    BY <1>5, <2>4, <2>6
  <2> HIDE DEF s, all
  <2>10. Good(flushed[k], k)
    BY <2>6, <2>7, <2>8, <2>9
  <2> QED BY <2>2, <2>10
<1>8. Good(flushed[N], N)
  BY <1>2, <1>7
<1> DEFINE x == flushed[N][2]
           s == flushed[N][1]
<1>9. /\ Sound(s) /\ s.m_length = buffer.m_length - N
      /\ x \in Seq(Letter) /\ Len(x) = Len(got) + N
      /\ Joined(x, Text(s)) = Joined(got, Text(buffer))
  BY <1>8
<1> HIDE DEF x, s
<1>10. Text(s) \in Seq(Letter)
  BY <1>9, TextIs
<1>11. /\ x = Joined(got, SubSeq(Text(buffer), 1, N))
       /\ Text(s) = SubSeq(Text(buffer), N + 1, Len(Text(buffer)))
  <2>1. x \in Seq(Letter) /\ Len(x) = Len(got) + N
    BY <1>9
  <2>2. Text(buffer) \in Seq(Letter) /\ N <= Len(Text(buffer))
    BY <1>1, <1>2
  <2>3. Joined(x, Text(s)) = Joined(got, Text(buffer))
    BY <1>9
  <2> QED BY <1>2, <1>10, <2>1, <2>2, <2>3, MovedIs
<1>12. m_input_buffer' = s /\ received' = x
  BY <1>4 DEF s, x
<1> QED BY <1>1, <1>2, <1>4, <1>9, <1>11, <1>12 DEF N

-----------------------------------------------------------------------------
(* Cutting and joining. *)

Nil == << >>

LEMMA NilIs ==
  ASSUME NEW S
  PROVE  /\ Nil \in Seq(S) /\ Len(Nil) = 0
         /\ \A s \in Seq(S) : /\ Joined(Nil, s) = s /\ Joined(s, Nil) = s
                              /\ Len(s) = 0 => s = Nil
<1>1. Nil \in Seq(S) /\ Len(Nil) = 0
  BY DEF Nil
<1>2. \A s \in Seq(S) : Len(s) = 0 => s = Nil
  BY EmptySeq DEF Nil
<1>3. ASSUME NEW s \in Seq(S) PROVE Joined(Nil, s) = s /\ Joined(s, Nil) = s
  BY ConcatEmptySeq DEF Nil, Joined
<1> QED BY <1>1, <1>2, <1>3

LEMMA JoinedAssociative ==
  ASSUME NEW S, NEW s \in Seq(S), NEW t \in Seq(S), NEW u \in Seq(S)
  PROVE  Joined(Joined(s, t), u) = Joined(s, Joined(t, u))
BY ConcatAssociative DEF Joined

(* A cut in the first of two sequences. *)
LEMMA CutJoined ==
  ASSUME NEW S, NEW u \in Seq(S), NEW t \in Seq(S), NEW n \in Nat, n <= Len(u)
  PROVE  /\ SubSeq(Joined(u, t), 1, n) = SubSeq(u, 1, n)
         /\ SubSeq(Joined(u, t), n + 1, Len(u) + Len(t))
              = Joined(SubSeq(u, n + 1, Len(u)), t)
<1> DEFINE x == SubSeq(u, 1, n)
           y == SubSeq(u, n + 1, Len(u))
           z == Joined(y, t)
           a == Joined(u, t)
<1>1. Len(u) \in Nat /\ Len(t) \in Nat
  BY LenProperties
<1>2. x \in Seq(S) /\ Len(x) = n
  <2>1. x \in Seq(S) /\ Len(x) = n - 1 + 1
    BY <1>1, Part, 1 \in Nat \ {0}
  <2> HIDE DEF x
  <2> QED BY <2>1
<1>3. y \in Seq(S)
  <2>1. n + 1 \in Nat \ {0} /\ n + 1 <= Len(u) + 1 /\ Len(u) <= Len(u)
    BY <1>1
  <2> QED BY <1>1, <2>1, Part
<1>4. Joined(x, y) = u
  <2>1. /\ 1 \in 1 .. Len(u) + 1 /\ n \in 1 - 1 .. Len(u) /\ Len(u) \in n .. Len(u)
    BY <1>1
  <2>2. SubSeq(u, 1, n) \o SubSeq(u, n + 1, Len(u)) = SubSeq(u, 1, Len(u))
    BY <2>1, ConcatAdjacentSubSeq
  <2>3. SubSeq(u, 1, Len(u)) = u
    BY SubSeqFull
  <2> QED BY <2>2, <2>3 DEF Joined
<1> HIDE DEF x, y
<1>5. z \in Seq(S)
  BY <1>3, JoinedGives
<1>6. a \in Seq(S) /\ Len(a) = Len(u) + Len(t)
  BY JoinedGives
<1>7. Joined(x, z) = Joined(Nil, a)
  <2>1. Joined(Joined(x, y), t) = Joined(x, z)
    BY <1>2, <1>3, JoinedAssociative
  <2>2. Joined(Nil, a) = a
    BY <1>6, NilIs
  <2> QED BY <1>4, <2>1, <2>2
<1> HIDE DEF z, a
<1>8. x = Joined(Nil, SubSeq(a, 1, n)) /\ z = SubSeq(a, n + 1, Len(a))
  <2>1. n <= Len(a) /\ Len(x) = Len(Nil) + n
    BY <1>1, <1>2, <1>6, NilIs
  <2>2. x \in Seq(S)
    BY <1>2
  <2>3. a \in Seq(S)
    BY <1>6
  <2>4. Nil \in Seq(S)
    BY NilIs
  <2> QED BY <1>5, <1>7, <2>1, <2>2, <2>3, <2>4, MovedIs
<1>9. Joined(Nil, SubSeq(a, 1, n)) = SubSeq(a, 1, n)
  <2>1. SubSeq(a, 1, n) \in Seq(S)
    <3>1. a \in Seq(S) /\ n <= Len(a)
      BY <1>1, <1>6
    <3> QED BY <3>1, Part, 1 \in Nat \ {0}
  <2> QED BY <2>1, NilIs
<1> QED BY <1>6, <1>8, <1>9 DEF a, x, y, z

-----------------------------------------------------------------------------
(* What is typed and read. *)

Typed == Joined(Text(m_input_buffer), Text(line))

LEMMA TypedIs ==
  ASSUME InputInv
  PROVE  Typed \in Seq(Letter) /\ Len(Typed) = m_input_buffer.m_length + line.m_length
<1>1. /\ Text(m_input_buffer) \in Seq(Letter)
      /\ Len(Text(m_input_buffer)) = m_input_buffer.m_length
  BY TextIs DEF InputInv
<1>2. Text(line) \in Seq(Letter) /\ Len(Text(line)) = line.m_length
  BY TextIs DEF InputInv
<1>3. Text(m_input_buffer) \in Seq(Letter)
  BY <1>1
<1>4. Text(line) \in Seq(Letter)
  BY <1>2
<1>5. /\ Typed \in Seq(Letter)
      /\ Len(Typed) = Len(Text(m_input_buffer)) + Len(Text(line))
  BY <1>3, <1>4, JoinedGives DEF Typed
<1> QED BY <1>1, <1>2, <1>5

(* What Stream says of a delivery, in the words used here. *)
LEMMA Delivers ==
  ASSUME NEW text, NEW have, NEW want, NEW got, NEW n, n = Min({have, want}),
         received' = Joined(got, SubSeq(text, 1, n)),
         Typed' = SubSeq(text, n + 1, Len(text)),
         m_input_buffer'.m_length = have - n, m_sys_read_count' = want - n
  PROVE  Stream!Deliver(text, have, want, got)
<1>1. n = Stream!Min({have, want})
  BY DEF Stream!Min, Min
<1>2. Typed' = (Text(m_input_buffer) \o Text(line))'
  BY DEF Typed, Joined
<1>3. received' = got \o SubSeq(text, 1, n)
  BY DEF Joined
<1> QED BY <1>1, <1>2, <1>3 DEF Stream!Deliver

LEMMA ReadStep ==
  ASSUME InputInv, NEW count \in Nat, sys_read(count)
  PROVE  InputInv' /\ Stream!Read(count)
<1> DEFINE have == m_input_buffer.m_length
           n == Min({have, count})
           u == Text(m_input_buffer)
           t == Text(line)
<1>1. /\ Sound(m_input_buffer) /\ Sound(line)
      /\ have \in Nat /\ u \in Seq(Letter) /\ Len(u) = have
      /\ t \in Seq(Letter) /\ Len(t) = line.m_length /\ line.m_length \in Nat
  <2>1. Sound(m_input_buffer) /\ Sound(line)
    BY DEF InputInv
  <2>2. have \in Nat /\ u \in Seq(Letter) /\ Len(u) = have
    BY <2>1, TextIs
  <2>3. t \in Seq(Letter) /\ Len(t) = line.m_length /\ line.m_length \in Nat
    BY <2>1, TextIs
  <2> QED BY <2>1, <2>2, <2>3
<1>2. /\ n \in Nat /\ n <= have /\ n <= count
      /\ Sound(m_input_buffer') /\ m_input_buffer'.m_length = have - n
      /\ Text(m_input_buffer') = SubSeq(u, n + 1, have)
      /\ received' \in Seq(Letter) /\ received' = Joined(Nil, SubSeq(u, 1, n))
      /\ m_sys_read_count' = count - n
      /\ line' = line
  <2>1. flush_input_buffer(m_input_buffer, count, Nil) /\ line' = line
    BY DEF sys_read, Nil
  <2>2. Nil \in Seq(Letter)
    BY NilIs
  <2> QED BY <1>1, <2>1, <2>2, FlushGives
<1>3. InputInv'
  BY <1>1, <1>2 DEF InputInv
<1>4. Typed = Joined(u, t) /\ Typed' = Joined(SubSeq(u, n + 1, have), t)
  BY <1>2 DEF Typed
<1> HIDE DEF n, u, t
<1>5. Len(Typed) = have + Len(t)
  BY <1>1, TypedIs
<1>6. /\ SubSeq(Typed, 1, n) = SubSeq(u, 1, n)
      /\ SubSeq(Typed, n + 1, Len(Typed)) = Joined(SubSeq(u, n + 1, have), t)
  <2>1. u \in Seq(Letter) /\ n \in Nat /\ n <= Len(u)
    BY <1>1, <1>2
  <2>2. t \in Seq(Letter)
    BY <1>1
  <2>3. /\ SubSeq(Joined(u, t), 1, n) = SubSeq(u, 1, n)
        /\ SubSeq(Joined(u, t), n + 1, Len(u) + Len(t)) = Joined(SubSeq(u, n + 1, Len(u)), t)
    BY <2>1, <2>2, CutJoined
  <2> QED BY <1>1, <1>4, <1>5, <2>3
<1>7. Stream!Deliver(Typed, have, count, Nil)
  BY <1>2, <1>4, <1>6, Delivers DEF n
<1> QED BY <1>3, <1>7 DEF Stream!Read, Typed, Joined, Nil

(* What the two strings are under the invariant. *)
LEMMA InputIs ==
  ASSUME InputInv
  PROVE  /\ Sound(m_input_buffer) /\ Sound(line)
         /\ m_input_buffer.m_length \in Nat /\ line.m_length \in Nat
         /\ Text(m_input_buffer) \in Seq(Letter)
         /\ Len(Text(m_input_buffer)) = m_input_buffer.m_length
         /\ Text(line) \in Seq(Letter) /\ Len(Text(line)) = line.m_length
         /\ m_sys_read_count \in Nat /\ received \in Seq(Letter)
<1>1. Sound(m_input_buffer) /\ Sound(line)
  BY DEF InputInv
<1>2. /\ m_input_buffer.m_length \in Nat
      /\ Text(m_input_buffer) \in Seq(Letter)
      /\ Len(Text(m_input_buffer)) = m_input_buffer.m_length
  BY <1>1, TextIs
<1>3. /\ line.m_length \in Nat
      /\ Text(line) \in Seq(Letter) /\ Len(Text(line)) = line.m_length
  BY <1>1, TextIs
<1> QED BY <1>1, <1>2, <1>3 DEF InputInv

LEMMA CharStep ==
  ASSUME InputInv, NEW c \in Char, KeyChar(c)
  PROVE  InputInv' /\ Stream!Type(c)
<1> DEFINE u == Text(m_input_buffer)
           t == Text(line)
<1>1. /\ Sound(m_input_buffer) /\ Sound(line) /\ u \in Seq(Letter) /\ t \in Seq(Letter)
      /\ m_sys_read_count \in Nat /\ received \in Seq(Letter)
  BY InputIs
<1>2. /\ m_sys_read_count > 0 /\ line' = Plus(line, FromChar(c))
      /\ m_input_buffer' = m_input_buffer /\ m_sys_read_count' = m_sys_read_count
      /\ received' = received
  BY DEF KeyChar
<1>3. c \in Letter
  BY DEF Letter
<1>4. Sound(FromChar(c)) /\ Text(FromChar(c)) = One(c)
  BY <1>3, FromCharGives
<1>5. Sound(line') /\ Text(line') = Joined(t, One(c))
  BY <1>1, <1>2, <1>4, PlusGives
<1>6. InputInv'
  BY <1>1, <1>2, <1>5 DEF InputInv
<1>7. Typed' = Joined(u, Joined(t, One(c))) /\ Typed = Joined(u, t)
  BY <1>2, <1>5 DEF Typed
<1> HIDE DEF u, t
<1>8. One(c) \in Seq(Letter)
  BY <1>3, OneIs
<1>9. Joined(Joined(u, t), One(c)) = Joined(u, Joined(t, One(c)))
  BY <1>1, <1>8, JoinedAssociative
<1>10. Typed' = Joined(Typed, One(c))
  BY <1>7, <1>9
<1>11. Typed \in Seq(Letter)
  BY TypedIs
<1>12. Typed' = Append(Typed, c)
  <2>1. Append(Typed, c) = Typed \o <<c>>
    BY <1>3, <1>11, AppendIsConcat
  <2> QED BY <1>10, <2>1 DEF Joined, One
<1>13. Typed' = (Text(m_input_buffer) \o Text(line))' /\ Typed = Text(m_input_buffer) \o Text(line)
  BY DEF Typed, Joined
<1> QED BY <1>2, <1>6, <1>12, <1>13 DEF Stream!Type

LEMMA BackspaceStep ==
  ASSUME InputInv, KeyBackspace
  PROVE  InputInv' /\ Stream!Erase
<1> DEFINE u == Text(m_input_buffer)
           t == Text(line)
           n == line.m_length - 1
           head == SubSeq(t, 1, n)
           last == SubSeq(t, n + 1, Len(t))
<1>1. /\ Sound(m_input_buffer) /\ Sound(line) /\ u \in Seq(Letter) /\ t \in Seq(Letter)
      /\ Len(u) = m_input_buffer.m_length /\ m_input_buffer.m_length \in Nat
      /\ Len(t) = line.m_length /\ line.m_length \in Nat
      /\ m_sys_read_count \in Nat /\ received \in Seq(Letter)
  BY InputIs
<1>2. /\ m_sys_read_count > 0 /\ line.m_length > 0 /\ line' = pop_char(line)
      /\ m_input_buffer' = m_input_buffer /\ m_sys_read_count' = m_sys_read_count
      /\ received' = received
  BY DEF KeyBackspace
<1>3. Sound(line') /\ Text(line') = head
  BY <1>1, <1>2, PopGives
<1>4. InputInv'
  BY <1>1, <1>2, <1>3 DEF InputInv
<1>5. Typed' = Joined(u, head) /\ Typed = Joined(u, t)
  BY <1>2, <1>3 DEF Typed
<1>6. n \in Nat /\ n <= Len(t) /\ n + 1 = Len(t)
  BY <1>1, <1>2
<1> HIDE DEF u, t, n
<1>7. head \in Seq(Letter) /\ Len(head) = n
  <2>1. t \in Seq(Letter) /\ n <= Len(t)
    BY <1>1, <1>6
  <2>2. head \in Seq(Letter) /\ Len(head) = n - 1 + 1
    BY <1>6, <2>1, Part, 1 \in Nat \ {0}
  <2> HIDE DEF head
  <2> QED BY <1>6, <2>2
<1>8. last \in Seq(Letter)
  <2>1. t \in Seq(Letter) /\ n + 1 \in Nat \ {0} /\ n + 1 <= Len(t) + 1 /\ Len(t) <= Len(t)
    BY <1>1, <1>6
  <2>2. Len(t) \in Nat
    BY <1>6
  <2> QED BY <2>1, <2>2, Part
<1>9. Joined(head, last) = t
  <2>1. /\ 1 \in 1 .. Len(t) + 1 /\ n \in 1 - 1 .. Len(t) /\ Len(t) \in n .. Len(t)
    BY <1>6
  <2>2. t \in Seq(Letter)
    BY <1>1
  <2>3. SubSeq(t, 1, n) \o SubSeq(t, n + 1, Len(t)) = SubSeq(t, 1, Len(t))
    BY <2>1, <2>2, ConcatAdjacentSubSeq
  <2>4. SubSeq(t, 1, Len(t)) = t
    BY <2>2, SubSeqFull
  <2> QED BY <2>3, <2>4 DEF Joined
<1> HIDE DEF head, last
<1> DEFINE left == Joined(u, head)
<1>10. left \in Seq(Letter) /\ Len(left) = Len(u) + n
  <2>1. u \in Seq(Letter)
    BY <1>1
  <2>2. head \in Seq(Letter)
    BY <1>7
  <2>3. left \in Seq(Letter) /\ Len(left) = Len(u) + Len(head)
    BY <2>1, <2>2, JoinedGives
  <2> QED BY <1>7, <2>3
<1>11. Joined(left, last) = Typed
  <2>1. u \in Seq(Letter)
    BY <1>1
  <2>2. head \in Seq(Letter)
    BY <1>7
  <2>3. Joined(Joined(u, head), last) = Joined(u, Joined(head, last))
    BY <1>8, <2>1, <2>2, JoinedAssociative
  <2> QED BY <1>5, <1>9, <2>3
<1>12. /\ Typed \in Seq(Letter) /\ Len(Typed) = Len(u) + n + 1
       /\ Len(Typed) > m_input_buffer.m_length
  <2>1. Typed \in Seq(Letter) /\ Len(Typed) = m_input_buffer.m_length + line.m_length
    BY TypedIs
  <2>2. line.m_length = n + 1 /\ n \in Nat
    BY <1>1, <1>6
  <2>3. m_input_buffer.m_length = Len(u) /\ Len(u) \in Nat
    BY <1>1
  <2> QED BY <2>1, <2>2, <2>3
<1> HIDE DEF left
<1>13. left = SubSeq(Typed, 1, Len(Typed) - 1)
  <2> DEFINE m == Len(u) + n
  <2>1. m \in Nat /\ m <= Len(Typed) /\ m = Len(Typed) - 1 /\ Len(left) = Len(Nil) + m
    BY <1>1, <1>6, <1>10, <1>12, NilIs, SMTT(40)
  <2> HIDE DEF m
  <2>2. Typed \in Seq(Letter)
    BY <1>12
  <2>3. left \in Seq(Letter)
    BY <1>10
  <2>4. Nil \in Seq(Letter)
    BY NilIs
  <2>5. Joined(left, last) = Joined(Nil, Typed)
    BY <1>11, <2>2, NilIs
  <2>6. left = Joined(Nil, SubSeq(Typed, 1, m))
    <3>1. m \in Nat /\ m <= Len(Typed) /\ Len(left) = Len(Nil) + m
      BY <2>1
    <3> QED BY <1>8, <2>2, <2>3, <2>4, <2>5, <3>1, MovedIs
  <2>7. SubSeq(Typed, 1, m) \in Seq(Letter)
    BY <2>1, <2>2, Part, 1 \in Nat \ {0}
  <2>8. left = SubSeq(Typed, 1, m)
    BY <2>6, <2>7, NilIs
  <2> QED BY <2>1, <2>8
<1>14. Typed' = (Text(m_input_buffer) \o Text(line))' /\ Typed = Text(m_input_buffer) \o Text(line)
  BY DEF Typed, Joined
<1>15. Typed' = Stream!Front(Typed)
  BY <1>5, <1>13 DEF left, Stream!Front
<1> QED BY <1>2, <1>4, <1>12, <1>14, <1>15 DEF Stream!Erase

LEMMA EnterStep ==
  ASSUME InputInv, KeyEnter
  PROVE  InputInv' /\ Stream!Enter
<1> DEFINE have == m_input_buffer.m_length + line.m_length
           buffer == Plus(Moved[2], FromChar(Newline))
           b == Text(buffer)
           n == Min({have + 1, m_sys_read_count})
<1>1. /\ Sound(m_input_buffer) /\ Sound(line)
      /\ m_input_buffer.m_length \in Nat /\ line.m_length \in Nat
      /\ m_sys_read_count \in Nat /\ received \in Seq(Letter)
  BY InputIs
<1>2. /\ m_sys_read_count > 0 /\ line' = Moved[1]
      /\ flush_input_buffer(buffer, m_sys_read_count, received)
  BY DEF KeyEnter
<1>3. /\ Sound(line') /\ line'.m_length = 0
      /\ Sound(Moved[2]) /\ Moved[2].m_length = have
      /\ Joined(Text(Moved[2]), Text(line')) = Typed
  BY <1>1, <1>2, MovedGives DEF Typed
<1>4. Text(line') = Nil
  <2>1. Text(line') \in Seq(Letter) /\ Len(Text(line')) = 0
    BY <1>3, TextIs
  <2> QED BY <2>1, NilIs
<1>5. Text(Moved[2]) = Typed
  <2>1. Text(Moved[2]) \in Seq(Letter)
    BY <1>3, TextIs
  <2> QED BY <1>3, <1>4, <2>1, NilIs
<1>6. Newline \in Letter
  BY DEF Letter
<1>7. Sound(buffer) /\ b = Joined(Typed, One(Newline)) /\ buffer.m_length = have + 1
  <2>1. /\ Sound(FromChar(Newline)) /\ Text(FromChar(Newline)) = One(Newline)
        /\ FromChar(Newline).m_length = 1
    BY <1>6, FromCharGives
  <2>2. /\ Sound(buffer) /\ b = Joined(Text(Moved[2]), Text(FromChar(Newline)))
        /\ buffer.m_length = Moved[2].m_length + FromChar(Newline).m_length
    BY <1>3, <2>1, PlusGives
  <2> HIDE DEF buffer
  <2> QED BY <1>3, <1>5, <2>1, <2>2
<1> HIDE DEF buffer
<1>8. b \in Seq(Letter) /\ Len(b) = have + 1
  BY <1>7, TextIs
<1>a. have \in Nat
  BY <1>1
<1> HIDE DEF have
<1>9. /\ n \in Nat /\ n <= have + 1
      /\ Sound(m_input_buffer') /\ m_input_buffer'.m_length = (have + 1) - n
      /\ Text(m_input_buffer') = SubSeq(b, n + 1, have + 1)
      /\ received' \in Seq(Letter) /\ received' = Joined(received, SubSeq(b, 1, n))
      /\ m_sys_read_count' = m_sys_read_count - n /\ n <= m_sys_read_count
  <2>1. /\ Sound(buffer) /\ flush_input_buffer(buffer, m_sys_read_count, received)
        /\ m_sys_read_count \in Nat /\ received \in Seq(Letter)
    BY <1>1, <1>2, <1>7
  <2>2. LET m == Min({buffer.m_length, m_sys_read_count})
        IN  /\ m \in Nat /\ m <= buffer.m_length /\ m <= m_sys_read_count
            /\ Sound(m_input_buffer') /\ m_input_buffer'.m_length = buffer.m_length - m
            /\ Text(m_input_buffer') = SubSeq(Text(buffer), m + 1, buffer.m_length)
            /\ received' \in Seq(Letter)
            /\ received' = Joined(received, SubSeq(Text(buffer), 1, m))
            /\ m_sys_read_count' = m_sys_read_count - m
    BY <2>1, FlushGives
  <2>3. buffer.m_length = have + 1 /\ b = Text(buffer)
    BY <1>7
  <2>4. Min({buffer.m_length, m_sys_read_count}) = n
    BY <2>3
  <2> HIDE DEF n, b
  <2> QED BY <2>2, <2>3, <2>4
<1>10. InputInv'
  BY <1>1, <1>3, <1>9 DEF InputInv
<1> HIDE DEF n, b
<1>11. Typed' = SubSeq(b, n + 1, Len(b))
  <2>1. Typed' = Joined(Text(m_input_buffer'), Text(line'))
    BY DEF Typed
  <2>2. Text(m_input_buffer') \in Seq(Letter)
    BY <1>9, TextIs
  <2>3. Joined(Text(m_input_buffer'), Nil) = Text(m_input_buffer')
    BY <2>2, NilIs
  <2> QED BY <1>4, <1>8, <1>9, <2>1, <2>3
<1>12. Typed \in Seq(Letter) /\ Len(Typed) = have
  BY TypedIs DEF have
<1>13. b = Append(Typed, Newline)
  <2>1. Append(Typed, Newline) = Typed \o <<Newline>>
    BY <1>6, <1>12, AppendIsConcat
  <2> QED BY <1>7, <2>1 DEF Joined, One
<1>14. Stream!Deliver(b, have + 1, m_sys_read_count, received)
  <2>1. n = Min({have + 1, m_sys_read_count})
    BY DEF n
  <2>2. m_input_buffer'.m_length = (have + 1) - n
    BY <1>9
  <2> DEFINE more == have + 1
  <2> HIDE DEF more
  <2>3. Stream!Deliver(b, more, m_sys_read_count, received)
    BY <1>9, <1>11, <2>1, <2>2, Delivers DEF more
  <2> QED BY <2>3 DEF more
<1>15. Typed = Text(m_input_buffer) \o Text(line)
  BY DEF Typed, Joined
<1>16. /\ m_sys_read_count > 0
       /\ Stream!Deliver(Append(Text(m_input_buffer) \o Text(line), Newline),
                         Len(Text(m_input_buffer) \o Text(line)) + 1,
                         m_sys_read_count, received)
  <2>1. have + 1 = Len(Typed) + 1
    BY <1>12
  <2> QED BY <1>2, <1>13, <1>14, <1>15, <2>1
<1> QED BY <1>10, <1>16 DEF Stream!Enter

-----------------------------------------------------------------------------
(* Arrays. *)

Place == Value \cup {Junk}

LEMMA SlotsAre ==
  ASSUME ArrayInv
  PROVE  /\ array.m_data \in Seq(Place) /\ array.m_reserved \in Nat /\ array.m_size \in Nat
         /\ array = [m_data |-> array.m_data, m_reserved |-> array.m_reserved,
                     m_size |-> array.m_size]
         /\ Len(array.m_data) = array.m_reserved /\ array.m_size < array.m_reserved
         /\ Slots \in Seq(Value) /\ Len(Slots) = array.m_size
         /\ \A i \in 1 .. array.m_size : Slots[i] = array.m_data[i]
<1>1. /\ array.m_data \in Seq(Place) /\ array.m_reserved \in Nat /\ array.m_size \in Nat
      /\ array = [m_data |-> array.m_data, m_reserved |-> array.m_reserved,
                  m_size |-> array.m_size]
      /\ Len(array.m_data) = array.m_reserved /\ array.m_size < array.m_reserved
      /\ Slots \in Seq(Value)
  BY DEF ArrayInv, Place
<1> DEFINE s == SubSeq(array.m_data, 1, array.m_size)
<1>2. /\ Len(s) = array.m_size - 1 + 1
      /\ \A i \in 1 .. array.m_size - 1 + 1 : s[i] = array.m_data[1 + i - 1]
  BY <1>1, Part, 1 \in Nat \ {0}
<1>3. Slots = s
  BY DEF Slots
<1> HIDE DEF s
<1> QED BY <1>1, <1>2, <1>3

(* The array is what its memory says. *)
LEMMA ArrayHolds ==
  ASSUME NEW data \in Seq(Place), NEW reserved \in Nat, NEW size \in Nat,
         array' = [m_data |-> data, m_reserved |-> reserved, m_size |-> size],
         Len(data) = reserved, size < reserved,
         NEW text \in Seq(Value), Len(text) = size,
         \A i \in 1 .. size : data[i] = text[i]
  PROVE  ArrayInv' /\ Slots' = text
<1> DEFINE s == SubSeq(data, 1, size)
<1>1. s \in Seq(Place) /\ Len(s) = size /\ \A i \in 1 .. size : s[i] = text[i]
  <2>1. /\ s \in Seq(Place) /\ Len(s) = size - 1 + 1
        /\ \A i \in 1 .. size - 1 + 1 : s[i] = data[1 + i - 1]
    BY Part, 1 \in Nat \ {0}
  <2> HIDE DEF s
  <2> QED BY <2>1
<1>2. text \in Seq(Place)
  BY SeqMonotonic DEF Place
<1>3. Slots' = s
  BY DEF Slots
<1> HIDE DEF s
<1>4. s = text
  BY <1>1, <1>2, SeqEqual
<1>5. array' \in [m_data : Seq(Place), m_reserved : Nat, m_size : Nat]
  OBVIOUS
<1> QED BY <1>3, <1>4, <1>5 DEF ArrayInv, Place

LEMMA ArrayAddStep ==
  ASSUME ArrayInv, NEW v \in Value, array_add(v)
  PROVE  ArrayInv' /\ ArrayList!Add(v)
<1> DEFINE d == array.m_data
           r == array.m_reserved
           size == array.m_size
           n == size + 1
           data == Stored(d, size, One(v))
           part == SubSeq(data, 1, n)
           moved == Stored(New(2 * r), 0, part)
           text == Append(Slots, v)
<1>1. /\ d \in Seq(Place) /\ r \in Nat /\ size \in Nat /\ Len(d) = r /\ size < r
      /\ Slots \in Seq(Value) /\ Len(Slots) = size
      /\ \A i \in 1 .. size : Slots[i] = d[i]
      /\ array = [m_data |-> d, m_reserved |-> r, m_size |-> size]
  BY SlotsAre
<1>2. /\ v \notin Range(Slots)
      /\ array' = IF n >= r THEN [m_data |-> moved, m_reserved |-> 2 * r, m_size |-> n]
                            ELSE [array EXCEPT !.m_data = data, !.m_size = n]
  BY DEF array_add, contains, One
<1>3. One(v) \in Seq(Place) /\ Len(One(v)) = 1 /\ One(v)[1] = v
  <2>1. v \in Place
    BY DEF Place
  <2> QED BY <2>1, OneIs
<1> HIDE DEF d, r, size
<1>4. /\ data \in Seq(Place) /\ Len(data) = r /\ data[n] = v
      /\ \A i \in 1 .. size : data[i] = Slots[i]
  <2>1. d \in Seq(Place) /\ size \in Nat /\ size + Len(One(v)) <= Len(d)
    BY <1>1, <1>3
  <2>2. One(v) \in Seq(Place)
    BY <1>3
  <2>3. /\ data \in Seq(Place) /\ Len(data) = Len(d)
        /\ \A i \in 1 .. Len(d) : data[i] =
             IF i <= size \/ i > size + Len(One(v)) THEN d[i] ELSE One(v)[i - size]
    BY <2>1, <2>2, StoredGives
  <2> HIDE DEF data
  <2>4. data[n] = v
    <3>1. n \in 1 .. Len(d) /\ ~ (n <= size) /\ ~ (n > size + 1) /\ n - size = 1
      BY <1>1
    <3> QED BY <1>3, <2>3, <3>1
  <2>5. ASSUME NEW i \in 1 .. size PROVE data[i] = Slots[i]
    <3>1. i \in 1 .. Len(d) /\ i <= size
      BY <1>1
    <3> QED BY <1>1, <2>3, <3>1
  <2> QED BY <1>1, <2>3, <2>4, <2>5
<1> HIDE DEF data
<1>5. /\ text \in Seq(Value) /\ Len(text) = n
      /\ \A i \in 1 .. n : data[i] = text[i]
  <2>1. /\ text \in Seq(Value) /\ Len(text) = Len(Slots) + 1
        /\ \A i \in 1 .. Len(Slots) : text[i] = Slots[i]
        /\ text[Len(Slots) + 1] = v
    BY <1>1, AppendProperties
  <2> HIDE DEF text
  <2>2. \A i \in 1 .. n : i \in 1 .. size \/ i = n
    BY <1>1
  <2> QED BY <1>1, <1>4, <2>1, <2>2
<1> HIDE DEF text
<1>6. n \in Nat /\ n <= r /\ n < 2 * r /\ 2 * r \in Nat
  BY <1>1
<1>7. CASE n >= r
  <2>1. part \in Seq(Place) /\ Len(part) = n /\ \A i \in 1 .. n : part[i] = data[i]
    <3>1. data \in Seq(Place) /\ n <= Len(data) /\ n \in Nat /\ 1 <= n + 1
      BY <1>4, <1>6
    <3>2. /\ part \in Seq(Place) /\ Len(part) = n - 1 + 1
          /\ \A i \in 1 .. n - 1 + 1 : part[i] = data[1 + i - 1]
      BY <3>1, Part, 1 \in Nat \ {0}
    <3> HIDE DEF part
    <3> QED BY <1>6, <3>2
  <2> HIDE DEF part, n
  <2>2. New(2 * r) \in Seq(Place) /\ Len(New(2 * r)) = 2 * r
    BY <1>6, NewGives DEF Place
  <2>3. /\ moved \in Seq(Place) /\ Len(moved) = 2 * r
        /\ \A i \in 1 .. n : moved[i] = part[i]
    <3>1. part \in Seq(Place) /\ 0 + Len(part) <= Len(New(2 * r))
      BY <1>6, <2>1, <2>2
    <3>2. /\ moved \in Seq(Place) /\ Len(moved) = Len(New(2 * r))
          /\ \A i \in 1 .. Len(New(2 * r)) : moved[i] =
               IF i <= 0 \/ i > 0 + Len(part) THEN New(2 * r)[i] ELSE part[i - 0]
      BY <2>2, <3>1, StoredGives, 0 \in Nat
    <3> HIDE DEF moved
    <3>3. ASSUME NEW i \in 1 .. n PROVE moved[i] = part[i]
      <4>1. i \in 1 .. Len(New(2 * r)) /\ ~ (i <= 0) /\ ~ (i > 0 + Len(part)) /\ i - 0 = i
        BY <1>6, <2>1, <2>2
      <4> QED BY <3>2, <4>1
    <3> QED BY <2>2, <3>2, <3>3
  <2> HIDE DEF moved
  <2>4. \A i \in 1 .. n : moved[i] = text[i]
    BY <1>5, <2>1, <2>3
  <2>5. array' = [m_data |-> moved, m_reserved |-> 2 * r, m_size |-> n]
    BY <1>2, <1>7
  <2> DEFINE more == 2 * r
  <2>6. more \in Nat /\ n < more /\ Len(moved) = more
    BY <1>6, <2>3
  <2>7. array' = [m_data |-> moved, m_reserved |-> more, m_size |-> n]
    BY <2>5
  <2>8. moved \in Seq(Place) /\ text \in Seq(Value) /\ Len(text) = n /\ n \in Nat
    BY <1>5, <1>6, <2>3
  <2> HIDE DEF more
  <2>9. ArrayInv' /\ Slots' = text
    BY <2>4, <2>6, <2>7, <2>8, ArrayHolds
  <2> QED BY <1>2, <2>9 DEF ArrayList!Add, ArrayList!Range, Range, text
<1>8. CASE ~ (n >= r)
  <2>1. array' = [m_data |-> data, m_reserved |-> r, m_size |-> n]
    BY <1>1, <1>2, <1>8
  <2>2. n < r /\ n \in Nat /\ data \in Seq(Place) /\ Len(data) = r /\ r \in Nat
    BY <1>1, <1>4, <1>6, <1>8
  <2>3. text \in Seq(Value) /\ Len(text) = n
    BY <1>5
  <2> HIDE DEF n
  <2>4. ArrayInv' /\ Slots' = text
    BY <1>5, <2>1, <2>2, <2>3, ArrayHolds
  <2> QED BY <1>2, <2>4 DEF ArrayList!Add, ArrayList!Range, Range, text
<1> QED BY <1>7, <1>8

LEMMA ArrayRemoveStep ==
  ASSUME ArrayInv, NEW index \in Int, array_remove(index)
  PROVE  /\ ArrayInv' /\ ArrayList!RemoveIndex(index % SizeRange)
         /\ [ArrayList!Next]_Slots
<1> DEFINE d == array.m_data
           r == array.m_reserved
           size == array.m_size
           i == index % SizeRange
           rest == SubSeq(d, i + 2, size)
           data == Stored(d, i, rest)
           at == i + 1
           text == RemoveAt(Slots, at)
<1>1. /\ d \in Seq(Place) /\ r \in Nat /\ size \in Nat /\ Len(d) = r /\ size < r
      /\ Slots \in Seq(Value) /\ Len(Slots) = size
      /\ \A j \in 1 .. size : Slots[j] = d[j]
      /\ array = [m_data |-> d, m_reserved |-> r, m_size |-> size]
  BY SlotsAre
<1>2. i \in Nat
  BY SizeAssumption
<1>3. array' = IF i < size
                 THEN [array EXCEPT !.m_data = Stored(@, i, rest), !.m_size = @ - 1]
                 ELSE array
  BY DEF array_remove
<1>4. array' = IF i < size THEN [array EXCEPT !.m_data = data, !.m_size = size - 1] ELSE array
  <2> HIDE DEF i, rest
  <2> QED BY <1>1, <1>3
<1> HIDE DEF d, r, size, i
<1>5. CASE i < size
  <2>1. array' = [m_data |-> data, m_reserved |-> r, m_size |-> size - 1]
    <3> HIDE DEF data
    <3> QED BY <1>1, <1>4, <1>5
  <2>2. at \in 1 .. size /\ size - 1 \in Nat /\ size - 1 < r
    BY <1>1, <1>2, <1>5
  <2>3. /\ text \in Seq(Value) /\ Len(text) = size - 1
        /\ \A j \in 1 .. size - 1 : text[j] = IF j < at THEN Slots[j] ELSE Slots[j + 1]
    <3>1. Slots \in Seq(Value) /\ at \in 1 .. Len(Slots)
      BY <1>1, <2>2
    <3>2. /\ text \in Seq(Value) /\ Len(text) = Len(Slots) - 1
          /\ \A j \in 1 .. Len(Slots) - 1 : text[j] = IF j < at THEN Slots[j] ELSE Slots[j + 1]
      <4> HIDE DEF at
      <4> QED BY <3>1, RemoveAtProperties
    <3> HIDE DEF text, at
    <3> QED BY <1>1, <3>2
  <2> HIDE DEF text
  <2>4. /\ rest \in Seq(Place) /\ Len(rest) = size - 1 - i
        /\ \A j \in 1 .. size - 1 - i : rest[j] = d[i + 1 + j]
    <3> DEFINE m == i + 2
    <3>1. m \in Nat \ {0} /\ d \in Seq(Place) /\ size <= Len(d) /\ m <= size + 1
      BY <1>1, <1>2, <1>5
    <3>2. m = i + 2
      OBVIOUS
    <3> HIDE DEF m
    <3>3. /\ SubSeq(d, m, size) \in Seq(Place) /\ Len(SubSeq(d, m, size)) = size - m + 1
          /\ \A j \in 1 .. size - m + 1 : SubSeq(d, m, size)[j] = d[m + j - 1]
      BY <1>1, <3>1, Part
    <3>4. size - m + 1 = size - 1 - i /\ \A j \in 1 .. size - 1 - i : m + j - 1 = i + 1 + j
      BY <1>1, <1>2, <3>2
    <3>5. rest = SubSeq(d, m, size)
      BY <3>2
    <3> HIDE DEF rest
    <3> QED BY <3>3, <3>4, <3>5
  <2> HIDE DEF rest
  <2>5. /\ data \in Seq(Place) /\ Len(data) = Len(d)
        /\ \A j \in 1 .. Len(d) :
             data[j] = IF j <= i \/ j > i + Len(rest) THEN d[j] ELSE rest[j - i]
    <3>1. d \in Seq(Place) /\ rest \in Seq(Place) /\ i + Len(rest) <= Len(d)
      BY <1>1, <1>2, <1>5, <2>4
    <3> QED BY <1>2, <3>1, StoredGives
  <2> HIDE DEF data
  <2>6. ASSUME NEW j \in 1 .. size - 1 PROVE data[j] = text[j]
    <3>1. j \in 1 .. Len(d) /\ j \in 1 .. size /\ j + 1 \in 1 .. size
      BY <1>1
    <3>2. CASE j < at
      <4>1. j <= i
        BY <1>2, <3>2
      <4> QED BY <1>1, <2>3, <2>5, <3>1, <3>2, <4>1
    <3>3. CASE ~ (j < at)
      <4>1. /\ ~ (j <= i) /\ ~ (j > i + Len(rest)) /\ j - i \in 1 .. size - 1 - i
            /\ i + 1 + (j - i) = j + 1
        BY <1>1, <1>2, <2>4, <3>3
      <4>2. data[j] = rest[j - i]
        BY <2>5, <3>1, <4>1
      <4>3. rest[j - i] = d[j + 1]
        BY <2>4, <4>1
      <4>4. text[j] = Slots[j + 1]
        BY <2>3, <3>3
      <4> QED BY <1>1, <3>1, <4>2, <4>3, <4>4
    <3> QED BY <3>2, <3>3
  <2>7. ArrayInv' /\ Slots' = text
    <3> DEFINE less == size - 1
    <3>1. less \in Nat /\ less < r /\ text \in Seq(Value) /\ Len(text) = less
      BY <2>2, <2>3
    <3>2. array' = [m_data |-> data, m_reserved |-> r, m_size |-> less]
      BY <2>1
    <3>3. \A j \in 1 .. less : data[j] = text[j]
      BY <2>6
    <3>4. data \in Seq(Place) /\ r \in Nat /\ Len(data) = r
      BY <1>1, <2>5
    <3> HIDE DEF less
    <3> QED BY <3>1, <3>2, <3>3, <3>4, ArrayHolds
  <2>8. i < Len(Slots) /\ i \in 0 .. Len(Slots) - 1
    BY <1>1, <1>2, <1>5
  <2>9. text = ArrayList!RemoveAt(Slots, i + 1)
    BY DEF text, RemoveAt, ArrayList!RemoveAt
  <2>10. ArrayList!RemoveIndex(i)
    BY <2>7, <2>8, <2>9 DEF ArrayList!RemoveIndex
  <2>11. ArrayList!Next
    BY <2>8, <2>10 DEF ArrayList!Next
  <2> QED BY <2>7, <2>10, <2>11 DEF i
<1>6. CASE ~ (i < size)
  <2>1. array' = array
    BY <1>4, <1>6
  <2>2. ArrayInv' /\ Slots' = Slots
    BY <2>1 DEF ArrayInv, Slots
  <2>3. ~ (i < Len(Slots))
    BY <1>1, <1>6
  <2>4. ArrayList!RemoveIndex(i)
    BY <2>2, <2>3 DEF ArrayList!RemoveIndex
  <2> QED BY <2>2, <2>4 DEF i
<1> QED BY <1>5, <1>6

(* An index that a size_t holds, and what becomes of -1. *)
LEMMA AsSize ==
  /\ \A i \in 0 .. SizeRange - 1 : i % SizeRange = i
  /\ (-1) % SizeRange = SizeRange - 1
<1>1. SizeRange \in Nat /\ SizeRange > 0
  BY SizeAssumption
<1>2. ASSUME NEW i \in -1 .. SizeRange - 1
      PROVE  i % SizeRange = IF i = -1 THEN SizeRange - 1 ELSE i
  <2> DEFINE q == i \div SizeRange
             r == i % SizeRange
  <2>1. q \in Int /\ r \in 0 .. SizeRange - 1 /\ i = SizeRange * q + r
    BY <1>1, <1>2
  <2> HIDE DEF q, r
  <2>2. q <= 0
    <3> SUFFICES ASSUME q >= 1 PROVE FALSE
      BY <2>1
    <3>1. SizeRange * q >= SizeRange
      BY <1>1, <2>1
    <3> QED BY <1>1, <1>2, <2>1, <3>1
  <2>3. q >= -1
    <3> SUFFICES ASSUME q <= -2 PROVE FALSE
      BY <2>1
    <3>1. SizeRange * q <= -2 * SizeRange
      BY <1>1, <2>1
    <3> QED BY <1>1, <1>2, <2>1, <3>1
  <2>4. CASE q = 0
    <3>1. SizeRange * q = 0
      BY <1>1, <2>4
    <3> QED BY <1>1, <1>2, <2>1, <3>1 DEF r
  <2>5. CASE q = -1
    <3>1. SizeRange * q = - SizeRange
      BY <1>1, <2>5
    <3> QED BY <1>1, <1>2, <2>1, <3>1 DEF r
  <2> QED BY <2>1, <2>2, <2>3, <2>4, <2>5
<1>3. -1 \in -1 .. SizeRange - 1
  BY <1>1
<1>4. \A i \in 0 .. SizeRange - 1 : i \in -1 .. SizeRange - 1 /\ i # -1
  BY <1>1
<1> QED BY <1>2, <1>3, <1>4

(* The first place that holds v, or -1. *)
LEMMA FindIs ==
  ASSUME ArrayInv, NEW v \in Value
  PROVE  /\ find(v) \in Int
         /\ v \notin Range(Slots) => find(v) = -1
         /\ v \in Range(Slots) =>
              /\ find(v) \in 0 .. array.m_size - 1
              /\ ArrayList!IsFirst(v, find(v) + 1)
<1> DEFINE places == {i \in 1 .. array.m_size : array.m_data[i] = v}
<1>1. find(v) = IF places = {} THEN -1 ELSE Min(places) - 1
  BY DEF find
<1>2. /\ array.m_size \in Nat /\ Slots \in Seq(Value) /\ Len(Slots) = array.m_size
      /\ \A i \in 1 .. array.m_size : Slots[i] = array.m_data[i]
  BY SlotsAre
<1>3. DOMAIN Slots = 1 .. array.m_size
  BY <1>2
<1>4. \A i : i \in places <=> i \in 1 .. array.m_size /\ Slots[i] = v
  BY <1>2
<1>5. v \in Range(Slots) <=> places # {}
  BY <1>3, <1>4 DEF Range
<1> HIDE DEF places
<1>6. CASE places = {}
  BY <1>1, <1>5, <1>6
<1>7. CASE places # {}
  <2> DEFINE least == Min(places)
  <2>1. \A i \in places : i \in Nat
    BY <1>2, <1>4
  <2>2. least \in places /\ \A j \in places : least <= j
    BY <1>7, <2>1, MinOfNat
  <2>3. find(v) = least - 1
    BY <1>1, <1>7
  <2> HIDE DEF least
  <2>4. least \in 1 .. array.m_size /\ Slots[least] = v
    BY <1>4, <2>2
  <2>5. ASSUME NEW j \in 1 .. least - 1 PROVE Slots[j] # v
    <3>1. j \in 1 .. array.m_size /\ ~ (least <= j)
      BY <1>2, <2>4
    <3> QED BY <1>4, <2>2, <3>1
  <2>6. find(v) \in 0 .. array.m_size - 1 /\ find(v) + 1 = least /\ find(v) \in Int
    BY <1>2, <2>3, <2>4
  <2>7. ArrayList!IsFirst(v, least)
    BY <1>3, <2>4, <2>5 DEF ArrayList!IsFirst
  <2> QED BY <1>5, <1>7, <2>6, <2>7
<1> QED BY <1>6, <1>7

(* What find finds is removed, and nothing when it finds nothing. *)
LEMMA RemoveFoundStep ==
  ASSUME ArrayInv, NEW v \in Value, array.m_size < SizeRange, array_remove(find(v))
  PROVE  ArrayList!RemoveFound(v)
<1> DEFINE i == find(v)
<1>1. /\ i \in Int
      /\ v \notin Range(Slots) => i = -1
      /\ v \in Range(Slots) =>
           i \in 0 .. array.m_size - 1 /\ ArrayList!IsFirst(v, i + 1)
  BY FindIs
<1>2. array.m_size \in Nat /\ Len(Slots) = array.m_size /\ SizeRange \in Nat
  BY SlotsAre, SizeAssumption
<1>3. ArrayList!RemoveIndex(i % SizeRange)
  BY <1>1, ArrayRemoveStep
<1>4. Range(Slots) = ArrayList!Range(Slots)
  BY DEF Range, ArrayList!Range
<1> HIDE DEF i
<1>5. CASE v \notin Range(Slots)
  <2>1. i % SizeRange = SizeRange - 1
    BY <1>1, <1>5, AsSize
  <2>2. ~ (i % SizeRange < Len(Slots))
    BY <1>2, <2>1
  <2> QED BY <1>3, <1>4, <1>5, <2>2 DEF ArrayList!RemoveIndex, ArrayList!RemoveFound
<1>6. CASE v \in Range(Slots)
  <2>1. i \in 0 .. SizeRange - 1 /\ i < Len(Slots)
    BY <1>1, <1>2, <1>6
  <2>2. i % SizeRange = i
    BY <2>1, AsSize
  <2>3. Slots' = ArrayList!RemoveAt(Slots, i + 1)
    BY <1>3, <2>1, <2>2 DEF ArrayList!RemoveIndex
  <2>4. ArrayList!IsFirst(v, i + 1) /\ i + 1 \in DOMAIN Slots
    BY <1>1, <1>6 DEF ArrayList!IsFirst
  <2> QED BY <1>4, <1>6, <2>3, <2>4 DEF ArrayList!RemoveFound
<1> QED BY <1>5, <1>6

-----------------------------------------------------------------------------
(* Walks along the nodes. *)

LEMMA WalkEquation ==
  ASSUME NEW first, NEW step, NEW rounds \in Nat
  PROVE  Walk(first, step, rounds) =
           [k \in 0 .. rounds |->
              IF k = 0 THEN first ELSE step[Walk(first, step, rounds)[k - 1]]]
<1> DEFINE Fixed(n, f) == f = [k \in 0 .. n |-> IF k = 0 THEN first ELSE step[f[k - 1]]]
           missing == {n \in Nat : ~ \E f : Fixed(n, f)}
<1>1. missing = {}
  <2> SUFFICES ASSUME missing # {} PROVE FALSE
    OBVIOUS
  <2>1. missing \subseteq Nat
    OBVIOUS
  <2>2. PICK n \in missing : \A y \in missing : n <= y
    BY <2>1, MinOfNat
  <2>3. n # 0
    <3>1. Fixed(0, [k \in 0 .. 0 |-> first])
      OBVIOUS
    <3> QED BY <2>2, <3>1
  <2>4. n - 1 \in Nat /\ n - 1 \notin missing
    <3>1. n - 1 \in Nat /\ ~ (n <= n - 1)
      BY <2>1, <2>2, <2>3
    <3> QED BY <2>2, <3>1
  <2>5. PICK f : Fixed(n - 1, f)
    BY <2>4
  <2> DEFINE g == [k \in 0 .. n |-> IF k = 0 THEN first ELSE step[f[k - 1]]]
  <2>6. \A k \in 0 .. n - 1 : g[k] = f[k]
    <3>1. \A k \in 0 .. n - 1 : k \in 0 .. n
      BY <2>1, <2>2
    <3>2. \A k \in 0 .. n - 1 : f[k] = IF k = 0 THEN first ELSE step[f[k - 1]]
      BY <2>5
    <3> QED BY <3>1, <3>2
  <2>7. Fixed(n, g)
    <3>1. ASSUME NEW k \in 0 .. n, k # 0 PROVE step[f[k - 1]] = step[g[k - 1]]
      <4>1. k - 1 \in 0 .. n - 1
        BY <2>1, <2>2, <3>1
      <4> QED BY <2>6, <4>1
    <3> QED BY <3>1
  <2> QED BY <2>2, <2>7
<1>2. \E f : Fixed(rounds, f)
  BY <1>1
<1> QED BY <1>2 DEF Walk

(* A walk whose steps follow p is where p says. *)
LEMMA WalkFollows ==
  ASSUME NEW first, NEW step, NEW rounds \in Nat, NEW p, p[0] = first,
         \A k \in 1 .. rounds : step[p[k - 1]] = p[k]
  PROVE  \A k \in 0 .. rounds : Walk(first, step, rounds)[k] = p[k]
<1> DEFINE at == Walk(first, step, rounds)
           bad == {k \in 0 .. rounds : at[k] # p[k]}
<1>1. at = [k \in 0 .. rounds |-> IF k = 0 THEN first ELSE step[at[k - 1]]]
  BY WalkEquation
<1> HIDE DEF at
<1> SUFFICES ASSUME bad # {} PROVE FALSE
  BY DEF at
<1>2. bad \subseteq Nat
  OBVIOUS
<1>3. PICK k \in bad : \A y \in bad : k <= y
  <2> HIDE DEF bad
  <2> QED BY <1>2, MinOfNat
<1>4. k # 0
  BY <1>1, <1>3
<1>5. k - 1 \in 0 .. rounds /\ k \in 1 .. rounds /\ ~ (k <= k - 1)
  BY <1>3, <1>4
<1>6. at[k - 1] = p[k - 1]
  BY <1>3, <1>5
<1>7. at[k] = step[at[k - 1]]
  BY <1>1, <1>3, <1>4
<1> QED BY <1>3, <1>5, <1>6, <1>7

(* Where the two loops of linked_list come to, and how many nodes there are. *)
LEMMA ChainWalk ==
  ASSUME NEW w \in Seq(Node), NEW first, NEW nodes, Chain(w, first, nodes)
  PROVE  LET at == Walk(first, [n \in DOMAIN nodes |-> nodes[n].next], Len(w))
         IN  \A k \in 0 .. Len(w) : at[k] = IF k = Len(w) THEN NULL ELSE w[k + 1]
<1> DEFINE step == [n \in DOMAIN nodes |-> nodes[n].next]
           p == [k \in 0 .. Len(w) |-> IF k = Len(w) THEN NULL ELSE w[k + 1]]
<1>1. Len(w) \in Nat
  BY LenProperties
<1>2. p[0] = first
  BY <1>1 DEF Chain
<1>3. ASSUME NEW k \in 1 .. Len(w) PROVE step[p[k - 1]] = p[k]
  <2>1. k - 1 \in 0 .. Len(w) /\ k - 1 # Len(w) /\ k - 1 + 1 = k /\ k \in 0 .. Len(w)
    BY <1>1
  <2>2. p[k - 1] = w[k]
    BY <2>1
  <2>3. w[k] \in DOMAIN nodes /\ nodes[w[k]].next = IF k = Len(w) THEN NULL ELSE w[k + 1]
    BY DEF Chain
  <2> QED BY <2>1, <2>2, <2>3
<1> HIDE DEF step, p
<1>4. \A k \in 0 .. Len(w) : Walk(first, step, Len(w))[k] = p[k]
  BY <1>1, <1>2, <1>3, WalkFollows
<1> QED BY <1>4 DEF step, p

LEMMA ChainLast ==
  ASSUME NEW w \in Seq(Node), NEW first, NEW nodes, Chain(w, first, nodes), Len(w) > 0
  PROVE  LET step == [n \in DOMAIN nodes |->
                        IF nodes[n].next = NULL THEN n ELSE nodes[n].next]
         IN  Walk(first, step, Len(w))[Len(w)] = w[Len(w)]
<1> DEFINE step == [n \in DOMAIN nodes |->
                      IF nodes[n].next = NULL THEN n ELSE nodes[n].next]
           p == [k \in 0 .. Len(w) |-> IF k = Len(w) THEN w[k] ELSE w[k + 1]]
<1>1. Len(w) \in Nat
  BY LenProperties
<1>2. p[0] = first
  BY <1>1 DEF Chain
<1>3. ASSUME NEW k \in 1 .. Len(w) PROVE step[p[k - 1]] = p[k]
  <2>1. k - 1 \in 0 .. Len(w) /\ k - 1 # Len(w) /\ k - 1 + 1 = k /\ k \in 0 .. Len(w)
    BY <1>1
  <2>2. p[k - 1] = w[k]
    BY <2>1
  <2>3. w[k] \in DOMAIN nodes /\ nodes[w[k]].next = IF k = Len(w) THEN NULL ELSE w[k + 1]
    BY DEF Chain
  <2>4. k # Len(w) => w[k + 1] # NULL
    <3>1. k # Len(w) => k + 1 \in 1 .. Len(w)
      BY <1>1
    <3>2. k # Len(w) => w[k + 1] \in Node
      BY <3>1, ElementOfSeq
    <3> QED BY <3>2, NodeAssumption
  <2> QED BY <2>1, <2>2, <2>3, <2>4
<1>4. p[Len(w)] = w[Len(w)] /\ Len(w) \in 0 .. Len(w)
  BY <1>1
<1> HIDE DEF step, p
<1>5. \A k \in 0 .. Len(w) : Walk(first, step, Len(w))[k] = p[k]
  BY <1>1, <1>2, <1>3, WalkFollows
<1>6. Walk(first, step, Len(w))[Len(w)] = w[Len(w)]
  BY <1>4, <1>5
<1> QED BY <1>6 DEF step

LEMMA ChainCount ==
  ASSUME NEW w \in Seq(Node), NEW first, NEW nodes, Chain(w, first, nodes)
  PROVE  Cardinality(DOMAIN nodes) = Len(w)
<1> DEFINE f == [i \in 1 .. Len(w) |-> w[i]]
<1>1. Len(w) \in Nat
  BY LenProperties
<1>2. f \in Bijection(1 .. Len(w), DOMAIN nodes)
  BY DEF Chain, Bijection, Injection, Surjection, IsInjective
<1>3. ExistsBijection(1 .. Len(w), DOMAIN nodes)
  BY <1>2 DEF ExistsBijection
<1> QED BY <1>1, <1>3, FS_CountingElements

-----------------------------------------------------------------------------
(* The linked list. *)

(* What the list is when its nodes hang together in the order of w. *)
LEMMA ElementsAre ==
  ASSUME LinkedInv, NEW w \in Seq(Node), Len(w) = linked.m_size,
         Chain(w, linked.m_first, node)
  PROVE  /\ \A k \in 0 .. Len(w) : At[k] = IF k = Len(w) THEN NULL ELSE w[k + 1]
         /\ Elements = [i \in 1 .. Len(w) |-> node[w[i]].value]
         /\ Elements \in Seq(Value) /\ Len(Elements) = Len(w)
         /\ Len(w) > 0 => LastNode = w[Len(w)]
<1>1. Len(w) \in Nat
  BY LenProperties
<1>2. \A k \in 0 .. Len(w) : At[k] = IF k = Len(w) THEN NULL ELSE w[k + 1]
  BY ChainWalk DEF At
<1>3. ASSUME NEW i \in 1 .. Len(w) PROVE At[i - 1] = w[i] /\ node[w[i]].value \in Value
  <2>1. i - 1 \in 0 .. Len(w) /\ i - 1 # Len(w) /\ i - 1 + 1 = i
    BY <1>1
  <2>2. w[i] \in DOMAIN node
    BY DEF Chain
  <2> QED BY <1>2, <2>1, <2>2 DEF LinkedInv
<1>4. Elements = [i \in 1 .. Len(w) |-> node[w[i]].value]
  BY <1>3 DEF Elements
<1>5. Elements \in [1 .. Len(w) -> Value]
  BY <1>3, <1>4
<1>6. Elements \in Seq(Value) /\ Len(Elements) = Len(w)
  BY <1>1, <1>5
<1>7. Len(w) > 0 => LastNode = w[Len(w)]
  BY ChainLast, ChainCount DEF LastNode
<1> QED BY <1>2, <1>4, <1>6, <1>7

(* The same of the next state. *)
LEMMA LinkedHolds ==
  ASSUME NEW w \in Seq(Node), Len(w) = linked'.m_size,
         linked' \in [m_first : Node \cup {NULL}, m_size : Nat],
         node' \in [DOMAIN node' -> [value : Value, next : Node \cup {NULL}]],
         Chain(w, linked'.m_first, node')
  PROVE  LinkedInv' /\ Elements' = [i \in 1 .. Len(w) |-> node'[w[i]].value]
<1>1. Len(w) \in Nat
  BY LenProperties
<1>2. \A k \in 0 .. Len(w) : At'[k] = IF k = Len(w) THEN NULL ELSE w[k + 1]
  BY ChainWalk DEF At
<1>3. ASSUME NEW i \in 1 .. Len(w) PROVE At'[i - 1] = w[i]
  <2>1. i - 1 \in 0 .. Len(w) /\ i - 1 # Len(w) /\ i - 1 + 1 = i
    BY <1>1
  <2> QED BY <1>2, <2>1
<1>4. Elements' = [i \in 1 .. Len(w) |-> node'[w[i]].value]
  BY <1>3 DEF Elements
<1>5. LinkedInv'
  BY DEF LinkedInv
<1> QED BY <1>4, <1>5

LEMMA LinkedAddStep ==
  ASSUME LinkedInv, NEW v \in Value, linked_add(v)
  PROVE  LinkedInv' /\ LinkedList!Add(v)
<1>1. PICK w \in Seq(Node) : Len(w) = linked.m_size /\ Chain(w, linked.m_first, node)
  BY DEF LinkedInv
<1>2. /\ Elements = [i \in 1 .. Len(w) |-> node[w[i]].value]
      /\ Elements \in Seq(Value) /\ Len(Elements) = Len(w)
      /\ Len(w) > 0 => LastNode = w[Len(w)]
  BY <1>1, ElementsAre
<1>3. Len(w) \in Nat
  BY LenProperties
<1>4. /\ v \notin Range(Elements)
      /\ \E n \in Node \ DOMAIN node :
           IF linked.m_first = NULL
             THEN /\ linked' = [linked EXCEPT !.m_first = n, !.m_size = @ + 1]
                  /\ node' = WithNode(node, n, v)
             ELSE /\ linked' = [linked EXCEPT !.m_size = @ + 1]
                  /\ node' = WithNode([node EXCEPT ![LastNode].next = n], n, v)
  BY DEF linked_add
<1>5. PICK n \in Node \ DOMAIN node :
        IF linked.m_first = NULL
          THEN /\ linked' = [linked EXCEPT !.m_first = n, !.m_size = @ + 1]
               /\ node' = WithNode(node, n, v)
          ELSE /\ linked' = [linked EXCEPT !.m_size = @ + 1]
               /\ node' = WithNode([node EXCEPT ![LastNode].next = n], n, v)
  BY <1>4
<1>6. /\ \A i, j \in 1 .. Len(w) : w[i] = w[j] => i = j
      /\ DOMAIN node = {w[i] : i \in 1 .. Len(w)}
      /\ linked.m_first = IF Len(w) = 0 THEN NULL ELSE w[1]
      /\ \A i \in 1 .. Len(w) :
           node[w[i]].next = IF i = Len(w) THEN NULL ELSE w[i + 1]
  BY <1>1 DEF Chain
<1>7. /\ linked \in [m_first : Node \cup {NULL}, m_size : Nat]
      /\ node \in [DOMAIN node -> [value : Value, next : Node \cup {NULL}]]
  BY DEF LinkedInv
<1>8. linked.m_first = NULL <=> Len(w) = 0
  <2>1. Len(w) # 0 => w[1] \in Node
    BY <1>3, ElementOfSeq
  <2> QED BY <1>6, <2>1, NodeAssumption
<1>9. n \in Node /\ n # NULL /\ n \notin DOMAIN node
  BY NodeAssumption
<1> DEFINE x == Append(w, n)
           m == Len(w) + 1
<1>10. /\ x \in Seq(Node) /\ Len(x) = m /\ x[m] = n
       /\ \A i \in 1 .. Len(w) : x[i] = w[i]
  BY <1>9, AppendProperties
<1> HIDE DEF x
<1>11. linked' = [m_first |-> x[1], m_size |-> m]
  <2>1. linked = [m_first |-> linked.m_first, m_size |-> linked.m_size]
    BY <1>7
  <2>2. CASE Len(w) = 0
    <3>1. linked' = [linked EXCEPT !.m_first = n, !.m_size = @ + 1] /\ x[1] = n
      BY <1>5, <1>8, <1>10, <2>2
    <3> QED BY <1>1, <2>1, <3>1
  <2>3. CASE Len(w) # 0
    <3>1. linked' = [linked EXCEPT !.m_size = @ + 1]
      BY <1>5, <1>8, <2>3
    <3>2. 1 \in 1 .. Len(w)
      BY <1>3, <2>3
    <3>3. x[1] = linked.m_first
      BY <1>6, <1>10, <2>3, <3>2
    <3> QED BY <1>1, <2>1, <3>1, <3>3
  <2> QED BY <2>2, <2>3
<1>12. /\ DOMAIN node' = DOMAIN node \cup {n}
       /\ node'[n] = [value |-> v, next |-> NULL]
       /\ \A i \in 1 .. Len(w) :
            node'[w[i]] = [value |-> node[w[i]].value,
                           next |-> IF i = Len(w) THEN n ELSE w[i + 1]]
  <2>1. \A i \in 1 .. Len(w) : /\ w[i] \in DOMAIN node /\ w[i] # n
                               /\ node[w[i]] = [value |-> node[w[i]].value,
                                                 next |-> node[w[i]].next]
    <3>1. \A i \in 1 .. Len(w) : w[i] \in DOMAIN node
      BY <1>6
    <3> QED BY <1>7, <1>9, <3>1
  <2>2. CASE Len(w) = 0
    <3>1. node' = WithNode(node, n, v)
      BY <1>5, <1>8, <2>2
    <3>2. \A i \in 1 .. Len(w) : FALSE
      BY <2>2
    <3> QED BY <3>1, <3>2 DEF WithNode
  <2>3. CASE Len(w) # 0
    <3> DEFINE other == [node EXCEPT ![LastNode].next = n]
    <3>1. node' = WithNode(other, n, v)
      BY <1>5, <1>8, <2>3
    <3>2. Len(w) \in 1 .. Len(w) /\ LastNode = w[Len(w)]
      BY <1>2, <1>3, <2>3
    <3>3. DOMAIN other = DOMAIN node
      OBVIOUS
    <3>4. ASSUME NEW i \in 1 .. Len(w)
          PROVE  other[w[i]] = [value |-> node[w[i]].value,
                                next |-> IF i = Len(w) THEN n ELSE w[i + 1]]
      <4>1. CASE i = Len(w)
        <5>1. w[i] = LastNode /\ LastNode \in DOMAIN node
          BY <2>1, <3>2, <4>1
        <5>2. other[w[i]] = [node[w[i]] EXCEPT !.next = n]
          BY <5>1
        <5> QED BY <2>1, <4>1, <5>2
      <4>2. CASE i # Len(w)
        <5>1. w[i] # LastNode
          BY <1>6, <3>2, <4>2
        <5>2. other[w[i]] = node[w[i]]
          BY <2>1, <5>1
        <5> QED BY <1>6, <2>1, <4>2, <5>2
      <4> QED BY <4>1, <4>2
    <3> HIDE DEF other
    <3>5. DOMAIN node' = DOMAIN node \cup {n} /\ node'[n] = [value |-> v, next |-> NULL]
      BY <3>1, <3>3 DEF WithNode
    <3>6. \A i \in 1 .. Len(w) : node'[w[i]] = other[w[i]]
      BY <2>1, <3>1, <3>3 DEF WithNode
    <3> QED BY <3>4, <3>5, <3>6
  <2> QED BY <2>2, <2>3
<1>13. \A i \in 1 .. m : i \in 1 .. Len(w) \/ i = m
  BY <1>3
<1>14. /\ linked' \in [m_first : Node \cup {NULL}, m_size : Nat]
       /\ Len(x) = linked'.m_size
  <2>1. x[1] \in Node
    BY <1>3, <1>10, ElementOfSeq
  <2> QED BY <1>3, <1>10, <1>11, <2>1
<1>15. node' \in [DOMAIN node' -> [value : Value, next : Node \cup {NULL}]]
  <2>1. ASSUME NEW y \in DOMAIN node' PROVE node'[y] \in [value : Value, next : Node \cup {NULL}]
    <3>1. CASE y = n
      BY <1>12, <3>1
    <3>2. CASE y # n
      <4>1. PICK i \in 1 .. Len(w) : y = w[i]
        BY <1>6, <1>12, <3>2
      <4>2. w[i] \in DOMAIN node
        BY <1>6
      <4>3. i # Len(w) => w[i + 1] \in Node
        <5>1. i # Len(w) => i + 1 \in 1 .. Len(w)
          BY <1>3
        <5> QED BY <5>1, ElementOfSeq
      <4>4. node[w[i]].value \in Value
        BY <1>7, <4>2
      <4>5. node'[y] = [value |-> node[w[i]].value, next |-> IF i = Len(w) THEN n ELSE w[i + 1]]
        BY <1>12, <4>1
      <4>6. (IF i = Len(w) THEN n ELSE w[i + 1]) \in Node \cup {NULL}
        BY <1>9, <4>3
      <4> QED BY <4>4, <4>5, <4>6
    <3> QED BY <3>1, <3>2
  <2>2. node' = [y \in DOMAIN node' |-> node'[y]]
    <3>1. CASE linked.m_first = NULL
      BY <1>5, <3>1 DEF WithNode
    <3>2. CASE linked.m_first # NULL
      BY <1>5, <3>2 DEF WithNode
    <3> QED BY <3>1, <3>2
  <2> QED BY <2>1, <2>2
<1>16. Chain(x, linked'.m_first, node')
  <2>1. \A i, j \in 1 .. Len(x) : x[i] = x[j] => i = j
    <3> SUFFICES ASSUME NEW i \in 1 .. m, NEW j \in 1 .. m, x[i] = x[j] PROVE i = j
      BY <1>10
    <3>1. \A k \in 1 .. Len(w) : x[k] # n
      BY <1>6, <1>9, <1>10
    <3> QED BY <1>6, <1>10, <1>13, <3>1
  <2>2. DOMAIN node' = {x[i] : i \in 1 .. Len(x)}
    <3>1. {x[i] : i \in 1 .. m} = {w[i] : i \in 1 .. Len(w)} \cup {n}
      <4>1. m \in 1 .. m /\ \A i \in 1 .. Len(w) : i \in 1 .. m
        BY <1>3
      <4> QED BY <1>10, <1>13, <4>1
    <3> QED BY <1>6, <1>10, <1>12, <3>1
  <2>3. linked'.m_first = IF Len(x) = 0 THEN NULL ELSE x[1]
    BY <1>3, <1>10, <1>11
  <2>4. ASSUME NEW i \in 1 .. Len(x)
        PROVE  node'[x[i]].next = IF i = Len(x) THEN NULL ELSE x[i + 1]
    <3>1. CASE i = m
      BY <1>10, <1>12, <3>1
    <3>2. CASE i # m
      <4>1. i \in 1 .. Len(w) /\ i # Len(x)
        BY <1>10, <1>13, <3>2
      <4>2. x[i + 1] = IF i = Len(w) THEN n ELSE w[i + 1]
        <5>1. i # Len(w) => i + 1 \in 1 .. Len(w)
          BY <1>3, <4>1
        <5> QED BY <1>10, <5>1
      <4>3. node'[x[i]] = [value |-> node[w[i]].value,
                           next |-> IF i = Len(w) THEN n ELSE w[i + 1]]
        BY <1>10, <1>12, <4>1
      <4>4. node'[x[i]].next = IF i = Len(w) THEN n ELSE w[i + 1]
        BY <4>3
      <4> QED BY <4>1, <4>2, <4>4
    <3> QED BY <3>1, <3>2
  <2> QED BY <2>1, <2>2, <2>3, <2>4 DEF Chain
<1>17. LinkedInv' /\ Elements' = [i \in 1 .. Len(x) |-> node'[x[i]].value]
  BY <1>10, <1>14, <1>15, <1>16, LinkedHolds
<1>18. Elements' = Append(Elements, v)
  <2> DEFINE text == Append(Elements, v)
  <2>1. /\ text \in Seq(Value) /\ Len(text) = m
        /\ \A i \in 1 .. Len(w) : text[i] = Elements[i]
        /\ text[m] = v
    <3>1. /\ text \in Seq(Value) /\ Len(text) = Len(Elements) + 1
          /\ \A i \in 1 .. Len(Elements) : text[i] = Elements[i]
          /\ text[Len(Elements) + 1] = v
      BY <1>2, AppendProperties
    <3> HIDE DEF text
    <3> QED BY <1>2, <3>1
  <2> HIDE DEF text
  <2>2. ASSUME NEW i \in 1 .. m PROVE node'[x[i]].value = text[i]
    <3>1. CASE i = m
      BY <1>10, <1>12, <2>1, <3>1
    <3>2. CASE i # m
      <4>1. i \in 1 .. Len(w)
        BY <1>13, <3>2
      <4>2. node'[x[i]] = [value |-> node[w[i]].value,
                           next |-> IF i = Len(w) THEN n ELSE w[i + 1]]
        BY <1>10, <1>12, <4>1
      <4>3. node'[x[i]].value = node[w[i]].value
        BY <4>2
      <4> QED BY <1>2, <2>1, <4>1, <4>3
    <3> QED BY <3>1, <3>2
  <2>3. text = [i \in 1 .. m |-> text[i]]
    BY <2>1
  <2> QED BY <1>10, <1>17, <2>2, <2>3 DEF text
<1> QED BY <1>4, <1>17, <1>18 DEF LinkedList!Add, LinkedList!Range, Range

LEMMA LinkedRemoveStep ==
  ASSUME LinkedInv, NEW i \in Nat, linked_remove(i)
  PROVE  LinkedInv' /\ LinkedList!RemoveIndex(i) /\ LinkedList!Next
<1>1. PICK w \in Seq(Node) : Len(w) = linked.m_size /\ Chain(w, linked.m_first, node)
  BY DEF LinkedInv
<1> DEFINE size == Len(w)
           at == i + 1
           gone == w[at]
           x == RemoveAt(w, at)
           next == IF at = size THEN NULL ELSE w[at + 1]
<1>2. /\ \A k \in 0 .. size : At[k] = IF k = size THEN NULL ELSE w[k + 1]
      /\ Elements = [k \in 1 .. size |-> node[w[k]].value]
      /\ Elements \in Seq(Value) /\ Len(Elements) = size
  BY <1>1, ElementsAre
<1>3. /\ \A k, j \in 1 .. size : w[k] = w[j] => k = j
      /\ DOMAIN node = {w[k] : k \in 1 .. size}
      /\ linked.m_first = IF size = 0 THEN NULL ELSE w[1]
      /\ \A k \in 1 .. size :
           node[w[k]].next = IF k = size THEN NULL ELSE w[k + 1]
  BY <1>1 DEF Chain
<1>4. /\ linked \in [m_first : Node \cup {NULL}, m_size : Nat]
      /\ node \in [DOMAIN node -> [value : Value, next : Node \cup {NULL}]]
  BY DEF LinkedInv
<1>5. /\ i < size
      /\ IF i > 0
           THEN LET current == At[i - 1]
                    after == node[node[current].next].next
                IN  /\ linked' = [linked EXCEPT !.m_size = @ - 1]
                    /\ node' = [n \in DOMAIN node \ {node[current].next} |->
                                  IF n = current THEN [node[n] EXCEPT !.next = after]
                                                 ELSE node[n]]
           ELSE /\ linked' = [m_first |-> node[linked.m_first].next,
                              m_size |-> linked.m_size - 1]
                /\ node' = [n \in DOMAIN node \ {linked.m_first} |-> node[n]]
  BY <1>1 DEF linked_remove
<1>6. size \in Nat /\ at \in 1 .. size /\ size - 1 \in Nat
  BY <1>5, LenProperties
<1>a. i < size /\ at = i + 1
  BY <1>5
<1>7. \A k \in 1 .. size : /\ w[k] \in Node /\ w[k] \in DOMAIN node
                           /\ node[w[k]] = [value |-> node[w[k]].value, next |-> node[w[k]].next]
                           /\ node[w[k]].value \in Value
  <2>1. \A k \in 1 .. size : w[k] \in Node
    BY ElementOfSeq
  <2>2. \A k \in 1 .. size : w[k] \in DOMAIN node
    BY <1>3
  <2> QED BY <1>4, <2>1, <2>2
<1>8. node[gone].next = next
  BY <1>3, <1>6
<1>9. next \in Node \cup {NULL}
  <2>1. at # size => at + 1 \in 1 .. size
    BY <1>6
  <2> QED BY <1>7, <2>1
<1>10. /\ x \in Seq(Node) /\ Len(x) = size - 1
       /\ \A k \in 1 .. size - 1 : x[k] = IF k < at THEN w[k] ELSE w[k + 1]
  <2> HIDE DEF at
  <2> QED BY <1>6, RemoveAtProperties
<1> HIDE DEF x, next, gone
<1>11. /\ linked'.m_size = size - 1
       /\ linked'.m_first = IF i > 0 THEN linked.m_first ELSE next
       /\ linked' \in [m_first : Node \cup {NULL}, m_size : Nat]
  <2>1. CASE i > 0
    <3>1. linked' = [linked EXCEPT !.m_size = @ - 1]
      BY <1>5, <2>1
    <3> QED BY <1>1, <1>4, <1>6, <2>1, <3>1
  <2>2. CASE ~ (i > 0)
    <3>1. linked' = [m_first |-> node[linked.m_first].next, m_size |-> linked.m_size - 1]
      BY <1>5, <2>2
    <3>2. i = 0 /\ size # 0
      BY <1>5, <2>2
    <3>3. linked.m_first = gone
      BY <1>3, <3>2 DEF gone
    <3> QED BY <1>1, <1>6, <1>8, <1>9, <2>2, <3>1, <3>3
  <2> QED BY <2>1, <2>2
<1>12. /\ DOMAIN node' = DOMAIN node \ {gone}
       /\ node' = [y \in DOMAIN node' |-> node'[y]]
       /\ \A k \in 1 .. size : k # at =>
            node'[w[k]] = [value |-> node[w[k]].value,
                           next |-> IF k = i THEN next ELSE node[w[k]].next]
  <2>1. CASE i > 0
    <3> DEFINE current == At[i - 1]
    <3>1. i - 1 \in 0 .. size /\ i - 1 # size /\ i - 1 + 1 = i /\ i \in 1 .. size /\ i # size
      BY <1>5, <1>6, <2>1
    <3>2. current = w[i]
      BY <1>2, <3>1
    <3>3. node[current].next = gone
      BY <1>3, <3>1, <3>2 DEF gone
    <3>4. node' = [n \in DOMAIN node \ {gone} |->
                     IF n = w[i] THEN [node[n] EXCEPT !.next = next] ELSE node[n]]
      <4>1. node' = [n \in DOMAIN node \ {node[current].next} |->
                       IF n = current
                         THEN [node[n] EXCEPT !.next = node[node[current].next].next]
                         ELSE node[n]]
        BY <1>5, <2>1
      <4> HIDE DEF current
      <4> QED BY <1>8, <3>2, <3>3, <4>1
    <3>5. ASSUME NEW k \in 1 .. size, k # at
          PROVE  node'[w[k]] = [value |-> node[w[k]].value,
                                next |-> IF k = i THEN next ELSE node[w[k]].next]
      <4>1. w[k] \in DOMAIN node \ {gone}
        BY <1>3, <1>6, <1>7, <3>5 DEF gone
      <4>2. CASE k = i
        <5>1. node'[w[k]] = [node[w[k]] EXCEPT !.next = next]
          BY <3>4, <4>1, <4>2
        <5> QED BY <1>7, <4>2, <5>1
      <4>3. CASE k # i
        <5>1. w[k] # w[i]
          BY <1>3, <3>1, <4>3
        <5>2. node'[w[k]] = node[w[k]]
          BY <3>4, <4>1, <5>1
        <5> QED BY <1>7, <4>3, <5>2
      <4> QED BY <4>2, <4>3
    <3>6. DOMAIN node' = DOMAIN node \ {gone} /\ node' = [y \in DOMAIN node' |-> node'[y]]
      BY <3>4
    <3> QED BY <3>5, <3>6
  <2>2. CASE ~ (i > 0)
    <3>1. i = 0 /\ size # 0
      BY <1>5, <2>2
    <3>2. linked.m_first = gone
      BY <1>3, <3>1 DEF gone
    <3>3. node' = [n \in DOMAIN node \ {gone} |-> node[n]]
      BY <1>5, <2>2, <3>2
    <3>4. ASSUME NEW k \in 1 .. size, k # at
          PROVE  node'[w[k]] = [value |-> node[w[k]].value,
                                next |-> IF k = i THEN next ELSE node[w[k]].next]
      <4>1. w[k] \in DOMAIN node \ {gone}
        BY <1>3, <1>6, <1>7, <3>4 DEF gone
      <4>2. node'[w[k]] = node[w[k]] /\ k # i
        BY <3>1, <3>3, <4>1
      <4> QED BY <1>7, <4>2
    <3>5. DOMAIN node' = DOMAIN node \ {gone} /\ node' = [y \in DOMAIN node' |-> node'[y]]
      BY <3>3
    <3> QED BY <3>4, <3>5
  <2> QED BY <2>1, <2>2
(* Where the elements of x come from. *)
<1> DEFINE from(k) == IF k < at THEN k ELSE k + 1
<1>13. \A k \in 1 .. size - 1 :
         from(k) \in 1 .. size /\ from(k) # at /\ x[k] = w[from(k)]
  BY <1>6, <1>10
<1>14. \A k \in 1 .. size : k # at => \E j \in 1 .. size - 1 : from(j) = k
  <2> SUFFICES ASSUME NEW k \in 1 .. size, k # at PROVE \E j \in 1 .. size - 1 : from(j) = k
    OBVIOUS
  <2>1. CASE k < at
    <3>1. k \in 1 .. size - 1 /\ from(k) = k
      BY <1>6, <2>1
    <3> QED BY <3>1
  <2>2. CASE ~ (k < at)
    <3>1. k - 1 \in 1 .. size - 1 /\ from(k - 1) = k
      BY <1>6, <2>2
    <3> QED BY <3>1
  <2> QED BY <2>1, <2>2
<1>15. \A k, j \in 1 .. size - 1 : from(k) = from(j) => k = j
  BY <1>6
<1>16. node' \in [DOMAIN node' -> [value : Value, next : Node \cup {NULL}]]
  <2>1. ASSUME NEW y \in DOMAIN node' PROVE node'[y] \in [value : Value, next : Node \cup {NULL}]
    <3>1. PICK k \in 1 .. size : y = w[k] /\ k # at
      BY <1>3, <1>12 DEF gone
    <3>2. node[w[k]].value \in Value /\ node[w[k]].next \in Node \cup {NULL}
      BY <1>4, <1>7
    <3>3. (IF k = i THEN next ELSE node[w[k]].next) \in Node \cup {NULL}
      BY <1>9, <3>2
    <3>4. node'[y] = [value |-> node[w[k]].value,
                      next |-> IF k = i THEN next ELSE node[w[k]].next]
      BY <1>12, <3>1
    <3> QED BY <3>2, <3>3, <3>4
  <2> QED BY <1>12, <2>1
<1>17. Chain(x, linked'.m_first, node')
  <2>1. \A k, j \in 1 .. Len(x) : x[k] = x[j] => k = j
    <3> SUFFICES ASSUME NEW k \in 1 .. size - 1, NEW j \in 1 .. size - 1, x[k] = x[j]
                 PROVE  k = j
      BY <1>10
    <3>1. from(k) = from(j)
      <4>1. w[from(k)] = w[from(j)] /\ from(k) \in 1 .. size /\ from(j) \in 1 .. size
        BY <1>13
      <4> HIDE DEF from
      <4> QED BY <1>3, <4>1
    <3> QED BY <1>15, <3>1
  <2>2. DOMAIN node' = {x[k] : k \in 1 .. Len(x)}
    <3> HIDE DEF from
    <3>1. ASSUME NEW y \in DOMAIN node' PROVE y \in {x[k] : k \in 1 .. size - 1}
      <4>1. PICK k \in 1 .. size : y = w[k] /\ k # at
        BY <1>3, <1>12 DEF gone
      <4>2. PICK j \in 1 .. size - 1 : from(j) = k
        BY <1>14, <4>1
      <4> QED BY <1>13, <4>1, <4>2
    <3>2. ASSUME NEW k \in 1 .. size - 1 PROVE x[k] \in DOMAIN node'
      <4>1. from(k) \in 1 .. size /\ from(k) # at /\ x[k] = w[from(k)]
        BY <1>13
      <4>2. w[from(k)] # gone
        BY <1>3, <1>6, <4>1 DEF gone
      <4> QED BY <1>7, <1>12, <4>1, <4>2
    <3> QED BY <1>10, <3>1, <3>2
  <2>3. linked'.m_first = IF Len(x) = 0 THEN NULL ELSE x[1]
    <3>1. CASE i > 0
      <4>1. size - 1 # 0 /\ size # 0 /\ 1 \in 1 .. size - 1 /\ 1 < at
        <5> HIDE DEF size, at
        <5> QED BY <1>6, <1>a, <3>1
      <4>2. x[1] = w[1]
        BY <1>10, <4>1
      <4> QED BY <1>3, <1>10, <1>11, <3>1, <4>1, <4>2
    <3>2. CASE ~ (i > 0)
      <4>1. at = 1
        BY <3>2
      <4>2. CASE size = 1
        BY <1>10, <1>11, <3>2, <4>1, <4>2 DEF next
      <4>3. CASE size # 1
        <5>1. 1 \in 1 .. size - 1 /\ ~ (1 < at) /\ size - 1 # 0 /\ at # size
          <6> HIDE DEF size, at
          <6> QED BY <1>6, <4>1, <4>3
        <5>2. x[1] = w[2] /\ next = w[2]
          BY <1>10, <4>1, <5>1 DEF next
        <5> QED BY <1>10, <1>11, <3>2, <5>1, <5>2
      <4> QED BY <4>2, <4>3
    <3> QED BY <3>1, <3>2
  <2>4. ASSUME NEW k \in 1 .. size - 1
        PROVE  node'[x[k]].next = IF k = size - 1 THEN NULL ELSE x[k + 1]
    <3>1. from(k) \in 1 .. size /\ from(k) # at /\ x[k] = w[from(k)]
      BY <1>13
    <3>2. node'[x[k]].next = IF from(k) = i THEN next ELSE node[w[from(k)]].next
      <4>1. node'[w[from(k)]] = [value |-> node[w[from(k)]].value,
                                 next |-> IF from(k) = i THEN next ELSE node[w[from(k)]].next]
        <5> HIDE DEF from
        <5> QED BY <1>12, <3>1
      <4> HIDE DEF from
      <4> QED BY <3>1, <4>1
    <3>3. CASE k = i
      <4>1. from(k) = i
        BY <3>3
      <4>2. node'[x[k]].next = next
        BY <3>2, <4>1
      <4>3. CASE k = size - 1
        <5>1. at = size
          BY <1>6, <3>3, <4>3
        <5> QED BY <4>2, <4>3, <5>1 DEF next
      <4>4. CASE k # size - 1
        <5>1. at # size /\ k + 1 \in 1 .. size - 1 /\ ~ (k + 1 < at) /\ k + 1 + 1 = at + 1
          BY <1>6, <3>3, <4>4
        <5>2. x[k + 1] = w[at + 1]
          BY <1>10, <5>1
        <5> QED BY <4>2, <4>4, <5>1, <5>2 DEF next
      <4> QED BY <4>3, <4>4
    <3>4. CASE k # i
      <4>1. from(k) # i
        BY <1>6, <3>4
      <4>2. node'[x[k]].next = IF from(k) = size THEN NULL ELSE w[from(k) + 1]
        <5> HIDE DEF from
        <5> QED BY <1>3, <3>1, <3>2, <4>1
      <4>3. CASE k = size - 1
        <5>1. from(k) = size
          BY <1>5, <1>6, <3>4, <4>3
        <5> QED BY <4>2, <4>3, <5>1
      <4>4. CASE k # size - 1
        <5>1. k + 1 \in 1 .. size - 1 /\ from(k + 1) = from(k) + 1 /\ from(k) # size
          <6> HIDE DEF size, at
          <6> QED BY <1>6, <1>a, <3>4, <4>4
        <5>2. x[k + 1] = w[from(k + 1)]
          BY <1>13, <5>1
        <5> HIDE DEF from
        <5> QED BY <4>2, <4>4, <5>1, <5>2
      <4> QED BY <4>3, <4>4
    <3> QED BY <3>3, <3>4
  <2> QED BY <1>10, <2>1, <2>2, <2>3, <2>4 DEF Chain
<1>18. LinkedInv' /\ Elements' = [k \in 1 .. size - 1 |-> node'[x[k]].value]
  <2>1. Len(x) = linked'.m_size
    BY <1>10, <1>11
  <2>2. LinkedInv' /\ Elements' = [k \in 1 .. Len(x) |-> node'[x[k]].value]
    BY <1>10, <1>11, <1>16, <1>17, <2>1, LinkedHolds
  <2> QED BY <1>10, <2>2
<1>19. Elements' = RemoveAt(Elements, at)
  <2> DEFINE text == RemoveAt(Elements, at)
  <2>1. /\ text \in Seq(Value) /\ Len(text) = size - 1
        /\ \A k \in 1 .. size - 1 : text[k] = IF k < at THEN Elements[k] ELSE Elements[k + 1]
    <3>1. Elements \in Seq(Value) /\ at \in 1 .. Len(Elements)
      BY <1>2, <1>6
    <3>2. /\ text \in Seq(Value) /\ Len(text) = Len(Elements) - 1
          /\ \A k \in 1 .. Len(Elements) - 1 :
               text[k] = IF k < at THEN Elements[k] ELSE Elements[k + 1]
      <4> HIDE DEF at
      <4> QED BY <3>1, RemoveAtProperties
    <3> HIDE DEF text, at
    <3> QED BY <1>2, <3>2
  <2> HIDE DEF text
  <2>2. ASSUME NEW k \in 1 .. size - 1 PROVE node'[x[k]].value = text[k]
    <3>1. from(k) \in 1 .. size /\ from(k) # at /\ x[k] = w[from(k)]
      BY <1>13
    <3>2. text[k] = Elements[from(k)]
      BY <2>1
    <3> HIDE DEF from
    <3>3. node'[x[k]] = [value |-> node[w[from(k)]].value,
                         next |-> IF from(k) = i THEN next ELSE node[w[from(k)]].next]
      BY <1>12, <3>1
    <3>4. node'[x[k]].value = node[w[from(k)]].value
      BY <3>3
    <3> QED BY <1>2, <3>1, <3>2, <3>4
  <2>3. text = [k \in 1 .. size - 1 |-> text[k]]
    BY <2>1
  <2> QED BY <1>18, <2>2, <2>3 DEF text
<1>20. i < Len(Elements) /\ i \in 0 .. Len(Elements) - 1
  <2>1. Len(Elements) = size /\ size \in Nat
    BY <1>2, <1>6
  <2> HIDE DEF size, at
  <2> QED BY <1>a, <2>1
<1>21. RemoveAt(Elements, at) = LinkedList!RemoveAt(Elements, i + 1)
  BY DEF RemoveAt, LinkedList!RemoveAt
<1>22. LinkedList!RemoveIndex(i)
  BY <1>19, <1>20, <1>21 DEF LinkedList!RemoveIndex
<1>23. LinkedList!Next
  BY <1>20, <1>22 DEF LinkedList!Next
<1> QED BY <1>18, <1>22, <1>23

-----------------------------------------------------------------------------
(* All of it. *)

LEMMA Initial ==
  ASSUME Init
  PROVE  IInv /\ LinkedList!Init /\ ArrayList!Init /\ Stream!Init
<1>1. InputInv
  <2>1. /\ line = Empty /\ m_input_buffer = Empty
        /\ m_sys_read_count = 0 /\ received = Nil
    BY DEF Init, Nil
  <2>2. Nil \in Seq(Letter)
    BY NilIs
  <2> QED BY <2>1, <2>2, EmptyGives DEF InputInv
<1>2. ArrayInv /\ Slots = << >>
  <2>1. array = [m_data |-> New(1), m_reserved |-> 1, m_size |-> 0]
    BY DEF Init
  <2>2. New(1) \in Seq(Place) /\ Len(New(1)) = 1
    BY NewGives, 1 \in Nat DEF Place
  <2>3. SubSeq(New(1), 1, 0) = << >>
    BY SubSeqEmpty
  <2>4. Slots = << >>
    BY <2>1, <2>3 DEF Slots
  <2>5. array \in [m_data : Seq(Place), m_reserved : Nat, m_size : Nat]
    BY <2>1, <2>2
  <2>6. Slots \in Seq(Value)
    BY <2>4
  <2> QED BY <2>1, <2>2, <2>4, <2>5, <2>6 DEF ArrayInv, Place
<1>3. LinkedInv /\ Elements = << >>
  <2>1. linked = [m_first |-> NULL, m_size |-> 0] /\ node = Nil
    BY DEF Init, Nil
  <2>2. DOMAIN node = {} /\ node = [n \in {} |-> n]
    BY <2>1 DEF Nil
  <2>3. Nil \in Seq(Node) /\ Len(Nil) = 0
    BY NilIs
  <2>4. Chain(Nil, linked.m_first, node)
    BY <2>1, <2>2, <2>3 DEF Chain
  <2>5. node \in [DOMAIN node -> [value : Value, next : Node \cup {NULL}]]
    BY <2>2
  <2>6. LinkedInv
    BY <2>1, <2>3, <2>4, <2>5 DEF LinkedInv
  <2>7. Elements \in Seq(Value) /\ Len(Elements) = 0
    BY <2>1, <2>3, <2>4, <2>6, ElementsAre
  <2>8. Elements = << >>
    BY <2>7, EmptySeq
  <2> QED BY <2>6, <2>8
<1>4. Stream!Init
  <2>1. line = Empty /\ m_input_buffer = Empty /\ m_sys_read_count = 0 /\ received = << >>
    BY DEF Init
  <2>2. Text(Empty) = Nil /\ Empty.m_length = 0
    BY EmptyGives DEF Nil
  <2>3. Text(m_input_buffer) \o Text(line) = << >>
    <3>1. Joined(Nil, Nil) = Nil
      BY NilIs
    <3> QED BY <2>1, <2>2, <3>1 DEF Joined, Nil
  <2> QED BY <2>1, <2>2, <2>3 DEF Stream!Init
<1> QED BY <1>1, <1>2, <1>3, <1>4 DEF IInv, LinkedList!Init, ArrayList!Init

(* What leaves a part alone. *)
LEMMA Stutters ==
  ASSUME IInv
  PROVE  /\ UNCHANGED <<linked, node>> => LinkedInv' /\ UNCHANGED Elements
         /\ UNCHANGED array => ArrayInv' /\ UNCHANGED Slots
         /\ UNCHANGED input => InputInv' /\ UNCHANGED Stream!vars
<1>1. UNCHANGED <<linked, node>> => LinkedInv' /\ UNCHANGED Elements
  BY DEF IInv, LinkedInv, Elements, At
<1>2. UNCHANGED array => ArrayInv' /\ UNCHANGED Slots
  BY DEF IInv, ArrayInv, Slots
<1>3. UNCHANGED input => InputInv' /\ UNCHANGED Stream!vars
  BY DEF IInv, InputInv, input, Stream!vars
<1> QED BY <1>1, <1>2, <1>3

LEMMA Steps ==
  ASSUME IInv, [Next]_vars
  PROVE  /\ IInv'
         /\ [LinkedList!Next]_Elements /\ [ArrayList!Next]_Slots
         /\ [Stream!Next]_(Stream!vars)
<1> DEFINE Linked == LinkedInv' /\ [LinkedList!Next]_Elements
           Array == ArrayInv' /\ [ArrayList!Next]_Slots
           Input == InputInv' /\ [Stream!Next]_(Stream!vars)
<1> SUFFICES Linked /\ Array /\ Input
  BY DEF IInv
<1>1. LinkedInv /\ ArrayInv /\ InputInv
  BY DEF IInv
<1>2. UNCHANGED <<linked, node>> => Linked
  BY Stutters
<1>3. UNCHANGED array => Array
  BY Stutters
<1>4. UNCHANGED input => Input
  BY Stutters
<1>5. (\E v \in Value : LinkedList!Add(v)) => LinkedList!Next
  BY DEF LinkedList!Next
<1>6. (\E v \in Value : ArrayList!Add(v)) => ArrayList!Next
  BY DEF ArrayList!Next
<1>7. ASSUME NEW v \in Value, linked_add(v) PROVE Linked /\ Array /\ Input
  <2>1. UNCHANGED <<array, input>>
    BY <1>7 DEF linked_add
  <2>2. LinkedInv' /\ LinkedList!Add(v)
    BY <1>1, <1>7, LinkedAddStep
  <2> QED BY <1>3, <1>4, <1>5, <2>1, <2>2
<1>8. ASSUME NEW v \in Value, array_add(v) PROVE Linked /\ Array /\ Input
  <2>1. UNCHANGED <<linked, node, input>>
    BY <1>8 DEF array_add
  <2>2. ArrayInv' /\ ArrayList!Add(v)
    BY <1>1, <1>8, ArrayAddStep
  <2> QED BY <1>2, <1>4, <1>6, <2>1, <2>2
<1>9. ASSUME NEW i \in Int, array_remove(i) PROVE Linked /\ Array /\ Input
  <2>1. UNCHANGED <<linked, node, input>>
    BY <1>9 DEF array_remove
  <2>2. ArrayInv' /\ [ArrayList!Next]_Slots
    BY <1>1, <1>9, ArrayRemoveStep
  <2> QED BY <1>2, <1>4, <2>1, <2>2
<1>10. ASSUME NEW i \in Nat, linked_remove(i) PROVE Linked /\ Array /\ Input
  <2>1. UNCHANGED <<array, input>>
    BY <1>10 DEF linked_remove
  <2>2. LinkedInv' /\ LinkedList!Next
    BY <1>1, <1>10, LinkedRemoveStep
  <2> QED BY <1>3, <1>4, <2>1, <2>2
<1>11. ASSUME NEW count \in ReadSizes, sys_read(count) PROVE Linked /\ Array /\ Input
  <2>1. UNCHANGED lists /\ count \in Nat
    BY <1>11, ReadAssumption DEF sys_read
  <2>2. InputInv' /\ Stream!Read(count)
    BY <1>1, <1>11, <2>1, ReadStep
  <2> QED BY <1>2, <1>3, <2>1, <2>2 DEF lists, Stream!Next
<1>12. ASSUME NEW c \in Char, KeyChar(c) PROVE Linked /\ Array /\ Input
  <2>1. UNCHANGED lists
    BY <1>12 DEF KeyChar
  <2>2. InputInv' /\ Stream!Type(c)
    BY <1>1, <1>12, CharStep
  <2> QED BY <1>2, <1>3, <2>1, <2>2 DEF lists, Stream!Next
<1>13. ASSUME KeyBackspace PROVE Linked /\ Array /\ Input
  <2>1. UNCHANGED lists
    BY <1>13 DEF KeyBackspace
  <2>2. InputInv' /\ Stream!Erase
    BY <1>1, <1>13, BackspaceStep
  <2> QED BY <1>2, <1>3, <2>1, <2>2 DEF lists, Stream!Next
<1>14. ASSUME KeyEnter PROVE Linked /\ Array /\ Input
  <2>1. UNCHANGED lists
    BY <1>14 DEF KeyEnter
  <2>2. InputInv' /\ Stream!Enter
    BY <1>1, <1>14, EnterStep
  <2> QED BY <1>2, <1>3, <2>1, <2>2 DEF lists, Stream!Next
<1>15. CASE UNCHANGED vars
  BY <1>2, <1>3, <1>4, <1>15 DEF vars, lists
<1>16. \A v \in Value : find(v) \in Int
  BY <1>1, FindIs
<1>17. (0 .. linked.m_size) \subseteq Nat /\ (0 .. array.m_size) \subseteq Int
  OBVIOUS
<1> HIDE DEF Linked, Array, Input
<1> QED
  BY <1>7, <1>8, <1>9, <1>10, <1>11, <1>12, <1>13, <1>14, <1>15, <1>16, <1>17 DEF Next

LEMMA Inductive == Spec => []IInv
<1>1. Init => IInv
  BY Initial
<1>2. IInv /\ [Next]_vars => IInv'
  BY Steps
<1> QED BY <1>1, <1>2, PTL DEF Spec

(* Nothing is written outside an array or a string, whatever the order of  *)
(* additions, removals, keys and reads, and every node in use is on the    *)
(* list, which ends.                                                       *)
THEOREM MemoryIsAlwaysSound == Spec => []MemoryIsSound
<1>1. ASSUME IInv PROVE MemoryIsSound
  <2>1. /\ Len(array.m_data) = array.m_reserved /\ array.m_size < array.m_reserved
    BY <1>1 DEF IInv, ArrayInv
  <2>2. ASSUME NEW s, Sound(s)
        PROVE  /\ Len(s.m_data) = s.m_reserved /\ s.m_length < s.m_reserved
               /\ s.m_data[s.m_length + 1] = NUL
               /\ Range(Text(s)) \subseteq Char \cup {Newline}
    <3>1. Text(s) \in Seq(Letter)
      BY <2>2, TextIs
    <3>2. Range(Text(s)) \subseteq Letter
      BY <3>1, ElementOfSeq DEF Range
    <3> QED BY <2>2, <3>2 DEF Sound, Letter
  <2>3. Sound(line) /\ Sound(m_input_buffer)
    BY <1>1 DEF IInv, InputInv
  <2>4. LinkedInv
    BY <1>1 DEF IInv
  <2>5. PICK w \in Seq(Node) : Len(w) = linked.m_size /\ Chain(w, linked.m_first, node)
    BY <2>4 DEF LinkedInv
  <2>6. \A k \in 0 .. Len(w) : At[k] = IF k = Len(w) THEN NULL ELSE w[k + 1]
    BY <2>4, <2>5, ElementsAre
  <2>7. Len(w) \in Nat
    BY LenProperties
  <2>8. At[linked.m_size] = NULL
    BY <2>5, <2>6, <2>7
  <2>9. DOMAIN node = {w[i] : i \in 1 .. Len(w)}
    BY <2>5 DEF Chain
  <2>10. {w[i] : i \in 1 .. Len(w)} = {At[i] : i \in 0 .. Len(w) - 1}
    <3>1. ASSUME NEW i \in 1 .. Len(w) PROVE i - 1 \in 0 .. Len(w) - 1 /\ At[i - 1] = w[i]
      <4>1. i - 1 \in 0 .. Len(w) - 1 /\ i - 1 \in 0 .. Len(w) /\ i - 1 # Len(w) /\ i - 1 + 1 = i
        BY <2>7
      <4> QED BY <2>6, <4>1
    <3>2. ASSUME NEW i \in 0 .. Len(w) - 1 PROVE i + 1 \in 1 .. Len(w) /\ At[i] = w[i + 1]
      <4>1. i + 1 \in 1 .. Len(w) /\ i \in 0 .. Len(w) /\ i # Len(w)
        BY <2>7
      <4> QED BY <2>6, <4>1
    <3> QED BY <3>1, <3>2
  <2> QED BY <2>1, <2>2, <2>3, <2>5, <2>8, <2>9, <2>10 DEF MemoryIsSound
<1> QED BY <1>1, Inductive, PTL

(* Each call takes the element it is to take, or none. *)
LEMMA CallsKept ==
  ASSUME IInv
  PROVE  CallsAreKept
<1>1. LinkedInv /\ ArrayInv
  BY DEF IInv
<1>2. ASSUME NEW v \in Value
      PROVE  /\ linked_add(v) => LinkedList!Add(v)
             /\ array_add(v) => ArrayList!Add(v)
             /\ array.m_size < SizeRange /\ array_remove(find(v)) => ArrayList!RemoveFound(v)
  BY <1>1, LinkedAddStep, ArrayAddStep, RemoveFoundStep
<1>3. ASSUME NEW i \in 0 .. linked.m_size, linked_remove(i)
      PROVE  LinkedList!RemoveIndex(i)
  <2>1. i \in Nat
    BY <1>1 DEF LinkedInv
  <2> QED BY <1>1, <1>3, <2>1, LinkedRemoveStep
<1>4. ASSUME NEW i \in 0 .. array.m_size, array.m_size < SizeRange, array_remove(i)
      PROVE  ArrayList!RemoveIndex(i)
  <2>1. array.m_size \in Nat /\ SizeRange \in Nat
    BY <1>1, SlotsAre, SizeAssumption
  <2>2. i \in Int /\ i \in 0 .. SizeRange - 1
    BY <1>4, <2>1
  <2>3. i % SizeRange = i
    BY <2>2, AsSize
  <2>4. ArrayList!RemoveIndex(i % SizeRange)
    BY <1>1, <1>4, <2>2, ArrayRemoveStep
  <2> QED BY <2>3, <2>4
<1> QED BY <1>2, <1>3, <1>4 DEF CallsAreKept

(* Both lists keep what was added to them, in its order, and lose the      *)
(* element at the index that remove is given, or the one that find has     *)
(* found, and no other, for sizes that a size_t holds.                     *)
THEOREM ImplementsLists == Spec => RefinesLists
<1>1. Init => LinkedList!Init /\ ArrayList!Init
  BY Initial
<1>2. IInv /\ [Next]_vars => [LinkedList!Next]_Elements /\ [ArrayList!Next]_Slots
  BY Steps
<1>3. IInv => CallsAreKept
  BY CallsKept
<1> QED
  BY <1>1, <1>2, <1>3, Inductive, PTL
  DEF Spec, RefinesLists, LinkedList!Spec, ArrayList!Spec

(* What is typed, edited and entered reaches the reader in order and once, *)
(* in however many reads.                                                  *)
THEOREM ImplementsInputStream == Spec => RefinesStream
<1>1. Init => Stream!Init
  BY Initial
<1>2. IInv /\ [Next]_vars => [Stream!Next]_(Stream!vars)
  BY Steps
<1> QED BY <1>1, <1>2, Inductive, PTL DEF Spec, RefinesStream, Stream!Spec

=============================================================================
