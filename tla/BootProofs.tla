----------------------------- MODULE BootProofs -----------------------------
(***************************************************************************)
(* Theorems about Boot for every number of programs, every memory map,     *)
(* every size of words, blocks and structures, every content of the bits   *)
(* at power-on and every sequence of keys: the driver's modifiers, the     *)
(* list of processes and the focus, the state that is handed over to       *)
(* Kernel, and the memory.                                                 *)
(***************************************************************************)
EXTENDS Boot, SequencesExt, SequenceTheorems, WellFoundedInduction, TLAPS

-----------------------------------------------------------------------------
(* The least of a set. *)

(* A set of naturals that is not empty has a least element, and Min is it. *)
LEMMA MinOfNat ==
  ASSUME NEW S, S \subseteq Nat, S # {}
  PROVE  Min(S) \in S /\ \A y \in S : Min(S) <= y
<1>1. PICK x \in S : \A y \in S : ~ (<<y, x>> \in OpToRel(<, Nat))
  BY WFMin, NatLessThanWellFounded
<1>2. \A y \in S : x <= y
  <2> SUFFICES ASSUME NEW y \in S PROVE x <= y
    OBVIOUS
  <2>1. <<y, x>> \notin OpToRel(<, Nat)
    BY <1>1
  <2>2. ~ (y < x)
    BY <2>1 DEF OpToRel
  <2> QED BY <2>2
<1> QED BY <1>2 DEF Min

-----------------------------------------------------------------------------
(* The driver: what it makes of any sequence of keys, and of any number of *)
(* bytes that are on their way.                                            *)

Mods == {"shift", "alt", "ctrl"}

(* A byte changes the flag of modifier m; it clears it. *)
IsOf(byte, m) == scancode(byte) \in DOMAIN Modifier /\ Modifier[scancode(byte)] = m
Clears(byte, m) == IsOf(byte, m) /\ is_up(byte)

(* The driver has m off when it has read what is before the i-th byte. *)
OffAt(w, flags, m, i) ==
  \/ \E j \in 1 .. i - 1 : /\ Clears(w[j].code, m)
                           /\ \A l \in j + 1 .. i - 1 : ~IsOf(w[l].code, m)
  \/ m \notin flags /\ \A l \in 1 .. i - 1 : ~IsOf(w[l].code, m)

(* The modifiers that are down or feigned. *)
Said == Down \cup (IF feigned THEN {"shift"} ELSE {})

(* A key of no modifier was pressed while m was neither down nor feigned:  *)
(* then the driver will have m off when it comes to that key.              *)
WireInv ==
  /\ held \subseteq Keys \cup Extended
  /\ feigned \in BOOLEAN
  /\ wire \in Seq([code : 0 .. 255, by : SUBSET Mods])
  /\ modifiers \subseteq Mods
  /\ \A m \in Mods, i \in 1 .. Len(wire) :
       m \notin wire[i].by => OffAt(wire, modifiers, m, i)
  /\ \A m \in Mods : m \notin Said => OffAt(wire, modifiers, m, Len(wire) + 1)

-----------------------------------------------------------------------------
(* Codes. *)

LEMMA ModifierTable ==
  /\ DOMAIN Modifier = {29, 42, 54, 56}
  /\ \A code \in {29, 42, 54, 56} : Modifier[code] \in Mods
BY DEF Modifier, Mods, KEY_LEFT_CTRL, KEY_LEFT_SHIFT, KEY_RIGHT_SHIFT,
       KEY_LEFT_ALT

(* The code a key sends, without the bit for its release. *)
LEMMA KeyCode ==
  ASSUME NEW k \in Keys \cup Extended
  PROVE  k % 256 \in 1 .. 127
<1>1. CASE k \in Keys
  BY <1>1, KeyAssumption DEF KEY_SPACE
<1>2. CASE k \in Extended
  BY <1>2, ExtendedAssumption
<1> QED BY <1>1, <1>2

(* What is sent for the code c of a key, pressed or released. *)
ByteOf(c, up) == c + (IF up THEN 128 ELSE 0)

(* The driver finds the code and the release again, if it is a modifier's. *)
LEMMA ByteOfKey ==
  ASSUME NEW c \in 1 .. 127, NEW up \in BOOLEAN, NEW m
  PROVE  /\ ByteOf(c, up) \in 0 .. 255
         /\ IsOf(ByteOf(c, up), m) <=> c \in DOMAIN Modifier /\ Modifier[c] = m
         /\ IsOf(ByteOf(c, up), m) => (is_up(ByteOf(c, up)) <=> up)
<1>1. CASE up
  <2>1. scancode(c + 128) = c /\ is_up(c + 128)
    BY DEF scancode, is_up, KEY_SPACE
  <2> QED BY <1>1, <2>1 DEF IsOf, ByteOf
<1>2. CASE ~up /\ c <= KEY_SPACE
  <2>1. scancode(c) = c /\ ~is_up(c)
    BY <1>2 DEF scancode, is_up, KEY_SPACE
  <2> QED BY <1>2, <2>1 DEF IsOf, ByteOf
<1>3. CASE ~up /\ c > KEY_SPACE
  <2>1. scancode(c) = c + 128
    BY <1>3 DEF scancode, is_up, KEY_SPACE
  <2> QED BY <1>3, <2>1, ModifierTable DEF IsOf, ByteOf, KEY_SPACE
<1> QED BY <1>1, <1>2, <1>3 DEF KEY_SPACE

LEMMA PrefixIsNoModifier ==
  ASSUME NEW m
  PROVE  ~IsOf(Prefix, m) /\ Prefix \in 0 .. 255
<1>1. scancode(Prefix) = 96 /\ Prefix \in 0 .. 255
  BY DEF scancode, is_up, Prefix, KEY_SPACE
<1> QED BY <1>1, ModifierTable DEF IsOf

(* No two of the 256 bytes stand for the same key. *)
LEMMA AllKeysAreDistinct == KeysAreDistinct
BY DEF KeysAreDistinct, scancode, is_up, KEY_SPACE

-----------------------------------------------------------------------------
(* Steps. *)

(* What is before a byte decides, nothing else. *)
LEMMA OffAtPrefix ==
  ASSUME NEW v, NEW w, NEW flags, NEW m, NEW i \in Nat,
         \A l \in 1 .. i - 1 : v[l] = w[l],
         OffAt(v, flags, m, i)
  PROVE  OffAt(w, flags, m, i)
<1>1. CASE m \notin flags /\ \A l \in 1 .. i - 1 : ~IsOf(v[l].code, m)
  BY <1>1 DEF OffAt
<1>2. CASE \E j \in 1 .. i - 1 : /\ Clears(v[j].code, m)
                                 /\ \A l \in j + 1 .. i - 1 : ~IsOf(v[l].code, m)
  <2>1. PICK j \in 1 .. i - 1 : /\ Clears(v[j].code, m)
                                /\ \A l \in j + 1 .. i - 1 : ~IsOf(v[l].code, m)
    BY <1>2
  <2>2. j + 1 .. i - 1 \subseteq 1 .. i - 1
    OBVIOUS
  <2>3. /\ Clears(w[j].code, m)
        /\ \A l \in j + 1 .. i - 1 : ~IsOf(w[l].code, m)
    BY <2>1, <2>2
  <2> QED BY <2>3 DEF OffAt
<1> QED BY <1>1, <1>2 DEF OffAt

(* One more byte keeps m off or clears it. *)
LEMMA OffAtNext ==
  ASSUME NEW w, NEW flags, NEW m, NEW i \in Nat \ {0},
         \/ OffAt(w, flags, m, i) /\ ~IsOf(w[i].code, m)
         \/ Clears(w[i].code, m)
  PROVE  OffAt(w, flags, m, i + 1)
<1>1. CASE Clears(w[i].code, m)
  <2>1. i \in 1 .. (i + 1) - 1 /\ i + 1 .. (i + 1) - 1 = {}
    OBVIOUS
  <2> QED BY <1>1, <2>1 DEF OffAt
<1>2. CASE /\ ~IsOf(w[i].code, m) /\ m \notin flags
           /\ \A l \in 1 .. i - 1 : ~IsOf(w[l].code, m)
  <2>1. \A l \in 1 .. (i + 1) - 1 : l = i \/ l \in 1 .. i - 1
    OBVIOUS
  <2> QED BY <1>2, <2>1 DEF OffAt
<1>3. CASE /\ ~IsOf(w[i].code, m)
           /\ \E j \in 1 .. i - 1 :
                /\ Clears(w[j].code, m)
                /\ \A l \in j + 1 .. i - 1 : ~IsOf(w[l].code, m)
  <2>1. PICK j \in 1 .. i - 1 : /\ Clears(w[j].code, m)
                                /\ \A l \in j + 1 .. i - 1 : ~IsOf(w[l].code, m)
    BY <1>3
  <2>2. /\ j \in 1 .. (i + 1) - 1
        /\ \A l \in j + 1 .. (i + 1) - 1 : l = i \/ l \in j + 1 .. i - 1
    OBVIOUS
  <2>3. \A l \in j + 1 .. (i + 1) - 1 : ~IsOf(w[l].code, m)
    BY <1>3, <2>1, <2>2
  <2> QED BY <2>1, <2>2, <2>3 DEF OffAt
<1> QED BY <1>1, <1>2, <1>3 DEF OffAt

(* After the first byte of w has been read. *)
LEMMA OffAtTail ==
  ASSUME NEW R, NEW w \in Seq(R), w # << >>, NEW flags, NEW flags2, NEW m,
         NEW i \in 1 .. Len(w),
         Clears(w[1].code, m) => m \notin flags2,
         ~IsOf(w[1].code, m) => (m \in flags2 => m \in flags),
         OffAt(w, flags, m, i + 1)
  PROVE  OffAt(Tail(w), flags2, m, i)
<1>1. \A l \in 1 .. i - 1 : Tail(w)[l] = w[l + 1] /\ l + 1 \in 1 .. i
  OBVIOUS
<1>2. CASE m \notin flags /\ \A l \in 1 .. i : ~IsOf(w[l].code, m)
  <2>1. ~IsOf(w[1].code, m)
    BY <1>2
  <2>2. m \notin flags2
    BY <1>2, <2>1
  <2>3. \A l \in 1 .. i - 1 : ~IsOf(Tail(w)[l].code, m)
    BY <1>1, <1>2
  <2> QED BY <2>2, <2>3 DEF OffAt
<1>3. ASSUME NEW j \in 1 .. i, Clears(w[j].code, m),
             \A l \in j + 1 .. i : ~IsOf(w[l].code, m)
      PROVE  OffAt(Tail(w), flags2, m, i)
  <2>1. CASE j = 1
    <3>1. m \notin flags2
      BY <1>3, <2>1
    <3>2. \A l \in 1 .. i - 1 : l + 1 \in j + 1 .. i
      BY <2>1
    <3>3. \A l \in 1 .. i - 1 : ~IsOf(Tail(w)[l].code, m)
      BY <1>1, <1>3, <3>2
    <3> QED BY <3>1, <3>3 DEF OffAt
  <2>2. CASE j # 1
    <3>1. /\ j - 1 \in 1 .. i - 1 /\ (j - 1) + 1 = j
          /\ \A l \in (j - 1) + 1 .. i - 1 : l \in 1 .. i - 1 /\ l + 1 \in j + 1 .. i
      BY <2>2
    <3>2. Tail(w)[j - 1] = w[j]
      BY <1>1, <3>1
    <3>3. \A l \in (j - 1) + 1 .. i - 1 : ~IsOf(Tail(w)[l].code, m)
      BY <1>1, <1>3, <3>1
    <3> QED BY <1>3, <3>1, <3>2, <3>3 DEF OffAt
  <2> QED BY <2>1, <2>2
<1>4. i + 1 - 1 = i
  OBVIOUS
<1> QED BY <1>2, <1>3, <1>4 DEF OffAt

LEMMA OffAtRun ==
  ASSUME NEW w, NEW flags, NEW m, NEW n \in Nat, NEW d \in 0 .. 4,
         OffAt(w, flags, m, n + 1),
         \A l \in 1 .. d : IsOf(w[n + l].code, m) => Clears(w[n + l].code, m)
  PROVE  OffAt(w, flags, m, n + d + 1)
<1>1. ASSUME NEW l \in 1 .. d, OffAt(w, flags, m, n + l)
      PROVE  OffAt(w, flags, m, n + l + 1)
  <2>1. n + l \in Nat \ {0}
    OBVIOUS
  <2>2. ~IsOf(w[n + l].code, m) \/ Clears(w[n + l].code, m)
    OBVIOUS
  <2>3. \/ OffAt(w, flags, m, n + l) /\ ~IsOf(w[n + l].code, m)
        \/ Clears(w[n + l].code, m)
    BY <1>1, <2>2
  <2> QED BY <2>1, <2>3, OffAtNext
<1>2. d >= 1 => OffAt(w, flags, m, n + 1 + 1)
  BY <1>1
<1>3. d >= 2 => OffAt(w, flags, m, n + 2 + 1)
  <2>1. d >= 2 => OffAt(w, flags, m, n + 2)
    BY <1>2
  <2> QED BY <1>1, <2>1
<1>4. d >= 3 => OffAt(w, flags, m, n + 3 + 1)
  <2>1. d >= 3 => OffAt(w, flags, m, n + 3)
    BY <1>3
  <2> QED BY <1>1, <2>1
<1>5. d >= 4 => OffAt(w, flags, m, n + 4 + 1)
  <2>1. d >= 4 => OffAt(w, flags, m, n + 4)
    BY <1>4
  <2> QED BY <1>1, <2>1
<1>6. d \in {0, 1, 2, 3, 4}
  OBVIOUS
<1> QED BY <1>2, <1>3, <1>4, <1>5, <1>6

(* w is the sequence a over S followed by b. *)
Joined(S, w, a, b) ==
  /\ w \in Seq(S)
  /\ Len(w) = Len(a) + Len(b)
  /\ \A l \in 1 .. Len(a) : w[l] = a[l]
  /\ \A l \in 1 .. Len(b) : w[Len(a) + l] = b[l]

LEMMA Appended ==
  ASSUME NEW S, NEW a \in Seq(S), NEW b \in Seq(S), NEW w, w = a \o b
  PROVE  Joined(S, w, a, b)
<1>1. Len(a) \in Nat /\ Len(b) \in Nat
  OBVIOUS
<1>2. /\ w \in Seq(S) /\ Len(w) = Len(a) + Len(b)
      /\ \A i \in 1 .. Len(a) + Len(b) :
           w[i] = IF i <= Len(a) THEN a[i] ELSE b[i - Len(a)]
  BY ConcatProperties
<1>3. ASSUME NEW l \in 1 .. Len(a) PROVE w[l] = a[l]
  <2>1. l \in 1 .. Len(a) + Len(b) /\ l <= Len(a)
    BY <1>1
  <2> QED BY <1>2, <2>1
<1>4. ASSUME NEW l \in 1 .. Len(b) PROVE w[Len(a) + l] = b[l]
  <2>1. /\ Len(a) + l \in 1 .. Len(a) + Len(b) /\ ~(Len(a) + l <= Len(a))
        /\ (Len(a) + l) - Len(a) = l
    BY <1>1
  <2> QED BY <1>2, <2>1
<1> QED BY <1>2, <1>3, <1>4 DEF Joined

(* What the keyboard notes of the codes it sends. *)
Bytes(codes, on) == [i \in DOMAIN codes |-> [code |-> codes[i], by |-> on]]

(* What is on the wire, as WireInv gives its type. *)
Noted == [code : 0 .. 255, by : SUBSET Mods]

(* w2 is the wire w after the codes were sent. *)
Sent(w2, w, codes, on) ==
  /\ w2 \in Seq(Noted)
  /\ Len(w2) = Len(w) + Len(codes)
  /\ \A l \in 1 .. Len(w) : w2[l] = w[l]
  /\ \A i \in 1 .. Len(codes) : /\ w2[Len(w) + i].code = codes[i]
                               /\ w2[Len(w) + i].by = on

LEMMA SentBytes ==
  ASSUME NEW codes \in Seq(0 .. 255), NEW on \in SUBSET Mods,
         NEW w \in Seq(Noted), NEW w2, w2 = w \o Bytes(codes, on)
  PROVE  Sent(w2, w, codes, on)
<1> DEFINE new == Bytes(codes, on)
           c == Len(codes)
<1>1. /\ new \in Seq(Noted) /\ Len(new) = c
      /\ \A i \in 1 .. c : new[i].code = codes[i] /\ new[i].by = on
  <2>1. DOMAIN codes = 1 .. c /\ c \in Nat
    OBVIOUS
  <2>2. \A i \in 1 .. c : codes[i] \in 0 .. 255
    BY <2>1, ElementOfSeq
  <2>3. new \in [1 .. c -> Noted]
    BY <2>1, <2>2 DEF Bytes, Noted
  <2> QED BY <2>1, <2>3 DEF Bytes
<1>2. Joined(Noted, w2, w, new)
  <2>1. w2 = w \o new /\ w \in Seq(Noted)
    OBVIOUS
  <2> HIDE DEF new
  <2> QED BY <1>1, <2>1, Appended, Zenon
<1> HIDE DEF new
<1> QED BY <1>1, <1>2 DEF Joined, Sent

(* Only the last of the codes presses a modifier that is not noted. *)
LastOnly(codes, on) ==
  \A m \in Mods \ on, i \in 1 .. Len(codes) - 1 :
    IsOf(codes[i], m) => Clears(codes[i], m)

(* Modifier m is off once the codes have been read. *)
TurnsOff(codes, m) ==
  \/ /\ m \notin Said
     /\ \A i \in 1 .. Len(codes) : IsOf(codes[i], m) => Clears(codes[i], m)
  \/ \E j \in 1 .. Len(codes) :
       /\ Clears(codes[j], m)
       /\ \A l \in j + 1 .. Len(codes) : ~IsOf(codes[l], m)

(* The keyboard sends up to four bytes at once, among them a press of a    *)
(* modifier that is neither down nor feigned only as the last one.         *)
LEMMA SentStep ==
  ASSUME WireInv, NEW codes \in Seq(0 .. 255), Len(codes) \in 1 .. 4,
         NEW on \in SUBSET Mods, Said \subseteq on,
         wire' = wire \o Bytes(codes, on),
         modifiers' = modifiers, feigned' \in BOOLEAN,
         held' \subseteq Keys \cup Extended,
         LastOnly(codes, on), \A m \in Mods \ Said' : TurnsOff(codes, m)
  PROVE  WireInv'
<1> DEFINE n == Len(wire)
           c == Len(codes)
<1>1. wire \in Seq(Noted) /\ n \in Nat /\ c \in 1 .. 4
  BY DEF WireInv, Noted
<1>2. /\ wire' \in Seq(Noted) /\ Len(wire') = n + c
      /\ \A l \in 1 .. n : wire'[l] = wire[l]
      /\ \A i \in 1 .. c : wire'[n + i].code = codes[i] /\ wire'[n + i].by = on
  <2>1. wire' = wire \o Bytes(codes, on)
    OBVIOUS
  <2>2. Sent(wire', wire, codes, on)
    BY <1>1, <2>1, SentBytes, Zenon
  <2> QED BY <2>2 DEF Sent
<1>3. ASSUME NEW m \in Mods, m \notin Said
      PROVE  OffAt(wire', modifiers', m, n + 1)
  <2>1. OffAt(wire, modifiers, m, n + 1)
    BY <1>3 DEF WireInv
  <2>2. n + 1 \in Nat /\ \A l \in 1 .. (n + 1) - 1 : wire[l] = wire'[l]
    BY <1>1, <1>2
  <2> QED BY <1>1, <2>1, <2>2, OffAtPrefix
<1>4. ASSUME NEW m \in Mods, NEW i \in 1 .. Len(wire'), m \notin wire'[i].by
      PROVE  OffAt(wire', modifiers', m, i)
  <2>1. CASE i \in 1 .. n
    <3>1. m \notin wire[i].by
      BY <1>2, <1>4, <2>1
    <3>2. OffAt(wire, modifiers, m, i)
      BY <2>1, <3>1 DEF WireInv
    <3>3. i \in Nat /\ \A l \in 1 .. i - 1 : wire[l] = wire'[l]
      BY <1>1, <1>2, <2>1
    <3> QED BY <3>2, <3>3, OffAtPrefix
  <2>2. CASE i \notin 1 .. n
    <3> DEFINE d == i - n - 1
    <3>1. d \in 0 .. 4 /\ d < c /\ n + d + 1 = i /\ d + 1 \in 1 .. c
          /\ n + (d + 1) = i
      <4>1. c \in 1 .. 4 /\ n \in Nat /\ i \in 1 .. n + c /\ i \notin 1 .. n
        BY <1>1, <1>2, <2>2
      <4> HIDE DEF c, n
      <4> QED BY <4>1
    <3> HIDE DEF d
    <3>2. m \notin on
      <4>1. wire'[i].by = on
        BY <1>2, <3>1
      <4> QED BY <1>4, <4>1
    <3>3. OffAt(wire', modifiers', m, n + 1)
      BY <1>3, <3>2
    <3>4. \A l \in 1 .. d : IsOf(wire'[n + l].code, m) => Clears(wire'[n + l].code, m)
      <4>1. \A l \in 1 .. d : l \in 1 .. Len(codes) - 1 /\ l \in 1 .. c
        BY <3>1
      <4> QED BY <1>2, <3>2, <4>1 DEF LastOnly
    <3>5. OffAt(wire', modifiers', m, n + d + 1)
      BY <1>1, <3>1, <3>3, <3>4, OffAtRun
    <3> QED BY <3>1, <3>5
  <2> QED BY <2>1, <2>2
<1>5. ASSUME NEW m \in Mods, m \notin Said'
      PROVE  OffAt(wire', modifiers', m, Len(wire') + 1)
  <2>1. CASE /\ m \notin Said
             /\ \A i \in 1 .. c : IsOf(codes[i], m) => Clears(codes[i], m)
    <3>1. \A l \in 1 .. c : IsOf(wire'[n + l].code, m) => Clears(wire'[n + l].code, m)
      BY <1>2, <2>1
    <3>2. c \in 0 .. 4
      OBVIOUS
    <3>3. OffAt(wire', modifiers', m, n + c + 1)
      BY <1>1, <1>3, <2>1, <3>1, <3>2, OffAtRun
    <3> QED BY <1>2, <3>3
  <2>2. CASE \E j \in 1 .. c : /\ Clears(codes[j], m)
                               /\ \A l \in j + 1 .. c : ~IsOf(codes[l], m)
    <3>1. PICK j \in 1 .. c : /\ Clears(codes[j], m)
                              /\ \A l \in j + 1 .. c : ~IsOf(codes[l], m)
      BY <2>2
    <3>2. n + j \in 1 .. (Len(wire') + 1) - 1 /\ Clears(wire'[n + j].code, m)
      BY <1>1, <1>2, <3>1
    <3>3. ASSUME NEW l \in n + j + 1 .. (Len(wire') + 1) - 1
          PROVE  ~IsOf(wire'[l].code, m)
      <4>1. l - n \in j + 1 .. c /\ l - n \in 1 .. c /\ n + (l - n) = l
        BY <1>1, <1>2, <3>3
      <4> QED BY <1>2, <3>1, <4>1
    <3> QED BY <3>2, <3>3 DEF OffAt
  <2>3. TurnsOff(codes, m)
    BY <1>5
  <2> QED BY <2>1, <2>2, <2>3 DEF TurnsOff
<1>6. modifiers' \subseteq Mods
  BY DEF WireInv
<1> QED BY <1>2, <1>4, <1>5, <1>6 DEF WireInv, Noted

(* k is a key of modifier m. *)
KeyOf(k, m) == k % 256 \in DOMAIN Modifier /\ Modifier[k % 256] = m

(* The codes of a key, and the fake ones. *)
LEMMA KeyBytes ==
  ASSUME NEW k \in Keys \cup Extended, NEW up \in BOOLEAN
  PROVE  \E code \in 0 .. 255 :
           /\ Codes(k, up) = IF k \in Extended THEN <<Prefix, code>> ELSE <<code>>
           /\ \A m : /\ IsOf(code, m) <=> KeyOf(k, m)
                     /\ up /\ IsOf(code, m) => Clears(code, m)
<1> DEFINE c == k % 256
<1>1. c \in 1 .. 127
  BY KeyCode
<1>2. Codes(k, up) = IF k \in Extended THEN <<Prefix, ByteOf(c, up)>>
                     ELSE <<ByteOf(c, up)>>
  BY DEF Codes, ByteOf
<1>3. /\ ByteOf(c, up) \in 0 .. 255
      /\ \A m : /\ IsOf(ByteOf(c, up), m) <=> c \in DOMAIN Modifier /\ Modifier[c] = m
                /\ IsOf(ByteOf(c, up), m) => (is_up(ByteOf(c, up)) <=> up)
  <2> HIDE DEF c
  <2> QED BY <1>1, ByteOfKey, ZenonT(40)
<1> DEFINE byte == ByteOf(c, up)
<1>4. /\ \A m : IsOf(byte, m) <=> KeyOf(k, m)
      /\ \A m : up /\ IsOf(byte, m) => Clears(byte, m)
  BY <1>3 DEF Clears, KeyOf
<1>5. byte \in 0 .. 255
  BY <1>3
<1> HIDE DEF byte
<1>6. Codes(k, up) = IF k \in Extended THEN <<Prefix, byte>> ELSE <<byte>>
  BY <1>2 DEF byte
<1> QED BY <1>4, <1>5, <1>6

LEMMA FakeByte ==
  ASSUME NEW s \in {KEY_LEFT_SHIFT, KEY_RIGHT_SHIFT}, NEW feint \in BOOLEAN,
         NEW fake, fake = s + (IF feint THEN 0 ELSE 128)
  PROVE  /\ fake \in 0 .. 255
         /\ \A m : IsOf(fake, m) <=> m = "shift"
         /\ ~feint => Clears(fake, "shift")
<1>1. s \in {42, 54} /\ s \in DOMAIN Modifier /\ Modifier[s] = "shift"
  BY DEF Modifier, KEY_LEFT_CTRL, KEY_LEFT_SHIFT, KEY_RIGHT_SHIFT, KEY_LEFT_ALT
<1>2. fake \in 0 .. 255 /\ scancode(fake) = s /\ (~feint => is_up(fake))
  BY <1>1 DEF scancode, is_up, KEY_SPACE
<1> QED BY <1>1, <1>2 DEF IsOf, Clears

LEMMA SaidType == WireInv => Said \in SUBSET Mods
<1>1. Down \subseteq Mods
  BY ModifierTable, SMTT(30) DEF Down
<1> QED BY <1>1 DEF Said, Mods

LEMMA ShiftKey ==
  ASSUME NEW k \in {KEY_LEFT_SHIFT, KEY_RIGHT_SHIFT}
  PROVE  KeyOf(k, "shift")
<1>1. k % 256 = k
  BY DEF KEY_LEFT_SHIFT, KEY_RIGHT_SHIFT
<1>2. k \in DOMAIN Modifier /\ Modifier[k] = "shift"
  BY DEF Modifier, KEY_LEFT_CTRL, KEY_LEFT_SHIFT, KEY_RIGHT_SHIFT, KEY_LEFT_ALT
<1> QED BY <1>1, <1>2 DEF KeyOf

(* What is down after a key has moved. *)
Moved(k, up) ==
  /\ held' \subseteq Keys \cup Extended
  /\ \A m \in Mods : m \notin Down' => m \notin Down \/ (up /\ KeyOf(k, m))
  /\ \A m \in Mods : m \notin Down' /\ ~up => ~KeyOf(k, m)

LEMMA PlainStep ==
  ASSUME WireInv, NEW k \in Keys \cup Extended, NEW up \in BOOLEAN,
         Plain(k, up), Moved(k, up)
  PROVE  WireInv'
<1>1. PICK code \in 0 .. 255 :
        /\ Codes(k, up) = IF k \in Extended THEN <<Prefix, code>> ELSE <<code>>
        /\ \A m : /\ IsOf(code, m) <=> KeyOf(k, m)
                  /\ up /\ IsOf(code, m) => Clears(code, m)
  BY KeyBytes
<1> DEFINE codes == Codes(k, up)
           c == Len(codes)
<1>2. /\ codes \in Seq(0 .. 255) /\ c \in 1 .. 2 /\ codes[c] = code
      /\ c = 2 => codes[1] = Prefix
  <2>1. Prefix \in 0 .. 255
    BY PrefixIsNoModifier
  <2>2. CASE k \in Extended
    <3>1. codes = <<Prefix, code>>
      BY <1>1, <2>2
    <3> HIDE DEF codes
    <3> QED BY <2>1, <3>1
  <2>3. CASE k \notin Extended
    <3>1. codes = <<code>>
      BY <1>1, <2>3
    <3> HIDE DEF codes
    <3> QED BY <3>1
  <2> QED BY <2>2, <2>3
<1>3. Said \in SUBSET Mods
  BY SaidType
<1>4. /\ wire' = wire \o Bytes(codes, Said)
      /\ modifiers' = modifiers /\ feigned' \in BOOLEAN
      /\ feigned' = (feigned /\ ~(up /\ k \in {KEY_LEFT_SHIFT, KEY_RIGHT_SHIFT}))
  <2>1. feigned \/ (feigned /\ ~(up /\ k \in {KEY_LEFT_SHIFT, KEY_RIGHT_SHIFT}))
          <=> feigned
    OBVIOUS
  <2>2. Down \cup (IF feigned \/ (feigned /\ ~(up /\ k \in {KEY_LEFT_SHIFT, KEY_RIGHT_SHIFT}))
                     THEN {"shift"} ELSE {}) = Said
    BY <2>1 DEF Said
  <2> QED BY <2>2 DEF Plain, Send, WireInv, Bytes
<1> HIDE DEF codes
<1>5. \A m : \A i \in 1 .. c - 1 : ~IsOf(codes[i], m)
  BY <1>2, PrefixIsNoModifier
<1>6. ASSUME NEW m \in Mods, m \notin Said'
      PROVE  TurnsOff(codes, m)
  <2>1. m \notin Down' /\ (m = "shift" => ~feigned')
    BY <1>6 DEF Said
  <2>2. CASE up /\ KeyOf(k, m)
    <3>1. Clears(codes[c], m) /\ c \in 1 .. c /\ c + 1 .. c = {}
      BY <1>1, <1>2, <2>2
    <3> QED BY <3>1 DEF TurnsOff
  <2>3. CASE ~(up /\ KeyOf(k, m))
    <3>1. m \notin Down /\ ~KeyOf(k, m)
      BY <2>1, <2>3 DEF Moved
    <3>2. m = "shift" => ~feigned
      <4>1. m = "shift" => k \notin {KEY_LEFT_SHIFT, KEY_RIGHT_SHIFT}
        BY <3>1, ShiftKey
      <4> QED BY <1>4, <2>1, <4>1
    <3>3. m \notin Said
      BY <3>1, <3>2 DEF Said
    <3>4. \A i \in 1 .. c : ~IsOf(codes[i], m)
      <4>1. \A i \in 1 .. c : i = c \/ i \in 1 .. c - 1
        <5>1. c \in Nat
          BY <1>2
        <5> QED BY <5>1
      <4>2. ~IsOf(codes[c], m)
        BY <1>1, <1>2, <3>1
      <4> QED BY <1>5, <4>1, <4>2
    <3> QED BY <3>3, <3>4 DEF TurnsOff
  <2> QED BY <2>2, <2>3
<1>7. c \in 1 .. 4
  BY <1>2
<1>8. /\ LastOnly(codes, Said)
      /\ Said \subseteq Said /\ held' \subseteq Keys \cup Extended
  BY <1>5 DEF Moved, LastOnly
<1> QED BY <1>2, <1>3, <1>4, <1>6, <1>7, <1>8, SentStep

LEMMA TwoPairs ==
  ASSUME NEW a, NEW b, NEW c, NEW d
  PROVE  <<a, b>> \o <<c, d>> = <<a, b, c, d>>
<1> DEFINE S == {a, b, c, d}
<1>1. <<a, b>> \in Seq(S) /\ <<c, d>> \in Seq(S) /\ <<a, b, c, d>> \in Seq(S)
  OBVIOUS
<1>2. <<a, b>> \o <<c, d>> \in Seq(S) /\ Len(<<a, b>> \o <<c, d>>) = 4
  BY <1>1, ConcatProperties
<1>3. \A i \in 1 .. 4 : (<<a, b>> \o <<c, d>>)[i] = <<a, b, c, d>>[i]
  <2>1. (<<a, b>> \o <<c, d>>)[1] = a /\ (<<a, b>> \o <<c, d>>)[2] = b
    BY <1>1, ConcatProperties
  <2>2. (<<a, b>> \o <<c, d>>)[3] = c /\ (<<a, b>> \o <<c, d>>)[4] = d
    BY <1>1, ConcatProperties
  <2> QED BY <2>1, <2>2
<1> QED BY <1>1, <1>2, <1>3, SeqEqual

LEMMA FeintStep ==
  ASSUME WireInv, NEW k \in Keys \cup Extended, NEW up \in BOOLEAN,
         Feint(k, up), Moved(k, up)
  PROVE  WireInv'
<1>1. PICK code \in 0 .. 255 :
        /\ Codes(k, up) = <<Prefix, code>>
        /\ \A m : /\ IsOf(code, m) <=> KeyOf(k, m)
                  /\ up /\ IsOf(code, m) => Clears(code, m)
  <2>1. k \in Extended
    BY FeigningAssumption DEF Feint
  <2>2. PICK code \in 0 .. 255 :
          /\ Codes(k, up) = IF k \in Extended THEN <<Prefix, code>> ELSE <<code>>
          /\ \A m : /\ IsOf(code, m) <=> KeyOf(k, m)
                    /\ up /\ IsOf(code, m) => Clears(code, m)
    BY KeyBytes
  <2> QED BY <2>1, <2>2
<1> DEFINE feint == up <=> Shifts # {}
<1>2. PICK s \in {KEY_LEFT_SHIFT, KEY_RIGHT_SHIFT} :
        LET fake == <<Prefix, s + (IF feint THEN 0 ELSE 128)>>
        IN  Send(IF up THEN Codes(k, up) \o fake ELSE fake \o Codes(k, up), feint)
  BY DEF Feint, Shifts
<1> DEFINE fake == s + (IF feint THEN 0 ELSE 128)
<1>3. /\ fake \in 0 .. 255
      /\ \A m : IsOf(fake, m) <=> m = "shift"
      /\ ~feint => Clears(fake, "shift")
  <2>1. feint \in BOOLEAN /\ fake = s + (IF feint THEN 0 ELSE 128)
    OBVIOUS
  <2> HIDE DEF feint, fake
  <2> QED BY <2>1, FakeByte
<1>4. /\ \A m : ~IsOf(Prefix, m)
      /\ Prefix \in 0 .. 255
  BY PrefixIsNoModifier
<1> DEFINE on == Down \cup (IF feigned \/ feint THEN {"shift"} ELSE {})
           codes == IF up THEN <<Prefix, code, Prefix, fake>>
                    ELSE <<Prefix, fake, Prefix, code>>
<1>5. /\ wire' = wire \o Bytes(codes, on)
      /\ modifiers' = modifiers /\ feigned' = feint
  <2>1. codes = IF up THEN Codes(k, up) \o <<Prefix, fake>>
                ELSE <<Prefix, fake>> \o Codes(k, up)
    <3> HIDE DEF fake
    <3>1. /\ <<Prefix, code>> \o <<Prefix, fake>> = <<Prefix, code, Prefix, fake>>
          /\ <<Prefix, fake>> \o <<Prefix, code>> = <<Prefix, fake, Prefix, code>>
      BY TwoPairs
    <3> QED BY Zenon, <1>1, <3>1
  <2>2. Send(codes, feint)
    BY <1>2, <2>1
  <2> HIDE DEF codes, feint, on
  <2> QED BY <2>2 DEF Send, Bytes, on
<1>6. /\ codes \in Seq(0 .. 255) /\ Len(codes) = 4
      /\ codes[1] = Prefix /\ codes[3] = Prefix
      /\ up => codes[2] = code /\ codes[4] = fake
      /\ ~up => codes[2] = fake /\ codes[4] = code
  <2> HIDE DEF fake
  <2>1. fake \in 0 .. 255 /\ code \in 0 .. 255 /\ Prefix \in 0 .. 255
    BY <1>3, <1>4
  <2>2. CASE up
    <3>1. codes = <<Prefix, code, Prefix, fake>>
      BY <2>2
    <3> HIDE DEF codes
    <3> QED BY <2>1, <2>2, <3>1
  <2>3. CASE ~up
    <3>1. codes = <<Prefix, fake, Prefix, code>>
      BY <2>3
    <3> HIDE DEF codes
    <3> QED BY <2>1, <2>3, <3>1
  <2> QED BY <2>2, <2>3
<1>7. on \in SUBSET Mods /\ Said \subseteq on /\ (feint => "shift" \in on)
  BY SaidType DEF Said, Mods
<1>8. feint \in BOOLEAN
  OBVIOUS
<1> HIDE DEF fake, codes, on, feint
<1>9. ASSUME NEW m \in Mods \ on, NEW i \in 1 .. Len(codes) - 1, IsOf(codes[i], m)
      PROVE  Clears(codes[i], m)
  <2>1. i = 2
    BY <1>4, <1>6, <1>9
  <2>2. CASE up
    BY <1>1, <1>6, <1>9, <2>1, <2>2
  <2>3. CASE ~up
    <3>1. m = "shift" /\ ~feint
      BY <1>3, <1>6, <1>7, <1>9, <2>1, <2>3
    <3> QED BY <1>3, <1>6, <2>1, <2>3, <3>1
  <2> QED BY <2>2, <2>3
<1>10. ASSUME NEW m \in Mods, m \notin Said'
       PROVE  TurnsOff(codes, m)
  <2>1. m \notin Down' /\ (m = "shift" => ~feint)
    BY <1>5, <1>10 DEF Said
  <2>2. CASE m = "shift"
    <3>1. Clears(fake, m)
      BY <1>3, <2>1, <2>2
    <3>2. CASE up
      <4>1. Clears(codes[4], m) /\ 4 \in 1 .. Len(codes) /\ 4 + 1 .. Len(codes) = {}
        BY <1>6, <3>1, <3>2
      <4> QED BY <4>1 DEF TurnsOff
    <3>3. CASE ~up
      <4>1. ~KeyOf(k, m)
        BY <2>1, <3>3 DEF Moved
      <4>2. Clears(codes[2], m) /\ 2 \in 1 .. Len(codes)
            /\ \A l \in 2 + 1 .. Len(codes) : l \in {3, 4}
        BY <1>6, <3>1, <3>3
      <4>3. ~IsOf(codes[3], m) /\ ~IsOf(codes[4], m)
        BY <1>1, <1>4, <1>6, <3>3, <4>1
      <4> QED BY <4>2, <4>3 DEF TurnsOff
    <3> QED BY <3>2, <3>3
  <2>3. CASE m # "shift" /\ up /\ KeyOf(k, m)
    <3>1. Clears(codes[2], m) /\ 2 \in 1 .. Len(codes)
          /\ \A l \in 2 + 1 .. Len(codes) : l \in {3, 4}
      BY <1>1, <1>6, <2>3
    <3>2. ~IsOf(codes[3], m) /\ ~IsOf(codes[4], m)
      BY <1>3, <1>4, <1>6, <2>3
    <3> QED BY <3>1, <3>2 DEF TurnsOff
  <2>4. CASE m # "shift" /\ ~(up /\ KeyOf(k, m))
    <3>1. m \notin Down /\ ~KeyOf(k, m)
      BY <2>1, <2>4 DEF Moved
    <3>2. m \notin Said
      BY <2>4, <3>1 DEF Said
    <3>3. ~IsOf(code, m) /\ ~IsOf(fake, m) /\ ~IsOf(Prefix, m)
      BY <1>1, <1>3, <1>4, <2>4, <3>1
    <3>4. \A i \in 1 .. Len(codes) : i \in {1, 2, 3, 4}
      BY <1>6
    <3>5. \A i \in 1 .. Len(codes) : ~IsOf(codes[i], m)
      BY <1>6, <3>3, <3>4
    <3> QED BY <3>2, <3>5 DEF TurnsOff
  <2> QED BY <2>2, <2>3, <2>4
<1>11. Len(codes) \in 1 .. 4 /\ LastOnly(codes, on)
  BY <1>6, <1>9 DEF LastOnly
<1> QED BY <1>5, <1>6, <1>7, <1>8, <1>10, <1>11, SentStep DEF Moved

LEMMA PressStep ==
  ASSUME WireInv, NEW k \in Keys \cup Extended, Press(k)
  PROVE  WireInv'
<1>1. held' = held \cup {k} /\ held \subseteq Keys \cup Extended /\ Sends(k, FALSE)
  BY DEF Press, WireInv
<1>2. Moved(k, FALSE)
  <2>1. held \subseteq held' /\ k \in held' /\ held' \subseteq Keys \cup Extended
    BY <1>1
  <2>2. Down \subseteq Down'
    BY <2>1, Zenon DEF Down
  <2>3. ASSUME NEW m, KeyOf(k, m) PROVE m \in Down'
    BY <2>1, <2>3 DEF Down, KeyOf
  <2>4. /\ \A m \in Mods : m \notin Down' => m \notin Down
        /\ \A m \in Mods : m \notin Down' => ~KeyOf(k, m)
    BY Zenon, <2>2, <2>3
  <2> QED BY Zenon, <2>1, <2>4 DEF Moved
<1> QED BY <1>1, <1>2, PlainStep, FeintStep DEF Sends

LEMMA ReleaseStep ==
  ASSUME WireInv, NEW k \in held, Release(k)
  PROVE  WireInv'
<1>1. /\ held' = held \ {k} /\ held \subseteq Keys \cup Extended
      /\ k \in Keys \cup Extended /\ Sends(k, TRUE)
  BY DEF Release, WireInv
<1>2. Moved(k, TRUE)
  <2>1. ASSUME NEW m \in Down, m \notin Down' PROVE KeyOf(k, m)
    <3>1. PICK h \in held : h % 256 \in DOMAIN Modifier /\ Modifier[h % 256] = m
      BY <2>1 DEF Down
    <3>2. h \notin held'
      BY <2>1, <3>1 DEF Down
    <3> QED BY <1>1, <3>1, <3>2 DEF KeyOf
  <2>2. \A m \in Mods : m \notin Down' => m \notin Down \/ KeyOf(k, m)
    BY Zenon, <2>1
  <2>3. held' \subseteq Keys \cup Extended
    BY <1>1
  <2> QED BY Zenon, <2>2, <2>3 DEF Moved
<1> QED BY <1>1, <1>2, PlainStep, FeintStep DEF Sends

(* The driver reads a byte. *)
LEMMA ReadStep ==
  ASSUME WireInv, ReadModifier \/ ReadKey
  PROVE  WireInv'
<1> DEFINE R == [code : 0 .. 255, by : SUBSET Mods]
<1>1. /\ wire # << >> /\ wire' = Tail(wire) /\ held' = held
      /\ feigned' = feigned /\ wire \in Seq(R)
  BY DEF ReadModifier, ReadKey, ReadByte, WireInv
<1>2. Code = scancode(wire[1].code) /\ Next_Byte = wire[1].code
  BY <1>1 DEF Code, Next_Byte
<1>3. \A m \in Mods :
        /\ Clears(wire[1].code, m) => m \notin modifiers'
        /\ ~IsOf(wire[1].code, m) => (m \in modifiers' => m \in modifiers)
  BY <1>2 DEF ReadModifier, ReadKey, Clears, IsOf
<1>4. modifiers' \subseteq Mods
  BY ModifierTable DEF WireInv, ReadModifier, ReadKey
<1>5. /\ Tail(wire) \in Seq(R) /\ Len(Tail(wire)) = Len(wire) - 1
      /\ Len(wire) \in Nat \ {0}
      /\ \A i \in 1 .. Len(wire) - 1 : Tail(wire)[i] = wire[i + 1]
  BY <1>1
<1>6. ASSUME NEW m \in Mods, NEW i \in 1 .. Len(wire),
             OffAt(wire, modifiers, m, i + 1)
      PROVE  OffAt(wire', modifiers', m, i)
  <2> HIDE DEF R
  <2> QED BY <1>1, <1>3, <1>6, OffAtTail
<1>7. \A m \in Mods, i \in 1 .. Len(wire') :
        m \notin wire'[i].by => OffAt(wire', modifiers', m, i)
  <2> SUFFICES ASSUME NEW m \in Mods, NEW i \in 1 .. Len(wire'),
                      m \notin wire'[i].by
               PROVE  OffAt(wire', modifiers', m, i)
    OBVIOUS
  <2>1. i \in 1 .. Len(wire) /\ i + 1 \in 1 .. Len(wire) /\ wire'[i] = wire[i + 1]
    BY <1>1, <1>5
  <2>2. OffAt(wire, modifiers, m, i + 1)
    BY <2>1 DEF WireInv
  <2> QED BY <1>6, <2>1, <2>2
<1>8. \A m \in Mods : m \notin Said' => OffAt(wire', modifiers', m, Len(wire') + 1)
  <2> SUFFICES ASSUME NEW m \in Mods, m \notin Said'
               PROVE  OffAt(wire', modifiers', m, Len(wire') + 1)
    OBVIOUS
  <2>1. m \notin Said
    BY <1>1 DEF Said, Down
  <2>2. Len(wire') + 1 = Len(wire) /\ Len(wire) \in 1 .. Len(wire)
    BY <1>1, <1>5
  <2>3. OffAt(wire, modifiers, m, Len(wire) + 1)
    BY <2>1 DEF WireInv
  <2> QED BY <1>6, <2>2, <2>3
<1> QED BY <1>1, <1>4, <1>5, <1>7, <1>8 DEF WireInv

(* What the driver has when it comes to a byte, and when none is left. *)
LEMMA DriverIsRight ==
  ASSUME WireInv
  PROVE  /\ wire = << >> => modifiers \subseteq Said
         /\ wire # << >> /\ "shift" \in modifiers => "shift" \in Head(wire).by
<1>1. CASE wire = << >>
  <2>1. ASSUME NEW m \in modifiers, m \notin Said PROVE FALSE
    <3>1. m \in Mods /\ Len(wire) + 1 = 1
      BY <1>1 DEF WireInv
    <3>2. OffAt(wire, modifiers, m, 1)
      BY <2>1, <3>1 DEF WireInv
    <3>3. 1 .. 1 - 1 = {}
      OBVIOUS
    <3> QED BY <3>2, <3>3 DEF OffAt
  <2> QED BY <1>1, <2>1
<1>2. CASE wire # << >>
  <2> SUFFICES ASSUME "shift" \in modifiers, "shift" \notin Head(wire).by
               PROVE  FALSE
    BY <1>2
  <2>1. 1 \in 1 .. Len(wire) /\ Head(wire) = wire[1] /\ "shift" \in Mods
    BY <1>2 DEF WireInv, Mods
  <2>2. OffAt(wire, modifiers, "shift", 1)
    BY <2>1 DEF WireInv
  <2>3. 1 .. 1 - 1 = {}
    OBVIOUS
  <2> QED BY <2>2, <2>3 DEF OffAt
<1> QED BY <1>1, <1>2

-----------------------------------------------------------------------------
(* The processes and the focus. *)

Early == {"members", "paging", "returned"}
Creating == {"sti", "node", "value", "count"}
Later == {"index", "inactive", "find", "assign", "load", "show", "kmain", "user"}
Terminals == Process \cup {KernelTerminal}

(* The processes that are counted are there in order; the node and the     *)
(* object of the next one come first.                                      *)
ListInv ==
  /\ pc \in Early \cup Creating \cup Later
  /\ m_size \in Nat
  /\ nodes \in Seq(Process \cup {Junk})
  /\ pc \in Early => m_size = 0
  /\ pc \in Creating => m_size <= NumUser
  /\ pc \in Later => m_size = NumUser + 1
  /\ Len(nodes) = IF pc \in {"value", "count"} THEN m_size + 1 ELSE m_size
  /\ \A k \in 1 .. m_size : nodes[k] = k - 1
  /\ pc = "count" => nodes[m_size + 1] = m_size
  /\ created = IF pc \in {"node", "value", "count"} THEN 0 .. m_size
                                                    ELSE 0 .. m_size - 1
  /\ m_userland <=> pc = "user"

(* The index is one of the list as soon as that is not empty, and what the *)
(* constructor has loaded is what the keyboard handler has not displayed   *)
(* meanwhile.                                                              *)
FocusInv ==
  /\ m_active \in [Terminals -> BOOLEAN]
  /\ m_active_terminal \in Terminals
  /\ target \in Terminals
  /\ active_terminal_process_index \in Nat
  /\ IF m_size = 0 THEN active_terminal_process_index = 0
                   ELSE active_terminal_process_index < m_size
  /\ mode = "wild" => m_size = 0
  /\ pc \in {"find", "assign", "load", "show", "kmain", "user"} =>
       ~m_active[KernelTerminal]
  /\ pc \in {"assign", "show"} => target \in Process
  /\ pc \in {"load", "show", "kmain", "user"} => m_active_terminal \in Process
  /\ pc = "show" => target = m_active_terminal \/ m_active[m_active_terminal]
  /\ pc \in {"kmain", "user"} => m_active[m_active_terminal]

(* Without Shift+Tab the first terminal is the one that gets the focus. *)
QuietInv ==
  ~switched /\ pc # "user" =>
    /\ active_terminal_process_index = 0
    /\ \A p \in Process : m_active[p] <=> p = 0 /\ pc = "kmain"
    /\ pc \in {"assign", "show"} => target = 0
    /\ pc \in {"load", "show", "kmain"} => m_active_terminal = 0

BootInv == ListInv /\ FocusInv /\ QuietInv

LEMMA BootInit == Init => BootInv
<1> SUFFICES ASSUME Init PROVE BootInv
  OBVIOUS
<1>1. NumUser \in Nat
  BY CountAssumption
<1>2. ListInv
  BY <1>1 DEF Init, ListInv, Early, Creating, Later, Process
<1>3. FocusInv
  BY <1>1 DEF Init, FocusInv, Terminals, Process, KernelTerminal
<1>4. QuietInv
  BY <1>1 DEF Init, QuietInv, Process, KernelTerminal
<1> QED BY <1>2, <1>3, <1>4 DEF BootInv

(* The steps before interrupts are enabled. *)
LEMMA EarlyStep ==
  ASSUME BootInv, initialise \/ prepare_paging
  PROVE  BootInv'
<1>1. /\ pc \in {"members", "paging"}
      /\ pc' \in {"returned", "paging", "sti"}
      /\ pc' = "sti" => pc = "paging"
      /\ mode = "run" /\ mode' \in {"run", "panic"}
      /\ UNCHANGED <<created, nodes, m_size, m_active_terminal, target,
                     active_terminal_process_index, m_userland, switched>>
      /\ m_active' = m_active
           \/ m_active' = [m_active EXCEPT ![KernelTerminal] = TRUE]
  BY DEF initialise, prepare_paging, At, list, focus
<1>2. NumUser \in Nat
  BY CountAssumption
<1>3. ListInv'
  BY <1>1, <1>2 DEF BootInv, ListInv, Early, Creating, Later
<1>4. FocusInv'
  BY <1>1, <1>2 DEF BootInv, FocusInv, Terminals
<1>5. QuietInv'
  BY <1>1, <1>2 DEF BootInv, FocusInv, QuietInv, Terminals, Process,
                    KernelTerminal
<1> QED BY <1>3, <1>4, <1>5 DEF BootInv

(* Creating a process leaves the focus alone. *)
LEMMA CreateStep ==
  ASSUME BootInv, new_process \/ add_node \/ add_value \/ add_count
  PROVE  BootInv'
<1>1. NumUser \in Nat
  BY CountAssumption
<1>2. /\ UNCHANGED <<mode, m_userland, switched, m_active, m_active_terminal,
                     active_terminal_process_index, target>>
      /\ mode = "run" /\ pc \in Creating
      /\ pc' \in Creating \cup {"index"}
  BY DEF new_process, add_node, add_value, add_count, At, machine, console,
         focus, Creating
<1>3. ListInv'
  <2>1. CASE new_process
    BY <1>1, <2>1 DEF new_process, At, machine, BootInv, ListInv,
                      Early, Creating, Later
  <2>2. CASE add_node
    <3>1. /\ pc = "node" /\ pc' = "value" /\ nodes' = Append(nodes, Junk)
          /\ UNCHANGED <<m_userland, created, m_size>>
      BY <2>2 DEF add_node, At, machine
    <3>2. /\ nodes \in Seq(Process \cup {Junk}) /\ Len(nodes) = m_size
          /\ m_size \in Nat
      BY <3>1 DEF BootInv, ListInv
    <3>3. /\ nodes' \in Seq(Process \cup {Junk}) /\ Len(nodes') = m_size + 1
          /\ \A k \in 1 .. m_size : nodes'[k] = nodes[k]
      BY <3>1, <3>2
    <3> QED BY <1>1, <3>1, <3>2, <3>3
            DEF BootInv, ListInv, Early, Creating, Later
  <2>3. CASE add_value
    <3>1. /\ pc = "value" /\ pc' = "count"
          /\ nodes' = [nodes EXCEPT ![Len(nodes)] = m_size]
          /\ UNCHANGED <<m_userland, created, m_size>>
      BY <2>3 DEF add_value, At, machine
    <3>2. /\ nodes \in Seq(Process \cup {Junk}) /\ Len(nodes) = m_size + 1
          /\ m_size \in Nat /\ m_size <= NumUser
      BY <3>1 DEF BootInv, ListInv, Creating
    <3>3. m_size \in Process
      BY <1>1, <3>2 DEF Process
    <3>4. /\ nodes' \in Seq(Process \cup {Junk}) /\ Len(nodes') = m_size + 1
          /\ nodes'[m_size + 1] = m_size
          /\ \A k \in 1 .. m_size : nodes'[k] = nodes[k]
      BY <3>1, <3>2, <3>3
    <3> QED BY <1>1, <3>1, <3>2, <3>4
            DEF BootInv, ListInv, Early, Creating, Later
  <2>4. CASE add_count
    <3>1. /\ pc = "count" /\ pc' = IF m_size = NumUser THEN "index" ELSE "sti"
          /\ m_size' = m_size + 1
          /\ UNCHANGED <<m_userland, created, nodes>>
      BY <2>4 DEF add_count, At, machine
    <3>2. /\ nodes \in Seq(Process \cup {Junk}) /\ Len(nodes) = m_size + 1
          /\ m_size \in Nat /\ m_size <= NumUser
          /\ nodes[m_size + 1] = m_size
          /\ created = 0 .. m_size
      BY <3>1 DEF BootInv, ListInv, Creating
    <3>3. \A k \in 1 .. m_size + 1 : nodes[k] = k - 1
      <4> SUFFICES ASSUME NEW k \in 1 .. m_size + 1 PROVE nodes[k] = k - 1
        OBVIOUS
      <4>1. CASE k = m_size + 1
        BY <3>2, <4>1
      <4>2. CASE k # m_size + 1
        <5>1. k \in 1 .. m_size
          BY <3>2, <4>2
        <5> QED BY <5>1 DEF BootInv, ListInv
      <4> QED BY <4>1, <4>2
    <3>4. created' = 0 .. m_size' - 1
      BY <3>1, <3>2
    <3> QED BY <1>1, <3>1, <3>2, <3>3, <3>4
            DEF BootInv, ListInv, Early, Creating, Later
  <2> QED BY <2>1, <2>2, <2>3, <2>4
<1>4. FocusInv'
  <2>1. m_size' = m_size \/ m_size' = m_size + 1
    BY DEF new_process, add_node, add_value, add_count
  <2>2. m_size \in Nat
    BY DEF BootInv, ListInv
  <2> QED BY <1>2, <2>1, <2>2 DEF BootInv, FocusInv, Creating
<1>5. QuietInv'
  BY <1>2 DEF BootInv, QuietInv, Creating
<1> QED BY <1>3, <1>4, <1>5 DEF BootInv

(* The first tick and the steps that set the focus. *)
LEMMA FocusStep ==
  ASSUME BootInv,
         \/ reset_index \/ kernel_inactive \/ find_terminal \/ assign_terminal
         \/ load_terminal \/ show_terminal \/ timer_handler
  PROVE  BootInv'
<1>1. NumUser \in Nat
  BY CountAssumption
<1>2. /\ UNCHANGED <<mode, created, nodes, m_size, switched>>
      /\ mode = "run"
      /\ pc \in Later /\ pc' \in Later
      /\ m_userland' = IF pc' = "user" THEN TRUE ELSE m_userland
      /\ pc # "user"
  BY DEF reset_index, kernel_inactive, find_terminal, assign_terminal,
         load_terminal, show_terminal, timer_handler, At, machine, list, Later
<1>3. ListInv'
  BY <1>1, <1>2 DEF BootInv, ListInv, Early, Creating, Later
<1>4. /\ m_size = NumUser + 1 /\ m_size > 0
      /\ active_terminal_process_index \in 0 .. m_size - 1
  BY <1>1, <1>2 DEF BootInv, ListInv, FocusInv
<1>5. /\ KernelTerminal \in Terminals /\ KernelTerminal \notin Process
      /\ Process \subseteq Terminals /\ 0 \in Process
  BY <1>1 DEF KernelTerminal, Terminals, Process
<1>6. CASE reset_index
  <2>1. /\ pc = "index" /\ pc' = "inactive"
        /\ active_terminal_process_index' = 0
        /\ UNCHANGED <<m_active, m_active_terminal, target>>
    BY <1>6 DEF reset_index, At
  <2> QED BY <1>2, <1>3, <1>4, <2>1 DEF BootInv, FocusInv, QuietInv
<1>7. CASE kernel_inactive
  <2>1. /\ pc = "inactive" /\ pc' = "find"
        /\ m_active' = [m_active EXCEPT ![KernelTerminal] = FALSE]
        /\ UNCHANGED <<m_active_terminal, target,
                       active_terminal_process_index>>
    BY <1>7 DEF kernel_inactive, At
  <2>2. FocusInv'
    BY <1>2, <1>4, <1>5, <2>1 DEF BootInv, FocusInv
  <2>3. QuietInv'
    BY <1>2, <1>5, <2>1 DEF BootInv, FocusInv, QuietInv
  <2> QED BY <1>3, <2>2, <2>3 DEF BootInv
<1>8. CASE find_terminal
  <2>1. /\ pc = "find" /\ pc' = "assign"
        /\ target' = nodes[active_terminal_process_index + 1]
        /\ UNCHANGED <<m_active, m_active_terminal,
                       active_terminal_process_index>>
    BY <1>8 DEF find_terminal, At, focus
  <2>2. target' = active_terminal_process_index /\ target' \in Process
    BY <1>1, <1>4, <2>1 DEF BootInv, ListInv, Process
  <2>3. FocusInv'
    BY <1>2, <1>4, <1>5, <2>1, <2>2 DEF BootInv, FocusInv
  <2>4. QuietInv'
    BY <1>2, <2>1, <2>2 DEF BootInv, QuietInv
  <2> QED BY <1>3, <2>3, <2>4 DEF BootInv
<1>9. CASE assign_terminal
  <2>1. /\ pc = "assign" /\ pc' = "load" /\ m_active_terminal' = target
        /\ UNCHANGED <<m_active, target, active_terminal_process_index>>
    BY <1>9 DEF assign_terminal, At
  <2>2. FocusInv'
    BY <1>2, <1>4, <1>5, <2>1 DEF BootInv, FocusInv
  <2>3. QuietInv'
    BY <1>2, <2>1 DEF BootInv, QuietInv
  <2> QED BY <1>3, <2>2, <2>3 DEF BootInv
<1>10. CASE load_terminal
  <2>1. /\ pc = "load" /\ pc' = "show" /\ target' = m_active_terminal
        /\ UNCHANGED <<m_active, m_active_terminal,
                       active_terminal_process_index>>
    BY <1>10 DEF load_terminal, At, focus
  <2>2. FocusInv'
    BY <1>2, <1>4, <1>5, <2>1 DEF BootInv, FocusInv
  <2>3. QuietInv'
    BY <1>2, <2>1 DEF BootInv, QuietInv
  <2> QED BY <1>3, <2>2, <2>3 DEF BootInv
<1>11. CASE show_terminal
  <2>1. /\ pc = "show" /\ pc' = "kmain"
        /\ m_active' = [m_active EXCEPT ![target] = TRUE]
        /\ UNCHANGED <<m_active_terminal, target,
                       active_terminal_process_index>>
    BY <1>11 DEF show_terminal, At
  <2>2. /\ target \in Process /\ m_active_terminal \in Process
        /\ m_active \in [Terminals -> BOOLEAN]
        /\ target = m_active_terminal \/ m_active[m_active_terminal]
        /\ ~m_active[KernelTerminal]
    BY <2>1 DEF BootInv, FocusInv
  <2>3. /\ m_active' \in [Terminals -> BOOLEAN]
        /\ m_active'[m_active_terminal]
        /\ ~m_active'[KernelTerminal]
    BY <1>5, <2>1, <2>2
  <2>4. FocusInv'
    BY <1>2, <1>4, <2>1, <2>2, <2>3 DEF BootInv, FocusInv
  <2>5. QuietInv'
    <3> SUFFICES ASSUME ~switched
                 PROVE  QuietInv'
      BY <1>2 DEF QuietInv
    <3>1. /\ active_terminal_process_index = 0 /\ target = 0
          /\ m_active_terminal = 0
          /\ \A p \in Process : ~m_active[p]
      BY <2>1 DEF BootInv, QuietInv
    <3>2. \A p \in Process : m_active'[p] <=> p = 0
      BY <1>5, <2>1, <2>2, <3>1
    <3> QED BY <2>1, <3>1, <3>2 DEF QuietInv
  <2> QED BY <1>3, <2>4, <2>5 DEF BootInv
<1>12. CASE timer_handler
  <2>1. /\ pc = "kmain" /\ pc' = "user"
        /\ UNCHANGED <<m_active, m_active_terminal, target,
                       active_terminal_process_index>>
    BY <1>12 DEF timer_handler, At, console, focus
  <2> QED BY <1>2, <1>3, <1>4, <2>1 DEF BootInv, FocusInv, QuietInv
<1> QED BY <1>6, <1>7, <1>8, <1>9, <1>10, <1>11, <1>12

(* Shift+Tab, at any point of it. *)
LEMMA SwitchStep ==
  ASSUME BootInv, InterruptsEnabled, SwitchTerminal,
         UNCHANGED <<pc, list, target, m_userland>>
  PROVE  BootInv'
<1> DEFINE i == active_terminal_process_index
<1>1. NumUser \in Nat /\ m_size \in Nat /\ m_size <= NumUser + 1 /\ i \in Nat
  BY CountAssumption DEF BootInv, ListInv, FocusInv, Early, Creating, Later
<1>2. /\ UNCHANGED <<pc, target, m_userland, created, nodes, m_size>>
      /\ mode = "run"
      /\ switched' = (switched \/ ~m_userland)
  BY DEF SwitchTerminal, InterruptsEnabled, list
<1>3. ListInv'
  BY <1>2 DEF BootInv, ListInv
<1>4. QuietInv'
  <2>1. ~switched' => pc = "user"
    BY <1>2 DEF BootInv, ListInv
  <2> QED BY <1>2, <2>1 DEF QuietInv
<1>5. CASE m_size = 0
  <2>1. /\ nodes \in Seq(Process \cup {Junk}) /\ Len(nodes) <= 1 /\ i = 0
        /\ NextIndex = 1
    BY <1>5 DEF BootInv, ListInv, FocusInv, NextIndex
  <2>2. ~Leads(NextIndex)
    BY <2>1 DEF Leads
  <2>3. mode' = "wild" /\ UNCHANGED focus
    BY <2>2 DEF SwitchTerminal
  <2> QED BY <1>2, <1>3, <1>4, <1>5, <2>3 DEF BootInv, FocusInv, focus
<1>6. CASE m_size # 0
  <2>1. i \in 0 .. m_size - 1 /\ NextIndex \in 0 .. m_size - 1
    BY <1>1, <1>6 DEF BootInv, FocusInv, NextIndex
  <2>2. \A k \in 0 .. m_size - 1 : /\ nodes[k + 1] = k
                                   /\ k \in Process
                                   /\ Leads(k)
    <3> SUFFICES ASSUME NEW k \in 0 .. m_size - 1
                 PROVE  nodes[k + 1] = k /\ k \in Process /\ Leads(k)
      OBVIOUS
    <3>1. k + 1 \in 1 .. m_size /\ k \in Process
      BY <1>1 DEF Process
    <3>2. nodes[k + 1] = k /\ k < Len(nodes)
      BY <1>1, <3>1 DEF BootInv, ListInv
    <3> QED BY <3>1, <3>2, JunkAssumption DEF Leads
  <2>3. /\ m_active' = [m_active EXCEPT ![i] = FALSE, ![NextIndex] = TRUE]
        /\ m_active_terminal' = NextIndex
        /\ active_terminal_process_index' = NextIndex
        /\ mode' = mode
    BY <2>1, <2>2 DEF SwitchTerminal
  <2>4. /\ NextIndex \in Process /\ i \in Process
        /\ Process \subseteq Terminals
        /\ KernelTerminal \notin Process /\ KernelTerminal \in Terminals
    BY <1>1, <2>1, <2>2 DEF KernelTerminal, Terminals, Process
  <2>5. /\ m_active \in [Terminals -> BOOLEAN]
        /\ m_active' \in [Terminals -> BOOLEAN]
        /\ m_active'[NextIndex]
        /\ m_active'[KernelTerminal] = m_active[KernelTerminal]
    BY <2>3, <2>4 DEF BootInv, FocusInv
  <2>6. FocusInv'
    <3>1. /\ m_active_terminal' \in Process /\ m_active_terminal' \in Terminals
          /\ m_active'[m_active_terminal']
      BY <2>3, <2>4, <2>5
    <3>2. /\ active_terminal_process_index' \in Nat
          /\ active_terminal_process_index' < m_size'
          /\ m_size' # 0
      BY <1>1, <1>2, <1>6, <2>1, <2>3
    <3>3. m_active[KernelTerminal] <=> m_active'[KernelTerminal]
      BY <2>5
    <3>4. mode' # "wild"
      BY <1>2, <2>3
    <3> QED BY <1>2, <2>5, <3>1, <3>2, <3>3, <3>4 DEF BootInv, FocusInv
  <2> QED BY <1>3, <1>4, <2>6 DEF BootInv
<1> QED BY <1>5, <1>6

(* No step disturbs the invariant. *)
LEMMA BootStep == BootInv /\ [Next]_vars => BootInv'
<1> SUFFICES ASSUME BootInv, [Next]_vars PROVE BootInv'
  OBVIOUS
<1>1. CASE kernel
  BY <1>1, EarlyStep, CreateStep, FocusStep DEF kernel
<1>2. CASE UNCHANGED <<pc, mode, list, focus, target, m_userland, switched>>
  BY <1>2 DEF BootInv, ListInv, FocusInv, QuietInv, list, focus
<1>3. CASE keyboard_handler
  <2>1. CASE SwitchTerminal
    BY <1>3, <2>1, SwitchStep DEF keyboard_handler
  <2>2. CASE modifier_key \/ keyboard_event
    BY <1>2, <1>3, <2>2 DEF keyboard_handler, modifier_key, keyboard_event
  <2> QED BY <1>3, <2>1, <2>2 DEF keyboard_handler
<1> QED BY <1>1, <1>2, <1>3 DEF Next, system, vars

(* Whenever Shift+Tab is pressed, only an empty list of processes leads    *)
(* the handler astray, and the kernel ends up with its focus on a process  *)
(* that is displayed.                                                      *)
THEOREM FocusIsReady == Spec => []FocusSurvivesBoot
<1>1. BootInv => FocusSurvivesBoot
  BY DEF BootInv, FocusInv, FocusSurvivesBoot
<1> QED BY <1>1, BootInit, BootStep, PTL DEF Spec

(* The state in which kmain waits for the first tick is an initial state   *)
(* of Kernel, for every number of programs.                                *)
THEOREM HandsOverToKernel == Spec => []BootsIntoKernel
<1>1. BootInv => BootsIntoKernel
  <2> SUFFICES ASSUME BootInv, mode = "run", pc = "kmain", ~switched
               PROVE  K!Init
    BY DEF BootsIntoKernel
  <2>1. NumUser \in Nat
    BY CountAssumption
  <2>2. /\ m_size = NumUser + 1 /\ Len(nodes) = NumUser + 1
        /\ nodes \in Seq(Process \cup {Junk})
        /\ \A k \in 1 .. NumUser + 1 : nodes[k] = k - 1
        /\ created = 0 .. NumUser /\ ~m_userland
    BY <2>1 DEF BootInv, ListInv, Later
  <2>3. SubSeq(nodes, 1, m_size) = [i \in 1 .. NumUser + 1 |-> i - 1]
    BY <2>1, <2>2
  <2>4. created = K!Process
    BY <2>2 DEF K!Process
  <2>5. [p \in created |-> m_active[p]] = [p \in K!Process |-> p = 0]
    BY <2>4 DEF BootInv, FocusInv, QuietInv, Process, K!Process, Terminals
  <2>6. m_active_terminal = 0 /\ active_terminal_process_index = 0
    BY DEF BootInv, QuietInv
  <2> QED BY <2>2, <2>3, <2>4, <2>5, <2>6 DEF K!Init, K!KMain, K!Identity, K!NoBuffer
<1> QED BY <1>1, BootInit, BootStep, PTL DEF Spec

-----------------------------------------------------------------------------
(* The keys. *)

KeysInv ==
  /\ WireInv
  /\ typed # << >> /\ typed[1][2] => "shift" \in typed[2]

LEMMA KeysInit == Init => KeysInv
<1> SUFFICES ASSUME Init PROVE KeysInv
  OBVIOUS
<1>1. held = {} /\ feigned = FALSE /\ wire = << >> /\ modifiers = {} /\ typed = << >>
  BY DEF Init
<1>2. 1 .. Len(wire) = {} /\ 1 .. (Len(wire) + 1) - 1 = {}
  BY <1>1
<1>3. \A m : OffAt(wire, modifiers, m, Len(wire) + 1)
  BY <1>1, <1>2 DEF OffAt
<1>4. feigned \in BOOLEAN
  BY <1>1
<1> QED BY <1>1, <1>2, <1>3, <1>4 DEF KeysInv, WireInv

LEMMA KeysStep == KeysInv /\ [Next]_vars => KeysInv'
<1> SUFFICES ASSUME KeysInv, [Next]_vars PROVE KeysInv'
  OBVIOUS
<1>1. CASE UNCHANGED <<keyboard, typed>>
  BY <1>1 DEF KeysInv, WireInv, Said, Down, keyboard
<1>2. CASE kernel /\ UNCHANGED keyboard
  <2>1. typed' = typed
    BY <1>2 DEF kernel, initialise, prepare_paging, new_process, add_node,
                add_value, add_count, reset_index, kernel_inactive,
                find_terminal, assign_terminal, load_terminal,
                show_terminal, timer_handler, machine
  <2> QED BY <1>1, <1>2, <2>1
<1>3. CASE keyboard_handler
  <2>1. WireInv'
    <3>1. ReadModifier \/ ReadKey
      BY <1>3 DEF keyboard_handler, modifier_key, SwitchTerminal,
                  keyboard_event
    <3> QED BY <3>1, ReadStep DEF KeysInv
  <2>2. CASE typed' = typed
    BY <2>1, <2>2 DEF KeysInv
  <2>3. CASE /\ ReadKey
             /\ typed' = <<to_char(Code, IsShift), Head(wire).by>>
    <3>1. wire # << >>
      BY <2>3 DEF ReadKey, ReadByte
    <3>2. typed'[1][2] => "shift" \in modifiers
      BY <2>3 DEF to_char, IsShift
    <3>3. typed'[2] = Head(wire).by
      BY <2>3
    <3> QED BY <2>1, <3>1, <3>2, <3>3, DriverIsRight DEF KeysInv
  <2> QED BY <1>3, <2>2, <2>3
          DEF keyboard_handler, modifier_key, SwitchTerminal, keyboard_event
<1>4. ASSUME NEW k \in Keys \cup Extended, Press(k), UNCHANGED system
      PROVE  KeysInv'
  BY <1>4, PressStep DEF KeysInv, system
<1>5. ASSUME NEW k \in held, Release(k), UNCHANGED system
      PROVE  KeysInv'
  BY <1>5, ReleaseStep DEF KeysInv, system
<1> QED BY <1>1, <1>2, <1>3, <1>4, <1>5 DEF Next, vars

(* Whatever keys are pressed, released and repeated, with both keys of a   *)
(* modifier in any order and with the shifts a keyboard feigns around some *)
(* keys, and however late the driver reads: when it has read all, only     *)
(* what is down or feigned is on, and no character is shifted that was     *)
(* sent with neither a shift key down nor shift feigned.                   *)
THEOREM ModifiersAlwaysFollowKeys == Spec => []ModifiersFollowKeys
<1>1. KeysInv => ModifiersFollowKeys
  BY DriverIsRight, AllKeysAreDistinct DEF KeysInv, ModifiersFollowKeys, Said
<1> QED BY <1>1, KeysInit, KeysStep, PTL DEF Spec

-----------------------------------------------------------------------------
(* The region. *)

LEMMA DivFacts ==
  ASSUME NEW a \in Nat, NEW b \in Nat \ {0}
  PROVE  /\ a \div b \in Nat
         /\ a % b \in 0 .. b - 1
         /\ a = b * (a \div b) + (a % b)
OBVIOUS

(* div_ceil is the least multiple that is not below. *)
LEMMA DivCeil ==
  ASSUME NEW a \in Nat, NEW b \in Nat \ {0}
  PROVE  /\ div_ceil(a, b) \in Nat
         /\ div_ceil(a, b) <= a
         /\ div_ceil(a, b) * b >= a
<1> DEFINE q == a \div b
           r == a % b
<1>1. q \in Nat /\ r \in 0 .. b - 1 /\ a = b * q + r
  BY DivFacts
<1>2. div_ceil(a, b) = IF r = 0 THEN q + 0 ELSE q + 1
  BY DEF div_ceil
<1> HIDE DEF q, r
<1>3. b * q >= q
  BY <1>1
<1>4. (q + 1) * b = b * q + b /\ q * b = b * q /\ b * q \in Nat
  BY <1>1
<1>5. CASE r = 0
  BY <1>1, <1>2, <1>3, <1>4, <1>5
<1>6. CASE r # 0
  BY <1>1, <1>2, <1>3, <1>4, <1>6
<1> QED BY <1>5, <1>6

LEMMA RegionType ==
  ASSUME map \in Maps, NEW i \in Nat
  PROVE  Region(i).start \in Nat /\ Region(i).size \in Nat
<1>1. Len(map) \in Nat /\ \A j \in 1 .. Len(map) : map[j].start \in Nat /\ map[j].size \in Nat
  BY MapAssumption, RegionAssumption
<1>2. i < Len(map) => i + 1 \in 1 .. Len(map)
  BY <1>1
<1> QED BY <1>1, <1>2 DEF Region

(* There is a largest one among the candidates. *)
LEMMA BestIsCandidate ==
  ASSUME map \in Maps, Candidates # {}
  PROVE  BestRegion \in Candidates
<1> DEFINE Rest == {WordRange - size_low(i) : i \in Candidates}
           Best == {i \in Candidates : \A j \in Candidates : size_low(j) <= size_low(i)}
<1>1. Candidates \subseteq Nat
  BY RegionAssumption DEF Candidates
<1>2. \A i \in Candidates : size_low(i) \in Nat /\ WordRange - size_low(i) \in Nat
  <2> SUFFICES ASSUME NEW i \in Candidates
               PROVE  size_low(i) \in Nat /\ WordRange - size_low(i) \in Nat
    OBVIOUS
  <2>1. Region(i).size \in Nat
    BY <1>1, RegionType
  <2>2. Region(i).size % WordRange \in 0 .. WordRange - 1
    BY <2>1, WordAssumption, DivFacts
  <2> QED BY <2>2, WordAssumption DEF size_low
<1>3. Rest \subseteq Nat /\ Rest # {}
  BY <1>2
<1>4. Min(Rest) \in Rest /\ \A y \in Rest : Min(Rest) <= y
  BY <1>3, MinOfNat
<1>5. PICK i \in Candidates : Min(Rest) = WordRange - size_low(i)
  BY <1>4
<1>6. ASSUME NEW j \in Candidates PROVE size_low(j) <= size_low(i)
  <2>1. WordRange - size_low(i) <= WordRange - size_low(j)
    BY <1>4, <1>5
  <2> QED BY <1>2, <2>1, WordAssumption
<1>7. Best # {} /\ Best \subseteq Nat
  BY <1>1, <1>5, <1>6
<1>8. Min(Best) \in Best
  BY <1>7, MinOfNat
<1> QED BY <1>8 DEF BestRegion

(* The ends of the region are within the address space. *)
LEMMA Ends ==
  ASSUME map \in Maps
  PROVE  /\ get_best_region.base \in Nat /\ get_best_region.size \in Nat
         /\ FirstAddress \in 0 .. WordRange - 1
         /\ LastAddress \in Nat
         /\ RegionBlocks \in Nat
         /\ BitmapBlocks \in Nat
         /\ BitmapBlocks <= RegionBlocks
<1>1. get_best_region.base \in Nat /\ get_best_region.size \in Nat
  <2>1. CASE Candidates = {}
    BY <2>1 DEF get_best_region
  <2>2. CASE Candidates # {}
    <3>1. BestRegion \in Nat
      BY <2>2, BestIsCandidate, RegionAssumption DEF Candidates
    <3>2. Region(BestRegion).start \in Nat /\ Region(BestRegion).size \in Nat
      BY <3>1, RegionType
    <3>3. start_low(BestRegion) \in Nat /\ size_low(BestRegion) \in Nat
      BY <3>2, WordAssumption, DivFacts DEF start_low, size_low
    <3> QED BY <2>2, <3>3 DEF get_best_region
  <2> QED BY <2>1, <2>2
<1>2. FirstAddress \in 0 .. WordRange - 1
  <2>1. div_ceil(get_best_region.base, BlockSize) * BlockSize \in Nat
    BY <1>1, DivCeil, WordAssumption
  <2> QED BY <2>1, DivFacts, WordAssumption DEF FirstAddress, align_right
<1>3. LastAddress \in Nat
  <2>1. (get_best_region.base + get_best_region.size) % WordRange \in Nat
    BY <1>1, DivFacts, WordAssumption
  <2>2. ((get_best_region.base + get_best_region.size) % WordRange) \div BlockSize \in Nat
    BY <2>1, DivFacts, WordAssumption
  <2> QED BY <2>2, WordAssumption DEF LastAddress, align_left
<1>4. RegionBlocks \in Nat
  <2>1. LastAddress - FirstAddress \in Int
    BY <1>2, <1>3
  <2>2. (LastAddress - FirstAddress) % WordRange \in Nat
    BY <2>1, WordAssumption
  <2> QED BY <2>2, DivFacts, WordAssumption DEF RegionBlocks
<1>5. BitmapBlocks \in Nat /\ BitmapBlocks <= RegionBlocks
  <2>1. /\ div_ceil(RegionBlocks, BitsPerByte) \in Nat
        /\ div_ceil(RegionBlocks, BitsPerByte) <= RegionBlocks
    BY <1>4, DivCeil, WordAssumption
  <2>2. /\ BitmapBlocks \in Nat
        /\ BitmapBlocks <= div_ceil(RegionBlocks, BitsPerByte)
    BY <2>1, DivCeil, WordAssumption DEF BitmapBlocks
  <2> QED BY <1>4, <2>1, <2>2
<1> QED BY <1>1, <1>2, <1>3, <1>4, <1>5

(* Where the members put the blocks. *)
RegionInv ==
  /\ map \in Maps
  /\ pc \in {"paging", "returned"} =>
       /\ m_data_block_addr = (FirstAddress + BitmapBlocks * BlockSize) % WordRange
       /\ m_data_block_count = DataBlocks

(* A step that leaves the map alone leaves what is computed from it. *)
LEMMA SameRegion ==
  ASSUME map' = map
  PROVE  /\ FirstAddress' = FirstAddress
         /\ BitmapBlocks' = BitmapBlocks
         /\ DataBlocks' = DataBlocks
<1>1. /\ \A i : Region(i)' = Region(i)
      /\ \A i : start_low(i)' = start_low(i)
      /\ \A i : size_low(i)' = size_low(i)
  BY DEF Region, start_low, size_low
<1>2. Candidates' = Candidates
  BY <1>1 DEF Candidates
<1>3. BestRegion' = BestRegion
  <2>1. {i \in Candidates : \A j \in Candidates : size_low(j) <= size_low(i)}'
          = {i \in Candidates : \A j \in Candidates : size_low(j) <= size_low(i)}
    BY <1>1, <1>2
  <2> QED BY <2>1 DEF BestRegion
<1>4. get_best_region' = get_best_region
  BY <1>1, <1>2, <1>3 DEF get_best_region
<1>5. FirstAddress' = FirstAddress /\ LastAddress' = LastAddress
  BY <1>4 DEF FirstAddress, LastAddress
<1>6. RegionBlocks' = RegionBlocks
  BY <1>5 DEF RegionBlocks
<1>7. BitmapBlocks' = BitmapBlocks
  BY <1>6 DEF BitmapBlocks
<1> QED BY <1>5, <1>6, <1>7 DEF DataBlocks

LEMMA RegionInit == Init => RegionInv
BY DEF Init, RegionInv

LEMMA RegionStep == RegionInv /\ [Next]_vars => RegionInv'
<1> SUFFICES ASSUME RegionInv, [Next]_vars PROVE RegionInv'
  OBVIOUS
<1>1. CASE initialise
  <2>1. /\ map' = map
        /\ m_data_block_addr' = (FirstAddress + BitmapBlocks * BlockSize) % WordRange
        /\ m_data_block_count' = DataBlocks
    BY <1>1 DEF initialise
  <2>2. /\ FirstAddress' = FirstAddress
        /\ BitmapBlocks' = BitmapBlocks
        /\ DataBlocks' = DataBlocks
    BY <2>1, SameRegion
  <2> QED BY <2>1, <2>2 DEF RegionInv
<1>2. CASE map' = map /\ pc' \notin {"paging", "returned"}
  BY <1>2 DEF RegionInv
<1>3. CASE UNCHANGED <<pc, memory>>
  <2>1. UNCHANGED <<pc, map, m_data_block_addr, m_data_block_count>>
    BY <1>3 DEF memory
  <2>2. /\ FirstAddress' = FirstAddress
        /\ BitmapBlocks' = BitmapBlocks
        /\ DataBlocks' = DataBlocks
    BY <2>1, SameRegion
  <2> QED BY <2>1, <2>2 DEF RegionInv
<1>4. CASE kernel /\ ~initialise
  BY <1>2, <1>4
     DEF kernel, prepare_paging, new_process, add_node, add_value, add_count,
         reset_index, kernel_inactive, find_terminal, assign_terminal,
         load_terminal, show_terminal, timer_handler, At, machine, memory
<1> QED BY <1>1, <1>3, <1>4 DEF Next, keyboard_handler, system, vars

(* All blocks lie in the entry that was chosen. *)
LEMMA RegionIsInside ==
  ASSUME map \in Maps, Candidates # {}, DataBlocks > 0,
         Region(BestRegion).start + Region(BestRegion).size < WordRange,
         Region(BestRegion).start <= FirstAddress, FirstAddress <= LastAddress
  PROVE  LET first == (FirstAddress + BitmapBlocks * BlockSize) % WordRange
         IN  /\ Region(BestRegion).start <= first
             /\ first + DataBlocks * BlockSize
                  <= Region(BestRegion).start + Region(BestRegion).size
<1> DEFINE start == Region(BestRegion).start
           size == Region(BestRegion).size
           F == FirstAddress
           L == LastAddress
           n == RegionBlocks
           m == BitmapBlocks
<1>1. start \in Nat /\ size \in Nat
  BY BestIsCandidate, RegionAssumption, RegionType DEF Candidates
<1>2. get_best_region.base = start /\ get_best_region.size = size
  BY <1>1, WordAssumption DEF get_best_region, start_low, size_low
<1>3. F \in 0 .. WordRange - 1 /\ L \in Nat /\ n \in Nat /\ m \in Nat /\ m <= n
  BY Ends
<1>4. L <= start + size
  <2> DEFINE e == start + size
  <2>2. e \in 0 .. WordRange - 1
    BY <1>1, WordAssumption
  <2>0. L = align_left(e % WordRange, BlockSize)
    BY <1>2 DEF LastAddress
  <2> HIDE DEF e
  <2>1. L = align_left(e, BlockSize)
    BY <2>0, <2>2, WordAssumption
  <2>3. e = BlockSize * (e \div BlockSize) + (e % BlockSize)
        /\ e % BlockSize \in Nat /\ e \div BlockSize \in Nat
    BY <2>2, DivFacts, WordAssumption
  <2>4. (e \div BlockSize) * BlockSize = BlockSize * (e \div BlockSize)
    BY <2>3, WordAssumption
  <2>5. (e \div BlockSize) * BlockSize <= e
    BY <2>2, <2>3, <2>4, WordAssumption
  <2> QED BY <2>1, <2>5 DEF align_left, e
<1>5. n * BlockSize <= L - F
  <2> DEFINE d == L - F
  <2>1. d \in 0 .. WordRange - 1
    BY <1>1, <1>3, <1>4, WordAssumption
  <2>2. n = d \div BlockSize
    BY <2>1, WordAssumption DEF RegionBlocks
  <2> HIDE DEF d, n
  <2>3. d = BlockSize * (d \div BlockSize) + (d % BlockSize)
        /\ d % BlockSize \in Nat /\ d \div BlockSize \in Nat
    BY <2>1, DivFacts, WordAssumption
  <2>4. n * BlockSize <= d
    BY <2>1, <2>2, <2>3, WordAssumption
  <2> QED BY <2>4 DEF d
<1>6. /\ (n - m) * BlockSize = n * BlockSize - m * BlockSize
      /\ n * BlockSize \in Nat /\ m * BlockSize \in Nat
      /\ (n - m) * BlockSize \in Nat
      /\ DataBlocks = n - m
  BY <1>3, WordAssumption DEF DataBlocks
<1> HIDE DEF start, size, F, L, n, m
<1>7. F + m * BlockSize \in 0 .. WordRange - 1
  <2>1. F + m * BlockSize <= L
    BY <1>1, <1>3, <1>5, <1>6
  <2>2. L < WordRange
    BY <1>1, <1>3, <1>4, WordAssumption DEF start, size
  <2> QED BY <1>3, <1>6, <2>1, <2>2, WordAssumption
<1>8. (F + m * BlockSize) % WordRange = F + m * BlockSize
  BY <1>7, WordAssumption
<1>9. start <= F + m * BlockSize
  BY <1>1, <1>3, <1>6 DEF start, F
<1>10. F + m * BlockSize + DataBlocks * BlockSize <= start + size
  BY <1>1, <1>3, <1>4, <1>5, <1>6
<1> QED BY <1>8, <1>9, <1>10 DEF start, size, F, m

(* The allocator is given usable memory only, for any map the BIOS may     *)
(* report, if the entry chosen holds a block and ends below 4 GB.          *)
THEOREM MemoryIsUsable == Spec => []BlocksAreUsable
<1>1. RegionInv => BlocksAreUsable
  <2> SUFFICES ASSUME RegionInv, pc \in {"paging", "returned"}, Candidates # {},
                      Region(BestRegion).start + Region(BestRegion).size < WordRange,
                      Region(BestRegion).start <= FirstAddress,
                      FirstAddress <= LastAddress
               PROVE  /\ Region(BestRegion).type = 1
                      /\ m_data_block_count > 0 =>
                           /\ Region(BestRegion).start <= m_data_block_addr
                           /\ m_data_block_addr + m_data_block_count * BlockSize
                                <= Region(BestRegion).start + Region(BestRegion).size
    BY DEF BlocksAreUsable
  <2>1. Region(BestRegion).type = 1
    BY BestIsCandidate DEF RegionInv, Candidates
  <2> QED BY <2>1, RegionIsInside DEF RegionInv
<1> QED BY <1>1, RegionInit, RegionStep, PTL DEF Spec

-----------------------------------------------------------------------------
(* The structures. *)

Memories ==
  [count : Nat, cursor : Nat, used : SUBSET Nat, block : [Structures -> Nat]]
Span(s, name) == s.block[name] .. s.block[name] + Size[name] - 1

(* The structures of D that got memory are in marked blocks of their own. *)
Placed(s, D) ==
  \A a, b \in {n \in D : s.block[n] # NULL} :
    /\ Span(s, a) \subseteq 1 .. s.count - 1
    /\ Span(s, a) \subseteq s.used
    /\ a # b => Span(s, a) \cap Span(s, b) = {}

(* If the heap got none, a block marked before was in the way everywhere. *)
Missed(s, D) ==
  s.block["heap"] = NULL =>
    \A b \in 0 .. s.count - HeapBlocks :
      \E c \in (b .. b + HeapBlocks - 1) \cap s.used :
        \A n \in D \ {"heap"} : s.block[n] # NULL => c \notin Span(s, n)

WellPlaced(s, D) == s \in Memories /\ 0 \in s.used /\ Placed(s, D) /\ Missed(s, D)

LEMMA SizeType ==
  \A name \in Structures : Size[name] \in Nat \ {0}
BY CountAssumption DEF Size, Structures

(* allocate_blocks gives blocks that were not marked, or none; from the    *)
(* start of the memory, none only if no run is free.                       *)
LEMMA AllocateBlocks ==
  ASSUME NEW s \in Memories, NEW name \in Structures, 0 \in s.used
  PROVE  LET r == allocate_blocks(s, Size[name], name)
         IN  /\ r \in Memories /\ r.count = s.count
             /\ \A n \in Structures \ {name} : r.block[n] = s.block[n]
             /\ \/ /\ r.block[name] = NULL /\ r.used = s.used
                   /\ s.cursor = 0 =>
                        \A b \in 0 .. s.count - Size[name] :
                          (b .. b + Size[name] - 1) \cap s.used # {}
                \/ /\ r.block[name] # NULL
                   /\ r.used = s.used \cup Span(r, name)
                   /\ Span(r, name) \subseteq 1 .. s.count - 1
                   /\ Span(r, name) \cap s.used = {}
<1> DEFINE count == Size[name]
           from == IF s.cursor = s.count THEN 0 ELSE s.cursor
           runs == FreeRuns(s, count)
           r == allocate_blocks(s, count, name)
<1>1. count \in Nat \ {0} /\ s.count \in Nat /\ from \in Nat /\ s.used \subseteq Nat
  BY SizeType DEF Memories
<1>2. CASE runs = {}
  <2>1. r = [s EXCEPT !.cursor = s.count, !.block[name] = NULL]
    BY <1>2, Zenon DEF allocate_blocks
  <2>2. r = [count |-> s.count, cursor |-> s.count, used |-> s.used,
             block |-> [s.block EXCEPT ![name] = 0]]
    <3> HIDE DEF r
    <3> QED BY <2>1 DEF Memories, NULL
  <2>3. /\ r.count = s.count /\ r.used = s.used /\ r.cursor = s.count
        /\ r.block = [s.block EXCEPT ![name] = 0] /\ r \in Memories
    <3> HIDE DEF r
    <3> QED BY <1>1, <2>2 DEF Memories
  <2>4. r.block[name] = NULL /\ \A n \in Structures \ {name} : r.block[n] = s.block[n]
    <3> HIDE DEF r
    <3> QED BY <2>3 DEF Memories, NULL
  <2>5. s.cursor = 0 => \A b \in 0 .. s.count - count :
                          (b .. b + count - 1) \cap s.used # {}
    <3>1. \A b \in from .. s.count - count :
            (b .. b + count - 1) \cap s.used = {} => b \in runs
      BY DEF FreeRuns
    <3>2. s.cursor = 0 => from = 0
      OBVIOUS
    <3> HIDE DEF from, count
    <3> QED BY <1>2, <3>1, <3>2
  <2> QED BY <2>3, <2>4, <2>5, ZenonT(40)
<1>3. CASE runs # {}
  <2> DEFINE first == Min(runs)
  <2>1. runs \subseteq Nat
    BY <1>1 DEF FreeRuns
  <2>2. first \in runs
    BY <1>3, <2>1, MinOfNat
  <2>3. /\ first \in Nat /\ first + count <= s.count
        /\ (first .. first + count - 1) \cap s.used = {}
    <3>1. first \in {b \in from .. s.count - count :
                       (b .. b + count - 1) \cap s.used = {}}
      BY <2>2, Zenon DEF FreeRuns
    <3> HIDE DEF first, from, count
    <3> QED BY <1>1, <3>1
  <2>4. first # 0
    <3> HIDE DEF first, from, count
    <3>1. count \in Nat \ {0}
      BY <1>1
    <3>2. first = 0 => 0 \in first .. first + count - 1
      BY <3>1, SMTT(30)
    <3> QED BY <2>3, <3>2, Zenon
  <2>5. r = [s EXCEPT !.used = @ \cup (first .. first + count - 1),
                      !.cursor = first + count - 1,
                      !.block[name] = first]
    BY <1>3, Zenon DEF allocate_blocks
  <2> HIDE DEF first, runs, r, from, count
  <2>6. r = [count |-> s.count, cursor |-> first + count - 1,
              used |-> s.used \cup (first .. first + count - 1),
              block |-> [s.block EXCEPT ![name] = first]]
    BY <2>5 DEF Memories
  <2>7. /\ r.count = s.count /\ r.used = s.used \cup (first .. first + count - 1)
        /\ r.block = [s.block EXCEPT ![name] = first]
        /\ r \in Memories
    <3>1. first + count - 1 \in Nat /\ (first .. first + count - 1) \subseteq Nat
      BY <1>1, <2>3
    <3>2. [s.block EXCEPT ![name] = first] \in [Structures -> Nat]
      BY <2>3 DEF Memories
    <3> QED BY <1>1, <2>6, <3>1, <3>2 DEF Memories
  <2>8. r.block[name] = first /\ \A n \in Structures \ {name} : r.block[n] = s.block[n]
    BY <2>7 DEF Memories
  <2>9. Span(r, name) = first .. first + count - 1
    BY <2>8 DEF Span, count
  <2>10. Span(r, name) \subseteq 1 .. s.count - 1
    BY <1>1, <2>3, <2>4, <2>9
  <2> QED BY <2>3, <2>4, <2>7, <2>8, <2>9, <2>10 DEF NULL, r, count
<1> QED BY <1>2, <1>3

(* The heap is the first to be placed. *)
LEMMA PlaceHeap ==
  ASSUME NEW s \in Memories, 0 \in s.used, s.cursor = 0
  PROVE  WellPlaced(allocate_blocks(s, HeapBlocks, "heap"), {"heap"})
<1> DEFINE r == allocate_blocks(s, Size["heap"], "heap")
<1>1. Size["heap"] = HeapBlocks /\ "heap" \in Structures
  BY DEF Size, Structures
<1>2. /\ r \in Memories /\ r.count = s.count
      /\ \/ /\ r.block["heap"] = NULL /\ r.used = s.used
            /\ \A b \in 0 .. s.count - HeapBlocks :
                 (b .. b + HeapBlocks - 1) \cap s.used # {}
         \/ /\ r.block["heap"] # NULL
            /\ r.used = s.used \cup Span(r, "heap")
            /\ Span(r, "heap") \subseteq 1 .. s.count - 1
  BY <1>1, AllocateBlocks
<1> HIDE DEF r
<1>3. 0 \in r.used
  BY <1>2
<1>4. Placed(r, {"heap"})
  BY <1>2 DEF Placed
<1>5. Missed(r, {"heap"})
  BY <1>2 DEF Missed
<1> QED BY <1>1, <1>2, <1>3, <1>4, <1>5 DEF WellPlaced, r

(* Another structure disturbs none of those before it. *)
LEMMA PlaceNext ==
  ASSUME NEW s, NEW D \in SUBSET Structures, NEW name \in Structures \ D,
         name # "heap", WellPlaced(s, D)
  PROVE  LET r == allocate_blocks(s, Size[name], name)
         IN  WellPlaced(r, D \cup {name}) /\ r.count = s.count
<1> DEFINE r == allocate_blocks(s, Size[name], name)
<1>1. /\ r \in Memories /\ r.count = s.count
      /\ \A n \in Structures \ {name} : r.block[n] = s.block[n]
      /\ \/ r.block[name] = NULL /\ r.used = s.used
         \/ /\ r.block[name] # NULL
            /\ r.used = s.used \cup Span(r, name)
            /\ Span(r, name) \subseteq 1 .. s.count - 1
            /\ Span(r, name) \cap s.used = {}
  BY AllocateBlocks DEF WellPlaced
<1> HIDE DEF r
<1>2. /\ \A n \in D : r.block[n] = s.block[n] /\ Span(r, n) = Span(s, n)
      /\ r.block["heap"] = s.block["heap"]
  BY <1>1 DEF Span, Structures
<1>3. s.used \subseteq r.used /\ 0 \in r.used
  BY <1>1 DEF WellPlaced
<1>4. \A n \in D : s.block[n] # NULL =>
        Span(s, n) \subseteq 1 .. s.count - 1 /\ Span(s, n) \subseteq s.used
  BY DEF WellPlaced, Placed
<1>5. \A a, b \in D : s.block[a] # NULL /\ s.block[b] # NULL /\ a # b =>
        Span(s, a) \cap Span(s, b) = {}
  BY DEF WellPlaced, Placed
<1>6. Placed(r, D \cup {name})
  <2> SUFFICES ASSUME NEW a \in D \cup {name}, NEW b \in D \cup {name},
                      r.block[a] # NULL, r.block[b] # NULL
               PROVE  /\ Span(r, a) \subseteq 1 .. r.count - 1
                      /\ Span(r, a) \subseteq r.used
                      /\ a # b => Span(r, a) \cap Span(r, b) = {}
    BY DEF Placed
  <2>1. CASE a \in D /\ b \in D
    BY <1>1, <1>2, <1>3, <1>4, <1>5, <2>1
  <2>2. CASE a = name /\ b \in D
    BY <1>1, <1>2, <1>4, <2>2
  <2>3. CASE a \in D /\ b = name
    BY <1>1, <1>2, <1>3, <1>4, <2>3
  <2>4. CASE a = name /\ b = name
    BY <1>1, <2>4
  <2> QED BY <2>1, <2>2, <2>3, <2>4
<1>7. Missed(r, D \cup {name})
  <2> SUFFICES ASSUME r.block["heap"] = NULL, NEW b \in 0 .. r.count - HeapBlocks
               PROVE  \E c \in (b .. b + HeapBlocks - 1) \cap r.used :
                        \A n \in (D \cup {name}) \ {"heap"} :
                          r.block[n] # NULL => c \notin Span(r, n)
    BY DEF Missed
  <2>1. PICK c \in (b .. b + HeapBlocks - 1) \cap s.used :
          \A n \in D \ {"heap"} : s.block[n] # NULL => c \notin Span(s, n)
    BY <1>1, <1>2 DEF WellPlaced, Missed
  <2>2. r.block[name] # NULL => c \notin Span(r, name)
    BY <1>1, <2>1
  <2> QED BY <1>2, <1>3, <2>1, <2>2
<1> QED BY <1>1, <1>3, <1>6, <1>7 DEF WellPlaced, r

MemoryRecord ==
  [count |-> m_data_block_count, cursor |-> cursor, block |-> block, used |-> used]

(* The heap is placed when paging is prepared, all when the kernel runs. *)
PlaceInv ==
  /\ pc = "members" => cursor = 0 /\ block \in [Structures -> Nat]
  /\ pc = "paging" => WellPlaced(MemoryRecord, {"heap"})
  /\ Running => /\ WellPlaced(MemoryRecord, Structures)
                /\ \A name \in Structures \ {"heap"} : block[name] # NULL

LEMMA PlaceInit == Init => PlaceInv
BY DEF Init, PlaceInv, Running, NULL

LEMMA PlaceMembers ==
  ASSUME RegionInv, PlaceInv, initialise
  PROVE  PlaceInv'
<1>1. DataBlocks \in Nat
  BY Ends DEF RegionInv, DataBlocks
<1>2. CASE DataBlocks = 0
  BY <1>2 DEF initialise, At, PlaceInv, Running
<1>3. CASE DataBlocks # 0
  <2> DEFINE s == [count |-> DataBlocks, cursor |-> cursor, block |-> block,
                   used |-> (used \cup {0}) \cap 0 .. DataBlocks - 1]
             r == allocate_blocks(s, HeapBlocks, "heap")
  <2>1. cursor = 0 /\ block \in [Structures -> Nat]
    BY DEF initialise, At, PlaceInv
  <2>2. s \in Memories /\ 0 \in s.used /\ s.cursor = 0
    BY <1>1, <1>3, <2>1 DEF Memories
  <2>3. WellPlaced(r, {"heap"})
    BY <2>2, PlaceHeap
  <2>4. r.count = DataBlocks
    BY <2>2, AllocateBlocks DEF Size, Structures
  <2>5. pc' = "paging" /\ used' = r.used /\ cursor' = r.cursor /\ block' = r.block
        /\ m_data_block_count' = DataBlocks
    BY <1>3 DEF initialise, At, Taken
  <2> HIDE DEF r, s
  <2>6. MemoryRecord' = [count |-> r.count, cursor |-> r.cursor, block |-> r.block, used |-> r.used]
    BY <2>4, <2>5 DEF MemoryRecord
  <2>7. MemoryRecord' = r
    BY <2>3, <2>6 DEF WellPlaced, Memories
  <2> QED BY <2>3, <2>5, <2>7 DEF PlaceInv, Running
<1> QED BY <1>2, <1>3

LEMMA PlacePaging ==
  ASSUME PlaceInv, prepare_paging
  PROVE  PlaceInv'
<1> DEFINE s1 == allocate_blocks([count |-> m_data_block_count, cursor |-> cursor,
                             block |-> block, used |-> used], 1, "identity")
           s2 == allocate_blocks(s1, TableBlocks, "identity_tables")
           s3 == allocate_blocks(s2, 1, "user")
           s4 == allocate_blocks(s3, TableBlocks, "user_tables")
<1>1. pc = "paging" /\ pc' = "sti" /\ m_data_block_count' = m_data_block_count
      /\ used' = s4.used /\ cursor' = s4.cursor /\ block' = s4.block
      /\ (mode' = "run" => \A name \in Structures \ {"heap"} : s4.block[name] # NULL)
  BY DEF prepare_paging, At, Taken
<1>2. WellPlaced(MemoryRecord, {"heap"})
  BY <1>1 DEF PlaceInv
<1>3. /\ Size["identity"] = 1 /\ Size["identity_tables"] = TableBlocks
      /\ Size["user"] = 1 /\ Size["user_tables"] = TableBlocks
      /\ Structures = {"heap", "identity", "identity_tables", "user", "user_tables"}
  BY DEF Size, Structures
<1>4. WellPlaced(s1, {"heap", "identity"}) /\ s1.count = m_data_block_count
  <2>1. {"heap"} \cup {"identity"} = {"heap", "identity"}
    OBVIOUS
  <2>2. MemoryRecord.count = m_data_block_count
    BY DEF MemoryRecord
  <2>3. s1 = allocate_blocks(MemoryRecord, Size["identity"], "identity")
    BY <1>3 DEF MemoryRecord
  <2> HIDE DEF s1
  <2> QED BY <1>2, <1>3, <2>1, <2>2, <2>3, PlaceNext
<1> HIDE DEF s1
<1>5. WellPlaced(s2, {"heap", "identity", "identity_tables"}) /\ s2.count = s1.count
  <2>1. {"heap", "identity"} \cup {"identity_tables"} = {"heap", "identity", "identity_tables"}
    OBVIOUS
  <2>2. s2 = allocate_blocks(s1, Size["identity_tables"], "identity_tables")
    BY <1>3
  <2> HIDE DEF s2
  <2> QED BY <1>3, <1>4, <2>1, <2>2, PlaceNext
<1> HIDE DEF s2
<1>6. WellPlaced(s3, {"heap", "identity", "identity_tables", "user"}) /\ s3.count = s2.count
  <2>1. {"heap", "identity", "identity_tables"} \cup {"user"}
          = {"heap", "identity", "identity_tables", "user"}
    OBVIOUS
  <2>2. s3 = allocate_blocks(s2, Size["user"], "user")
    BY <1>3
  <2> HIDE DEF s3
  <2> QED BY <1>3, <1>5, <2>1, <2>2, PlaceNext
<1> HIDE DEF s3
<1>7. WellPlaced(s4, Structures) /\ s4.count = s3.count
  <2>1. {"heap", "identity", "identity_tables", "user"} \cup {"user_tables"} = Structures
    BY <1>3
  <2>2. s4 = allocate_blocks(s3, Size["user_tables"], "user_tables")
    BY <1>3
  <2> HIDE DEF s4
  <2> QED BY <1>3, <1>6, <2>1, <2>2, PlaceNext
<1> HIDE DEF s4
<1>8. MemoryRecord' = s4
  <2>1. MemoryRecord' = [count |-> s4.count, cursor |-> s4.cursor,
                         block |-> s4.block, used |-> s4.used]
    BY <1>1, <1>4, <1>5, <1>6, <1>7 DEF MemoryRecord
  <2> QED BY <1>7, <2>1 DEF WellPlaced, Memories
<1>9. mode' = "run" => \A name \in Structures \ {"heap"} : block'[name] # NULL
  BY <1>1
<1> QED BY <1>1, <1>7, <1>8, <1>9 DEF PlaceInv, Running

LEMMA PlaceStep == RegionInv /\ PlaceInv /\ [Next]_vars => PlaceInv'
<1> SUFFICES ASSUME RegionInv, PlaceInv, [Next]_vars PROVE PlaceInv'
  OBVIOUS
<1>1. CASE initialise
  BY <1>1, PlaceMembers
<1>2. CASE prepare_paging
  BY <1>2, PlacePaging
<1>3. CASE Running /\ UNCHANGED memory /\ pc' \notin {"members", "paging"}
  BY <1>3 DEF PlaceInv, MemoryRecord, WellPlaced, Placed, Missed, memory
<1>4. CASE UNCHANGED <<pc, memory>> /\ (mode' = mode \/ Running)
  <2>1. Running' => Running
    BY <1>4 DEF Running
  <2>2. MemoryRecord' = MemoryRecord
    BY <1>4 DEF MemoryRecord, memory
  <2> QED BY <1>4, <2>1, <2>2 DEF PlaceInv, memory
<1>5. CASE kernel /\ ~initialise /\ ~prepare_paging
  BY <1>3, <1>5
     DEF kernel, new_process, add_node, add_value, add_count, reset_index,
         kernel_inactive, find_terminal, assign_terminal, load_terminal,
         show_terminal, timer_handler, At, machine, memory, Running
<1>6. CASE keyboard_handler
  BY <1>4, <1>6 DEF keyboard_handler, InterruptsEnabled, Running
<1>7. CASE UNCHANGED system
  BY <1>4, <1>7 DEF system
<1> QED BY <1>1, <1>2, <1>5, <1>6, <1>7 DEF Next, vars, system

(* The structures of the kernel are in blocks of their own and not where   *)
(* the bits are, for memory of any size with any bits set at power-on; and *)
(* the heap is at address 0 only if no run of free blocks was long enough. *)
THEOREM StructuresHaveOwnBlocks == Spec => []StructuresAreApart
<1>1. PlaceInv => StructuresAreApart
  <2> SUFFICES ASSUME PlaceInv, Running PROVE StructuresAreApart
    BY DEF StructuresAreApart
  <2>1. /\ Placed(MemoryRecord, Structures) /\ Missed(MemoryRecord, Structures)
        /\ \A name \in Structures \ {"heap"} : block[name] # NULL
    BY DEF PlaceInv, WellPlaced
  <2>2. /\ MemoryRecord.block = block /\ MemoryRecord.used = used
        /\ MemoryRecord.count = m_data_block_count
        /\ \A n \in Structures : Span(MemoryRecord, n) = Occupied(n)
    BY DEF MemoryRecord, Span, Occupied
  <2>3. \A a, b \in {n \in Structures : block[n] # NULL} :
          /\ Occupied(a) \subseteq 1 .. m_data_block_count - 1
          /\ a # b => Occupied(a) \cap Occupied(b) = {}
    BY <2>1, <2>2 DEF Placed
  <2>4. block["heap"] = NULL =>
          \A b \in 0 .. m_data_block_count - HeapBlocks :
            \E c \in (b .. b + HeapBlocks - 1) \cap used :
              \A name \in Structures \ {"heap"} : c \notin Occupied(name)
    BY <2>1, <2>2 DEF Missed
  <2> QED BY <2>1, <2>3, <2>4 DEF StructuresAreApart
<1> QED BY <1>1, RegionInit, RegionStep, PlaceInit, PlaceStep, PTL DEF Spec

=============================================================================
