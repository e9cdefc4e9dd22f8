------------------------------ MODULE Keyboard ------------------------------
(***************************************************************************)
(* The keyboard and the decoding of its scan codes (drivers/keyboard.*,    *)
(* the first half of kernel::keyboard_handler).  A key is named by its     *)
(* code; those that were added to the first keyboards, like a second ctrl, *)
(* by 256 more than the code they send after the prefix 0xE0.  The driver  *)
(* knows nothing of prefixes.                                              *)
(***************************************************************************)
EXTENDS Integers, SequencesExt

CONSTANTS
  Keys,      \* the keys without a prefix that are used
  Extended,  \* those with one
  Feigning,  \* those that are sent with the code of a shift key nobody moved
  MaxWire    \* bound on the bytes the keyboard keeps until they are read

KEY_TAB == 15
KEY_LEFT_CTRL == 29
KEY_LEFT_SHIFT == 42
KEY_RIGHT_SHIFT == 54
KEY_LEFT_ALT == 56
KEY_SPACE == 57
Prefix == 224

ASSUME KeyAssumption == Keys \subseteq 1 .. KEY_SPACE
(* The keypad has no shift keys. *)
ASSUME ExtendedAssumption ==
  Extended \subseteq (257 .. 383) \ {256 + KEY_LEFT_SHIFT, 256 + KEY_RIGHT_SHIFT}
ASSUME FeigningAssumption == Feigning \subseteq Extended
ASSUME WireAssumption == MaxWire \in Nat

VARIABLES
  held,      \* the keys that are down
  feigned,   \* what the keyboard said last of shift is a press that was none
  wire,      \* the bytes port 0x60 will give: code, and the modifiers
             \* that were down or feigned then
  modifiers  \* shift, alt and ctrl of the driver, those that are true

keyboard == <<held, feigned, wire, modifiers>>

Modifier ==
  [code \in {KEY_LEFT_SHIFT, KEY_RIGHT_SHIFT, KEY_LEFT_ALT, KEY_LEFT_CTRL} |->
     CASE code = KEY_LEFT_ALT -> "alt"
       [] code = KEY_LEFT_CTRL -> "ctrl"
       [] OTHER -> "shift"]

-----------------------------------------------------------------------------
(* The keyboard. *)

(* The modifiers of which a key is down, the right alt and ctrl included. *)
Down == {Modifier[k % 256] : k \in {h \in held : h % 256 \in DOMAIN Modifier}}

Shifts == {KEY_LEFT_SHIFT, KEY_RIGHT_SHIFT} \cap held

Codes(k, up) ==
  LET code == (k % 256) + (IF up THEN 128 ELSE 0)
  IN  IF k \in Extended THEN <<Prefix, code>> ELSE <<code>>

Send(codes, feint) ==
  /\ Len(wire) + Len(codes) <= MaxWire
  /\ wire' = wire \o
       [i \in DOMAIN codes |->
          [code |-> codes[i],
           by |-> Down \cup (IF feigned \/ feint THEN {"shift"} ELSE {})]]
  /\ feigned' = feint
  /\ UNCHANGED modifiers

Plain(k, up) ==
  Send(Codes(k, up),
       feigned /\ ~(up /\ k \in {KEY_LEFT_SHIFT, KEY_RIGHT_SHIFT}))

(* PrintScreen, and the cursor keys for one position of Num Lock, are sent *)
(* as if shift were in the position in which the keypad means them: the    *)
(* release of the shift key that is down, or a press where none is, comes  *)
(* before the key, and the opposite after its release.                     *)
Feint(k, up) ==
  LET feint == up <=> Shifts # {}
  IN  /\ k \in Feigning
      /\ \E s \in IF Shifts = {} THEN {KEY_LEFT_SHIFT} ELSE Shifts :
           LET fake == <<Prefix, s + (IF feint THEN 0 ELSE 128)>>
           IN  Send(IF up THEN Codes(k, up) \o fake ELSE fake \o Codes(k, up),
                    feint)

(* Which of the two it is depends on Num Lock, ctrl and alt and on the     *)
(* keyboard, and may be different when the key is released.                *)
Sends(k, up) == Plain(k, up) \/ Feint(k, up)

(* A key is pressed; one that stays down repeats its code. *)
Press(k) == Sends(k, FALSE) /\ held' = held \cup {k}

Release(k) == k \in held /\ Sends(k, TRUE) /\ held' = held \ {k}

-----------------------------------------------------------------------------
(* The driver. *)

is_up(byte) == byte > KEY_SPACE

(* The key's code, in eight bits. *)
scancode(byte) == IF is_up(byte) THEN (byte - 128) % 256 ELSE byte

(* Every key of to_char's table has a character for each position of the   *)
(* shift, the space bar one for both; no two are the same.                 *)
Printable == (2 .. 13) \cup (16 .. 27) \cup (30 .. 41) \cup (43 .. 53)
               \cup {KEY_SPACE}
to_char(code, shift) == <<code, shift /\ code # KEY_SPACE>>

Next_Byte == Head(wire).code
Code == scancode(Next_Byte)
IsShift == "shift" \in modifiers

(* The handler reads one byte in each interrupt. *)
ReadByte == wire # << >> /\ wire' = Tail(wire) /\ UNCHANGED <<held, feigned>>

(* Mutant: the release of the right shift key is not seen. *)
ReadModifier_Left ==
  /\ ReadByte
  /\ Code \in DOMAIN Modifier
  /\ modifiers' = IF ~is_up(Next_Byte) THEN modifiers \cup {Modifier[Code]}
                  ELSE IF Code = KEY_RIGHT_SHIFT THEN modifiers
                  ELSE modifiers \ {Modifier[Code]}

ReadModifier ==
  /\ ReadByte
  /\ Code \in DOMAIN Modifier
  /\ modifiers' = IF is_up(Next_Byte) THEN modifiers \ {Modifier[Code]}
                                      ELSE modifiers \cup {Modifier[Code]}

IsSwitch == ~is_up(Next_Byte) /\ IsShift /\ Code = KEY_TAB

ReadKey ==
  /\ ReadByte
  /\ Code \notin DOMAIN Modifier
  /\ UNCHANGED modifiers

-----------------------------------------------------------------------------
(* Of all 256 bytes exactly the codes of the main block, pressed and       *)
(* released, are taken for keys: those of the function, keypad and cursor  *)
(* keys, which is_up calls releases when they are pressed, become nothing. *)
KeysAreDistinct ==
  \A byte \in 0 .. 255 :
    LET key == IF byte >= 128 THEN byte - 128 ELSE byte
    IN  IF key \in 1 .. KEY_SPACE
          THEN scancode(byte) = key /\ (is_up(byte) <=> byte >= 128)
          ELSE scancode(byte) \notin 1 .. KEY_SPACE

=============================================================================
