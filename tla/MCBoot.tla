------------------------------- MODULE MCBoot -------------------------------
(***************************************************************************)
(* Boot for TLC: memory maps in words of 9 bits and blocks of 8 bytes with *)
(* 4 bits each, so that a bitmap block serves 32 blocks.                   *)
(***************************************************************************)
EXTENDS Boot

Entry(start, size, type) == [start |-> start, size |-> size, type |-> type]

(* What comes before and after the memory above 1 MB. *)
Low == <<Entry(0, 15, 1), Entry(15, 1, 2)>>

Enough == Low \o <<Entry(32, 200, 1)>>

MCMaps ==
  {<< >>, Low,
   Enough,
   Low \o <<Entry(37, 150, 1), Entry(250, 262, 2)>>,    \* ends not aligned
   Low \o <<Entry(40, 88, 1)>>,                         \* enough but for the heap
   Low \o <<Entry(40, 40, 1), Entry(512, 300, 1)>>,     \* too small; memory above
   Low \o <<Entry(40, 400, 2), Entry(443, 60, 1), Entry(24, 9, 1)>>,
   Low \o <<Entry(41, 7, 1)>>,                          \* one block
   Low \o <<Entry(41, 6, 1)>>,                          \* none
   Low \o <<Entry(507, 3, 1)>>}                         \* none, at the end

MCPowerOn == {{}, {3, 20, 60}}

(* Keys are pressed on two machines that start, with room for everything:  *)
(* those without a prefix all along the constructor, two bytes on the way; *)
(* and all but Tab in user mode, four bytes on the way, feigned shifts     *)
(* among them.                                                             *)
KeysWhereItStarts ==
  held # {} \/ wire # << >> =>
    /\ map = Enough
    /\ IF 20 \in used THEN pc = "user" /\ KEY_TAB \notin held
                      ELSE held \subseteq Keys /\ Len(wire) <= 2

=============================================================================
