----------------------------- MODULE BlockPool ------------------------------
(***************************************************************************)
(* What the users of kernel/memory.cpp rely on: a request is answered with *)
(* consecutive blocks that nobody else holds, or not at all; only its      *)
(* holder gives a block back.  When a request fails is left open.          *)
(***************************************************************************)
EXTENDS Naturals

CONSTANTS
  Blocks,  \* the blocks there are
  Sizes    \* how many a request may ask for

VARIABLE held

Init == held = {}

Allocate(count) ==
  \E first \in Blocks :
    LET run == first .. first + count - 1
    IN  /\ count > 0
        /\ run \subseteq Blocks \ held
        /\ held' = held \cup run

Free(b) ==
  /\ b \in held
  /\ held' = held \ {b}

Next ==
  \/ \E count \in Sizes : Allocate(count)
  \/ \E b \in Blocks : Free(b)

Spec == Init /\ [][Next]_held

=============================================================================
