---------------------------- MODULE HeapRegions -----------------------------
(***************************************************************************)
(* What operator new and operator delete promise the kernel: an allocated  *)
(* region lies inside the heap, starts where no other one does, shares no  *)
(* word with another one, and stays until its owner frees it.  When a      *)
(* request fails is left open.                                             *)
(***************************************************************************)
EXTENDS Naturals

CONSTANTS
  Arena,   \* the words of the heap
  Counts   \* the sizes that are asked for

VARIABLE live  \* the regions in use: <<address, words>>

Words(r) == r[1] .. r[1] + r[2] - 1

Init == live = {}

Allocate(count) ==
  \E a \in Arena :
    /\ Words(<<a, count>>) \subseteq Arena
    /\ \A r \in live : /\ r[1] # a
                       /\ Words(r) \cap Words(<<a, count>>) = {}
    /\ live' = live \cup {<<a, count>>}

Free(r) ==
  /\ r \in live
  /\ live' = live \ {r}

Next ==
  \/ \E count \in Counts : Allocate(count)
  \/ \E r \in live : Free(r)

Spec == Init /\ [][Next]_live

=============================================================================
