---------------------------- MODULE MCInterrupts ----------------------------
(***************************************************************************)
(* Interrupts for TLC: two threads and idle; one unhandled line on either  *)
(* controller; division by zero (no handler, no error code), general       *)
(* protection (no handler, an error code), page fault (a handler).  No     *)
(* symmetry, because of the liveness properties.                           *)
(***************************************************************************)
EXTENDS Interrupts, TLC

=============================================================================
