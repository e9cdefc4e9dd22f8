---------------------------- MODULE MCKernelHeap ----------------------------
(***************************************************************************)
(* KernelHeap for TLC: the cfg file gives the constants their values.      *)
(***************************************************************************)
EXTENDS KernelHeap

=============================================================================
