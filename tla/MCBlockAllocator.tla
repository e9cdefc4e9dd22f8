-------------------------- MODULE MCBlockAllocator --------------------------
(***************************************************************************)
(* BlockAllocator for TLC: the cfg files give the constants their values.  *)
(***************************************************************************)
EXTENDS BlockAllocator

=============================================================================
