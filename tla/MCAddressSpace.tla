--------------------------- MODULE MCAddressSpace ---------------------------
(***************************************************************************)
(* AddressSpace for TLC.  Workers are interchangeable.                     *)
(***************************************************************************)
EXTENDS AddressSpace, TLC

WorkerSymmetry == Permutations(Workers)

=============================================================================
