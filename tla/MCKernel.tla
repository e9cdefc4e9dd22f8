------------------------------ MODULE MCKernel ------------------------------
(***************************************************************************)
(* Kernel for TLC.  Workers are interchangeable: KernelAnyReader, which    *)
(* checks no liveness, uses their symmetry.                                *)
(***************************************************************************)
EXTENDS Kernel, TLC

WorkerSymmetry == Permutations(Workers)

=============================================================================
