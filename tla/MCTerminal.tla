----------------------------- MODULE MCTerminal -----------------------------
(***************************************************************************)
(* Terminal for TLC: the cfg files give the constants their values.        *)
(***************************************************************************)
EXTENDS Terminal, TLC

(* Characters are interchangeable. *)
CharSymmetry == Permutations(Char)

=============================================================================
