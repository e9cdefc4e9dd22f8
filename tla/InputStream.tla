----------------------------- MODULE InputStream ----------------------------
(***************************************************************************)
(* What a program is promised of its input: the characters of each line    *)
(* that is entered, as they stood when Enter was pressed, in the order     *)
(* they were typed, none lost and none twice, as many as it has asked for. *)
(***************************************************************************)
EXTENDS Naturals, SequencesExt

CONSTANTS Char, Newline, ReadSizes

VARIABLES
  typed,     \* what was typed and not yet received, the line at the end
  entered,   \* how much of it belongs to lines that were entered
  wanted,    \* what the pending read still waits for
  received   \* what the last read has got so far

vars == <<typed, entered, wanted, received>>

Init == typed = << >> /\ entered = 0 /\ wanted = 0 /\ received = << >>

(* The first characters of text, of which `have` are entered, go to a read *)
(* that has `got` and misses `want`.                                       *)
Deliver(text, have, want, got) ==
  LET n == Min({have, want})
  IN  /\ received' = got \o SubSeq(text, 1, n)
      /\ typed' = SubSeq(text, n + 1, Len(text))
      /\ entered' = have - n
      /\ wanted' = want - n

Read(count) == Deliver(typed, entered, count, << >>)

Type(c) ==
  /\ wanted > 0
  /\ typed' = Append(typed, c)
  /\ UNCHANGED <<entered, wanted, received>>

(* Only the line that is being typed can be changed. *)
Erase ==
  /\ wanted > 0 /\ Len(typed) > entered
  /\ typed' = Front(typed)
  /\ UNCHANGED <<entered, wanted, received>>

Enter ==
  /\ wanted > 0
  /\ Deliver(Append(typed, Newline), Len(typed) + 1, wanted, received)

Next ==
  \/ \E count \in ReadSizes : Read(count)
  \/ \E c \in Char : Type(c)
  \/ Erase
  \/ Enter

Spec == Init /\ [][Next]_vars

=============================================================================
