-------------------------------- MODULE List --------------------------------
(***************************************************************************)
(* What libcpp/list.h promises the kernel of its lists of objects and of   *)
(* addresses: they keep the order in which elements were added, and lose   *)
(* the one element that is asked for, by its index or by its value, and    *)
(* none when there is no such element.  Indices count from 0.              *)
(***************************************************************************)
EXTENDS Integers, SequencesExt

CONSTANT Value

VARIABLE list

Init == list = << >>

Add(v) ==
  /\ v \notin Range(list)
  /\ list' = Append(list, v)

(* remove *)
RemoveIndex(i) ==
  list' = IF i < Len(list) THEN RemoveAt(list, i + 1) ELSE list

(* remove of what find returns: the first place that holds v. *)
IsFirst(v, i) ==
  i \in DOMAIN list /\ list[i] = v /\ \A j \in 1 .. i - 1 : list[j] # v

RemoveFound(v) ==
  IF v \in Range(list)
    THEN \E i \in DOMAIN list : IsFirst(v, i) /\ list' = RemoveAt(list, i)
    ELSE UNCHANGED list

Next ==
  \/ \E v \in Value : Add(v) \/ RemoveFound(v)
  \/ \E i \in 0 .. Len(list) - 1 : RemoveIndex(i)

Spec == Init /\ [][Next]_list

=============================================================================
