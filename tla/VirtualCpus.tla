---------------------------- MODULE VirtualCpus -----------------------------
(***************************************************************************)
(* What interrupt entry and exit, timer_handler, sys and enter_usermode    *)
(* provide together: every thread has a processor of its own.  Its         *)
(* registers change only when it computes; being interrupted, calling the  *)
(* kernel and being switched away from leave them alone.                   *)
(***************************************************************************)
EXTENDS Naturals

CONSTANTS
  Thread,
  Idle,            \* the thread that never ends
  NoThread,        \* nobody runs before the first tick
  Initial(_),      \* the registers a thread starts with
  Computed(_)      \* the registers after a thread has computed

VARIABLES running, context

live == DOMAIN context

Init == running = NoThread /\ context = << >>

(* The constructor makes the first threads. *)
Boot ==
  /\ live = {}
  /\ \E first \in SUBSET Thread :
       /\ Idle \in first
       /\ context' = [t \in first |-> Initial(t)]
  /\ UNCHANGED running

Compute ==
  /\ running # NoThread
  /\ context' = [context EXCEPT ![running] = Computed(@)]
  /\ UNCHANGED running

Switch ==
  /\ running' \in live
  /\ UNCHANGED context

Create(t) ==
  /\ running # NoThread
  /\ t \notin live
  /\ context' = [u \in live \cup {t} |-> IF u = t THEN Initial(t) ELSE context[u]]
  /\ UNCHANGED running

(* The running thread ends, alone or with others; another one runs. *)
End(gone) ==
  /\ running \in gone
  /\ Idle \notin gone
  /\ context' = [t \in live \ gone |-> context[t]]
  /\ running' \in live \ gone

Next ==
  \/ Boot
  \/ Compute
  \/ Switch
  \/ \E t \in Thread : Create(t)
  \/ \E gone \in SUBSET live : End(gone)

Spec == Init /\ [][Next]_<<running, context>>

=============================================================================
