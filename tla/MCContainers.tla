---------------------------- MODULE MCContainers ----------------------------
(***************************************************************************)
(* Containers for TLC.  The two lists and the input share nothing, so it   *)
(* is enough to exercise one of them in each behaviour.                    *)
(***************************************************************************)
EXTENDS Containers

OneAtATime ==
  \/ array.m_reserved = 1 /\ node = << >>
  \/ array.m_reserved = 1 /\ line.m_reserved = 1 /\ m_input_buffer.m_reserved = 1
  \/ node = << >> /\ line.m_reserved = 1 /\ m_input_buffer.m_reserved = 1

=============================================================================
