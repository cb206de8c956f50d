---------------------------- MODULE MCProcessAudio ----------------------------
(***************************************************************************)
(* ProcessAudio for TLC: two connections with other devices each.          *)
(***************************************************************************)
EXTENDS ProcessAudio

CONSTANTS a, b

MCWanted ==
  << [r \in Roles |-> CASE r = "mic" -> a [] r = "ambient" -> b [] r = "ic" -> NoNode],
     [r \in Roles |-> CASE r = "mic" -> NoNode [] r = "ambient" -> a [] r = "ic" -> b] >>

=============================================================================
