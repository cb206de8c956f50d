-------------------------- MODULE MCPlaybackMixer ---------------------------
(***************************************************************************)
(* PlaybackMixer for TLC.                                                  *)
(***************************************************************************)
EXTENDS PlaybackMixer

CONSTANTS voice, pa

=============================================================================
