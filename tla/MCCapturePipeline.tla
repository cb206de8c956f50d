-------------------------- MODULE MCCapturePipeline --------------------------
(***************************************************************************)
(* CapturePipeline for TLC: frames of three samples, the denoiser's of two. *)
(***************************************************************************)
EXTENDS CapturePipeline

AllKinds == {"device", "denoised", "loopback", "test"}
MCChunks == {2, 4}

=============================================================================
