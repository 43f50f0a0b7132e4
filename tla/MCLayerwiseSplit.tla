-------------------------- MODULE MCLayerwiseSplit --------------------------
(* Small instances of LayerwiseSplit. *)
EXTENDS LayerwiseSplit
=============================================================================
