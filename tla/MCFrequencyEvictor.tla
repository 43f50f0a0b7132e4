------------------------ MODULE MCFrequencyEvictor -------------------------
(* Small instances of FrequencyEvictor. *)
EXTENDS FrequencyEvictor
=============================================================================
