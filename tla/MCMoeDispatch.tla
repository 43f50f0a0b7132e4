---------------------------- MODULE MCMoeDispatch ----------------------------
(* Small instances of MoeDispatch. *)
EXTENDS MoeDispatch

AllModes == {"general", "small"} \X {"none", "enabled"} \cup {<<"batched", "none">>, <<"index", "none">>}
=============================================================================
