---------------------------- MODULE MCGdnPrefix ----------------------------
(* Prompts for checking GdnPrefix on small instances: with two tokens to a  *)
(* block, prompts that end on a block boundary and inside a block; that     *)
(* share one or two blocks; that need one, two or more steps of a budget of *)
(* four tokens.                                                             *)
EXTENDS GdnPrefix

P(blocks, tail) == [blocks |-> blocks, tail |-> tail]

Prompts == {P(<<"a", "a", "b", "b">>, 1), P(<<"a", "b">>, 0)}

\* For the preemption run: a short prompt and what it is after some output.
GrowingPrompts == {P(<<"a">>, 0), P(<<"a", "b">>, 1)}

\* For two requests at a time: a prompt too short for any state, its
\* continuations, and another branch.
ManyLengths == GrowingPrompts \cup {P(<<"a", "a", "b">>, 0)}

\* The mode of the deployed configuration; and every mode the environment accepts.
AdmissionMode == {<<"admission64", "hybrid64">>}
EveryMode == {"fine32", "admission64", "off"} \X {"direct", "hybrid64", "chunk64", "aligned"}
=============================================================================
