------------------------------- MODULE Queues -------------------------------
(***************************************************************************)
(* What the schedulers do to their queues beyond the operators of the      *)
(* sequence modules.                                                       *)
(***************************************************************************)
EXTENDS Sequences, SequencesExt

\* The members of s that are in S, in order: a list comprehension with a condition.
Keep(s, S) == FlattenSeq([i \in DOMAIN s |-> IF s[i] \in S THEN <<s[i]>> ELSE <<>>])
=============================================================================
