---------------------------- MODULE MCMambaCache ----------------------------
EXTENDS MambaCache, TLC

\* Requests are interchangeable.
Symmetry == Permutations(Request)
====
