---------------------------- MODULE MCRunManager ----------------------------
(* Model-checking instance of RunManager. *)
EXTENDS RunManager

\* Run ids and threads are interchangeable; used by safety runs only.
Symmetry == Permutations(Runs) \union Permutations(Workers)
              \union Permutations(Cancellers)
=============================================================================
