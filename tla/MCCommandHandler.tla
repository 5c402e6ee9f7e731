--------------------------- MODULE MCCommandHandler ---------------------------
(* Small instances of CommandHandler for TLC. *)
EXTENDS CommandHandler, TLC

\* Calls are interchangeable (nothing orders them but the order they are made
\* in), and so are the outputs of a group.
Symmetry == Permutations(Call) \cup Permutations(Chan)
=============================================================================
