------------------------- MODULE MCTrashLifecycle -------------------------
(* TrashLifecycle with a few files, tasks and handlers.                    *)
EXTENDS TrashLifecycle, TLC

\* Tasks and handlers are interchangeable.
Symmetry == Permutations(Task) \cup Permutations(Worker)
=============================================================================
