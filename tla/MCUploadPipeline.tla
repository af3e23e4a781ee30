------------------------- MODULE MCUploadPipeline -------------------------
(* UploadPipeline on small sets of chunks, jobs, instances and handlers.   *)
EXTENDS UploadPipeline, TLC

\* Jobs, chunks and calls are interchangeable.
Symmetry == Permutations(Job) \cup Permutations(Chunk) \cup Permutations(Call)
=============================================================================
