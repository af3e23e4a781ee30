------------------------------- MODULE Client -------------------------------
(* UploadClient under names of its own, so that it can stand in one module  *)
(* with another component: MCFolderTree runs it, UploadPipelineProofs       *)
(* proves it.                                                               *)

CONSTANTS Item, Sizes, Dropped, Folders, Chunks, Batch, Concurrency, Retries, Clicks

VARIABLES small, queue, seen, processing, run, paused, page, move, refused, bypassed, clicks

Client == INSTANCE UploadClient WITH Drops <- Dropped

\* The gate keeps back as much as it should and no more (UploadProvider, uploadChunked).
ConflictsAreDecided == Client!ConflictsAreDecided
=============================================================================
