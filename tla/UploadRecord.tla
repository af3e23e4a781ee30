---------------------------- MODULE UploadRecord ----------------------------
(***************************************************************************)
(* What the FileRecord of a chunked upload promises, whoever drives it.    *)
(* The record completes only from an open status and with every chunk on   *)
(* Telegram, each completion is won by one handler, and the quota is       *)
(* charged only by a handler that won one.  It leaves "complete" only for  *)
(* a failure, an abort or a retry the user asked for while it had failed.  *)
(* How chunks travel, and which of the handlers gets there first, is left  *)
(* to UploadPipeline.                                                      *)
(***************************************************************************)
EXTENDS Naturals

CONSTANTS
  Chunk,     \* the declared chunks
  Handler    \* the requests that may complete the record

VARIABLES
  status,    \* FileRecord.status, "none" when the row is gone
  landed,    \* chunks with a Telegram message
  owed,      \* handlers that won a completion and have yet to charge it
  charged,   \* how many times usedSpace was incremented
  asked      \* retries that found the record failed and have yet to reopen it

vars == <<status, landed, owed, charged, asked>>

TypeOK ==
  /\ status \in {"uploading", "buffered", "buffer_failed", "complete", "aborted", "none"}
  /\ landed \in SUBSET Chunk /\ owed \in SUBSET Handler /\ charged \in Nat /\ asked \in Nat

Init == status = "uploading" /\ landed = {} /\ owed = {} /\ charged = 0 /\ asked = 0

Land(c) ==
  /\ status # "none" /\ landed' = landed \cup {c}
  /\ UNCHANGED <<status, owed, charged, asked>>

Complete(h) ==
  /\ status \in {"uploading", "buffered"} /\ landed = Chunk
  /\ status' = "complete" /\ owed' = owed \cup {h}
  /\ UNCHANGED <<landed, charged, asked>>

Charge(h) ==
  /\ h \in owed
  /\ owed' = owed \ {h} /\ charged' = charged + 1
  /\ UNCHANGED <<status, landed, asked>>

\* A statement fails or the core dies between the flip and the charge, or between
\* the two statements of a retry.
Forget ==
  /\ owed' \in SUBSET owed /\ asked' \in 0 .. asked
  /\ UNCHANGED <<status, landed, charged>>

Park ==
  /\ status = "uploading" /\ status' = "buffered"
  /\ UNCHANGED <<landed, owed, charged, asked>>

Fail ==
  /\ status # "none" /\ status' \in {"buffer_failed", "aborted"}
  /\ UNCHANGED <<landed, owed, charged, asked>>

Ask ==
  /\ status = "buffer_failed" /\ asked' = asked + 1
  /\ UNCHANGED <<status, landed, owed, charged>>

Reopen ==
  /\ asked > 0 /\ asked' = asked - 1
  /\ status # "none" /\ status' = "buffered"
  /\ UNCHANGED <<landed, owed, charged>>

Remove ==
  /\ status' = "none" /\ landed' = {}
  /\ UNCHANGED <<owed, charged, asked>>

Next ==
  \/ \E c \in Chunk : Land(c)
  \/ \E h \in Handler : Complete(h) \/ Charge(h)
  \/ Forget \/ Park \/ Fail \/ Ask \/ Reopen \/ Remove

Spec == Init /\ [][Next]_vars
=============================================================================
