------------------------------- MODULE Users -------------------------------
(* Accounts under names of its own, so that it can stand in one module with *)
(* another component: MCS3Objects runs it, S3ObjectsProofs proves it.       *)

CONSTANTS Account, Row, Inside, Folder, Requests, Starts, Names, Ttl, TimeMax, Nobody, Unnamed

VARIABLES accounts, born, ownerOf, enabled, cached, tokens, asked, time, openAt, late

Users == INSTANCE Accounts WITH Req <- Requests, Typed <- Names

\* No two accounts have one address, and who comes when the registration has been closed
\* for the lifetime of the cache is turned away (updateAccountEmail, register).
AccountsHold == Users!AccountsHold
=============================================================================
