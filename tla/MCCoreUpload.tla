--------------------------- MODULE MCCoreUpload ---------------------------
(* CoreUpload with two chunks, two requests, two workers and two bots.     *)
(* Liveness is checked, so nothing is declared symmetric.                  *)
EXTENDS CoreUpload, TLC

\* The bots by their numbers, the main bot first.
MCBots == <<1, 2>>
=============================================================================
