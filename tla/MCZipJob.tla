------------------------------ MODULE MCZipJob ------------------------------
(* ZipJob with a job of the user that the transfer service assembles, or a  *)
(* job of a visitor that the core assembles.  Liveness is checked, so       *)
(* nothing is declared symmetric.                                           *)
EXTENDS ZipJob, TLC

CONSTANT d1

MCSetups == {<<"go", {}, Reader>>, <<"nest", Job, {}>>, <<"links", {}, {}>>}

(* The bot of the first chunk is gone.  A client who may leave and a ZIP in  *)
(* both services, and two clients in the core, with as many answers that     *)
(* are worth a retry as there are retries, or one more.                      *)
WithZip == [d \in Download |-> IF d = d1 THEN "client" ELSE "zip"]

Situation(service, wants, n) ==
  [service |-> service, wants |-> wants, bots |-> {2}, local |-> FALSE, trouble |-> n]

MCSituations ==
  {Situation("go", WithZip, 0), Situation("core", WithZip, 2)}
=============================================================================
