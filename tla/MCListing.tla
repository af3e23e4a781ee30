---- MODULE MCListing ----
(* Three folders and three files, the last file of another folder (or query). *)
EXTENDS Listing

MCPlace == [k \in Kind |-> [i \in Id |-> IF k = "file" /\ i = 3 THEN "p2" ELSE "p1"]]
MCBudget == [user |-> 1, rows |-> 1, fail |-> 1]
====
