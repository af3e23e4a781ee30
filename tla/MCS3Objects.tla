---------------------------- MODULE MCS3Objects ----------------------------
(* S3Objects with small sets of keys and requests, and Accounts with three  *)
(* requests to the users and the settings.  A behaviour is one of the       *)
(* objects or one of the accounts (part); the other stays where it begins.  *)
EXTENDS S3Objects, Users, TLC

VARIABLE part

accountVars == <<accounts, born, ownerOf, enabled, cached, tokens, asked, time, openAt, late>>

Text(word, plain) == [word |-> word, plain |-> plain]
Two == <<Text("ann", TRUE), Text("bob", TRUE)>>

\* Users 1 and 2, the folder 5, the file 6 in it and the file 7.
From(names, on, ops) ==
  [names |-> names, enabled |-> on, ops |-> ops,
   ownerOf |-> [x \in 5..7 |-> IF names # <<>> /\ x < 7 THEN 2 ELSE None]]

\* The first users come together, the setting is read and written while others come, one
\* address is wanted by several, and one account is changed and deleted by several.
MCStarts ==
  {From(<<>>, TRUE, <<"register", "register", "setting">>),
   From(<<>>, FALSE, <<"register", "login", "setting">>)}
  \cup {From(Two, on, <<"status", "register", "setting">>) : on \in BOOLEAN}
  \cup {From(Two, FALSE, ops) : ops \in
          {<<"email", "email", "email">>, <<"email", "email", "remove">>, <<"password", "reset", "login">>,
           <<"role", "login", "role">>, <<"remove", "drop", "limit">>}}

MCNames == {Text("bob", FALSE), Text("cyn", TRUE), Text("cyn", FALSE)}

ASSUME AccountsAssumption == Users!AccountsFit

MCInit == /\ part \in {"objects", "accounts"}
          /\ Init /\ Users!Init
          /\ part = "objects" => asked = [q \in 1..3 |-> [Users!Idle EXCEPT !.op = "email"]]
          /\ part = "accounts" => index = TRUE

MCNext == \/ part = "objects" /\ Next /\ UNCHANGED <<part, accountVars>>
          \/ part = "accounts" /\ Users!Next /\ UNCHANGED <<part, vars>>

MCSpec == MCInit /\ [][MCNext]_<<part, vars, accountVars>>

Alike == Permutations(Put)
=============================================================================
