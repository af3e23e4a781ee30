------------------------------ MODULE Accounts ------------------------------
(* User accounts of the core (auth.service.ts, user.service.ts, the guards) *)
(* and the setting that closes the registration (settings.service.ts).      *)
(*                                                                          *)
(* Every handler reads, waits and then writes what it has decided by an id: *)
(* a step is one statement of the database with what follows it up to the   *)
(* next await.  The indexes on name and e-mail and the foreign keys are     *)
(* those of schema.prisma.  A request carries a token, which says who sends *)
(* it and with which role, whatever has become of the account.              *)
EXTENDS Naturals, FiniteSets

CONSTANTS Account,    \* ids, from 1
          Row,        \* folders and files
          Inside,     \* the files among them that are in a folder of their owner
          Folder,     \* the folders among them
          Req,
          Starts,     \* who is there, what the setting says and which requests come
          Typed,      \* the user names that are asked for
          Ttl,        \* DEFAULT_CACHE_TTL_MS
          TimeMax,    \* bound on the clock
          Nobody,     \* no account, no value
          Unnamed     \* an e-mail that the request does not name

VARIABLES accounts,  \* the table User
          born,      \* the ids that were ever given
          ownerOf,   \* the owner of every row of a folder or file
          enabled,   \* REGISTRATION_ENABLED, in the database
          cached,    \* its entry in settingsCache
          tokens,    \* the tokens that were signed
          asked,     \* the requests
          time,
          openAt,    \* history: when the registration was last open, or still read as open
          late       \* history: somebody who came Ttl or more after that was let in

vars == <<accounts, born, ownerOf, enabled, cached, tokens, asked, time, openAt, late>>

\* Names and addresses that differ in case, or in blanks, have one word.
Text(word) == [word : {word}, plain : BOOLEAN]
Emails == Text("mail")
Same(x, y) == x # Nobody /\ y # Nobody /\ x.word = y.word

Passwords == {"first", "second"}
Roles == {"ADMIN", "USER"}

\* What the constants are.
Ops == {"register", "login", "status", "email", "password", "reset", "limit", "role", "remove",
        "drop", "setting"}

AccountsFit ==
  /\ Ttl \in Nat \ {0} /\ TimeMax \in Nat
  /\ \A start \in Starts :
       /\ DOMAIN start.names \subseteq Account
       /\ start.ownerOf \in [Row -> Account \cup {Nobody}]
       /\ start.enabled \in BOOLEAN /\ start.ops \in [Req -> Ops]

Idle == [pc |-> "idle", op |-> "none", by |-> Nobody, target |-> Nobody, arg |-> Nobody, old |-> Nobody,
         row |-> Nobody, came |-> 0, open |-> Nobody, got |-> Nobody, count |-> Nobody, todo |-> {}]

Live == {a \in Account : accounts[a] # Nobody}
Of(a) == {x \in Row : ownerOf[x] = a}

Ends(q) == asked' = [asked EXCEPT ![q] = [Idle EXCEPT !.pc = "done"]]

\* The payload of a token: who and with which role, as of when it is signed.
Token(a, role) == [user |-> a, role |-> role]

At(q, pc, ops) == asked[q].pc = pc /\ asked[q].op \in ops

-----------------------------------------------------------------------------
(* A request comes in: JwtAuthGuard, AdminGuard.                            *)

\* A fresh entry of the cache answers at once.
Fresh == cached # Nobody /\ time < cached.expiry

\* isRegistrationEnabled.
AsksStatus(q) == ~Fresh /\ asked' = [asked EXCEPT ![q].pc = "gather"]

Public(q, op) ==
  \/ op = "register" /\ \E n \in Typed : asked' = [asked EXCEPT ![q].pc = "lookup", ![q].arg = n]
  \/ op = "login" /\ \E n \in Typed, p \in Passwords :
       asked' = [asked EXCEPT ![q].pc = "lookup", ![q].arg = n, ![q].old = p]
  \/ op = "status" /\ AsksStatus(q)

\* The arguments of a change to one account.
Args(op) == CASE op = "email" -> Emails \cup {Nobody, Unnamed}
              [] op \in {"password", "reset"} -> Passwords
              [] op = "drop" -> Row \ Folder
              [] op = "limit" -> {"limited"}
              [] OTHER -> {Nobody}

Own(q, op, t) ==
  \/ op = "email" /\ \E e \in Args(op) :
       asked' = [asked EXCEPT ![q].pc = "read", ![q].target = t.user, ![q].arg = e]
  \/ op = "password" /\ \E p, n \in Passwords :
       asked' = [asked EXCEPT ![q].pc = "read", ![q].target = t.user, ![q].arg = n, ![q].old = p]

\* AdminGuard goes by the token.
MayManage(t) == t.role = "ADMIN"

\* updateRole: an admin does not take the role from himself.
Demotes(t, a, role) == a = t.user /\ role # "ADMIN"

Configures(q, value) == asked' = [asked EXCEPT ![q].pc = "write", ![q].arg = value]

Admin(q, op, t) ==
  /\ MayManage(t)
  /\ \/ /\ op \in {"email", "reset", "limit", "remove", "drop"}
        /\ \E a \in born, v \in Args(op) :
             asked' = [asked EXCEPT ![q].pc = "read", ![q].by = t.user, ![q].target = a, ![q].arg = v]
     \/ /\ op = "role"
        /\ \E a \in born, v \in Roles :
             ~Demotes(t, a, v) /\ asked' = [asked EXCEPT ![q].pc = "write", ![q].target = a, ![q].arg = v]
     \/ op = "setting" /\ \E v \in BOOLEAN : Configures(q, v)

Begin(q) ==
  /\ asked[q].pc = "idle"
  /\ \/ Public(q, asked[q].op)
     \/ \E t \in tokens : Own(q, asked[q].op, t) \/ Admin(q, asked[q].op, t)
  /\ UNCHANGED <<accounts, born, ownerOf, enabled, cached, tokens, time, late>>

-----------------------------------------------------------------------------
(* getCachedSetting, beside the count of the users.                         *)

\* register: a name that is taken but for its case is refused.  The cache is read at
\* once.
LookUp(q) ==
  /\ At(q, "lookup", {"register"})
  /\ IF \E a \in Live : Same(accounts[a].name, asked[q].arg) THEN Ends(q)
     ELSE asked' = [asked EXCEPT ![q].pc = "gather", ![q].came = time,
                                 ![q].open = IF Fresh THEN cached.value ELSE Nobody]
  /\ UNCHANGED <<accounts, born, ownerOf, enabled, cached, tokens, time, late>>

\* The row, which onModuleInit has made if nobody else has.
ReadSetting(q) ==
  /\ asked[q].pc = "gather" /\ asked[q].open = Nobody /\ asked[q].got = Nobody
  /\ asked' = [asked EXCEPT ![q].got = enabled]
  /\ UNCHANGED <<accounts, born, ownerOf, enabled, cached, tokens, time, late>>

\* The lifetime begins with the answer, and an upsert that came between is undone.
CacheSetting(q) ==
  /\ asked[q].got # Nobody
  /\ cached' = [value |-> asked[q].got, expiry |-> time + Ttl]
  /\ IF asked[q].op = "status" THEN Ends(q)
     ELSE asked' = [asked EXCEPT ![q].open = asked[q].got, ![q].got = Nobody]
  /\ UNCHANGED <<accounts, born, ownerOf, enabled, tokens, time, late>>

CountUsers(q) ==
  /\ At(q, "gather", {"register"}) /\ asked[q].count = Nobody
  /\ asked' = [asked EXCEPT ![q].count = IF Live = {} THEN "none" ELSE "some"]
  /\ UNCHANGED <<accounts, born, ownerOf, enabled, cached, tokens, time, late>>

\* The first account may always be made.
Judge(q) ==
  /\ At(q, "gather", {"register"}) /\ asked[q].open # Nobody /\ asked[q].count # Nobody
  /\ IF ~asked[q].open /\ asked[q].count = "some"
     THEN Ends(q) /\ UNCHANGED late
     ELSE /\ asked' = [asked EXCEPT ![q].pc = "create"]
          /\ late' = (late \/ (asked[q].count = "some" /\ asked[q].came >= openAt + Ttl))
  /\ UNCHANGED <<accounts, born, ownerOf, enabled, cached, tokens, time>>

NewId == Cardinality(born) + 1

\* The index on the name has the last word, but only for the same case.
Create(q) ==
  /\ At(q, "create", {"register"})
  /\ LET role == IF asked[q].count = "none" THEN "ADMIN" ELSE "USER" IN
     IF \E a \in Live : accounts[a].name = asked[q].arg THEN UNCHANGED <<accounts, born, tokens>>
     ELSE /\ NewId \in Account
          /\ accounts' = [accounts EXCEPT ![NewId] = [name |-> asked[q].arg, email |-> Nobody,
                                                      password |-> "first", limit |-> "default", role |-> role]]
          /\ born' = born \cup {NewId}
          /\ tokens' = tokens \cup {Token(NewId, role)}
  /\ Ends(q)
  /\ UNCHANGED <<ownerOf, enabled, cached, time, late>>

\* login: the password and the role are those that were read.
Find(q) ==
  /\ At(q, "lookup", {"login"})
  /\ LET named == {a \in Live : Same(accounts[a].name, asked[q].arg)} IN
     IF named = {} THEN Ends(q)
     ELSE \E a \in named :
            asked' = [asked EXCEPT ![q].pc = "sign", ![q].target = a, ![q].row = accounts[a]]
  /\ UNCHANGED <<accounts, born, ownerOf, enabled, cached, tokens, time, late>>

Sign(q) ==
  /\ At(q, "sign", {"login"})
  /\ tokens' = IF asked[q].row.password = asked[q].old
               THEN tokens \cup {Token(asked[q].target, asked[q].row.role)} ELSE tokens
  /\ Ends(q)
  /\ UNCHANGED <<accounts, born, ownerOf, enabled, cached, time, late>>

-----------------------------------------------------------------------------
(* Changes to an account.                                                   *)

NotNormalized(e) == e

\* normalizeEmail.
Normalized(e) == [e EXCEPT !.plain = TRUE]

\* Whoever is not there is not found; the current password must be right, and nobody
\* deletes himself.
Refused(q, row) ==
  \/ row = Nobody
  \/ asked[q].op = "password" /\ row.password # asked[q].old
  \/ asked[q].op = "remove" /\ asked[q].by = asked[q].target

\* The e-mail to write, which is the one that was read if the request names none.
Wanted(q, row) ==
  CASE asked[q].arg = Unnamed -> row.email
    [] asked[q].op = "email" /\ asked[q].arg \notin {Nobody, Unnamed} -> Normalized(asked[q].arg)
    [] OTHER -> asked[q].arg

Read(q) ==
  /\ asked[q].pc = "read" /\ asked[q].op # "drop"
  /\ LET row == accounts[asked[q].target] IN
     IF Refused(q, row) THEN Ends(q)
     ELSE asked' = [asked EXCEPT ![q].arg = Wanted(q, row),
            ![q].pc = CASE asked[q].op = "remove" -> "list"
                        [] asked[q].op = "email" /\ Wanted(q, row) \notin {Nobody, row.email} -> "check"
                        [] OTHER -> "write"]
  /\ UNCHANGED <<accounts, born, ownerOf, enabled, cached, tokens, time, late>>

\* updateAccountEmail looks for another account with the address in any case.
Check(q) ==
  /\ At(q, "check", {"email"})
  /\ IF \E a \in Live \ {asked[q].target} : Same(accounts[a].email, asked[q].arg) THEN Ends(q)
     ELSE asked' = [asked EXCEPT ![q].pc = "write"]
  /\ UNCHANGED <<accounts, born, ownerOf, enabled, cached, tokens, time, late>>

\* P2002: the index has the address.
Taken(a, email) == email # Nobody /\ \E b \in Live \ {a} : accounts[b].email = email

\* An update fails for an account that is gone.
WriteEmail(q) ==
  /\ At(q, "write", {"email"})
  /\ LET a == asked[q].target IN
     accounts' = IF a \in Live /\ ~Taken(a, asked[q].arg)
                 THEN [accounts EXCEPT ![a].email = asked[q].arg] ELSE accounts
  /\ Ends(q)
  /\ UNCHANGED <<born, ownerOf, enabled, cached, tokens, time, late>>

\* The field of an account that a request writes, whatever was written since it read.
Field(op) == IF op \in {"password", "reset"} THEN "password" ELSE op

Write(q) ==
  /\ At(q, "write", {"password", "reset", "limit", "role"})
  /\ LET a == asked[q].target IN
     accounts' = IF a \in Live THEN [accounts EXCEPT ![a][Field(asked[q].op)] = asked[q].arg] ELSE accounts
  /\ Ends(q)
  /\ UNCHANGED <<born, ownerOf, enabled, cached, tokens, time, late>>

\* upsert, and then its entry in the cache goes.
Upsert(q) ==
  /\ At(q, "write", {"setting"})
  /\ enabled' = asked[q].arg
  /\ asked' = [asked EXCEPT ![q].pc = "invalidate"]
  /\ UNCHANGED <<accounts, born, ownerOf, cached, tokens, time, late>>

Invalidate(q) ==
  /\ At(q, "invalidate", {"setting"})
  /\ cached' = Nobody
  /\ Ends(q)
  /\ UNCHANGED <<accounts, born, ownerOf, enabled, tokens, time, late>>

-----------------------------------------------------------------------------
(* deleteUser and deleteUserFile.                                           *)

Without(X) == ownerOf' = [x \in Row |-> IF x \in X THEN Nobody ELSE ownerOf[x]]

List(q) ==
  /\ At(q, "list", {"remove"})
  /\ asked' = [asked EXCEPT ![q].pc = "files", ![q].todo = Of(asked[q].target) \ Folder]
  /\ UNCHANGED <<accounts, born, ownerOf, enabled, cached, tokens, time, late>>

\* One permanent delete after the other; one that fails is passed over.
DeleteNext(q) ==
  /\ At(q, "files", {"remove"})
  /\ \E x \in asked[q].todo : \E X \in {{}, {x}} :
       Without(X) /\ asked' = [asked EXCEPT ![q].todo = asked[q].todo \ {x}]
  /\ UNCHANGED <<accounts, born, enabled, cached, tokens, time, late>>

DeleteFolders(q) ==
  /\ At(q, "files", {"remove"}) /\ asked[q].todo = {}
  /\ Without(Of(asked[q].target) \cap (Folder \cup Inside))
  /\ asked' = [asked EXCEPT ![q].pc = "rest"]
  /\ UNCHANGED <<accounts, born, enabled, cached, tokens, time, late>>

DeleteRest(q) ==
  /\ At(q, "rest", {"remove"})
  /\ Without(Of(asked[q].target) \ Folder)
  /\ asked' = [asked EXCEPT ![q].pc = "user"]
  /\ UNCHANGED <<accounts, born, enabled, cached, tokens, time, late>>

\* A row that was made meanwhile keeps its owner: the foreign key refuses the delete.
DeleteUser(q) ==
  /\ At(q, "user", {"remove"})
  /\ accounts' = IF Of(asked[q].target) = {} THEN [accounts EXCEPT ![asked[q].target] = Nobody] ELSE accounts
  /\ Ends(q)
  /\ UNCHANGED <<born, ownerOf, enabled, cached, tokens, time, late>>

DropFile(q) ==
  /\ At(q, "read", {"drop"})
  /\ \E X \in {{}, {asked[q].arg} \cap Of(asked[q].target)} : Without(X)
  /\ Ends(q)
  /\ UNCHANGED <<accounts, born, enabled, cached, tokens, time, late>>

\* The user uploads on, as long as there is an account to own the row.
AddRow(x) ==
  /\ ownerOf[x] = Nobody
  /\ \E t \in tokens : t.user \in Live /\ ownerOf' = [ownerOf EXCEPT ![x] = t.user]
  /\ UNCHANGED <<accounts, born, enabled, cached, tokens, asked, time, late>>

Tick ==
  /\ time < TimeMax /\ time' = time + 1
  /\ UNCHANGED <<accounts, born, ownerOf, enabled, cached, tokens, asked, late>>

-----------------------------------------------------------------------------
Open == enabled \/ \E q \in Req : asked[q].got = TRUE

\* An empty table, or an admin and users with rows; onModuleInit has seeded the setting.
Init ==
  /\ \E start \in Starts :
       /\ born = DOMAIN start.names
       /\ accounts = [a \in Account |-> IF a \notin born THEN Nobody ELSE
            [name |-> start.names[a], email |-> Nobody, password |-> "first",
             limit |-> "default", role |-> IF a = 1 THEN "ADMIN" ELSE "USER"]]
       /\ ownerOf = start.ownerOf /\ enabled = start.enabled
       /\ asked = [q \in Req |-> [Idle EXCEPT !.op = start.ops[q]]]
  /\ tokens = {Token(a, accounts[a].role) : a \in born}
  /\ cached = Nobody /\ time = 0 /\ openAt = 0 /\ late = FALSE

Step(q) ==
  \/ Begin(q) \/ LookUp(q) \/ ReadSetting(q) \/ CacheSetting(q) \/ CountUsers(q) \/ Judge(q) \/ Create(q)
  \/ Find(q) \/ Sign(q) \/ Read(q) \/ Check(q) \/ WriteEmail(q) \/ Write(q) \/ Upsert(q) \/ Invalidate(q) \/ List(q)
  \/ DeleteNext(q) \/ DeleteFolders(q) \/ DeleteRest(q) \/ DeleteUser(q) \/ DropFile(q)

Next == /\ (\E q \in Req : Step(q)) \/ (\E x \in Row : AddRow(x)) \/ Tick
        /\ openAt' = IF Open' THEN time' ELSE openAt

Spec == Init /\ [][Next]_vars

-----------------------------------------------------------------------------
\* Two accounts never have one e-mail address in two spellings, although the address
\* is checked in one statement and written in another, and an update that names none
\* writes back what it read: what is written is normalised, so the index sees it.
EmailsDiffer == \A a, b \in Live : Same(accounts[a].email, accounts[b].email) => a = b

\* Closing the registration holds: nobody but a first user is let in who comes when the
\* setting has been off for the lifetime of the cache, counted from the last answer of the
\* database that still had it on, which may come after the upsert and be cached.
ClosesInTime == ~late

AccountsHold == EmailsDiffer /\ ClosesInTime
=============================================================================
