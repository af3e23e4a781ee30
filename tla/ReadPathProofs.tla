--------------------------- MODULE ReadPathProofs ---------------------------
(***************************************************************************)
(* RecentlyAllowed and Exact for any number of readers, any sizes of the   *)
(* chunks and any lifetimes of the caches.                                 *)
(*                                                                         *)
(* The invariant RInv dates what everybody knows: an entry of a cache is   *)
(* at least as old as what it tells has lapsed, and a request that passed  *)
(* a check keeps what the check showed until the clock ticks, or, with a   *)
(* link, counts the ticks itself.  The clock lengthens both sides alike.   *)
(*                                                                         *)
(* Told says that what a request has sent ends at the seam of two pieces,  *)
(* and that the pieces it has left are those of the chunks behind it.      *)
(***************************************************************************)
EXTENDS ReadPath, SumTheorems, SequenceTheorems, TLAPS

Grants == [there : 0 .. TTL + 1, shared : 0 .. Far, key : 0 .. Far]
Keys == [active : BOOLEAN, evict : BOOLEAN, cached : {None, "live", "dead"}, age : Nat]

Typed ==
  /\ file \in [there : BOOLEAN, shared : BOOLEAN, trashed : BOOLEAN]
  /\ lapsed \in Grants
  /\ key \in Keys
  /\ DOMAIN req = Reader

Fields == {"stage", "ways", "via", "form", "live", "age", "meta", "rest", "sent"}

\* What is open now has not lapsed.
Open(l) ==
  /\ file.there => l.there = 0
  /\ file.there /\ file.shared => l.shared = 0
  /\ key.active => l.key = 0

\* An entry of a cache is as old as what it tells, or older.
Entry(e, l) ==
  /\ DOMAIN e = {"meta", "age"}
  /\ e.meta # None => /\ e.age \in 0 .. TTL - 1
                      /\ l.there <= e.age
                      /\ e.meta.shared => l.shared <= e.age

LinkEntry(e, l) ==
  /\ DOMAIN e = {"meta", "age"}
  /\ e.meta # None => /\ e.age \in 0 .. TTL - 1
                      /\ l.there <= e.age
                      /\ l.shared <= e.age

KeyEntry(k, l) ==
  k.cached # None => /\ k.age < KeyTTL
                     /\ k.cached = "live" => l.key <= k.age

Resting == {"idle", "asked", "linked", "streaming", "done", "aborted", "denied"}

\* The age of a link, or of the token of a redirect, since it was handed out.
Aged(q, l) ==
  /\ q.age # None => q.age \in Nat
  /\ q.via = "link" /\ q.age # None /\ q.age <= LinkTTL => l.shared <= TTL + q.age
  /\ q.stage = "linked" => q.age # None /\ q.via \in {"link", "redirect"}
  /\ q.stage = "linked" /\ q.via = "redirect" /\ q.age <= LinkTTL => l.key <= q.age

\* What a request that has passed the gateway was shown.
Shown(q, l) ==
  /\ q.stage = "fetched" => q.via = "s3" /\ (q.live => l.key = 0)
  /\ q.stage = "known" => q.via \in {"s3", "redirect"}
  /\ q.stage = "opened" => q.via \in {"link", "s3", "redirect"}
  /\ q.stage \in {"known", "opened", "filling", "found"} /\ q.via = "s3" => l.key <= KeyTTL
  /\ q.stage = "known" /\ q.via = "redirect" => l.key = 0
  /\ q.stage \in {"opened", "filling", "found"} /\ q.via = "redirect" => l.key <= LinkTTL
  /\ q.stage \in {"opened", "filling", "found"} /\ q.via = "link" => q.age # None /\ q.age <= LinkTTL

\* What a request knows of the file.
Knows(q, l) ==
  /\ q.stage = "filling" => /\ q.via \notin {"core", "public", "stream"}
                            /\ l.there = 0
                            /\ q.meta.shared => l.shared = 0
  /\ q.stage = "found" => /\ l.there <= Grace(q.via).there
                          /\ q.via = "guest" /\ q.meta.shared => l.shared <= TTL
                          /\ q.via = "stream" => l.shared <= TTL
                          /\ q.via = "public" => l.shared = 0

Good(q, l) == DOMAIN q = Fields /\ Aged(q, l) /\ Shown(q, l) /\ Knows(q, l)

RInv ==
  /\ Typed /\ Open(lapsed)
  /\ Entry(cache, lapsed) /\ LinkEntry(links, lapsed) /\ KeyEntry(key, lapsed)
  /\ \A r \in Reader : Good(req[r], lapsed)
-----------------------------------------------------------------------------
(* What a step writes into a request.                                      *)

Frame(r) == DOMAIN req' = Reader /\ \A s \in Reader \ {r} : req'[s] = req[s]

LEMMA GraceIs ==
  ASSUME NEW via
  PROVE  /\ Grace(via).there = IF via \in {"core", "public"} THEN 0 ELSE TTL
         /\ Grace(via).shared = CASE via \in {"guest", "stream"} -> TTL
                                  [] via = "link" -> TTL + LinkTTL
                                  [] via = "public" -> 0
                                  [] OTHER -> Far
         /\ Grace(via).key = CASE via = "s3" -> KeyTTL [] via = "redirect" -> LinkTTL [] OTHER -> Far
BY DEF Grace

LEMMA Put ==
  ASSUME Typed, NEW r \in Reader, NEW q, req' = [req EXCEPT ![r] = q]
  PROVE  Frame(r) /\ req'[r] = q
BY DEF Typed, Frame

LEMMA ToIs ==
  ASSUME Typed, NEW r \in Reader, DOMAIN req[r] = Fields, NEW stage, To(r, stage)
  PROVE  /\ Frame(r) /\ DOMAIN req'[r] = Fields
         /\ req'[r].stage = stage /\ req'[r].via = req[r].via /\ req'[r].age = req[r].age
         /\ req'[r].live = req[r].live /\ req'[r].meta = req[r].meta
<1>1. req' = [req EXCEPT ![r] = [req[r] EXCEPT !.stage = stage]]
  BY DEF To, Typed
<1>2. Frame(r) /\ req'[r] = [req[r] EXCEPT !.stage = stage]
  BY <1>1, Put
<1> QED
  BY <1>2 DEF Fields

LEMMA OverIs ==
  ASSUME Typed, NEW r \in Reader, DOMAIN req[r] = Fields, NEW stage, Over(r, stage)
  PROVE  /\ Frame(r) /\ DOMAIN req'[r] = Fields
         /\ req'[r].stage = stage /\ req'[r].via = req[r].via
         /\ req'[r].age = IF stage = "aborted" THEN req[r].age ELSE None
<1> DEFINE q == [req[r] EXCEPT !.stage = stage, !.meta = NoMeta, !.rest = {},
                               !.age = IF stage = "aborted" THEN req[r].age ELSE None]
<1>1. req' = [req EXCEPT ![r] = q]
  BY DEF Over, Typed, Fields
<1>2. Frame(r) /\ req'[r] = q
  BY <1>1, Put
<1> QED
  BY <1>2 DEF Fields

LEMMA AskingIs ==
  ASSUME Typed, NEW r \in Reader, NEW stage, NEW via, NEW f, Asking(r, stage, via, f)
  PROVE  /\ Frame(r) /\ DOMAIN req'[r] = Fields
         /\ req'[r].stage = stage /\ req'[r].via = via
         /\ req'[r].age = IF stage = "linked" THEN req[r].age ELSE None
<1> DEFINE q == [Idle(req[r].ways) EXCEPT !.stage = stage, !.via = via, !.form = f,
                                          !.age = IF stage = "linked" THEN req[r].age ELSE None]
<1>1. Frame(r) /\ req'[r] = q
  BY Put DEF Asking
<1> QED
  BY <1>1 DEF Idle, Fields

-----------------------------------------------------------------------------
(* Requests that are good, and that keep the invariant.                    *)

\* A request that is over, or has not begun, knows nothing but the age of its link.
LEMMA OverGood ==
  ASSUME Typed, NEW r \in Reader, Good(req[r], lapsed), NEW stage \in {"aborted", "denied", "done"},
         Over(r, stage)
  PROVE  Frame(r) /\ Good(req'[r], lapsed)
<1>1. DOMAIN req[r] = Fields
  BY DEF Good
<1>2. /\ Frame(r) /\ DOMAIN req'[r] = Fields
      /\ req'[r].stage = stage /\ req'[r].via = req[r].via
      /\ req'[r].age = IF stage = "aborted" THEN req[r].age ELSE None
  BY <1>1, OverIs
<1>3. Aged(req'[r], lapsed)
  BY <1>2 DEF Good, Aged
<1>4. Shown(req'[r], lapsed) /\ Knows(req'[r], lapsed)
  BY <1>2 DEF Shown, Knows
<1> QED
  BY <1>2, <1>3, <1>4 DEF Good

LEMMA AskedGood ==
  ASSUME NEW q, NEW l, DOMAIN q = Fields, q.stage \in {"idle", "asked", "streaming"}, Aged(q, l)
  PROVE  Good(q, l)
BY DEF Good, Shown, Knows

LEMMA Keeps ==
  ASSUME RInv, NEW r \in Reader, Frame(r), Good(req'[r], lapsed), UNCHANGED <<file, lapsed>>,
         key' \in Keys, key'.active = key.active,
         Entry(cache', lapsed), LinkEntry(links', lapsed), KeyEntry(key', lapsed)
  PROVE  RInv'
<1>1. Typed'
  BY DEF RInv, Typed, Frame
<1>2. Open(lapsed)'
  BY DEF RInv, Open
<1>3. Entry(cache, lapsed)' /\ LinkEntry(links, lapsed)' /\ KeyEntry(key, lapsed)'
  BY DEF Entry, LinkEntry, KeyEntry
<1>4. \A s \in Reader : Good(req'[s], lapsed')
  BY DEF RInv, Frame
<1> QED
  BY <1>1, <1>2, <1>3, <1>4 DEF RInv

LEMMA KeepsSame ==
  ASSUME RInv, NEW r \in Reader, Frame(r), Good(req'[r], lapsed), UNCHANGED <<file, lapsed, caches>>
  PROVE  RInv'
<1>1. /\ key' \in Keys /\ key'.active = key.active
      /\ Entry(cache', lapsed) /\ LinkEntry(links', lapsed) /\ KeyEntry(key', lapsed)
  BY DEF RInv, Typed, caches
<1> QED
  BY <1>1, Keeps

\* Metadata of a row that is there tells of no lapse.
LEMMA RowFresh ==
  ASSUME RInv, file.there
  PROVE  lapsed.there = 0 /\ (Row.shared => lapsed.shared = 0) /\ (file.shared => lapsed.shared = 0)
BY DEF RInv, Open, Row

-----------------------------------------------------------------------------
(* The steps of a request.                                                 *)

LEMMA AskStep ==
  ASSUME RInv, NEW r \in Reader, NEW via, NEW f, Ask(r, via, f)
  PROVE  RInv'
<1>1. /\ Frame(r) /\ DOMAIN req'[r] = Fields /\ req'[r].stage = "asked" /\ req'[r].age = None
  BY AskingIs DEF Ask, RInv
<1>2. Good(req'[r], lapsed)
  BY <1>1, AskedGood DEF Aged
<1>3. UNCHANGED <<file, lapsed, caches>>
  BY DEF Ask, store
<1> QED
  BY <1>1, <1>2, <1>3, KeepsSame

LEMMA AgainStep ==
  ASSUME RInv, NEW r \in Reader, Again(r)
  PROVE  RInv'
<1>0. Typed /\ Good(req[r], lapsed)
  BY DEF RInv
<1>1. CASE req[r].stage = "aborted" /\ req[r].via = "link" /\ req[r].age # None
  <2>1. Asking(r, "linked", req[r].via, req[r].form)
    BY <1>1 DEF Again
  <2>2. /\ Frame(r) /\ DOMAIN req'[r] = Fields /\ req'[r].stage = "linked"
        /\ req'[r].via = req[r].via /\ req'[r].age = req[r].age
    BY <1>0, <2>1, AskingIs
  <2>3. Aged(req'[r], lapsed)
    BY <1>0, <1>1, <2>2 DEF Good, Aged
  <2>4. Shown(req'[r], lapsed) /\ Knows(req'[r], lapsed)
    BY <2>2 DEF Shown, Knows
  <2> QED
    BY <2>2, <2>3, <2>4, KeepsSame DEF Again, store, Good
<1>2. CASE req[r].stage = "aborted" /\ ~(req[r].via = "link" /\ req[r].age # None)
  <2>1. Asking(r, "asked", req[r].via, req[r].form)
    BY <1>2 DEF Again
  <2>2. /\ Frame(r) /\ DOMAIN req'[r] = Fields /\ req'[r].stage = "asked" /\ req'[r].age = None
    BY <1>0, <2>1, AskingIs
  <2>3. Good(req'[r], lapsed)
    BY <2>2, AskedGood DEF Aged
  <2> QED
    BY <2>2, <2>3, KeepsSame DEF Again, store
<1>3. CASE req[r].stage # "aborted"
  <2>1. Frame(r) /\ req'[r] = Idle(req[r].ways)
    BY <1>0, <1>3, Put DEF Again
  <2>2. DOMAIN req'[r] = Fields /\ req'[r].stage = "idle" /\ req'[r].age = None
    BY <2>1 DEF Idle, Fields
  <2>3. Good(req'[r], lapsed)
    BY <2>2, AskedGood DEF Aged
  <2> QED
    BY <2>1, <2>3, KeepsSame DEF Again, store
<1> QED
  BY <1>1, <1>2, <1>3

\* Whoever holds the token sees the file as its links' entry, or its row, tells it.
LEMMA TokenTells ==
  ASSUME RInv, TokenMeta # None
  PROVE  lapsed.there \in 0 .. TTL /\ lapsed.shared \in 0 .. TTL
<1>1. TTL \in Nat
  BY ReadPathAssumption
<1>2. lapsed.there \in Nat /\ lapsed.shared \in Nat
  BY ReadPathAssumption DEF RInv, Typed, Grants, Far
<1>3. CASE links.meta # None
  BY <1>1, <1>2, <1>3 DEF RInv, LinkEntry
<1>4. CASE links.meta = None
  <2>1. file.there /\ file.shared
    BY <1>4 DEF TokenMeta
  <2> QED
    BY <1>1, <2>1, RowFresh
<1> QED
  BY <1>3, <1>4

LEMMA TokenCached ==
  ASSUME RInv, links' = IF TokenMeta # None /\ links.meta = None /\ Cacheable(Row)
                        THEN [meta |-> Row, age |-> 0] ELSE links
  PROVE  LinkEntry(links', lapsed)
<1>1. CASE TokenMeta # None /\ links.meta = None /\ Cacheable(Row)
  <2>1. file.there /\ file.shared
    BY <1>1 DEF TokenMeta
  <2>2. /\ DOMAIN links' = {"meta", "age"} /\ links'.age = 0
        /\ lapsed.there = 0 /\ lapsed.shared = 0
    BY <1>1, <2>1, RowFresh
  <2> QED
    BY <2>2, ReadPathAssumption DEF LinkEntry
<1>2. CASE ~(TokenMeta # None /\ links.meta = None /\ Cacheable(Row))
  BY <1>2 DEF RInv
<1> QED
  BY <1>1, <1>2

LEMMA MintLinkStep ==
  ASSUME RInv, NEW r \in Reader, MintLink(r)
  PROVE  RInv'
<1>0. Typed /\ Good(req[r], lapsed) /\ DOMAIN req[r] = Fields
  BY DEF RInv, Good
<1>1. Frame(r) /\ Good(req'[r], lapsed)
  <2>1. CASE TokenMeta = None
    BY <1>0, <2>1, OverGood DEF MintLink
  <2>2. CASE TokenMeta # None
    <3> DEFINE q == [req[r] EXCEPT !.stage = "linked", !.age = 0]
    <3>1. req' = [req EXCEPT ![r] = q]
      BY <1>0, <2>2 DEF MintLink, Typed, Fields
    <3>2. Frame(r) /\ req'[r] = q
      BY <1>0, <3>1, Put
    <3>3. q.stage = "linked" /\ q.age = 0 /\ q.via = "link" /\ DOMAIN q = Fields
      BY <1>0 DEF MintLink, Fields
    <3> HIDE DEF q
    <3>4. Aged(q, lapsed)
      BY <2>2, <3>3, TokenTells, ReadPathAssumption DEF Aged
    <3>5. Shown(q, lapsed) /\ Knows(q, lapsed)
      BY <3>3 DEF Shown, Knows
    <3> QED
      BY <3>2, <3>3, <3>4, <3>5 DEF Good
  <2> QED
    BY <2>1, <2>2
<1>2. LinkEntry(links', lapsed)
  BY TokenCached DEF MintLink
<1> QED
  BY <1>1, <1>2, Keeps DEF MintLink, store, RInv, Typed

LEMMA StreamSharedStep ==
  ASSUME RInv, NEW r \in Reader, StreamShared(r)
  PROVE  RInv'
<1>0. Typed /\ Good(req[r], lapsed) /\ DOMAIN req[r] = Fields
  BY DEF RInv, Good
<1>1. Frame(r) /\ Good(req'[r], lapsed)
  <2>1. CASE TokenMeta = None
    BY <1>0, <2>1, OverGood DEF StreamShared
  <2>2. CASE TokenMeta # None
    <3> DEFINE q == [req[r] EXCEPT !.stage = "found", !.meta = TokenMeta]
    <3>1. req' = [req EXCEPT ![r] = q]
      BY <1>0, <2>2 DEF StreamShared, Typed, Fields
    <3>2. Frame(r) /\ req'[r] = q
      BY <1>0, <3>1, Put
    <3>3. q.stage = "found" /\ q.age = req[r].age /\ q.via = "stream" /\ DOMAIN q = Fields
      BY <1>0 DEF StreamShared, Fields
    <3> HIDE DEF q
    <3>4. Aged(q, lapsed) /\ Shown(q, lapsed)
      BY <1>0, <3>3 DEF Good, Aged, Shown
    <3>5. Knows(q, lapsed)
      BY <2>2, <3>3, TokenTells, GraceIs DEF Knows
    <3> QED
      BY <3>2, <3>3, <3>4, <3>5 DEF Good
  <2> QED
    BY <2>1, <2>2
<1>2. LinkEntry(links', lapsed)
  BY TokenCached DEF StreamShared
<1> QED
  BY <1>1, <1>2, Keeps DEF StreamShared, store, RInv, Typed

LEMMA UseLinkStep ==
  ASSUME RInv, NEW r \in Reader, UseLink(r)
  PROVE  RInv'
<1>0. Typed /\ Good(req[r], lapsed) /\ DOMAIN req[r] = Fields
  BY DEF RInv, Good
<1>1. Frame(r) /\ Good(req'[r], lapsed)
  <2>1. CASE ~(req[r].age <= LinkTTL)
    BY <1>0, <2>1, OverGood DEF UseLink
  <2>2. CASE req[r].age <= LinkTTL
    <3> DEFINE q == [req[r] EXCEPT !.stage = "opened",
                                   !.age = IF req[r].via = "link" THEN req[r].age ELSE None]
    <3>1. req' = [req EXCEPT ![r] = q]
      BY <1>0, <2>2 DEF UseLink, Typed, Fields
    <3>2. Frame(r) /\ req'[r] = q
      BY <1>0, <3>1, Put
    <3>3. /\ q.stage = "opened" /\ q.via = req[r].via /\ DOMAIN q = Fields
          /\ q.age = IF req[r].via = "link" THEN req[r].age ELSE None
      BY <1>0 DEF Fields
    <3> HIDE DEF q
    <3>4. /\ req[r].stage = "linked" /\ req[r].age # None /\ req[r].age \in Nat
          /\ req[r].via \in {"link", "redirect"}
          /\ req[r].via = "redirect" => lapsed.key <= req[r].age
      BY <1>0, <2>2 DEF UseLink, Good, Aged
    <3>5. lapsed.key \in Nat /\ LinkTTL \in Nat
      BY <1>0, ReadPathAssumption DEF Typed, Grants, Far
    <3>6. Aged(q, lapsed)
      BY <1>0, <3>3 DEF Good, Aged
    <3>7. Shown(q, lapsed)
      BY <2>2, <3>3, <3>4, <3>5 DEF Shown
    <3>8. Knows(q, lapsed)
      BY <3>3 DEF Knows
    <3> QED
      BY <3>2, <3>3, <3>6, <3>7, <3>8 DEF Good
  <2> QED
    BY <2>1, <2>2
<1> QED
  BY <1>1, KeepsSame DEF UseLink, store

LEMMA AuthenticateStep ==
  ASSUME RInv, NEW r \in Reader, Authenticate(r)
  PROVE  RInv'
<1>0. Typed /\ Good(req[r], lapsed) /\ DOMAIN req[r] = Fields
  BY DEF RInv, Good
<1>1. Frame(r) /\ Good(req'[r], lapsed)
  <2>1. CASE ~(key.cached = "live")
    BY <1>0, <2>1, OverGood DEF Authenticate
  <2>2. CASE (key.cached = "live")
    <3>1. To(r, "known")
      BY <2>2 DEF Authenticate
    <3>2. /\ Frame(r) /\ DOMAIN req'[r] = Fields
          /\ req'[r].stage = "known" /\ req'[r].via = req[r].via /\ req'[r].age = req[r].age
          /\ req'[r].live = req[r].live /\ req'[r].meta = req[r].meta
      BY <1>0, <3>1, ToIs
    <3>3. Aged(req'[r], lapsed)
      BY <1>0, <3>2 DEF Good, Aged
    <3>4. Shown(req'[r], lapsed)
      BY <1>0, <2>2, <3>2, ReadPathAssumption
      DEF Authenticate, RInv, KeyEntry, Typed, Keys, Grants, Far, Shown
    <3>5. Knows(req'[r], lapsed)
      BY <3>2 DEF Knows
    <3> QED
      BY <3>2, <3>3, <3>4, <3>5 DEF Good
  <2> QED
    BY <2>1, <2>2
<1> QED
  BY <1>1, KeepsSame DEF Authenticate, store

LEMMA GuardStep ==
  ASSUME RInv, NEW r \in Reader, Guard(r)
  PROVE  RInv'
<1>0. Typed /\ Good(req[r], lapsed) /\ DOMAIN req[r] = Fields
  BY DEF RInv, Good
<1>1. Frame(r) /\ Good(req'[r], lapsed)
  <2>1. CASE ~key.active
    BY <1>0, <2>1, OverGood DEF Guard
  <2>2. CASE key.active
    <3>1. To(r, "known")
      BY <2>2 DEF Guard
    <3>2. /\ Frame(r) /\ DOMAIN req'[r] = Fields
          /\ req'[r].stage = "known" /\ req'[r].via = req[r].via /\ req'[r].age = req[r].age
          /\ req'[r].live = req[r].live /\ req'[r].meta = req[r].meta
      BY <1>0, <3>1, ToIs
    <3>3. Aged(req'[r], lapsed)
      BY <1>0, <3>2 DEF Good, Aged
    <3>4. Shown(req'[r], lapsed)
      BY <1>0, <2>2, <3>2 DEF Guard, RInv, Open, Shown
    <3>5. Knows(req'[r], lapsed)
      BY <3>2 DEF Knows
    <3> QED
      BY <3>2, <3>3, <3>4, <3>5 DEF Good
  <2> QED
    BY <2>1, <2>2
<1> QED
  BY <1>1, KeepsSame DEF Guard, store

LEMMA ResolveStep ==
  ASSUME RInv, NEW r \in Reader, Resolve(r)
  PROVE  RInv'
<1>0. Typed /\ Good(req[r], lapsed) /\ DOMAIN req[r] = Fields
  BY DEF RInv, Good
<1>1. Frame(r) /\ Good(req'[r], lapsed)
  <2>1. CASE ~ResolveS3Object
    BY <1>0, <2>1, OverGood DEF Resolve
  <2>2. CASE ResolveS3Object
    <3>1. To(r, "opened")
      BY <2>2 DEF Resolve
    <3>2. /\ Frame(r) /\ DOMAIN req'[r] = Fields
          /\ req'[r].stage = "opened" /\ req'[r].via = req[r].via /\ req'[r].age = req[r].age
          /\ req'[r].live = req[r].live /\ req'[r].meta = req[r].meta
      BY <1>0, <3>1, ToIs
    <3>3. Aged(req'[r], lapsed)
      BY <1>0, <3>2 DEF Good, Aged
    <3>4. Shown(req'[r], lapsed)
      BY <1>0, <3>2 DEF Resolve, Good, Shown
    <3>5. Knows(req'[r], lapsed)
      BY <3>2 DEF Knows
    <3> QED
      BY <3>2, <3>3, <3>4, <3>5 DEF Good
  <2> QED
    BY <2>1, <2>2
<1> QED
  BY <1>1, KeepsSame DEF Resolve, store

LEMMA FetchKeyStep ==
  ASSUME RInv, NEW r \in Reader, FetchKey(r)
  PROVE  RInv'
<1>0. Typed /\ Good(req[r], lapsed) /\ DOMAIN req[r] = Fields
  BY DEF RInv, Good
<1> DEFINE q == [req[r] EXCEPT !.stage = "fetched", !.live = key.active]
<1>1. req' = [req EXCEPT ![r] = q]
  BY <1>0 DEF FetchKey, GetS3Credential, Typed, Fields
<1>2. Frame(r) /\ req'[r] = q
  BY <1>0, <1>1, Put
<1>3. /\ q.stage = "fetched" /\ q.live = key.active /\ q.age = req[r].age /\ q.via = req[r].via
      /\ DOMAIN q = Fields
  BY <1>0 DEF Fields
<1> HIDE DEF q
<1>4. Aged(q, lapsed)
  BY <1>0, <1>3 DEF Good, Aged
<1>5. Shown(q, lapsed) /\ Knows(q, lapsed)
  BY <1>3 DEF FetchKey, RInv, Open, Shown, Knows
<1>6. Good(req'[r], lapsed)
  BY <1>2, <1>3, <1>4, <1>5 DEF Good
<1> QED
  BY <1>2, <1>6, KeepsSame DEF FetchKey, store

\* The key was read active and the clock stood still since.
LEMMA StoreKeyStep ==
  ASSUME RInv, NEW r \in Reader, StoreKey(r)
  PROVE  RInv'
<1>0. Typed /\ Good(req[r], lapsed) /\ DOMAIN req[r] = Fields
  BY DEF RInv, Good
<1> DEFINE q == [req[r] EXCEPT !.stage = IF req[r].live THEN "known" ELSE "denied", !.live = FALSE]
<1>1. req' = [req EXCEPT ![r] = q]
  BY <1>0 DEF StoreKey, Typed, Fields
<1>2. Frame(r) /\ req'[r] = q
  BY <1>0, <1>1, Put
<1>3. /\ q.stage = IF req[r].live THEN "known" ELSE "denied"
      /\ q.age = req[r].age /\ q.via = req[r].via /\ DOMAIN q = Fields
  BY <1>0 DEF Fields
<1> HIDE DEF q
<1>4. req[r].via = "s3" /\ (req[r].live => lapsed.key = 0)
  BY <1>0 DEF StoreKey, Good, Shown
<1>5. Aged(q, lapsed)
  BY <1>0, <1>3 DEF Good, Aged
<1>6. Shown(q, lapsed) /\ Knows(q, lapsed)
  BY <1>3, <1>4, ReadPathAssumption DEF Shown, Knows
<1>7. Good(req'[r], lapsed)
  BY <1>2, <1>3, <1>5, <1>6 DEF Good
<1>8. /\ key' \in Keys /\ key'.active = key.active /\ key'.age = 0
      /\ key'.cached = IF req[r].live THEN "live" ELSE "dead"
  BY <1>0 DEF StoreKey, Typed, Keys
<1>9. KeyEntry(key', lapsed)
  BY <1>4, <1>8, ReadPathAssumption DEF KeyEntry
<1> QED
  BY <1>2, <1>7, <1>8, <1>9, Keeps DEF StoreKey, store, RInv

LEMMA RedirectStep ==
  ASSUME RInv, NEW r \in Reader, Redirect(r)
  PROVE  RInv'
<1>0. Typed /\ Good(req[r], lapsed) /\ DOMAIN req[r] = Fields
  BY DEF RInv, Good
<1>1. Frame(r) /\ Good(req'[r], lapsed)
  <2>1. CASE ~ResolveS3Object
    BY <1>0, <2>1, OverGood DEF Redirect
  <2>2. CASE ResolveS3Object
    <3> DEFINE q == [req[r] EXCEPT !.stage = "linked", !.age = 0]
    <3>1. req' = [req EXCEPT ![r] = q]
      BY <1>0, <2>2 DEF Redirect, Typed, Fields
    <3>2. Frame(r) /\ req'[r] = q
      BY <1>0, <3>1, Put
    <3>3. q.stage = "linked" /\ q.age = 0 /\ q.via = "redirect" /\ DOMAIN q = Fields
      BY <1>0 DEF Redirect, Fields
    <3> HIDE DEF q
    <3>4. lapsed.key = 0
      BY <1>0 DEF Redirect, Good, Shown
    <3>5. Aged(q, lapsed)
      BY <3>3, <3>4, ReadPathAssumption DEF Aged
    <3>6. Shown(q, lapsed) /\ Knows(q, lapsed)
      BY <3>3 DEF Shown, Knows
    <3> QED
      BY <3>2, <3>3, <3>5, <3>6 DEF Good
  <2> QED
    BY <2>1, <2>2
<1> QED
  BY <1>1, KeepsSame DEF Redirect, store

\* The metadata of a file that a request takes from a row or from the cache.
LEMMA Found ==
  ASSUME RInv, NEW r \in Reader, NEW stage \in {"found", "filling"}, NEW meta,
         req' = [req EXCEPT ![r].stage = stage, ![r].meta = meta],
         req[r].stage \in {"asked", "opened"},
         Knows([stage |-> stage, via |-> req[r].via, meta |-> meta], lapsed),
         req[r].stage = "asked" => req[r].via \notin {"link", "s3", "redirect"}
  PROVE  Frame(r) /\ Good(req'[r], lapsed)
<1>0. Typed /\ Good(req[r], lapsed) /\ DOMAIN req[r] = Fields
  BY DEF RInv, Good
<1> DEFINE q == [req[r] EXCEPT !.stage = stage, !.meta = meta]
<1>1. req' = [req EXCEPT ![r] = q]
  BY <1>0 DEF Typed, Fields
<1>2. Frame(r) /\ req'[r] = q
  BY <1>0, <1>1, Put
<1>3. q.stage = stage /\ q.meta = meta /\ q.age = req[r].age /\ q.via = req[r].via /\ DOMAIN q = Fields
  BY <1>0 DEF Fields
<1> HIDE DEF q
<1>4. Aged(q, lapsed)
  BY <1>0, <1>3 DEF Good, Aged
<1>5. Shown(q, lapsed)
  BY <1>0, <1>3 DEF Good, Shown
<1>6. Knows(q, lapsed)
  BY <1>3 DEF Knows
<1> QED
  BY <1>2, <1>3, <1>4, <1>5, <1>6 DEF Good

LEMMA LookUpPublicStep ==
  ASSUME RInv, NEW r \in Reader, LookUpPublic(r)
  PROVE  RInv'
<1>0. Typed /\ Good(req[r], lapsed)
  BY DEF RInv
<1>1. CASE ~FindObjectPublic
  BY <1>0, <1>1, OverGood, KeepsSame DEF LookUpPublic, store
<1>2. CASE FindObjectPublic
  <2>1. lapsed.there = 0 /\ lapsed.shared = 0
    BY <1>2, RowFresh DEF FindObjectPublic, ResolveS3Object
  <2>2. Knows([stage |-> "found", via |-> req[r].via, meta |-> Row], lapsed)
    BY <2>1, GraceIs, ReadPathAssumption DEF LookUpPublic, Knows
  <2>3. Frame(r) /\ Good(req'[r], lapsed)
    BY <1>2, <2>2, Found DEF LookUpPublic
  <2> QED
    BY <2>3, KeepsSame DEF LookUpPublic, store
<1> QED
  BY <1>1, <1>2

LEMMA LookUpStep ==
  ASSUME RInv, NEW r \in Reader, LookUp(r)
  PROVE  RInv'
<1>0. Typed /\ Good(req[r], lapsed) /\ TTL \in Nat
  BY ReadPathAssumption DEF RInv
<1>1. lapsed.there \in Nat /\ lapsed.shared \in Nat
  BY <1>0, ReadPathAssumption DEF Typed, Grants, Far
<1>2. /\ req[r].stage \in {"asked", "opened"} /\ req[r].via \notin {"public", "stream"}
      /\ req[r].stage = "asked" => req[r].via \notin {"link", "s3", "redirect"}
  BY <1>0 DEF LookUp, Good, Shown
<1>3. Frame(r) /\ Good(req'[r], lapsed)
  <2>1. CASE req[r].via # "core" /\ cache.meta # None
    <3>1. req' = [req EXCEPT ![r].stage = "found", ![r].meta = cache.meta]
      BY <2>1 DEF LookUp
    <3>2. lapsed.there <= TTL /\ (cache.meta.shared => lapsed.shared <= TTL)
      BY <1>0, <1>1, <2>1 DEF RInv, Entry
    <3>3. Knows([stage |-> "found", via |-> req[r].via, meta |-> cache.meta], lapsed)
      BY <1>2, <2>1, <3>2, GraceIs DEF Knows
    <3> QED
      BY <1>2, <3>1, <3>3, Found
  <2>2. CASE req[r].via # "core" /\ cache.meta = None /\ file.there
    <3>1. PICK stage \in {"found", "filling"} :
            req' = [req EXCEPT ![r].stage = stage, ![r].meta = Row]
      BY <2>2 DEF LookUp
    <3>2. lapsed.there = 0 /\ (Row.shared => lapsed.shared = 0)
      BY <2>2, RowFresh
    <3>3. Knows([stage |-> stage, via |-> req[r].via, meta |-> Row], lapsed)
      BY <1>0, <1>2, <2>2, <3>2, GraceIs DEF Knows
    <3> QED
      BY <1>2, <3>1, <3>3, Found
  <2>3. CASE req[r].via = "core" /\ file.there /\ ~file.trashed
    <3>1. req' = [req EXCEPT ![r].stage = "found", ![r].meta = Row]
      BY <2>3 DEF LookUp
    <3>2. lapsed.there = 0
      BY <2>3, RowFresh
    <3>3. Knows([stage |-> "found", via |-> req[r].via, meta |-> Row], lapsed)
      BY <2>3, <3>2, GraceIs DEF Knows
    <3> QED
      BY <1>2, <3>1, <3>3, Found
  <2>4. CASE Over(r, "denied")
    BY <1>0, <2>4, OverGood
  <2> QED
    BY <2>1, <2>2, <2>3, <2>4 DEF LookUp
<1> QED
  BY <1>3, KeepsSame DEF LookUp, store

\* The row was read before the clock ticked.
LEMMA FillStep ==
  ASSUME RInv, NEW r \in Reader, Fill(r)
  PROVE  RInv'
<1>0. Typed /\ Good(req[r], lapsed) /\ DOMAIN req[r] = Fields
  BY DEF RInv, Good
<1>1. /\ req[r].via \notin {"core", "public", "stream"} /\ lapsed.there = 0
      /\ req[r].meta.shared => lapsed.shared = 0
  BY <1>0 DEF Fill, Good, Knows
<1>2. /\ Frame(r) /\ DOMAIN req'[r] = Fields
      /\ req'[r].stage = "found" /\ req'[r].via = req[r].via /\ req'[r].age = req[r].age
      /\ req'[r].live = req[r].live /\ req'[r].meta = req[r].meta
  BY <1>0, ToIs DEF Fill
<1>3. Aged(req'[r], lapsed)
  BY <1>0, <1>2 DEF Good, Aged
<1>4. Shown(req'[r], lapsed)
  BY <1>0, <1>2 DEF Fill, Good, Shown
<1>5. Knows(req'[r], lapsed)
  BY <1>1, <1>2, GraceIs, ReadPathAssumption DEF Knows
<1>6. Entry(cache', lapsed)
  BY <1>1, ReadPathAssumption DEF Fill, Entry
<1> QED
  BY <1>2, <1>3, <1>4, <1>5, <1>6, Keeps DEF Fill, store, Good, RInv, Typed

LEMMA BeginStep ==
  ASSUME RInv, NEW r \in Reader, NEW i, NEW admitted, Begin(r, i, admitted)
  PROVE  RInv'
<1>0. Typed /\ Good(req[r], lapsed) /\ DOMAIN req[r] = Fields
  BY DEF RInv, Good
<1>1. CASE ~(i.first < Size /\ admitted)
  BY <1>0, <1>1, OverGood, KeepsSame DEF Begin, store
<1>2. CASE i.first < Size /\ admitted
  <2> DEFINE q == [req[r] EXCEPT !.stage = "streaming", !.rest = Pieces(i)]
  <2>1. req' = [req EXCEPT ![r] = q]
    BY <1>0, <1>2 DEF Begin, Typed, Fields
  <2>2. Frame(r) /\ req'[r] = q
    BY <1>0, <2>1, Put
  <2>3. q.stage = "streaming" /\ q.age = req[r].age /\ q.via = req[r].via /\ DOMAIN q = Fields
    BY <1>0 DEF Fields
  <2> HIDE DEF q
  <2>4. Good(q, lapsed)
    BY <1>0, <2>3, AskedGood DEF Good, Aged
  <2> QED
    BY <2>2, <2>4, KeepsSame DEF Begin, store
<1> QED
  BY <1>1, <1>2

LEMMA CopyStep ==
  ASSUME RInv, NEW r \in Reader, Copy(r)
  PROVE  RInv'
<1>0. Typed /\ Good(req[r], lapsed) /\ DOMAIN req[r] = Fields
  BY DEF RInv, Good
<1> DEFINE q == [req[r] EXCEPT !.sent = req[r].sent \o Bytes(NextPiece(r), OnDisk(r)),
                               !.rest = req[r].rest \ {NextPiece(r)}]
<1>1. req' = [req EXCEPT ![r] = q]
  BY <1>0 DEF Copy, Typed, Fields
<1>2. Frame(r) /\ req'[r] = q
  BY <1>0, <1>1, Put
<1>3. q.stage = "streaming" /\ q.age = req[r].age /\ q.via = req[r].via /\ DOMAIN q = Fields
  BY <1>0 DEF Copy, Fields
<1> HIDE DEF q
<1>4. Good(q, lapsed)
  BY <1>0, <1>3, AskedGood DEF Good, Aged, Copy
<1> QED
  BY <1>2, <1>4, KeepsSame DEF Copy, store

LEMMA FailStep ==
  ASSUME RInv, NEW r \in Reader, Fail(r)
  PROVE  RInv'
<1>0. Typed /\ Good(req[r], lapsed) /\ DOMAIN req[r] = Fields
  BY DEF RInv, Good
<1>1. CASE Over(r, "aborted")
  BY <1>0, <1>1, OverGood, KeepsSame DEF Fail, store
<1>2. ASSUME NEW sent,
             req' = [req EXCEPT ![r].stage = "aborted", ![r].rest = {}, ![r].meta = NoMeta, ![r].sent = sent]
      PROVE  RInv'
  <2> DEFINE q == [req[r] EXCEPT !.stage = "aborted", !.rest = {}, !.meta = NoMeta, !.sent = sent]
  <2>1. req' = [req EXCEPT ![r] = q]
    BY <1>0, <1>2 DEF Typed, Fields
  <2>2. Frame(r) /\ req'[r] = q
    BY <1>0, <2>1, Put
  <2>3. q.stage = "aborted" /\ q.age = req[r].age /\ q.via = req[r].via /\ DOMAIN q = Fields
    BY <1>0 DEF Fields
  <2> HIDE DEF q
  <2>4. Good(q, lapsed)
    BY <1>0, <2>3 DEF Good, Aged, Shown, Knows
  <2> QED
    BY <2>2, <2>4, KeepsSame DEF Fail, store
<1>3. CASE ~Over(r, "aborted")
  <2>1. PICK n \in 0 .. Len(Bytes(NextPiece(r), OnDisk(r))) :
          req' = [req EXCEPT ![r].stage = "aborted", ![r].rest = {}, ![r].meta = NoMeta,
                             ![r].sent = @ \o SubSeq(Bytes(NextPiece(r), OnDisk(r)), 1, n)]
    BY <1>3 DEF Fail
  <2> DEFINE new == req[r].sent \o SubSeq(Bytes(NextPiece(r), OnDisk(r)), 1, n)
  <2>2. req' = [req EXCEPT ![r].stage = "aborted", ![r].rest = {}, ![r].meta = NoMeta, ![r].sent = new]
    BY <1>0, <2>1 DEF Typed, Fields
  <2> HIDE DEF new
  <2> QED
    BY <1>2, <2>2
<1> QED
  BY <1>1, <1>3

LEMMA StepKeeps ==
  ASSUME RInv, NEW r \in Reader, Step(r)
  PROVE  RInv'
<1>1. CASE BreakOff(r) \/ Finish(r)
  <2>1. Typed /\ Good(req[r], lapsed)
    BY DEF RInv
  <2>2. \E stage \in {"aborted", "done"} : Over(r, stage)
    BY <1>1 DEF BreakOff, Finish
  <2>3. Frame(r) /\ Good(req'[r], lapsed)
    BY <2>1, <2>2, OverGood
  <2> QED
    BY <1>1, <2>3, KeepsSame DEF BreakOff, Finish, store
<1>2. CASE ServeDownload(r) \/ ProcessDownload(r)
  BY <1>2, BeginStep DEF ServeDownload, ProcessDownload
<1> QED
  BY <1>1, <1>2, AgainStep, MintLinkStep, UseLinkStep, StreamSharedStep, AuthenticateStep,
     FetchKeyStep, StoreKeyStep, GuardStep, ResolveStep, RedirectStep, LookUpPublicStep, LookUpStep,
     FillStep, CopyStep DEF Step

-----------------------------------------------------------------------------
(* The file, the key and the clock.                                        *)

\* A way that is opened again, or closed now, has not lapsed longer than before.
LEMMA Reopened ==
  ASSUME RInv, file' \in [there : BOOLEAN, shared : BOOLEAN, trashed : BOOLEAN],
         lapsed' \in Grants, UNCHANGED <<key, req, cache>>,
         lapsed'.there = lapsed.there, lapsed'.key = lapsed.key, lapsed'.shared <= lapsed.shared,
         Open(lapsed)', LinkEntry(links', lapsed')
  PROVE  RInv'
<1>0. /\ lapsed.shared \in Nat /\ lapsed'.shared \in Nat /\ TTL \in Nat /\ LinkTTL \in Nat
  BY ReadPathAssumption DEF RInv, Typed, Grants, Far
<1>1. Typed'
  BY DEF RInv, Typed
<1>2. Entry(cache, lapsed)' /\ KeyEntry(key, lapsed)'
  <2>1. cache.meta # None => cache.age \in Int
    BY ReadPathAssumption DEF RInv, Entry
  <2> QED
    BY <1>0, <2>1 DEF RInv, Entry, KeyEntry
<1>3. ASSUME NEW r \in Reader PROVE Good(req'[r], lapsed')
  <2>1. Good(req[r], lapsed) /\ req'[r] = req[r]
    BY DEF RInv
  <2>2. Aged(req[r], lapsed')
    BY <1>0, <2>1 DEF Good, Aged
  <2>3. Shown(req[r], lapsed')
    BY <2>1 DEF Good, Shown
  <2>4. Knows(req[r], lapsed')
    BY <1>0, <2>1 DEF Good, Knows
  <2> QED
    BY <2>1, <2>2, <2>3, <2>4 DEF Good
<1> QED
  BY <1>1, <1>2, <1>3 DEF RInv

LEMMA ShareStep ==
  ASSUME RInv, NEW on \in BOOLEAN, Share(on)
  PROVE  RInv'
<1>0. Typed /\ Far \in Nat /\ TTL \in Nat \ {0}
  BY ReadPathAssumption DEF RInv, Far
<1>1. file' = [file EXCEPT !.shared = on] /\ file.there /\ lapsed.there = 0
  BY RowFresh DEF Share
<1>2. file' \in [there : BOOLEAN, shared : BOOLEAN, trashed : BOOLEAN] /\ file'.shared = on
  BY <1>0, <1>1 DEF Typed
<1>3. CASE on = TRUE
  <2>1. lapsed' = [lapsed EXCEPT !.shared = 0] /\ links' = NoEntry
    BY <1>3 DEF Share
  <2>2. /\ lapsed' \in Grants /\ lapsed'.there = lapsed.there /\ lapsed'.key = lapsed.key
        /\ lapsed'.shared = 0
    BY <1>0, <2>1 DEF Typed, Grants
  <2>3. 0 <= lapsed.shared
    BY <1>0 DEF Typed, Grants
  <2>4. LinkEntry(links', lapsed')
    BY <2>1 DEF LinkEntry, NoEntry
  <2>5. Open(lapsed)'
    BY <1>1, <2>2 DEF Open, RInv, Share
  <2> QED
    BY <1>2, <2>2, <2>3, <2>4, <2>5, Reopened DEF Share
<1>4. CASE on = FALSE
  <2>1. lapsed' = lapsed /\ links' = links
    BY <1>4 DEF Share
  <2>2. lapsed.shared <= lapsed.shared
    BY <1>0 DEF Typed, Grants
  <2>3. Open(lapsed)'
    BY <1>1, <1>2, <1>4, <2>1 DEF Open, RInv, Share
  <2> QED
    BY <1>0, <1>2, <2>1, <2>2, <2>3, Reopened DEF Share, RInv, Typed
<1> QED
  BY <1>3, <1>4

\* What closes the file, or leaves it as it is.
LEMMA FileStep ==
  ASSUME RInv, UNCHANGED <<lapsed, req, caches>>,
         file' \in [there : BOOLEAN, shared : BOOLEAN, trashed : BOOLEAN],
         file'.there => file.there, file'.there /\ file'.shared => file.shared
  PROVE  RInv'
<1>1. lapsed.shared <= lapsed.shared
  BY ReadPathAssumption DEF RInv, Typed, Grants, Far
<1>2. Open(lapsed)'
  BY DEF RInv, Open, caches
<1> QED
  BY <1>1, <1>2, Reopened DEF RInv, Typed, caches

LEMMA TrashRestore ==
  ASSUME RInv, Trash \/ Restore
  PROVE  RInv'
<1>1. PICK t \in BOOLEAN : file' = [file EXCEPT !.trashed = t]
  BY DEF Trash, Restore
<1>2. /\ file' \in [there : BOOLEAN, shared : BOOLEAN, trashed : BOOLEAN]
      /\ file'.there = file.there /\ file'.shared = file.shared
  BY <1>1 DEF RInv, Typed
<1> QED
  BY <1>2, FileStep DEF Trash, Restore

LEMMA RevokeStep ==
  ASSUME RInv, Revoke \/ Evict
  PROVE  RInv'
<1>1. /\ key' \in Keys /\ (key'.active => key.active)
      /\ \/ key'.cached = key.cached /\ key'.age = key.age
         \/ key'.cached = None
  <2>1. key \in Keys
    BY DEF RInv, Typed
  <2>2. \/ key' = [key EXCEPT !.active = FALSE, !.evict = TRUE]
        \/ key' = [key EXCEPT !.evict = FALSE, !.cached = None, !.age = 0]
        \/ key' = [key EXCEPT !.evict = FALSE]
    BY DEF Revoke, Evict
  <2>3. CASE key' = [key EXCEPT !.evict = FALSE, !.cached = None, !.age = 0]
    BY <2>1, <2>3 DEF Keys
  <2>4. CASE key' \in {[key EXCEPT !.active = FALSE, !.evict = TRUE], [key EXCEPT !.evict = FALSE]}
    BY <2>1, <2>4 DEF Keys
  <2> QED
    BY <2>2, <2>3, <2>4
<1>2. UNCHANGED <<file, lapsed, cache, links, req>>
  BY DEF Revoke, Evict, store
<1>3. Typed'
  BY <1>1, <1>2 DEF RInv, Typed
<1>4. Open(lapsed)'
  <2>1. /\ file.there => lapsed.there = 0
        /\ file.there /\ file.shared => lapsed.shared = 0
        /\ key'.active => lapsed.key = 0
    BY <1>1 DEF RInv, Open
  <2> QED
    BY <1>2, <2>1 DEF Open
<1>5. KeyEntry(key', lapsed)
  BY <1>1 DEF RInv, KeyEntry
<1>6. KeyEntry(key, lapsed)' /\ Entry(cache, lapsed)' /\ LinkEntry(links, lapsed)'
  BY <1>2, <1>5 DEF RInv, KeyEntry, Entry, LinkEntry
<1>7. \A r \in Reader : Good(req'[r], lapsed')
  BY <1>2 DEF RInv
<1> QED
  BY <1>3, <1>4, <1>6, <1>7 DEF RInv

\* An entry grows older, or goes.
LEMMA OlderIs ==
  ASSUME NEW e, DOMAIN e = {"meta", "age"}, e.meta # None => e.age \in 0 .. TTL - 1
  PROVE  /\ DOMAIN Older(e) = {"meta", "age"}
         /\ \/ Older(e).meta = None
            \/ /\ e.meta # None /\ Older(e).meta = e.meta
               /\ Older(e).age = e.age + 1 /\ e.age + 1 \in 0 .. TTL - 1
<1>1. CASE e.meta = None \/ Expired(e.age + 1)
  BY <1>1 DEF Older, NoEntry
<1>2. CASE e.meta # None /\ ~Expired(e.age + 1)
  <2>1. e.age + 1 \in 0 .. TTL - 1 /\ Least(e.age + 1, TTL) = e.age + 1
    BY <1>2, ReadPathAssumption DEF Expired, Least
  <2>2. Older(e) = [e EXCEPT !.age = e.age + 1]
    BY <1>2, <2>1 DEF Older
  <2> QED
    BY <1>2, <2>1, <2>2
<1> QED
  BY <1>1, <1>2

\* A request that rests knows the age of its link only.
LEMMA RestingGood ==
  ASSUME NEW q, NEW l, DOMAIN q = Fields, q.stage \in Resting, Aged(q, l)
  PROVE  Good(q, l)
BY DEF Good, Shown, Knows, Resting

\* The clock: all that rests grows older by one, what it tells lapses by one at most.
LEMMA TickStep ==
  ASSUME RInv, Tick
  PROVE  RInv'
<1>0. /\ TTL \in Nat \ {0} /\ KeyTTL \in Nat \ {0} /\ LinkTTL \in Nat
      /\ Far \in Nat /\ Far = TTL + KeyTTL + LinkTTL
  BY ReadPathAssumption DEF Far
<1>1. Typed /\ lapsed.there \in 0 .. TTL + 1 /\ lapsed.shared \in 0 .. Far /\ lapsed.key \in 0 .. Far
  BY DEF RInv, Typed, Grants
<1>2. /\ lapsed' \in Grants /\ file' = file
      /\ lapsed'.there = IF file.there THEN 0 ELSE Least(lapsed.there + 1, TTL + 1)
      /\ lapsed'.shared = IF file.there /\ file.shared THEN 0 ELSE Least(lapsed.shared + 1, Far)
      /\ lapsed'.key = IF key.active THEN 0 ELSE Least(lapsed.key + 1, Far)
  BY <1>0, <1>1 DEF Tick, Grants, Least
<1>3. /\ lapsed'.there <= lapsed.there + 1 /\ lapsed'.there \in Nat
      /\ lapsed'.shared <= lapsed.shared + 1 /\ lapsed'.shared \in Nat
      /\ lapsed'.key <= lapsed.key + 1 /\ lapsed'.key \in Nat
  BY <1>0, <1>1, <1>2 DEF Least
<1>4. /\ key' \in Keys /\ key'.active = key.active
      /\ \/ key'.cached = None
         \/ key'.cached = key.cached /\ key'.age = key.age + 1 /\ ~KeyExpired(key.age + 1)
  <2>1. key \in Keys
    BY <1>1 DEF Typed
  <2>2. CASE key.cached = None \/ KeyExpired(key.age + 1)
    <3>1. key' = [key EXCEPT !.cached = None, !.age = 0]
      BY <2>2 DEF Tick
    <3> QED
      BY <2>1, <3>1 DEF Keys
  <2>3. CASE ~(key.cached = None \/ KeyExpired(key.age + 1))
    <3>1. key' = [key EXCEPT !.age = key.age + 1]
      BY <2>1, <2>3 DEF Tick, Keys
    <3> QED
      BY <2>1, <2>3, <3>1 DEF Keys
  <2> QED
    BY <2>2, <2>3
<1>5. Open(lapsed)'
  <2>1. /\ file.there => lapsed'.there = 0
        /\ file.there /\ file.shared => lapsed'.shared = 0
        /\ key.active => lapsed'.key = 0
    BY <1>2
  <2>2. file'.there = file.there /\ file'.shared = file.shared
    BY <1>2
  <2> QED
    BY <1>4, <2>1, <2>2 DEF Open
<1>6. KeyEntry(key', lapsed')
  <2>1. key.age \in Nat
    BY <1>1 DEF Typed, Keys
  <2> QED
    BY <1>0, <1>1, <1>3, <1>4, <2>1 DEF RInv, KeyEntry, KeyExpired
<1>7. Entry(cache', lapsed')
  <2>1. cache' = Older(cache) /\ Entry(cache, lapsed)
    BY DEF Tick, RInv
  <2> QED
    BY <1>1, <1>3, <2>1, OlderIs DEF Entry
<1>8. LinkEntry(links', lapsed')
  <2>1. links' = Older(links) /\ LinkEntry(links, lapsed)
    BY DEF Tick, RInv
  <2> QED
    BY <1>1, <1>3, <2>1, OlderIs DEF LinkEntry
<1>9. DOMAIN req' = Reader
  BY DEF Tick
<1>10. ASSUME NEW r \in Reader PROVE Good(req'[r], lapsed')
  <2>1. Good(req[r], lapsed) /\ req[r].stage \in Resting
    BY DEF RInv, Tick, Resting
  <2>2. /\ DOMAIN req'[r] = Fields /\ req'[r].stage = req[r].stage /\ req'[r].via = req[r].via
        /\ req'[r].age = IF req[r].age = None THEN None ELSE Least(req[r].age + 1, LinkTTL + 1)
    BY <2>1 DEF Tick, Good, Fields
  <2>3. Aged(req'[r], lapsed')
    <3>1. CASE req[r].age = None
      BY <2>1, <2>2, <3>1 DEF Good, Aged
    <3>2. CASE req[r].age # None
      <4>1. req[r].age \in Nat /\ req'[r].age \in Nat
        BY <1>0, <2>1, <2>2, <3>2 DEF Good, Aged, Least
      <4>2. req'[r].age <= LinkTTL => req[r].age <= LinkTTL /\ req'[r].age = req[r].age + 1
        BY <1>0, <2>2, <3>2, <4>1 DEF Least
      <4>3. /\ req[r].via = "link" /\ req[r].age <= LinkTTL => lapsed.shared <= TTL + req[r].age
            /\ req[r].stage = "linked" => req[r].via \in {"link", "redirect"}
            /\ req[r].stage = "linked" /\ req[r].via = "redirect" /\ req[r].age <= LinkTTL
                 => lapsed.key <= req[r].age
        BY <2>1, <3>2 DEF Good, Aged
      <4>4. req'[r].age # None
        BY <4>1, ReadPathAssumption
      <4> QED
        BY <1>0, <1>1, <1>3, <2>2, <4>1, <4>2, <4>3, <4>4 DEF Aged
    <3> QED
      BY <3>1, <3>2
  <2> QED
    BY <2>1, <2>2, <2>3, RestingGood
<1>11. Typed'
  BY <1>1, <1>2, <1>4, <1>9 DEF Typed
<1> QED
  BY <1>5, <1>6, <1>7, <1>8, <1>10, <1>11 DEF RInv

LEMMA RInvInit == Init => RInv
<1> SUFFICES ASSUME Init PROVE RInv
  OBVIOUS
<1>0. /\ TTL \in Nat \ {0} /\ KeyTTL \in Nat \ {0} /\ LinkTTL \in Nat
      /\ Far \in Nat /\ Far = TTL + KeyTTL + LinkTTL
  BY ReadPathAssumption DEF Far
<1>1. PICK ways \in Ways :
        /\ req = [r \in Reader |-> Idle(ways)]
        /\ \E cached \in IF ways \cap {"s3", "redirect"} = {} THEN {None} ELSE {None, "live"} :
             key = [active |-> ways \cap {"s3", "redirect"} # {}, evict |-> FALSE, cached |-> cached, age |-> 0]
  BY DEF Init
<1>2. /\ file = [there |-> TRUE, shared |-> FALSE, trashed |-> FALSE]
      /\ lapsed = [there |-> 0, shared |-> Far, key |-> IF key.active THEN 0 ELSE Far]
      /\ cache = NoEntry /\ links = NoEntry
  BY DEF Init
<1>3. key \in Keys /\ key.age = 0 /\ (key.cached # None => key.active)
  <2>1. PICK cached \in IF ways \cap {"s3", "redirect"} = {} THEN {None} ELSE {None, "live"} :
          key = [active |-> ways \cap {"s3", "redirect"} # {}, evict |-> FALSE, cached |-> cached, age |-> 0]
    BY <1>1
  <2>2. CASE ways \cap {"s3", "redirect"} = {}
    BY <2>1, <2>2 DEF Keys
  <2>3. CASE ways \cap {"s3", "redirect"} # {}
    <3>1. key = [active |-> TRUE, evict |-> FALSE, cached |-> cached, age |-> 0]
      BY <2>1, <2>3
    <3> QED
      BY <2>1, <2>3, <3>1 DEF Keys
  <2> QED
    BY <2>2, <2>3
<1>4. Typed
  BY <1>0, <1>1, <1>2, <1>3 DEF Typed, Grants
<1>5. Open(lapsed) /\ KeyEntry(key, lapsed)
  BY <1>0, <1>2, <1>3 DEF Open, KeyEntry
<1>6. Entry(cache, lapsed) /\ LinkEntry(links, lapsed)
  BY <1>2 DEF Entry, LinkEntry, NoEntry
<1>7. \A r \in Reader : DOMAIN req[r] = Fields /\ req[r].stage = "idle" /\ req[r].age = None
  BY <1>1 DEF Idle, Fields
<1>8. \A r \in Reader : Good(req[r], lapsed)
  BY <1>7, AskedGood DEF Aged
<1> QED
  BY <1>4, <1>5, <1>6, <1>8 DEF RInv

LEMMA RInvStep == RInv /\ [Next]_vars => RInv'
<1> SUFFICES ASSUME RInv, [Next]_vars PROVE RInv'
  OBVIOUS
<1>1. CASE UNCHANGED vars
  <2>1. UNCHANGED <<file, lapsed, key, req, cache, links>>
    BY <1>1 DEF vars
  <2>2. UNCHANGED caches /\ file \in [there : BOOLEAN, shared : BOOLEAN, trashed : BOOLEAN]
    BY <2>1 DEF caches, RInv, Typed
  <2> QED
    BY <2>1, <2>2, FileStep
<1>2. ASSUME NEW c \in Chunk, Land(c) \/ DropTemp(c) \/ PurgeTemp(c) \/ Purge(c) PROVE RInv'
  <2>1. UNCHANGED <<file, lapsed, req, caches>>
    BY <1>2 DEF Land, DropTemp, PurgeTemp, Purge
  <2>2. file \in [there : BOOLEAN, shared : BOOLEAN, trashed : BOOLEAN]
    BY DEF RInv, Typed
  <2> QED
    BY <2>1, <2>2, FileStep
<1>3. CASE RemoveRow
  <2>1. /\ UNCHANGED <<lapsed, req, caches>>
        /\ file' = [there |-> FALSE, shared |-> FALSE, trashed |-> FALSE]
    BY <1>3 DEF RemoveRow
  <2> QED
    BY <2>1, FileStep
<1> QED
  BY <1>1, <1>2, <1>3, ShareStep, TrashRestore, TickStep, RevokeStep, StepKeeps, FailStep, AskStep
  DEF Next

-----------------------------------------------------------------------------
(* RecentlyAllowed.                                                        *)

\* A step of one request leaves the others alone.
LEMMA OthersStay ==
  ASSUME Typed, NEW r \in Reader, NEW s \in Reader, s # r,
         Step(s) \/ Fail(s) \/ \E via \in req[s].ways, f \in Forms : Ask(s, via, f)
  PROVE  req'[r] = req[r]
<1>1. CASE \E via \in req[s].ways, f \in Forms : Ask(s, via, f)
  BY <1>1 DEF Typed, Ask, Asking
<1>2. CASE Fail(s)
  BY <1>2 DEF Typed, Fail, Over
<1>3. CASE Again(s) \/ MintLink(s) \/ UseLink(s) \/ StreamShared(s)
  BY <1>3 DEF Typed, Again, MintLink, UseLink, StreamShared, Over, Asking
<1>4. CASE Authenticate(s) \/ FetchKey(s) \/ StoreKey(s) \/ Guard(s) \/ Resolve(s) \/ Redirect(s)
  BY <1>4 DEF Typed, Authenticate, FetchKey, StoreKey, Guard, Resolve, Redirect, Over, To
<1>5. CASE LookUpPublic(s) \/ LookUp(s) \/ Fill(s)
  BY <1>5 DEF Typed, LookUpPublic, LookUp, Fill, Over, To
<1>6. CASE ServeDownload(s) \/ ProcessDownload(s)
  BY <1>6 DEF Typed, ServeDownload, ProcessDownload, Begin, Over
<1>7. CASE Copy(s) \/ BreakOff(s) \/ Finish(s)
  BY <1>7 DEF Typed, Copy, BreakOff, Finish, Over
<1> QED
  BY <1>1, <1>2, <1>3, <1>4, <1>5, <1>6, <1>7 DEF Step

\* A request that found the file can only begin its response.
LEMMA FoundBegins ==
  ASSUME NEW r \in Reader, req[r].stage = "found",
         Step(r) \/ Fail(r) \/ \E via \in req[r].ways, f \in Forms : Ask(r, via, f)
  PROVE  ServeDownload(r) \/ ProcessDownload(r)
<1>1. ~Fail(r) /\ ~\E via \in req[r].ways, f \in Forms : Ask(r, via, f)
  BY DEF Fail, Ask
<1>2. ~Again(r) /\ ~MintLink(r) /\ ~UseLink(r) /\ ~StreamShared(r)
  BY DEF Again, MintLink, UseLink, StreamShared
<1>3. ~Authenticate(r) /\ ~FetchKey(r) /\ ~StoreKey(r) /\ ~Guard(r) /\ ~Resolve(r) /\ ~Redirect(r)
  BY DEF Authenticate, FetchKey, StoreKey, Guard, Resolve, Redirect
<1>4. ~LookUpPublic(r) /\ ~LookUp(r) /\ ~Fill(r) /\ ~Copy(r) /\ ~BreakOff(r) /\ ~Finish(r)
  BY DEF LookUpPublic, LookUp, Fill, Copy, BreakOff, Finish
<1> QED
  BY <1>1, <1>2, <1>3, <1>4 DEF Step

\* The step that begins a response looks at what a guest may see.
LEMMA Begins ==
  ASSUME RInv, Next, NEW r \in Reader, req[r].stage = "found", req'[r].stage = "streaming"
  PROVE  req[r].via = "guest" => req[r].meta.shared
<1>0. Typed /\ DOMAIN req[r] = Fields
  BY DEF RInv, Good
<1>1. CASE \E s \in Reader : Step(s) \/ Fail(s) \/ \E via \in req[s].ways, f \in Forms : Ask(s, via, f)
  <2>1. Step(r) \/ Fail(r) \/ \E via \in req[r].ways, f \in Forms : Ask(r, via, f)
    BY <1>0, <1>1, OthersStay
  <2>2. ServeDownload(r) \/ ProcessDownload(r)
    BY <2>1, FoundBegins
  <2>3. CASE ServeDownload(r) /\ req[r].via = "guest" /\ ~req[r].meta.shared
    <3>1. Over(r, "denied")
      BY <2>3 DEF ServeDownload, Begin
    <3>2. req'[r].stage = "denied"
      BY <1>0, <3>1, OverIs
    <3> QED
      BY <3>2
  <2>4. CASE ProcessDownload(r)
    BY <2>4 DEF ProcessDownload
  <2> QED
    BY <2>2, <2>3, <2>4
<1>2. CASE UNCHANGED req
  BY <1>2
<1>3. CASE Tick
  BY <1>0, <1>3 DEF Tick, Fields
<1> QED
  BY <1>1, <1>2, <1>3
  DEF Next, Land, DropTemp, PurgeTemp, Purge, Share, Trash, Restore, RemoveRow, Revoke, Evict

\* A download that begins was allowed within the lifetimes of the metadata, the
\* link and the access key that it may have come by: with any number of requests
\* that share the caches, whatever is shared, trashed, purged or revoked between
\* their lookups (download.go:42, 303, credential_resolver.go:36-43).
THEOREM AllowedRecently == Spec => RecentlyAllowed
<1> DEFINE Allowed ==
      \A r \in Reader : req[r].stage = "found" /\ req'[r].stage = "streaming" =>
        LET grace == Grace(req[r].via)
        IN  /\ lapsed.there <= grace.there
            /\ lapsed.shared <= grace.shared
            /\ lapsed.key <= grace.key
<1>1. RInv /\ [Next]_vars => [Allowed]_vars
  <2> SUFFICES ASSUME RInv, Next, NEW r \in Reader, req[r].stage = "found", req'[r].stage = "streaming"
               PROVE  /\ lapsed.there <= Grace(req[r].via).there
                      /\ lapsed.shared <= Grace(req[r].via).shared
                      /\ lapsed.key <= Grace(req[r].via).key
    OBVIOUS
  <2> DEFINE via == req[r].via
  <2>1. /\ lapsed.there \in 0 .. TTL + 1 /\ lapsed.shared \in 0 .. Far /\ lapsed.key \in 0 .. Far
        /\ TTL \in Nat /\ LinkTTL \in Nat
    BY ReadPathAssumption DEF RInv, Typed, Grants
  <2>2. /\ lapsed.there <= Grace(via).there
        /\ via = "guest" /\ req[r].meta.shared => lapsed.shared <= TTL
        /\ via = "stream" => lapsed.shared <= TTL
        /\ via = "public" => lapsed.shared = 0
    BY DEF RInv, Good, Knows
  <2>3. /\ via = "s3" => lapsed.key <= KeyTTL
        /\ via = "redirect" => lapsed.key <= LinkTTL
        /\ via = "link" => req[r].age # None /\ req[r].age <= LinkTTL
    BY DEF RInv, Good, Shown
  <2>4. via = "link" => req[r].age \in Nat /\ lapsed.shared <= TTL + req[r].age
    BY <2>3 DEF RInv, Good, Aged
  <2>5. via = "guest" => req[r].meta.shared
    BY Begins
  <2>6. lapsed.shared <= Grace(via).shared
    <3>1. via = "link" => lapsed.shared <= TTL + LinkTTL
      BY <2>1, <2>3, <2>4
    <3>2. lapsed.shared <= Far
      BY <2>1
    <3> QED
      BY <2>2, <2>5, <3>1, <3>2, GraceIs
  <2>7. lapsed.key <= Grace(via).key
    <3>1. lapsed.key <= Far
      BY <2>1
    <3> QED
      BY <2>3, <3>1, GraceIs
  <2> QED
    BY <2>2, <2>6, <2>7
<1>2. RecentlyAllowed <=> [][Allowed]_vars
  BY DEF RecentlyAllowed
<1> QED
  BY <1>1, <1>2, RInvInit, RInvStep, PTL DEF Spec

-----------------------------------------------------------------------------
(* The chunks lie one behind the other, and together they are the file.    *)

N == Len(Sizes)
End(c) == Offset[c] + Sizes[c]

LEMMA SizesAre ==
  N \in Nat \ {0} /\ Chunk = 1 .. N /\ \A c \in Chunk : Sizes[c] \in Nat \ {0}
BY ReadPathAssumption, LenProperties, ElementOfSeq, EmptySeq DEF N, Chunk

LEMMA Sums ==
  ASSUME NEW n \in 0 .. N
  PROVE  /\ IsFiniteSet(1 .. n) /\ 1 .. n \subseteq Chunk
         /\ \A t \in SUBSET (1 .. n) : SumFunctionOnSet(Sizes, t) \in Nat
<1>1. IsFiniteSet(1 .. n) /\ 1 .. n \subseteq Chunk
  BY SizesAre, FS_Interval
<1>2. ASSUME NEW t \in SUBSET (1 .. n) PROVE SumFunctionOnSet(Sizes, t) \in Nat
  <2>1. IsFiniteSet(t) /\ \A s \in t : Sizes[s] \in Nat
    BY <1>1, FS_Subset, SizesAre
  <2> QED
    BY <2>1, SumNat
<1> QED
  BY <1>1, <1>2

\* What comes before a chunk, and the chunk, end where the next begins.
LEMMA EndIs ==
  ASSUME NEW c \in Chunk
  PROVE  /\ Offset[c] \in Nat /\ End(c) \in Nat /\ Offset[c] < End(c)
         /\ SumFunctionOnSet(Sizes, 1 .. c) = End(c)
<1>1. c \in 0 .. N /\ 1 .. c - 1 = (1 .. c) \ {c} /\ c \in 1 .. c /\ Sizes[c] \in Nat \ {0}
  BY SizesAre
<1>2. \A s \in 1 .. c : Sizes[s] \in Int
  BY <1>1, Sums, SizesAre
<1>3. SumFunctionOnSet(Sizes, 1 .. c) = Sizes[c] + SumFunctionOnSet(Sizes, (1 .. c) \ {c})
  BY <1>1, <1>2, Sums, SumRemove
<1>4. Offset[c] = SumFunctionOnSet(Sizes, 1 .. c - 1)
  BY DEF Offset
<1>5. Offset[c] \in Nat
  BY <1>1, <1>4, Sums
<1>6. End(c) = Offset[c] + Sizes[c] /\ SumFunctionOnSet(Sizes, 1 .. c) = Sizes[c] + Offset[c]
  BY <1>1, <1>3, <1>4 DEF End
<1> QED
  BY <1>1, <1>5, <1>6

LEMMA Layout ==
  /\ Size \in Nat \ {0} /\ Offset[1] = 0 /\ End(N) = Size
  /\ \A c \in Chunk : c + 1 \in Chunk => Offset[c + 1] = End(c)
<1>1. 1 \in Chunk /\ N \in Chunk
  BY SizesAre
<1>2. Offset[1] = 0
  <2>1. 1 .. 1 - 1 = {}
    OBVIOUS
  <2> QED
    BY <1>1, <2>1, SumEmpty DEF Offset
<1>3. End(N) = Size
  BY <1>1, EndIs, SizesAre DEF Size
<1>4. Size \in Nat \ {0}
  BY <1>1, <1>3, EndIs
<1>5. ASSUME NEW c \in Chunk, c + 1 \in Chunk PROVE Offset[c + 1] = End(c)
  <2>1. (c + 1) - 1 = c
    BY SizesAre
  <2>2. Offset[c + 1] = SumFunctionOnSet(Sizes, 1 .. c)
    BY <1>5, <2>1 DEF Offset
  <2> QED
    BY <2>2, EndIs
<1> QED
  BY <1>2, <1>3, <1>4, <1>5

\* A chunk ends before any later one begins.
LEMMA Ordered ==
  ASSUME NEW c \in Chunk, NEW d \in Chunk, c < d
  PROVE  End(c) <= Offset[d]
<1> DEFINE S == 1 .. d - 1
           f == [s \in S |-> IF s \in 1 .. c THEN Sizes[s] ELSE 0]
<1>1. IsFiniteSet(S) /\ S \subseteq Chunk /\ 1 .. c \in SUBSET S
  BY Sums, SizesAre
<1>2. \A s \in S : f[s] \in Int /\ Sizes[s] \in Int /\ f[s] <= Sizes[s]
  BY <1>1, SizesAre
<1>3. SumFunctionOnSet(Sizes, 1 .. c) = SumFunctionOnSet(f, S)
  <2>1. \A s \in 1 .. c : Sizes[s] \in Int
    BY <1>1, <1>2
  <2> HIDE DEF S
  <2> QED
    BY <1>1, <2>1, SumWithin
<1>4. SumFunctionOnSet(f, S) <= SumFunctionOnSet(Sizes, S)
  <2> HIDE DEF f, S
  <2> QED
    BY <1>1, <1>2, SumLeq
<1> QED
  BY <1>3, <1>4, EndIs DEF Offset

LEMMA Within ==
  ASSUME NEW c \in Chunk
  PROVE  End(c) <= Size
<1>1. N \in Chunk /\ End(N) = Size
  BY SizesAre, Layout
<1>2. CASE c = N
  BY <1>1, <1>2, Layout
<1>3. CASE c # N
  <2>1. c < N
    BY <1>3, SizesAre
  <2>2. /\ End(c) <= Offset[N] /\ Offset[N] < End(N) /\ Offset[N] \in Nat /\ End(c) \in Nat
        /\ End(N) \in Nat
    BY <1>1, <2>1, Ordered, EndIs
  <2> QED
    BY <1>1, <2>2
<1> QED
  BY <1>2, <1>3

\* The least of some chunks.
LEMMA First ==
  ASSUME NEW T \in SUBSET Chunk, T # {}
  PROVE  \E c \in T : \A d \in T : c <= d
<1>1. T \subseteq Nat
  BY SizesAre
<1>2. PICK c \in T : \A d \in T : ~(<<d, c>> \in OpToRel(<, Nat))
  BY <1>1, NatLessThanWellFounded, WFMin
<1>3. \A d \in T : ~(d < c)
  BY <1>1, <1>2 DEF OpToRel
<1> QED
  BY <1>1, <1>3

\* Every position of the file is in the first chunk that ends behind it.
LEMMA Located ==
  ASSUME NEW x \in Nat, x < Size
  PROVE  \E c \in Chunk : /\ Offset[c] <= x /\ x < End(c)
                          /\ \A d \in Chunk : x < End(d) => c <= d
<1> DEFINE T == {c \in Chunk : x < End(c)}
<1>1. T # {}
  BY Layout, SizesAre
<1>2. PICK c \in T : \A d \in T : c <= d
  BY <1>1, First
<1>3. Offset[c] <= x
  <2>1. CASE c = 1
    BY <2>1, Layout
  <2>2. CASE c # 1
    <3>1. c - 1 \in Chunk /\ (c - 1) + 1 = c /\ ~(c <= c - 1)
      BY <2>2, SizesAre
    <3>2. ~(x < End(c - 1))
      BY <1>2, <3>1
    <3>3. Offset[c] = End(c - 1) /\ End(c - 1) \in Nat
      BY <3>1, Layout, EndIs
    <3> QED
      BY <3>2, <3>3
  <2> QED
    BY <2>1, <2>2
<1> QED
  BY <1>2, <1>3

-----------------------------------------------------------------------------
(* Positions that follow one another.                                      *)

Run(a, n) == [j \in 1 .. n |-> a + j - 1]

LEMMA RunIs ==
  ASSUME NEW a \in Int, NEW n \in Nat
  PROVE  Run(a, n) \in Seq(Int) /\ Len(Run(a, n)) = n /\ \A j \in 1 .. n : Run(a, n)[j] = a + j - 1
BY DEF Run

LEMMA RunNone ==
  ASSUME NEW a \in Int
  PROVE  Run(a, 0) = <<>>
BY RunIs, EmptySeq, SeqEqual

LEMMA RunOn ==
  ASSUME NEW a \in Int, NEW n \in Nat, NEW m \in Nat
  PROVE  Run(a, n) \o Run(a + n, m) = Run(a, n + m)
<1> DEFINE s == Run(a, n)
           t == Run(a + n, m)
           u == Run(a, n + m)
<1>1. /\ s \in Seq(Int) /\ t \in Seq(Int) /\ u \in Seq(Int) /\ Len(s) = n /\ Len(t) = m
      /\ Len(u) = n + m
      /\ \A j \in 1 .. n : s[j] = a + j - 1
      /\ \A j \in 1 .. m : t[j] = (a + n) + j - 1
      /\ \A j \in 1 .. n + m : u[j] = a + j - 1
  BY RunIs
<1> HIDE DEF s, t, u
<1>2. /\ s \o t \in Seq(Int) /\ Len(s \o t) = n + m
      /\ \A j \in 1 .. n + m : (s \o t)[j] = IF j <= n THEN s[j] ELSE t[j - n]
  BY <1>1, ConcatProperties
<1>3. ASSUME NEW j \in 1 .. n + m PROVE (s \o t)[j] = u[j]
  <2>1. CASE j <= n
    BY <1>1, <1>2, <2>1
  <2>2. CASE ~(j <= n)
    <3>1. j - n \in 1 .. m /\ (a + n) + (j - n) - 1 = a + j - 1
      BY <2>2
    <3> QED
      BY <1>1, <1>2, <2>2, <3>1
  <2> QED
    BY <2>1, <2>2
<1>4. s \o t = u
  BY <1>1, <1>2, <1>3, SeqEqual
<1> QED
  BY <1>4 DEF s, t, u

LEMMA RunCut ==
  ASSUME NEW a \in Int, NEW n \in Nat, NEW k \in 0 .. n
  PROVE  SubSeq(Run(a, n), 1, k) = Run(a, k)
<1> DEFINE s == Run(a, n)
           t == Run(a, k)
<1>1. /\ t \in Seq(Int) /\ Len(t) = k
      /\ \A j \in 1 .. n : s[j] = a + j - 1
      /\ \A j \in 1 .. k : t[j] = a + j - 1
  BY RunIs
<1>2. \A j \in 1 .. k : j \in 1 .. n /\ s[j] \in Int
  BY <1>1
<1> HIDE DEF s, t
<1>3. /\ SubSeq(s, 1, k) \in Seq(Int) /\ Len(SubSeq(s, 1, k)) = k
      /\ \A j \in 1 .. k : SubSeq(s, 1, k)[j] = s[j]
  <2>1. /\ SubSeq(s, 1, k) \in Seq(Int) /\ Len(SubSeq(s, 1, k)) = IF 1 <= k THEN k - 1 + 1 ELSE 0
        /\ \A j \in 1 .. k - 1 + 1 : SubSeq(s, 1, k)[j] = s[1 + j - 1]
    BY <1>2, SubSeqProperties
  <2> QED
    BY <2>1
<1>4. SubSeq(s, 1, k) = t
  BY <1>1, <1>2, <1>3, SeqEqual
<1> QED
  BY <1>4 DEF s, t

LEMMA RunPrefix ==
  ASSUME NEW a \in Int, NEW n \in Nat, NEW k \in 0 .. n
  PROVE  IsPrefix(Run(a, k), Run(a, n))
<1>1. /\ Len(Run(a, k)) = k /\ Len(Run(a, n)) = n /\ SubSeq(Run(a, n), 1, k) = Run(a, k)
      /\ SubSeq(Run(a, k), 1, k) = Run(a, k)
  BY RunIs, RunCut
<1> QED
  BY <1>1 DEF IsPrefix

-----------------------------------------------------------------------------
(* What is asked for, and what of it is still to come.                     *)

Count(i) == i.last - i.first + 1

\* A form that a client may send over a way.
Fits(via, form) ==
  /\ form \in Forms
  /\ via = "core" => form.kind # "last"
  /\ via = "public" => form.kind = "all"

LEMMA IntervalIs ==
  ASSUME NEW via, NEW form, Fits(via, form), NEW i, i = Interval(via, form)
  PROVE  /\ i.first \in 0 .. Size /\ i.last \in 0 .. Size - 1 /\ Count(i) \in Nat
         /\ i.first < Size => i.first <= i.last
         /\ Asked(form) = Run(i.first, Count(i))
<1>1. Size \in Nat \ {0}
  BY Layout
<1>2. /\ form.kind \in {"all", "from", "between", "last"}
      /\ form.kind = "all" => form.a = 0
      /\ form.kind = "from" => form.a \in 0 .. Size
      /\ form.kind = "between" => form.a \in 0 .. Size - 1 /\ form.b \in 0 .. Size /\ form.a <= form.b
      /\ form.kind = "last" => form.a \in 1 .. Size + 1
  BY DEF Fits, Forms
<1>3. /\ form.kind \in {"all", "from"} => i.first = form.a /\ i.last = Size - 1
      /\ form.kind = "between" => i.first = form.a /\ i.last = IF form.b < Size THEN form.b ELSE Size - 1
      /\ form.kind = "last" => i.first = (IF form.a > Size THEN 0 ELSE Size - form.a) /\ i.last = Size - 1
  <2>1. CASE i = GoInterval(form)
    BY <1>1, <1>2, <2>1 DEF GoInterval, Clamped, Most
  <2>2. CASE i = CoreInterval(form) /\ form.kind # "last"
    BY <1>1, <1>2, <2>2 DEF CoreInterval, Least
  <2> QED
    BY <2>1, <2>2 DEF Fits, Interval
<1>4. Asked(form) = Run(i.first, Count(i))
  BY <1>1, <1>2, <1>3 DEF Asked, Run, Count
<1> QED
  BY <1>1, <1>2, <1>3, <1>4 DEF Count

\* What is left when n bytes have been sent.
Left(i, n) == {c \in Chunk : Touches(i, c) /\ i.first + n < End(c) /\ i.first + n <= i.last}
Rest(i, n) == {Piece(i, c) : c \in Left(i, n)}

\* Bytes are sent by whole pieces.
Seam(i, n) == n = 0 \/ n = Count(i) \/ \E c \in Chunk : i.first + n = Offset[c]

Proper(i) == i.first \in Nat /\ i.last \in Nat /\ i.first <= i.last /\ i.last < Size

LEMMA PieceIs ==
  ASSUME NEW i, NEW c
  PROVE  Piece(i, c).chunk = c
BY DEF Piece

LEMMA AllLeft ==
  ASSUME NEW i, Proper(i)
  PROVE  Pieces(i) = Rest(i, 0) /\ Seam(i, 0) /\ Count(i) \in Nat
<1>1. \A c \in Chunk : Offset[c] \in Nat /\ Sizes[c] \in Nat
  BY EndIs, SizesAre
<1>2. \A c \in Chunk : Touches(i, c) => i.first + 0 < End(c) /\ i.first + 0 <= i.last
  BY <1>1 DEF Touches, End, Proper
<1>3. {d \in Chunk : Touches(i, d)} = Left(i, 0)
  BY <1>2 DEF Left
<1> QED
  BY <1>3 DEF Pieces, Rest, Seam, Proper, Count

\* The next piece is that of the chunk in which the next byte is, from that byte on.
LEMMA NextLeft ==
  ASSUME NEW i, Proper(i), NEW n \in Nat, n < Count(i), Seam(i, n)
  PROVE  \E c \in Left(i, n) : /\ \A d \in Left(i, n) : c <= d
                               /\ Offset[c] <= i.first + n
                               /\ Piece(i, c).from = (i.first + n) - Offset[c]
<1> DEFINE x == i.first + n
<1>1. x \in Nat /\ x <= i.last /\ x < Size
  BY Layout DEF Proper, Count
<1>2. PICK c \in Chunk : Offset[c] <= x /\ x < End(c) /\ \A d \in Chunk : x < End(d) => c <= d
  BY <1>1, Located
<1>3. /\ Offset[c] \in Nat /\ End(c) \in Nat /\ Sizes[c] \in Nat /\ End(c) = Offset[c] + Sizes[c]
      /\ i.first \in Nat /\ i.last \in Nat /\ i.first <= x
  BY EndIs, SizesAre DEF End, Proper
<1>4. Touches(i, c)
  BY <1>1, <1>2, <1>3 DEF Touches
<1>5. c \in Left(i, n) /\ \A d \in Left(i, n) : c <= d
  BY <1>1, <1>2, <1>4 DEF Left
<1>6. Most(i.first, Offset[c]) = x
  <2>1. CASE n = 0
    BY <1>2, <1>3, <2>1 DEF Most
  <2>2. CASE n # 0
    <3>1. PICK d \in Chunk : x = Offset[d]
      BY <2>2 DEF Seam
    <3>2. c <= d
      BY <1>2, <3>1, EndIs
    <3>3. CASE c = d
      BY <1>3, <3>1, <3>3 DEF Most
    <3>4. CASE c # d
      <4>1. End(c) <= x
        BY <3>1, <3>2, <3>4, Ordered, SizesAre
      <4> QED
        BY <1>1, <1>2, <1>3, <4>1
    <3> QED
      BY <3>3, <3>4
  <2> QED
    BY <2>1, <2>2
<1>7. Piece(i, c).from = x - Offset[c]
  BY <1>6 DEF Piece
<1> QED
  BY <1>2, <1>5, <1>7

\* Whoever has sent it is at the next seam, and all the other pieces are left.
LEMMA PieceSent ==
  ASSUME NEW i, Proper(i), NEW n \in Nat, n < Count(i), Seam(i, n),
         NEW c \in Left(i, n), \A d \in Left(i, n) : c <= d,
         Piece(i, c).from = (i.first + n) - Offset[c]
  PROVE  \E m \in Nat : /\ \A onDisk \in BOOLEAN : Bytes(Piece(i, c), onDisk) = Run(i.first + n, m)
                        /\ n + m <= Count(i) /\ Seam(i, n + m)
                        /\ Rest(i, n + m) = Rest(i, n) \ {Piece(i, c)}
<1> DEFINE x == i.first + n
           y == IF i.last < End(c) THEN i.last + 1 ELSE End(c)
           m == y - x
           p == Piece(i, c)
<1>1. /\ c \in Chunk /\ Touches(i, c) /\ x < End(c) /\ x <= i.last /\ x \in Nat
      /\ i.first \in Nat /\ i.last \in Nat /\ i.last < Size
  BY DEF Left, Proper
<1>2. Offset[c] \in Nat /\ End(c) \in Nat /\ Sizes[c] \in Nat /\ End(c) = Offset[c] + Sizes[c]
  BY <1>1, EndIs, SizesAre DEF End
<1>3. m \in Nat /\ i.first + (n + m) = y /\ x + m = y /\ n + m \in Nat
  BY <1>1, <1>2
<1>4. /\ p.chunk = c /\ p.from = x - Offset[c] /\ p.offset = p.from
      /\ p.to = (y - 1) - Offset[c]
  <2>1. Least(i.last, Offset[c] + Sizes[c] - 1) = y - 1
    BY <1>1, <1>2 DEF Least
  <2> HIDE DEF y
  <2> QED
    BY <2>1 DEF Piece, StreamOffset
<1>5. \A onDisk \in BOOLEAN : Bytes(p, onDisk) = Run(x, m)
  <2>1. p.to - p.from + 1 = m /\ \A j \in 1 .. m : Offset[c] + p.from + j - 1 = x + j - 1
    BY <1>1, <1>2, <1>3, <1>4
  <2>2. \A onDisk \in BOOLEAN :
          Bytes(p, onDisk) = [j \in 1 .. p.to - p.from + 1 |-> Offset[c] + p.from + j - 1]
    BY <1>4 DEF Bytes
  <2> HIDE DEF p, m, x
  <2> QED
    BY <2>1, <2>2 DEF Run
<1>6. n + m <= Count(i)
  BY <1>1, <1>2, <1>3 DEF Count
<1>7. Seam(i, n + m)
  <2>1. CASE i.last < End(c)
    <3>1. n + m = Count(i)
      BY <1>1, <1>3, <2>1 DEF Count
    <3> QED
      BY <3>1 DEF Seam
  <2>2. CASE ~(i.last < End(c))
    <3>1. c # N
      BY <1>1, <1>2, <2>2, Layout
    <3>2. c + 1 \in Chunk
      BY <1>1, <3>1, SizesAre
    <3>3. Offset[c + 1] = End(c)
      BY <1>1, <3>2, Layout
    <3>4. i.first + (n + m) = Offset[c + 1]
      BY <1>3, <2>2, <3>3
    <3> QED
      BY <3>2, <3>4 DEF Seam
  <2> QED
    BY <2>1, <2>2
<1>8. Left(i, n + m) = Left(i, n) \ {c}
  <2>1. \A d \in Chunk : /\ Offset[d] \in Nat /\ End(d) \in Nat /\ Offset[d] < End(d) /\ d \in Nat
                         /\ c < d => End(c) <= Offset[d]
    BY <1>1, EndIs, Ordered, SizesAre
  <2>2. \A d \in Left(i, n) : d \in Chunk /\ Touches(i, d) /\ c <= d /\ i.last >= Offset[d]
    BY DEF Left, Touches
  <2>3. ASSUME NEW d \in Left(i, n), d # c PROVE d \in Left(i, n + m)
    <3>1. c < d /\ d \in Chunk /\ Touches(i, d) /\ i.last >= Offset[d]
      BY <1>1, <2>1, <2>2, <2>3
    <3>2. End(c) <= Offset[d] /\ Offset[d] < End(d) /\ Offset[d] \in Nat /\ End(d) \in Nat
      BY <2>1, <3>1
    <3>3. y < End(d) /\ y <= i.last
      BY <1>1, <1>2, <3>1, <3>2
    <3> QED
      BY <1>3, <3>1, <3>3 DEF Left
  <2>4. ASSUME NEW d \in Left(i, n + m) PROVE d \in Left(i, n) /\ d # c
    <3>1. d \in Chunk /\ Touches(i, d) /\ y < End(d) /\ y <= i.last
      BY <1>3 DEF Left
    <3>2. x < End(d) /\ d # c
      BY <1>1, <1>2, <2>1, <3>1
    <3> QED
      BY <1>1, <3>1, <3>2 DEF Left
  <2> QED
    BY <2>3, <2>4
<1>9. Rest(i, n + m) = Rest(i, n) \ {p}
  BY <1>8, PieceIs DEF Rest
<1> QED
  BY <1>3, <1>5, <1>6, <1>7, <1>9

-----------------------------------------------------------------------------
(* Exact: what a request has sent, and what it will send.                  *)

Sending == {"streaming", "done", "aborted"}

Streamed(q) ==
  /\ Fits(q.via, q.form)
  /\ \E n \in Nat :
       LET i == Interval(q.via, q.form)
       IN  /\ q.sent = Run(i.first, n) /\ (n = 0 \/ n <= Count(i))
           /\ q.stage \notin Sending => n = 0
           /\ q.stage = "streaming" => Proper(i) /\ n <= Count(i) /\ Seam(i, n) /\ q.rest = Rest(i, n)
           /\ q.stage = "done" => n = Count(i)

Told == \A r \in Reader : Streamed(req[r])

LEMMA NothingSent ==
  ASSUME NEW q, Fits(q.via, q.form), q.sent = <<>>, q.stage \notin {"streaming", "done"}
  PROVE  Streamed(q)
<1> DEFINE i == Interval(q.via, q.form)
<1>1. i.first \in Int
  BY IntervalIs
<1>2. q.sent = Run(i.first, 0)
  BY <1>1, RunNone
<1> QED
  BY <1>2 DEF Streamed

LEMMA StillNothing ==
  ASSUME NEW p, NEW q, Streamed(p), p.stage \notin Sending, q.stage \notin {"streaming", "done"},
         q.via = p.via, q.form = p.form, q.sent = p.sent
  PROVE  Streamed(q)
<1>1. p.sent = <<>>
  BY IntervalIs, RunNone DEF Streamed
<1> QED
  BY <1>1, NothingSent DEF Streamed

\* A request that has not begun to send.
LEMMA EarlySteps ==
  ASSUME Typed, NEW r \in Reader, DOMAIN req[r] = Fields,
         \/ MintLink(r) \/ UseLink(r) \/ StreamShared(r)
         \/ Authenticate(r) \/ FetchKey(r) \/ StoreKey(r) \/ Guard(r) \/ Resolve(r) \/ Redirect(r)
         \/ LookUpPublic(r) \/ LookUp(r) \/ Fill(r)
  PROVE  /\ req[r].stage \notin Sending /\ req'[r].stage \notin {"streaming", "done"}
         /\ req'[r].via = req[r].via /\ req'[r].form = req[r].form /\ req'[r].sent = req[r].sent
<1>1. CASE MintLink(r) \/ UseLink(r) \/ StreamShared(r)
  BY <1>1 DEF Typed, Fields, Sending, MintLink, UseLink, StreamShared, Over
<1>2. CASE Authenticate(r) \/ FetchKey(r) \/ StoreKey(r)
  BY <1>2 DEF Typed, Fields, Sending, Authenticate, FetchKey, StoreKey, Over, To
<1>3. CASE Guard(r) \/ Resolve(r) \/ Redirect(r)
  BY <1>3 DEF Typed, Fields, Sending, Guard, Resolve, Redirect, Over, To
<1>4. CASE LookUpPublic(r) \/ LookUp(r) \/ Fill(r)
  BY <1>4 DEF Typed, Fields, Sending, LookUpPublic, LookUp, Fill, Over, To
<1> QED
  BY <1>1, <1>2, <1>3, <1>4

LEMMA FitsAsked ==
  ASSUME "suffix" \notin Faults, NEW r \in Reader, NEW via \in req[r].ways, NEW f \in Forms, Ask(r, via, f)
  PROVE  Fits(via, f)
BY DEF Ask, Fits

LEMMA AsksTell ==
  ASSUME Typed, NEW r \in Reader, NEW stage, stage \notin {"streaming", "done"}, NEW via, NEW f, Fits(via, f),
         Asking(r, stage, via, f)
  PROVE  Streamed(req'[r])
<1>1. req'[r] = [Idle(req[r].ways) EXCEPT !.stage = stage, !.via = via, !.form = f,
                                          !.age = IF stage = "linked" THEN req[r].age ELSE None]
  BY DEF Asking, Typed
<1>2. req'[r].stage = stage /\ req'[r].via = via /\ req'[r].form = f /\ req'[r].sent = <<>>
  BY <1>1 DEF Idle
<1> QED
  BY <1>2, NothingSent

LEMMA IdleTells ==
  ASSUME NEW ways
  PROVE  Streamed(Idle(ways))
<1>1. Fits(None, NoForm)
  BY ReadPathAssumption, Layout DEF Fits, NoForm, Forms
<1> QED
  BY <1>1, NothingSent DEF Idle

LEMMA AgainTells ==
  ASSUME Typed, NEW r \in Reader, DOMAIN req[r] = Fields, Streamed(req[r]), Again(r)
  PROVE  Streamed(req'[r])
<1>1. CASE req[r].stage = "aborted"
  <2>1. PICK stage \in {"linked", "asked"} : Asking(r, stage, req[r].via, req[r].form)
    BY <1>1 DEF Again
  <2>2. Fits(req[r].via, req[r].form)
    BY DEF Streamed
  <2> QED
    BY <2>1, <2>2, AsksTell
<1>2. CASE req[r].stage # "aborted"
  <2>1. req'[r] = Idle(req[r].ways)
    BY <1>2 DEF Again, Typed
  <2> QED
    BY <2>1, IdleTells
<1> QED
  BY <1>1, <1>2

\* The headers promise the interval, and all of its pieces are to come.
LEMMA BeginTells ==
  ASSUME Typed, NEW r \in Reader, DOMAIN req[r] = Fields, Streamed(req[r]),
         NEW i, i = Interval(req[r].via, req[r].form), NEW admitted, Begin(r, i, admitted)
  PROVE  Streamed(req'[r])
<1>1. req[r].stage = "found"
  BY DEF Begin
<1>2. CASE ~(i.first < Size /\ admitted)
  <2>1. /\ req'[r].stage = "denied" /\ req'[r].via = req[r].via
        /\ req'[r].form = req[r].form /\ req'[r].sent = req[r].sent
    BY <1>2 DEF Begin, Over, Typed, Fields
  <2> QED
    BY <1>1, <2>1, StillNothing DEF Sending
<1>3. CASE i.first < Size /\ admitted
  <2>1. /\ req'[r].stage = "streaming" /\ req'[r].rest = Pieces(i) /\ req'[r].via = req[r].via
        /\ req'[r].form = req[r].form /\ req'[r].sent = req[r].sent
    BY <1>3 DEF Begin, Typed, Fields
  <2>2. Fits(req[r].via, req[r].form) /\ req[r].sent = Run(i.first, 0)
    BY <1>1 DEF Streamed, Sending
  <2>3. Proper(i)
    BY <1>3, <2>2, IntervalIs, Layout DEF Proper
  <2>4. Pieces(i) = Rest(i, 0) /\ Seam(i, 0) /\ Count(i) \in Nat
    BY <2>3, AllLeft
  <2>5. 0 \in Nat /\ 0 <= Count(i)
    BY <2>4
  <2> QED
    BY <2>1, <2>2, <2>3, <2>4, <2>5 DEF Streamed, Sending
<1> QED
  BY <1>2, <1>3

\* What a request that is sending will send next.
LEMMA NextPieceIs ==
  ASSUME NEW r \in Reader, Streamed(req[r]), req[r].stage = "streaming", req[r].rest # {},
         NEW i, i = Interval(req[r].via, req[r].form)
  PROVE  \E n, m \in Nat :
           /\ Proper(i) /\ req[r].sent = Run(i.first, n)
           /\ Bytes(NextPiece(r), OnDisk(r)) = Run(i.first + n, m)
           /\ n + m <= Count(i) /\ Seam(i, n + m)
           /\ req[r].rest \ {NextPiece(r)} = Rest(i, n + m)
<1>1. PICK n \in Nat : /\ Proper(i) /\ req[r].sent = Run(i.first, n)
                       /\ n <= Count(i) /\ Seam(i, n) /\ req[r].rest = Rest(i, n)
  BY DEF Streamed, Sending
<1>2. n < Count(i)
  <2>1. PICK c \in Left(i, n) : TRUE
    BY <1>1 DEF Rest
  <2>2. i.first + n <= i.last
    BY <2>1 DEF Left
  <2> QED
    BY <1>1, <2>2 DEF Proper, Count
<1>3. PICK c \in Left(i, n) : /\ \A d \in Left(i, n) : c <= d
                              /\ Piece(i, c).from = (i.first + n) - Offset[c]
  BY <1>1, <1>2, NextLeft
<1>4. PICK m \in Nat : /\ \A onDisk \in BOOLEAN : Bytes(Piece(i, c), onDisk) = Run(i.first + n, m)
                       /\ n + m <= Count(i) /\ Seam(i, n + m)
                       /\ Rest(i, n + m) = Rest(i, n) \ {Piece(i, c)}
  BY <1>1, <1>2, <1>3, PieceSent
<1>5. NextPiece(r) = Piece(i, c)
  <2>1. Piece(i, c) \in req[r].rest /\ \A q \in req[r].rest : Piece(i, c).chunk <= q.chunk
    BY <1>1, <1>3, PieceIs DEF Rest
  <2>2. NextPiece(r) \in req[r].rest /\ \A q \in req[r].rest : NextPiece(r).chunk <= q.chunk
    BY <2>1 DEF NextPiece
  <2>3. PICK d \in Left(i, n) : NextPiece(r) = Piece(i, d)
    BY <1>1, <2>2 DEF Rest
  <2>4. d = c
    <3>1. c \in Nat /\ d \in Nat
      BY SizesAre DEF Left
    <3>2. d <= c
      BY <2>1, <2>2, <2>3, PieceIs
    <3> QED
      BY <1>3, <3>1, <3>2
  <2> QED
    BY <2>3, <2>4
<1>6. OnDisk(r) \in BOOLEAN
  BY DEF OnDisk
<1>7. Bytes(NextPiece(r), OnDisk(r)) = Run(i.first + n, m)
  BY <1>4, <1>5, <1>6
<1> QED
  BY <1>1, <1>4, <1>5, <1>7

LEMMA CopyTells ==
  ASSUME Typed, NEW r \in Reader, DOMAIN req[r] = Fields, Streamed(req[r]), Copy(r)
  PROVE  Streamed(req'[r])
<1> DEFINE i == Interval(req[r].via, req[r].form)
           q == req'[r]
<1>1. /\ q.stage = "streaming" /\ q.via = req[r].via /\ q.form = req[r].form
      /\ q.sent = req[r].sent \o Bytes(NextPiece(r), OnDisk(r)) /\ q.rest = req[r].rest \ {NextPiece(r)}
  BY DEF Copy, Typed, Fields
<1>2. PICK n, m \in Nat :
        /\ Proper(i) /\ req[r].sent = Run(i.first, n)
        /\ Bytes(NextPiece(r), OnDisk(r)) = Run(i.first + n, m)
        /\ n + m <= Count(i) /\ Seam(i, n + m)
        /\ req[r].rest \ {NextPiece(r)} = Rest(i, n + m)
  BY NextPieceIs DEF Copy
<1>3. i.first \in Int /\ n + m \in Nat
  BY <1>2 DEF Proper
<1>4. q.sent = Run(i.first, n + m)
  BY <1>1, <1>2, <1>3, RunOn
<1>5. i = Interval(q.via, q.form) /\ Fits(q.via, q.form)
  BY <1>1 DEF Streamed
<1>6. Streamed(q)
  <2> HIDE DEF i, q
  <2> QED
    BY <1>1, <1>2, <1>3, <1>4, <1>5 DEF Streamed, Sending
<1> QED
  BY <1>6

\* A download may fail within a piece.
LEMMA FailTells ==
  ASSUME Typed, NEW r \in Reader, DOMAIN req[r] = Fields, Streamed(req[r]), Fail(r)
  PROVE  Streamed(req'[r])
<1> DEFINE i == Interval(req[r].via, req[r].form)
           q == req'[r]
<1>1. CASE req[r].stage \in {"asked", "known", "opened"}
  <2>1. q.stage = "aborted" /\ q.via = req[r].via /\ q.form = req[r].form /\ q.sent = req[r].sent
    BY <1>1 DEF Fail, Over, Typed, Fields
  <2> QED
    BY <1>1, <2>1, StillNothing DEF Sending
<1>2. CASE req[r].stage \notin {"asked", "known", "opened"}
  <2>1. req[r].stage = "streaming" /\ req[r].rest # {}
    BY <1>2 DEF Fail
  <2>2. PICK n, m \in Nat :
          /\ Proper(i) /\ req[r].sent = Run(i.first, n)
          /\ Bytes(NextPiece(r), OnDisk(r)) = Run(i.first + n, m)
          /\ n + m <= Count(i)
    BY <2>1, NextPieceIs
  <2>3. i.first \in Int /\ Len(Run(i.first + n, m)) = m
    <3> HIDE DEF i
    <3>1. i.first \in Int /\ i.first + n \in Int
      BY <2>2 DEF Proper
    <3> QED
      BY <3>1, RunIs
  <2>4. PICK k \in 0 .. m : /\ q.stage = "aborted" /\ q.via = req[r].via /\ q.form = req[r].form
                            /\ q.sent = req[r].sent \o SubSeq(Run(i.first + n, m), 1, k)
    <3> DEFINE bytes == Bytes(NextPiece(r), OnDisk(r))
    <3>1. PICK k \in 0 .. Len(bytes) :
            req' = [req EXCEPT ![r].stage = "aborted", ![r].rest = {}, ![r].meta = NoMeta,
                               ![r].sent = @ \o SubSeq(bytes, 1, k)]
      BY <1>2 DEF Fail
    <3>2. bytes = Run(i.first + n, m) /\ Len(bytes) = m
      BY <2>2, <2>3
    <3> HIDE DEF bytes, i
    <3>3. /\ q.stage = "aborted" /\ q.via = req[r].via /\ q.form = req[r].form
          /\ q.sent = req[r].sent \o SubSeq(bytes, 1, k)
      BY <3>1 DEF Typed, Fields
    <3> QED
      BY <3>1, <3>2, <3>3
  <2>5. q.sent = Run(i.first, n + k) /\ n + k \in Nat /\ n + k <= Count(i)
    <3>1. i.first + n \in Int /\ k \in Nat /\ n + k \in Nat /\ Count(i) \in Int
      BY <2>2 DEF Proper, Count
    <3>2. SubSeq(Run(i.first + n, m), 1, k) = Run(i.first + n, k)
      BY <3>1, RunCut
    <3>3. Run(i.first, n) \o Run(i.first + n, k) = Run(i.first, n + k)
      BY <2>3, <3>1, RunOn
    <3>4. n + k <= Count(i)
      BY <2>2, <3>1
    <3> HIDE DEF i, q
    <3> QED
      BY <2>2, <2>4, <3>1, <3>2, <3>3, <3>4
  <2>6. i = Interval(q.via, q.form) /\ Fits(q.via, q.form)
    BY <2>4 DEF Streamed
  <2>7. Streamed(q)
    <3> HIDE DEF i, q
    <3> QED
      BY <2>4, <2>5, <2>6 DEF Streamed, Sending
  <2> QED
    BY <2>7
<1> QED
  BY <1>1, <1>2

LEMMA EndTells ==
  ASSUME Typed, NEW r \in Reader, DOMAIN req[r] = Fields, Streamed(req[r]), BreakOff(r) \/ Finish(r)
  PROVE  Streamed(req'[r])
<1> DEFINE i == Interval(req[r].via, req[r].form)
           q == req'[r]
<1>1. PICK n \in Nat : /\ Proper(i) /\ req[r].sent = Run(i.first, n)
                       /\ n <= Count(i) /\ Seam(i, n) /\ req[r].rest = Rest(i, n)
  BY DEF BreakOff, Finish, Streamed, Sending
<1>2. q.via = req[r].via /\ q.form = req[r].form /\ q.sent = req[r].sent
  BY DEF BreakOff, Finish, Over, Typed, Fields
<1>3. q.stage = "aborted" \/ (q.stage = "done" /\ req[r].rest = {})
  BY DEF BreakOff, Finish, Over, Typed, Fields
<1>4. q.stage = "done" => n = Count(i)
  <2> SUFFICES ASSUME Rest(i, n) = {}, n < Count(i) PROVE FALSE
    BY <1>1, <1>3 DEF Proper, Count
  <2>1. \E c \in Left(i, n) : TRUE
    BY <1>1, NextLeft
  <2> QED
    BY <2>1 DEF Rest
<1>5. i = Interval(q.via, q.form) /\ Fits(q.via, q.form)
  BY <1>2 DEF Streamed
<1>6. Streamed(q)
  <2> HIDE DEF i, q
  <2> QED
    BY <1>1, <1>2, <1>3, <1>4, <1>5 DEF Streamed, Sending
<1> QED
  BY <1>6

\* The clock only changes the age of a link.
LEMMA TickTells ==
  ASSUME Typed, NEW r \in Reader, DOMAIN req[r] = Fields, Streamed(req[r]), Tick
  PROVE  Streamed(req'[r])
<1>1. /\ req'[r].stage = req[r].stage /\ req'[r].via = req[r].via /\ req'[r].form = req[r].form
      /\ req'[r].sent = req[r].sent /\ req'[r].rest = req[r].rest
  BY DEF Tick, Typed, Fields
<1> QED
  BY <1>1 DEF Streamed

LEMMA ToldStep ==
  ASSUME "suffix" \notin Faults, RInv, Told, [Next]_vars
  PROVE  Told'
<1> SUFFICES ASSUME NEW r \in Reader PROVE Streamed(req'[r])
  BY DEF Told, Streamed
<1>1. Typed /\ DOMAIN req[r] = Fields /\ Streamed(req[r])
  BY DEF RInv, Good, Told
<1>2. CASE Step(r) \/ Fail(r) \/ \E via \in req[r].ways, f \in Forms : Ask(r, via, f)
  <2>1. CASE \E via \in req[r].ways, f \in Forms : Ask(r, via, f)
    <3>1. PICK via \in req[r].ways, f \in Forms : Ask(r, via, f)
      BY <2>1
    <3>2. Fits(via, f) /\ Asking(r, "asked", via, f)
      BY <3>1, FitsAsked DEF Ask
    <3> QED
      BY <1>1, <3>2, AsksTell
  <2>2. CASE Again(r)
    BY <1>1, <2>2, AgainTells
  <2>3. CASE ServeDownload(r)
    <3>1. Interval(req[r].via, req[r].form) = GoInterval(req[r].form)
      BY <2>3 DEF ServeDownload, Interval
    <3> QED
      BY <1>1, <2>3, <3>1, BeginTells DEF ServeDownload
  <2>4. CASE ProcessDownload(r)
    <3>1. Interval(req[r].via, req[r].form) = CoreInterval(req[r].form)
      BY <2>4 DEF ProcessDownload, Interval
    <3> QED
      BY <1>1, <2>4, <3>1, BeginTells DEF ProcessDownload
  <2>5. CASE Fail(r) \/ Copy(r) \/ BreakOff(r) \/ Finish(r)
    BY <1>1, <2>5, FailTells, CopyTells, EndTells
  <2>6. CASE \/ MintLink(r) \/ UseLink(r) \/ StreamShared(r)
             \/ Authenticate(r) \/ FetchKey(r) \/ StoreKey(r) \/ Guard(r) \/ Resolve(r) \/ Redirect(r)
             \/ LookUpPublic(r) \/ LookUp(r) \/ Fill(r)
    <3>1. /\ req[r].stage \notin Sending /\ req'[r].stage \notin {"streaming", "done"}
          /\ req'[r].via = req[r].via /\ req'[r].form = req[r].form /\ req'[r].sent = req[r].sent
      BY <1>1, <2>6, EarlySteps
    <3> QED
      BY <1>1, <3>1, StillNothing
  <2> QED
    BY <1>2, <2>1, <2>2, <2>3, <2>4, <2>5, <2>6 DEF Step
<1>3. ASSUME NEW s \in Reader \ {r},
             Step(s) \/ Fail(s) \/ \E via \in req[s].ways, f \in Forms : Ask(s, via, f)
      PROVE  Streamed(req'[r])
  <2>1. req'[r] = req[r]
    BY <1>1, <1>3, OthersStay
  <2> QED
    BY <1>1, <2>1
<1>4. CASE Tick
  BY <1>1, <1>4, TickTells
<1>5. CASE UNCHANGED req
  BY <1>1, <1>5
<1>6. UNCHANGED vars => UNCHANGED req
  BY DEF vars
<1> QED
  BY <1>2, <1>3, <1>4, <1>5, <1>6
  DEF Next, Land, DropTemp, PurgeTemp, Purge, Share, Trash, Restore, RemoveRow, Revoke, Evict

LEMMA ToldExact ==
  ASSUME Told
  PROVE  Exact
<1> SUFFICES ASSUME NEW r \in Reader
             PROVE  /\ IsPrefix(req[r].sent, Asked(req[r].form)) \/ req[r].sent = <<>>
                    /\ req[r].stage = "done" =>
                         LET i == Interval(req[r].via, req[r].form)
                         IN  /\ req[r].sent = Asked(req[r].form)
                             /\ Len(req[r].sent) = i.last - i.first + 1
  BY DEF Exact
<1> DEFINE i == Interval(req[r].via, req[r].form)
<1>1. PICK n \in Nat : /\ req[r].sent = Run(i.first, n) /\ (n = 0 \/ n <= Count(i))
                       /\ req[r].stage = "done" => n = Count(i)
  BY DEF Told, Streamed
<1>2. Asked(req[r].form) = Run(i.first, Count(i)) /\ Count(i) \in Nat /\ i.first \in Int
  BY IntervalIs DEF Told, Streamed
<1>3. n <= Count(i) => IsPrefix(Run(i.first, n), Run(i.first, Count(i)))
  BY <1>2, RunPrefix
<1>4. Run(i.first, 0) = <<>> /\ Len(Run(i.first, n)) = n
  BY <1>2, RunIs, RunNone
<1> QED
  BY <1>1, <1>2, <1>3, <1>4 DEF Count

\* A response has sent a prefix of what was asked for and, when it ends regularly, all
\* of it: for any sizes of the chunks, any range and any way to the file, while chunks
\* move from the disk to Telegram, the file is trashed and purged and downloads fail
\* between or within the pieces (downloader.go:426-504).  Only the core is not asked
\* for a suffix of the file, which it takes for the whole.
THEOREM SentIsAsked == ASSUME "suffix" \notin Faults PROVE Spec => []Exact
<1>1. Init => RInv /\ Told
  <2>1. Init => Told
    BY IdleTells DEF Init, Told
  <2> QED
    BY <2>1, RInvInit
<1>2. RInv /\ Told /\ [Next]_vars => RInv' /\ Told'
  BY RInvStep, ToldStep
<1>3. RInv /\ Told => Exact
  BY ToldExact
<1> QED
  BY <1>1, <1>2, <1>3, PTL DEF Spec
=============================================================================
