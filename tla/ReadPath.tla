----------------------------- MODULE ReadPath ------------------------------
(* Reading one file while its chunks move from the temp disk to Telegram,    *)
(* while it is shared, unshared, trashed and purged: the metadata cache of   *)
(* the transfer service (download.go), the range arithmetic and the chunk    *)
(* overlay of downloader.go, and the same path of the core                   *)
(* (transfer-read.service.ts); links to a shared file, and the S3 gateway    *)
(* with its cache of access keys.  A byte is its position in the file; an    *)
(* unchunked file is one chunk.                                              *)
EXTENDS Integers, Sequences, FiniteSets, Functions, SequencesExt

CONSTANTS Reader,
          Sizes,     \* the sizes of the chunks, in order
          Ways,      \* the sets of ways in which a client may come to the file: as its
                     \* "owner" or a "guest" of the transfer service, over the "core", by a
                     \* "link", to "stream" what is shared, by an access key of the
                     \* "s3" gateway, answered directly or by a "redirect", or in a
                     \* "public" bucket
          TTL,       \* how long metadata stays cached, in ticks of the clock
          KeyTTL,    \* how long an access key stays cached
          LinkTTL,   \* how long a link or a token of a redirect is good
          Budget,    \* bound on calls, links and responses that fail
          None,
          Faults     \* "suffix": an "-n" range of the core

ASSUME ReadPathAssumption ==
  /\ Sizes \in Seq(Nat \ {0}) /\ Sizes # <<>> /\ None \notin Nat
  /\ UNION Ways \subseteq {"owner", "guest", "core", "link", "stream", "s3", "redirect", "public"}
  /\ TTL \in Nat \ {0} /\ KeyTTL \in Nat \ {0} /\ LinkTTL \in Nat /\ Budget \in Nat

VARIABLES file,     \* the record: "there", "shared", "trashed"
          landed,   \* the chunks whose row names a Telegram file
          disk,     \* the chunks in the temp storage
          message,  \* the chunks in the Telegram chat
          cache,    \* the metadata in Redis, with its age
          links,    \* the same under the share token
          key,      \* the access key: active, to be evicted, and the cache of it
          lapsed,   \* ticks since the file was last there, last shared, the key last active
          req,      \* the requests
          failed    \* failures so far

vars == <<file, landed, disk, message, cache, links, key, lapsed, req, failed>>
caches == <<cache, links, key>>
store == <<file, landed, disk, message, lapsed>>

Chunk == DOMAIN Sizes
Offset == [c \in Chunk |-> SumFunctionOnSet(Sizes, 1..(c - 1))]
Size == SumFunctionOnSet(Sizes, Chunk)

Least(a, b) == IF a < b THEN a ELSE b
Most(a, b) == IF a > b THEN a ELSE b

\* What a row tells its reader.
NoMeta == [landed |-> {}, shared |-> FALSE]
NoEntry == [meta |-> None, age |-> 0]
Row == [landed |-> landed, shared |-> file.shared]

\* The status of the record is complete once every chunk has landed, and
\* buffered before.
Complete(meta) == meta.landed = Chunk

-----------------------------------------------------------------------------
(* Ranges: positions count from 0.                                          *)

Forms ==
  [kind : {"all"}, a : {0}, b : {0}] \cup [kind : {"from"}, a : 0..Size, b : {0}]
    \cup {f \in [kind : {"between"}, a : 0..(Size - 1), b : 0..Size] : f.a <= f.b}
    \cup [kind : {"last"}, a : 1..(Size + 1), b : {0}]

\* The first and the last position of a response.
ClampedTo(e) == e

Clamped(e) == IF e >= Size THEN Size - 1 ELSE e

GoInterval(f) ==
  CASE f.kind = "from" -> [first |-> f.a, last |-> Size - 1]
    [] f.kind = "between" -> [first |-> f.a, last |-> Clamped(f.b)]
    [] f.kind = "last" -> [first |-> Most(Size - f.a, 0), last |-> Size - 1]
    [] OTHER -> [first |-> 0, last |-> Size - 1]

\* The core does not know the last kind.
CoreInterval(f) ==
  CASE f.kind = "from" -> [first |-> f.a, last |-> Size - 1]
    [] f.kind = "between" -> [first |-> f.a, last |-> Least(f.b, Size - 1)]
    [] OTHER -> [first |-> 0, last |-> Size - 1]

Interval(via, f) == IF via \in {"core", "public"} THEN CoreInterval(f) ELSE GoInterval(f)

\* The part of every chunk that the interval touches, and the offset at which its
\* decryption starts.
Touches(i, c) == i.first <= Offset[c] + Sizes[c] - 1 /\ i.last >= Offset[c]

NoOffset(from) == 0

StreamOffset(from) == from

Piece(i, c) ==
  LET from == Most(i.first, Offset[c]) - Offset[c]
  IN  [chunk |-> c, from |-> from, to |-> Least(i.last, Offset[c] + Sizes[c] - 1) - Offset[c],
       offset |-> StreamOffset(from)]

Pieces(i) == {Piece(i, c) : c \in {d \in Chunk : Touches(i, d)}}

\* The bytes of a piece: noise, if they are decrypted with the key stream of
\* another position.  What is on the disk is not encrypted yet.
Bytes(p, onDisk) ==
  [j \in 1..(p.to - p.from + 1) |-> IF onDisk \/ p.offset = p.from THEN Offset[p.chunk] + p.from + j - 1 ELSE None]

-----------------------------------------------------------------------------
(* The file: its worker, its owner, the cleanup, the clock.                 *)

\* A chunk is on Telegram and its row says so.
Land(c) ==
  /\ file.there /\ c \in disk \ landed
  /\ landed' = landed \cup {c} /\ message' = message \cup {c}
  /\ UNCHANGED <<file, disk, caches, lapsed, req, failed>>

\* Only then its temp file goes.
DropTemp(c) ==
  /\ c \in disk \cap landed
  /\ disk' = disk \ {c}
  /\ UNCHANGED <<file, landed, message, caches, lapsed, req, failed>>

\* Sharing again makes another token, which those who have a link then hold.  A
\* bucket is made public likewise.
Share(on) ==
  /\ file.there /\ ~file.trashed /\ file.shared # on
  /\ file' = [file EXCEPT !.shared = on]
  /\ lapsed' = IF on THEN [lapsed EXCEPT !.shared = 0] ELSE lapsed
  /\ links' = IF on THEN NoEntry ELSE links
  /\ UNCHANGED <<landed, disk, message, cache, key, req, failed>>

Trash ==
  /\ file.there /\ ~file.trashed
  /\ file' = [file EXCEPT !.trashed = TRUE]
  /\ UNCHANGED <<landed, disk, message, caches, lapsed, req, failed>>

\* A file whose content is going is not restored.
Restore ==
  /\ file.there /\ file.trashed
  /\ landed \subseteq message /\ Chunk \subseteq disk \cup message
  /\ file' = [file EXCEPT !.trashed = FALSE]
  /\ UNCHANGED <<landed, disk, message, caches, lapsed, req, failed>>

\* A permanent delete purges the temp files, then the row; the transfer service
\* deletes the messages before or after that.  Cached metadata stays.
PurgeTemp(c) ==
  /\ file.there /\ file.trashed /\ c \in disk
  /\ disk' = disk \ {c}
  /\ UNCHANGED <<file, landed, message, caches, lapsed, req, failed>>

Purge(c) ==
  /\ file.trashed \/ ~file.there
  /\ c \in message
  /\ message' = message \ {c}
  /\ UNCHANGED <<file, landed, disk, caches, lapsed, req, failed>>

RemoveRow ==
  /\ file.there /\ file.trashed /\ disk = {}
  /\ file' = [there |-> FALSE, shared |-> FALSE, trashed |-> FALSE]
  /\ landed' = {}
  /\ UNCHANGED <<disk, message, caches, lapsed, req, failed>>

ExpiredNever(age) == FALSE

Expired(age) == age >= TTL

Older(entry) == IF entry.meta = None \/ Expired(entry.age + 1) THEN NoEntry
                ELSE [entry EXCEPT !.age = Least(@ + 1, TTL)]

\* An entry that says there is no such key stays for a minute only.
KeyExpired(age) == key.cached = "dead" \/ age >= KeyTTL

Far == TTL + KeyTTL + LinkTTL

\* Time passes between the lookups, which are short.
Tick ==
  /\ \A r \in Reader : req[r].stage \in {"idle", "asked", "linked", "streaming", "done", "aborted", "denied"}
  /\ ~key.evict
  /\ cache' = Older(cache) /\ links' = Older(links)
  /\ key' = IF key.cached = None \/ KeyExpired(key.age + 1)
            THEN [key EXCEPT !.cached = None, !.age = 0] ELSE [key EXCEPT !.age = @ + 1]
  /\ lapsed' = [there |-> IF file.there THEN 0 ELSE Least(lapsed.there + 1, TTL + 1),
                shared |-> IF file.there /\ file.shared THEN 0 ELSE Least(lapsed.shared + 1, Far),
                key |-> IF key.active THEN 0 ELSE Least(lapsed.key + 1, Far)]
  /\ req' = [r \in Reader |-> IF req[r].age = None THEN req[r] ELSE [req[r] EXCEPT !.age = Least(@ + 1, LinkTTL + 1)]]
  /\ UNCHANGED <<file, landed, disk, message, failed>>

\* deleteCredential; the cached entry goes after the row, if Redis answers.
Revoke ==
  /\ key.active
  /\ key' = [key EXCEPT !.active = FALSE, !.evict = TRUE]
  /\ UNCHANGED <<store, cache, links, req, failed>>

Evict ==
  /\ key.evict
  /\ \/ /\ key' = [key EXCEPT !.evict = FALSE, !.cached = None, !.age = 0]
        /\ UNCHANGED failed
     \/ /\ failed < Budget /\ failed' = failed + 1
        /\ key' = [key EXCEPT !.evict = FALSE]
  /\ UNCHANGED <<store, cache, links, req>>

-----------------------------------------------------------------------------
(* A request.                                                               *)

NoForm == [kind |-> "all", a |-> 0, b |-> 0]

Idle(ways) == [stage |-> "idle", ways |-> ways, via |-> None, form |-> NoForm, live |-> FALSE, age |-> None,
               meta |-> NoMeta, rest |-> {}, sent |-> <<>>]

To(r, stage) == req' = [req EXCEPT ![r].stage = stage]

\* The client gives up, or asks again for the same.
Over(r, stage) == req' = [req EXCEPT ![r].stage = stage, ![r].meta = NoMeta, ![r].rest = {},
                               ![r].age = IF stage = "aborted" THEN @ ELSE None]

\* The metadata of a file that is complete does not change; only it is cached.
CacheAny(meta) == meta = meta

Cacheable(meta) == Complete(meta)

Asking(r, stage, via, f) ==
  req' = [req EXCEPT ![r] = [Idle(req[r].ways) EXCEPT !.stage = stage, !.via = via, !.form = f,
                                              !.age = IF stage = "linked" THEN req[r].age ELSE None]]

\* The gateways are asked for the whole file only, the ranges are the same.
Ask(r, via, f) ==
  /\ req[r].stage = "idle" /\ via \in req[r].ways
  /\ via = "core" /\ f.kind = "last" => "suffix" \in Faults
  /\ via \notin {"owner", "guest", "core"} => f.kind = "all"
  /\ Asking(r, "asked", via, f)
  /\ UNCHANGED <<store, caches, failed>>

\* A link may be used again, the token of a redirect is used up.
Again(r) ==
  /\ req[r].stage \in {"aborted", "done", "denied"}
  /\ IF req[r].stage = "aborted"
     THEN Asking(r, IF req[r].via = "link" /\ req[r].age # None THEN "linked" ELSE "asked", req[r].via, req[r].form)
     ELSE req' = [req EXCEPT ![r] = Idle(req[r].ways)]
  /\ UNCHANGED <<store, caches, failed>>

\* The file by its share token, trashed or not: for a link to it, or to stream it
\* at once.
TokenMeta == IF links.meta # None THEN links.meta ELSE IF file.there /\ file.shared THEN Row ELSE None

MintLink(r) ==
  /\ req[r].stage = "asked" /\ req[r].via = "link"
  /\ IF TokenMeta = None THEN Over(r, "denied")
     ELSE req' = [req EXCEPT ![r].stage = "linked", ![r].age = 0]
  /\ links' = IF TokenMeta # None /\ links.meta = None /\ Cacheable(Row) THEN [meta |-> Row, age |-> 0] ELSE links
  /\ UNCHANGED <<store, cache, key, failed>>

StreamShared(r) ==
  /\ req[r].stage = "asked" /\ req[r].via = "stream"
  /\ IF TokenMeta = None THEN Over(r, "denied")
     ELSE req' = [req EXCEPT ![r].stage = "found", ![r].meta = TokenMeta]
  /\ links' = IF TokenMeta # None /\ links.meta = None /\ Cacheable(Row) THEN [meta |-> Row, age |-> 0] ELSE links
  /\ UNCHANGED <<store, cache, key, failed>>

\* DownloadBySigned: the link or the token has not expired.
UseLink(r) ==
  /\ req[r].stage = "linked"
  /\ IF req[r].age <= LinkTTL 
     THEN req' = [req EXCEPT ![r].stage = "opened", ![r].age = IF req[r].via = "link" THEN @ ELSE None]
     ELSE Over(r, "denied")
  /\ UNCHANGED <<store, caches, failed>>

\* Verify of the transfer service: the key from the cache, or from the core.
Authenticate(r) ==
  /\ req[r].stage = "asked" /\ req[r].via = "s3" /\ key.cached # None
  /\ IF key.cached = "live" THEN To(r, "known") ELSE Over(r, "denied")
  /\ UNCHANGED <<store, caches, failed>>

GetS3Credential == key.active

FetchKey(r) ==
  /\ req[r].stage = "asked" /\ req[r].via = "s3" /\ key.cached = None
  /\ req' = [req EXCEPT ![r].stage = "fetched", ![r].live = GetS3Credential]
  /\ UNCHANGED <<store, caches, failed>>

\* What was read is cached, although the key may have been revoked and evicted since.
StoreKey(r) ==
  /\ req[r].stage = "fetched"
  /\ key' = [key EXCEPT !.cached = IF req[r].live THEN "live" ELSE "dead", !.age = 0]
  /\ req' = [req EXCEPT ![r].stage = IF req[r].live THEN "known" ELSE "denied", ![r].live = FALSE]
  /\ UNCHANGED <<store, cache, links, failed>>

\* verifySignature of the core asks the database.
Guard(r) ==
  /\ req[r].stage = "asked" /\ req[r].via = "redirect"
  /\ IF key.active THEN To(r, "known") ELSE Over(r, "denied")
  /\ UNCHANGED <<store, caches, failed>>

\* An object is a file that is complete and not in the trash.
ResolveS3Object == file.there /\ ~file.trashed /\ Complete(Row)

FindObjectPublic == file.shared /\ ResolveS3Object

\* The transfer service goes on, the core hands out a token for it.
Resolve(r) ==
  /\ req[r].stage = "known" /\ req[r].via = "s3"
  /\ IF ResolveS3Object THEN To(r, "opened") ELSE Over(r, "denied")
  /\ UNCHANGED <<store, caches, failed>>

Redirect(r) ==
  /\ req[r].stage = "known" /\ req[r].via = "redirect"
  /\ IF ResolveS3Object THEN req' = [req EXCEPT ![r].stage = "linked", ![r].age = 0] ELSE Over(r, "denied")
  /\ UNCHANGED <<store, caches, failed>>

\* A public bucket is served by the core itself.
LookUpPublic(r) ==
  /\ req[r].stage = "asked" /\ req[r].via = "public"
  /\ IF FindObjectPublic THEN req' = [req EXCEPT ![r].stage = "found", ![r].meta = Row] ELSE Over(r, "denied")
  /\ UNCHANGED <<store, caches, failed>>

\* The transfer service takes the row without asking whether it is in the trash,
\* the core asks.
LookUp(r) ==
  /\ req[r].stage = IF req[r].via \in {"owner", "guest", "core"} THEN "asked" ELSE "opened"
  /\ \/ /\ req[r].via # "core" /\ cache.meta # None
        /\ req' = [req EXCEPT ![r].stage = "found", ![r].meta = cache.meta]
     \/ /\ req[r].via # "core" /\ cache.meta = None /\ file.there
        /\ req' = [req EXCEPT ![r].stage = IF Cacheable(Row) THEN "filling" ELSE "found", ![r].meta = Row]
     \/ /\ req[r].via = "core" /\ file.there /\ ~file.trashed
        /\ req' = [req EXCEPT ![r].stage = "found", ![r].meta = Row]
     \/ /\ ~file.there /\ (req[r].via # "core" => cache.meta = None)
        /\ Over(r, "denied")
     \/ /\ req[r].via = "core" /\ file.there /\ file.trashed
        /\ Over(r, "denied")
  /\ UNCHANGED <<store, caches, failed>>

Fill(r) ==
  /\ req[r].stage = "filling"
  /\ cache' = [meta |-> req[r].meta, age |-> 0]
  /\ To(r, "found")
  /\ UNCHANGED <<store, links, key, failed>>

\* The headers promise the interval.
Begin(r, i, admitted) ==
  /\ req[r].stage = "found"
  /\ IF i.first < Size /\ admitted
     THEN req' = [req EXCEPT ![r].stage = "streaming", ![r].rest = Pieces(i)]
     ELSE Over(r, "denied")
  /\ UNCHANGED <<store, caches, failed>>

ServeDownload(r) ==
  /\ req[r].via \notin {"core", "public"}
  /\ Begin(r, GoInterval(req[r].form), req[r].via = "guest" => req[r].meta.shared)

ProcessDownload(r) ==
  /\ req[r].via \in {"core", "public"} /\ Begin(r, CoreInterval(req[r].form), TRUE)

\* streamChunked: the pieces go out in order, each from where the metadata of the
\* request says, and the response breaks off when it is there no more.
NextPiece(r) == CHOOSE p \in req[r].rest : \A q \in req[r].rest : p.chunk <= q.chunk
OnDisk(r) == NextPiece(r).chunk \notin req[r].meta.landed
Available(r) == NextPiece(r).chunk \in (IF OnDisk(r) THEN disk ELSE message)

Copy(r) ==
  /\ req[r].stage = "streaming" /\ req[r].rest # {} /\ Available(r)
  /\ req' = [req EXCEPT ![r].sent = @ \o Bytes(NextPiece(r), OnDisk(r)), ![r].rest = @ \ {NextPiece(r)}]
  /\ UNCHANGED <<store, caches, failed>>

BreakOff(r) ==
  /\ req[r].stage = "streaming" /\ req[r].rest # {} /\ ~Available(r)
  /\ Over(r, "aborted")
  /\ UNCHANGED <<store, caches, failed>>

Finish(r) ==
  /\ req[r].stage = "streaming" /\ req[r].rest = {}
  /\ Over(r, "done")
  /\ UNCHANGED <<store, caches, failed>>

\* The call to the core fails, or the download from Telegram after some bytes.
Fail(r) ==
  /\ failed < Budget /\ failed' = failed + 1
  /\ \/ /\ req[r].stage \in {"asked", "known", "opened"}
        /\ Over(r, "aborted")
     \/ /\ req[r].stage = "streaming" /\ req[r].rest # {} /\ Available(r)
        /\ \E n \in 0..Len(Bytes(NextPiece(r), OnDisk(r))) :
             req' = [req EXCEPT ![r].stage = "aborted", ![r].rest = {}, ![r].meta = NoMeta,
                                ![r].sent = @ \o SubSeq(Bytes(NextPiece(r), OnDisk(r)), 1, n)]
  /\ UNCHANGED <<store, caches>>

Init ==
  /\ file = [there |-> TRUE, shared |-> FALSE, trashed |-> FALSE]
  /\ landed = {} /\ disk = Chunk /\ message = {}
  /\ cache = NoEntry /\ links = NoEntry
  /\ \E ways \in Ways :
       /\ req = [r \in Reader |-> Idle(ways)]
       \* createCredential puts the key in the cache, if Redis answers.
       /\ \E cached \in IF ways \cap {"s3", "redirect"} = {} THEN {None} ELSE {None, "live"} :
            key = [active |-> ways \cap {"s3", "redirect"} # {}, evict |-> FALSE, cached |-> cached, age |-> 0]
  /\ lapsed = [there |-> 0, shared |-> Far, key |-> IF key.active THEN 0 ELSE Far]
  /\ failed = 0

Step(r) ==
  \/ Again(r) \/ MintLink(r) \/ UseLink(r) \/ StreamShared(r)
  \/ Authenticate(r) \/ FetchKey(r) \/ StoreKey(r) \/ Guard(r) \/ Resolve(r) \/ Redirect(r)
  \/ LookUpPublic(r) \/ LookUp(r) \/ Fill(r) \/ ServeDownload(r) \/ ProcessDownload(r) \/ Copy(r) \/ BreakOff(r) \/ Finish(r)

Next ==
  \/ \E c \in Chunk : Land(c) \/ DropTemp(c) \/ PurgeTemp(c) \/ Purge(c)
  \/ \E on \in BOOLEAN : Share(on)
  \/ Trash \/ Restore \/ RemoveRow \/ Tick \/ Revoke \/ Evict
  \/ \E r \in Reader : Step(r) \/ Fail(r) \/ \E via \in req[r].ways, f \in Forms : Ask(r, via, f)

Spec == Init /\ [][Next]_vars

\* The handlers run, and a client asks again for what broke off.
FairSpec == Spec /\ \A r \in Reader : WF_vars(Step(r))

-----------------------------------------------------------------------------
(* Properties.                                                              *)

\* The positions a range asks for (RFC 7233), the reference of the arithmetic.
Asked(f) ==
  LET n == Size
      first == CASE f.kind = "last" -> IF f.a > n THEN 0 ELSE n - f.a
                 [] OTHER -> f.a
      last == IF f.kind = "between" /\ f.b < n THEN f.b ELSE n - 1
  IN  [j \in 1..(last - first + 1) |-> first + j - 1]

\* What a response has sent is a prefix of what the client asked for, whatever
\* moved or was deleted meanwhile, and a response that ends regularly has sent all
\* of it, as its Content-Length says (downloader.go:116-122, 426-504).
Exact ==
  \A r \in Reader : /\ IsPrefix(req[r].sent, Asked(req[r].form)) \/ req[r].sent = <<>>
                    /\ req[r].stage = "done" =>
                         LET i == Interval(req[r].via, req[r].form)
                         IN  /\ req[r].sent = Asked(req[r].form)
                             /\ Len(req[r].sent) = i.last - i.first + 1

\* How long ago a way may have been closed when a response begins over it.
Grace(via) ==
  [there |-> IF via \in {"core", "public"} THEN 0 ELSE TTL,
   shared |-> CASE via \in {"guest", "stream"} -> TTL
                [] via = "link" -> TTL + LinkTTL
                [] via = "public" -> 0
                [] OTHER -> Far,
   key |-> CASE via = "s3" -> KeyTTL [] via = "redirect" -> LinkTTL [] OTHER -> Far]

\* A download that begins was allowed not long ago: the file was there, for a
\* guest shared, and for the gateway the access key active, within the lifetimes
\* of the cached metadata, of the link and of the cached key that lie between
\* (download.go:42, 303; credential_resolver.go:36-43).  Nothing invalidates
\* metadata, and a key is evicted before a lookup that read it active caches it.
RecentlyAllowed ==
  [][\A r \in Reader : req[r].stage = "found" /\ req'[r].stage = "streaming" =>
       LET grace == Grace(req[r].via)
       IN  /\ lapsed.there <= grace.there
           /\ lapsed.shared <= grace.shared
           /\ lapsed.key <= grace.key]_vars

\* As long as the file is neither trashed nor deleted, its owner gets the answer
\* that was asked for, although responses break off when a chunk moves from the
\* disk to Telegram under them (downloader.go:465, batch_reporter.go:118-121).
ReadCompletes ==
  [](file.there /\ ~file.trashed) =>
    \A r \in Reader : (req[r].stage = "asked" /\ req[r].via # "guest") ~> (req[r].stage \in {"done", "denied"})
=============================================================================
