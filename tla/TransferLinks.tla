---------------------------- MODULE TransferLinks ----------------------------
(* The URLs under which the bytes of a file are served, and what a CDN in   *)
(* front of them may keep: signed links, the routes of a share token, the   *)
(* route of a public bucket, and the owner's route, which carries no        *)
(* credential of its own.                                                   *)
(*                                                                          *)
(* A request is looked up, answered and delivered in steps of its own, and  *)
(* so is a permanent delete: its rows are read, removed, and only then are  *)
(* their URLs purged, batch by batch.                                       *)
EXTENDS Naturals, FiniteSets

CONSTANTS File, Size,
          Routes,     \* the routes of a share token that are asked for
          Configs,    \* what an admin may have set
          Setups,     \* what there may be: kinds of URL, files, tokens (one is given), edits, requests
          LinkTtl, DefaultTtl, MinTtl, MaxTtl,
          Lag,      \* how long a process may go by a setting that was replaced
          Flight,     \* how long a request may be under way
          UrlsPerBatch, \* CF_MAX_URLS
          Req, MaxTime, MaxLinks  \* bounds

VARIABLES now,
          files,    \* the rows of FileRecord, and whether a row is at the public path
          public,   \* the bucket has public access
          sharing,  \* a share between its check and its update
          issued,   \* share tokens so far
          config, former,  \* the settings, and those they replaced
          setup,    \* the element of Setups
          links,    \* history: the signed links that were minted
          cdn,      \* the copies of the CDN, by URL
          ask,      \* the requests that the CDN passes on
          deletion, \* the permanent delete that is under way
          cleared,  \* history: the tokens and keys that a purge without failure has evicted
          saw       \* history: what the URL of a request has named since it was made

vars == <<now, files, public, sharing, issued, config, former, setup, links, cdn, ask, deletion, cleared, saw>>

\* What the constants are: ids from 1, the routes of the code, and TTLs within their bounds.
LinksFit ==
  /\ File \subseteq Nat \ {0} /\ Routes \subseteq 1 .. 3
  /\ {LinkTtl, DefaultTtl, MinTtl, MaxTtl, Lag, Flight, MaxTime} \subseteq Nat
  /\ DefaultTtl <= MaxTtl /\ MinTtl <= MaxTtl
  /\ \A c \in Configs : c.ttl \in Nat /\ c.window \in Nat
  /\ \A s \in Setups : s.given \in Nat /\ s.tokens \in Nat

-----------------------------------------------------------------------------
(* URLs.                                                                    *)

Share(token, route) == [kind |-> "share", of |-> token, more |-> route]
Link(f, exp) == [kind |-> "link", of |-> f, more |-> exp]
PublicPath == [kind |-> "public", of |-> 0, more |-> 0]
Own(f) == [kind |-> "own", of |-> f, more |-> 0]

Active(f) == files[f].place = "active"

\* What the handler of a URL finds in the database.
Names(u, f) ==
  /\ Active(f)
  /\ CASE u.kind = "share" -> files[f].token = u.of
       [] u.kind = "link" -> f = u.of /\ now <= u.more
       [] u.kind = "public" -> public /\ files[f].keyed
       [] u.kind = "own" -> f = u.of

\* The URL has a credential of its own, or needs none.
Signed(u) == u.kind # "own"

-----------------------------------------------------------------------------
(* Settings and headers.                                                    *)

\* getCachedSetting: the value, or for a while the one it replaced.
Seen == {config} \cup (IF former.at > 0 /\ now < former.at + Lag THEN {former.config} ELSE {})

\* resolvePublicS3Mode.
Mode(u, c) == IF u.kind = "public" /\ c.publicMode # "inherit" THEN c.publicMode ELSE c.mode

\* clampTransferCacheTtl.
Clamped(raw) ==
  IF raw = 0 THEN DefaultTtl
  ELSE IF raw < MinTtl THEN MinTtl ELSE IF raw > MaxTtl THEN MaxTtl ELSE raw

\* computeTransferCacheHeaders: how long the answer is fresh, 0 when it has to be
\* asked about each time, Unstorable when it may not be stored.
Unstorable == MaxTtl + MaxTime + 1
MaxAge(u, c) ==
  IF ~Signed(u) \/ Mode(u, c) = "disabled" THEN Unstorable
  ELSE IF Mode(u, c) = "revalidate" THEN 0 ELSE Clamped(c.ttl)

\* Mutant of ETag: the size alone.
ETagOfSize(f) == <<0, Size[f]>>

\* transferCacheETag.
ETag(f) == <<f, Size[f]>>

\* ifNoneMatchSatisfied: the CDN has no copy, or its ETag is that of the file.
Matches(had, f) == had # 0 /\ ETag(had) = ETag(f)

\* quantizeTokenExp.
Quantized(exp, w) == IF w = 0 THEN exp ELSE ((exp + w - 1) \div w) * w

\* getSignedTokenExpiry.
Window(c) == IF c.mode = "disabled" THEN 0 ELSE c.window
Expiry(c) == Quantized(now + LinkTtl, Window(c))

-----------------------------------------------------------------------------
(* The owner and the admin.                                                 *)

NoShare == [file |-> 0, token |-> 0]
NoCopy == [file |-> 0, age |-> 0, until |-> 0, since |-> 0, late |-> FALSE]

\* A new version takes the path, and the old one goes to the trash.
Put(f) ==
  /\ f \in setup.files /\ files[f].place = "absent" /\ \A g \in File : g < f => files[g].place # "absent"
  /\ files' = [g \in File |->
       IF g = f THEN [files[f] EXCEPT !.place = "active", !.keyed = TRUE]
       ELSE IF Active(g) /\ files[g].keyed THEN [files[g] EXCEPT !.place = "trashed"] ELSE files[g]]
  /\ UNCHANGED <<now, public, sharing, issued, config, former, setup, links, cdn, ask, deletion, cleared>>

Trash(f) ==
  /\ Active(f)
  /\ files' = [files EXCEPT ![f].place = "trashed"]
  /\ UNCHANGED <<now, public, sharing, issued, config, former, setup, links, cdn, ask, deletion, cleared>>

\* A name that is taken is changed.
Restore(f) ==
  /\ files[f].place = "trashed"
  /\ files' = [files EXCEPT ![f].place = "active",
                            ![f].keyed = @ /\ \A g \in File : ~(Active(g) /\ files[g].keyed)]
  /\ UNCHANGED <<now, public, sharing, issued, config, former, setup, links, cdn, ask, deletion, cleared>>

ShareCheck(f) ==
  /\ Active(f) /\ sharing = NoShare /\ issued < setup.tokens
  /\ sharing' = [file |-> f, token |-> IF files[f].token # 0 THEN files[f].token ELSE issued + 1]
  /\ issued' = IF files[f].token # 0 THEN issued ELSE issued + 1
  /\ UNCHANGED <<now, files, public, config, former, setup, links, cdn, ask, deletion, cleared>>

\* The update fails when the row is gone.
ShareUpdate ==
  /\ sharing # NoShare
  /\ files' = [files EXCEPT ![sharing.file].token =
                 IF files[sharing.file].place = "gone" THEN @ ELSE sharing.token]
  /\ sharing' = NoShare
  /\ UNCHANGED <<now, public, issued, config, former, setup, links, cdn, ask, deletion, cleared>>

Unshare(f) ==
  /\ Active(f) /\ files[f].token # 0
  /\ files' = [files EXCEPT ![f].token = 0]
  /\ UNCHANGED <<now, public, sharing, issued, config, former, setup, links, cdn, ask, deletion, cleared>>

\* generateDownloadToken, generateShareDownloadToken and that of a shared folder: the
\* type of a link only tells the URLs apart.
Mint(f, c) ==
  /\ Active(f) /\ "link" \in setup.kinds /\ Cardinality(links) < MaxLinks
  /\ links' = links \cup {[file |-> f, exp |-> Expiry(c), at |-> now, window |-> Window(c)]}
  /\ UNCHANGED <<now, files, public, sharing, issued, config, former, setup, cdn, ask, deletion, cleared>>

\* The admin changes the cache settings.
Configure(c) ==
  /\ c # config /\ former.edits < setup.edits
  /\ config' = c
  /\ former' = [config |-> config, at |-> now, edits |-> former.edits + 1]
  /\ UNCHANGED <<now, files, public, sharing, issued, setup, links, cdn, ask, deletion, cleared>>

SetPublic ==
  /\ former.edits < setup.edits /\ "public" \in setup.kinds
  /\ public' = ~public
  /\ former' = [former EXCEPT !.edits = @ + 1]
  /\ UNCHANGED <<now, files, sharing, issued, config, setup, links, cdn, ask, deletion, cleared>>

-----------------------------------------------------------------------------
(* Requests.                                                                *)

Idle == [pc |-> "idle", url |-> PublicPath, head |-> FALSE, had |-> 0, file |-> 0, code |-> 0,
         age |-> 0, at |-> 0, late |-> FALSE]

Copy(u) == IF u \in DOMAIN cdn THEN cdn[u] ELSE NoCopy

Urls == {u \in {Share(n, r) : n \in 1 .. issued, r \in Routes} \cup {Own(f) : f \in File}
                 \cup {Link(l.file, l.exp) : l \in links} \cup {PublicPath} : u.kind \in setup.kinds}

\* A copy that is fresh is served without asking; one that is not is asked about.  A
\* HEAD of the CDN asks about its copy in the public bucket.
Ask(r, u, head) ==
  /\ ask[r].pc = "idle" /\ r \in setup.reqs /\ \A q \in Req : q < r => ask[q].pc # "idle"
  /\ head => u.kind = "public" /\ u \in DOMAIN cdn
  /\ ~head => ~(u \in DOMAIN cdn /\ now < cdn[u].until)
  /\ ask' = [ask EXCEPT ![r] = [Idle EXCEPT !.pc = IF u.kind = "public" THEN "guard" ELSE "asked",
               !.url = u, !.head = head, !.had = Copy(u).file, !.at = now]]
  /\ UNCHANGED <<now, files, public, sharing, issued, config, former, setup, links, cdn, deletion, cleared>>

\* S3PublicGuard.
Guard(r) ==
  /\ ask[r].pc = "guard"
  /\ ask' = [ask EXCEPT ![r].pc = IF public THEN "asked" ELSE "failed"]
  /\ UNCHANGED <<now, files, public, sharing, issued, config, former, setup, links, cdn, deletion, cleared>>

LookUp(r) ==
  /\ ask[r].pc = "asked"
  /\ IF \E f \in File : Names(ask[r].url, f)
     THEN \E f \in File : Names(ask[r].url, f)
            /\ ask' = [ask EXCEPT ![r].pc = "found", ![r].file = f]
     ELSE ask' = [ask EXCEPT ![r].pc = "failed"]
  /\ UNCHANGED <<now, files, public, sharing, issued, config, former, setup, links, cdn, deletion, cleared>>

\* applyTransferCacheHeaders.
Answer(r, c) ==
  /\ ask[r].pc = "found" /\ ~ask[r].head
  /\ LET u == ask[r].url
         same == Mode(u, c) # "disabled" /\ Signed(u) /\ Matches(ask[r].had, ask[r].file)
     IN  ask' = [ask EXCEPT ![r].pc = "answered", ![r].age = MaxAge(u, c),
                            ![r].code = IF same THEN 304 ELSE 200]
  /\ UNCHANGED <<now, files, public, sharing, issued, config, former, setup, links, cdn, deletion, cleared>>

\* headObject says nothing of caching, and does not look at the mode.
AnswerHead(r) ==
  /\ ask[r].pc = "found" /\ ask[r].head
  /\ ask' = [ask EXCEPT ![r].pc = "answered",
                        ![r].code = IF Matches(ask[r].had, ask[r].file) THEN 304 ELSE 200]
  /\ UNCHANGED <<now, files, public, sharing, issued, config, former, setup, links, cdn, deletion, cleared>>

Dropped(S) == [u \in DOMAIN cdn \ S |-> cdn[u]]

Stored(r, file, age) ==
  [u \in DOMAIN cdn \cup {ask[r].url} |->
     IF u # ask[r].url THEN cdn[u]
     ELSE [file |-> file, age |-> age, until |-> now + age, since |-> ask[r].at,
           late |-> ask[r].late]]

\* The answer reaches the CDN, which stores it or forgets what it had.  A 304 is about
\* the copy that was asked about, if it is still there.
Deliver(r) ==
  /\ LET q == ask[r]
         kept == q.had # 0 /\ Copy(q.url).file = q.had
     IN  \/ /\ q.pc = "failed"
            /\ cdn' = IF q.head THEN cdn ELSE Dropped({q.url})
         \/ /\ q.pc = "answered" /\ (q.head \/ q.code = 304)
            /\ cdn' = IF q.code = 304 /\ kept
                      THEN Stored(r, q.had, IF q.head THEN cdn[q.url].age ELSE q.age) ELSE cdn
         \/ /\ q.pc = "answered" /\ ~q.head /\ q.code # 304
            /\ cdn' = IF q.age = Unstorable THEN Dropped({q.url}) ELSE Stored(r, q.file, q.age)
  /\ ask' = [ask EXCEPT ![r] = Idle]
  /\ UNCHANGED <<now, files, public, sharing, issued, config, former, setup, links, deletion, cleared>>

-----------------------------------------------------------------------------
(* Permanent deletes.                                                       *)

NoDeletion == [pc |-> "idle", files |-> {}, tokens |-> {}, todo |-> {}, failed |-> FALSE]

\* permanentDelete, permanentDeleteBatch and emptyTrash: one at a time (the deletion lock).
DeleteRead(S) ==
  /\ deletion = NoDeletion
  /\ S # {} /\ \A f \in S : files[f].place = "trashed"
  /\ deletion' = [NoDeletion EXCEPT !.pc = "read", !.files = S,
                                    !.tokens = {files[f].token : f \in S} \ {0}]
  /\ UNCHANGED <<now, files, public, sharing, issued, config, former, setup, links, cdn, ask, cleared>>

DeleteRows ==
  /\ deletion.pc = "read"
  /\ files' = [f \in File |-> IF f \in deletion.files
                              THEN [files[f] EXCEPT !.place = "gone", !.token = 0] ELSE files[f]]
  /\ deletion' = [deletion EXCEPT !.pc = "removed"]
  /\ UNCHANGED <<now, public, sharing, issued, config, former, setup, links, cdn, ask, cleared>>

\* Mutant of RoutesOf: the download alone.
RoutesOfDownload(token) == {Share(token, 1)}

\* What purgeDeletedFiles lists for a token: its download, its stream, the stream with a cookie.
RoutesOf(token) == {Share(token, route) : route \in 1 .. 3}

\* buildPublicS3Path.
Keyed(S) == {f \in S : public /\ files[f].keyed}

\* chunk: as many as fit; the order of the list, which is that of the rows, is left open.
Batches(S) == IF Cardinality(S) <= UrlsPerBatch THEN {S} ELSE {B \in SUBSET S : Cardinality(B) = UrlsPerBatch}

\* purgeDeletedFiles: without a share token nothing is listed, a public path neither.
Purge ==
  /\ deletion.pc = "removed"
  /\ deletion' =
       IF deletion.tokens = {} THEN NoDeletion
       ELSE [deletion EXCEPT !.pc = "purge", !.files = Keyed(deletion.files),
               !.todo = (UNION {RoutesOf(t) : t \in deletion.tokens})
                        \cup (IF Keyed(deletion.files) # {} THEN {PublicPath} ELSE {})]
  /\ UNCHANGED <<now, files, public, sharing, issued, config, former, setup, links, cdn, ask, cleared>>

\* flush: a batch that fails is logged.
PurgeBatch(B, ok) ==
  /\ deletion.pc = "purge" /\ deletion.todo # {}
  /\ IF ok THEN /\ cdn' = Dropped(B)
                /\ ask' = [r \in Req |-> IF ask[r].pc # "idle" /\ ask[r].url \in B
                                         THEN [ask[r] EXCEPT !.late = TRUE] ELSE ask[r]]
           ELSE UNCHANGED <<cdn, ask>>
  /\ deletion' = [deletion EXCEPT !.todo = @ \ B, !.failed = @ \/ ~ok]
  /\ UNCHANGED <<now, files, public, sharing, issued, config, former, setup, links, cleared>>

PurgeEnds ==
  /\ deletion.pc = "purge" /\ deletion.todo = {}
  /\ cleared' = IF deletion.failed THEN cleared
                ELSE [tokens |-> cleared.tokens \cup deletion.tokens,
                      files |-> cleared.files \cup deletion.files]
  /\ deletion' = NoDeletion
  /\ UNCHANGED <<now, files, public, sharing, issued, config, former, setup, links, cdn, ask>>

-----------------------------------------------------------------------------
Tick ==
  /\ now < MaxTime
  /\ \A r \in Req : ask[r].pc # "idle" => now < ask[r].at + Flight
  /\ now' = now + 1
  \* What is over is not told apart.
  /\ former' = IF now' < former.at + Lag THEN former ELSE [former EXCEPT !.config = config, !.at = 0]
  /\ cdn' = [u \in DOMAIN cdn |-> IF now' < cdn[u].until THEN cdn[u]
                                  ELSE [cdn[u] EXCEPT !.until = 0, !.since = 0]]
  /\ UNCHANGED <<files, public, sharing, issued, config, setup, links, ask, deletion, cleared>>

Init ==
  /\ now = 1 /\ setup \in Setups
  /\ files = [f \in File |-> IF f = 1 THEN [place |-> "active", token |-> setup.given, keyed |-> TRUE]
                             ELSE [place |-> "absent", token |-> 0, keyed |-> FALSE]]
  /\ public = TRUE
  /\ sharing = NoShare /\ issued = setup.given
  /\ config \in Configs /\ former = [config |-> config, at |-> 0, edits |-> 0]
  /\ links = {} /\ cdn = <<>>
  /\ ask = [r \in Req |-> Idle]
  /\ deletion = NoDeletion
  /\ cleared = [tokens |-> {}, files |-> {}]
  /\ saw = [r \in Req |-> {}]

User == \E f \in File : \/ Put(f) \/ Trash(f) \/ Restore(f)
                         \/ ShareCheck(f) \/ Unshare(f) \/ \E c \in Seen : Mint(f, c)
Admin == SetPublic \/ \E c \in Configs : Configure(c)
Serve == \E r \in Req : \/ \E u \in Urls, head \in BOOLEAN : Ask(r, u, head)
                        \/ Guard(r) \/ LookUp(r) \/ AnswerHead(r) \/ Deliver(r)
                        \/ \E c \in Seen : Answer(r, c)
Delete == \/ \E S \in SUBSET File : DeleteRead(S)
          \/ DeleteRows \/ Purge \/ PurgeEnds
          \/ \E B \in Batches(deletion.todo), ok \in BOOLEAN : PurgeBatch(B, ok)

Next ==
  /\ User \/ ShareUpdate \/ Admin \/ Serve \/ Delete \/ Tick
  /\ saw' = [r \in Req |-> IF ask[r].pc' = "idle" THEN {}
                           ELSE saw[r] \cup {f \in File : Names(ask[r].url, f)}']

Spec == Init /\ [][Next]_vars

-----------------------------------------------------------------------------
\* Every answer is of a file that the URL has named since the request was made, also
\* the 304 that lets the CDN serve its copy: neither a file that took the path of
\* another, nor a share token or a link that no longer holds goes unnoticed.  And what
\* is served without asking named it at most MaxTtl (and a request) ago, however large
\* the TTL in the settings, and never without a credential in the URL.
ServedWasNamed ==
  /\ \A r \in Req : ask[r].pc = "answered" =>
       (IF ask[r].code = 304 THEN ask[r].had ELSE ask[r].file) \in saw[r]
  /\ \A u \in DOMAIN cdn : /\ Signed(u)
                          /\ now < cdn[u].until => now < cdn[u].since + Flight + MaxTtl

\* "Operators can evict immediately": a purge that succeeds leaves no copy of a file
\* that was shared when its delete began, on any route; nor does one come back, but from a
\* request that was under way when its URL was evicted.
PurgedStaysGone ==
  \A u \in DOMAIN cdn :
    (u.kind = "share" /\ u.of \in cleared.tokens) \/ (u = PublicPath /\ cdn[u].file \in cleared.files)
      => cdn[u].late

\* "The token lives up to W-1 s beyond the nominal TTL", and never shorter, whatever
\* setting it was minted by; of one window there is one link.
LinksLast ==
  /\ \A l \in links : /\ l.at + LinkTtl <= l.exp
                      /\ l.exp <= l.at + LinkTtl + (IF l.window = 0 THEN 0 ELSE l.window - 1)
  /\ \A k, l \in links : (k.window = l.window /\ k.exp < l.exp) => k.exp + l.window <= l.exp

\* A URL serves what it names for as long as it may, and nothing else, through the CDN
\* or past it.
UrlsHold == ServedWasNamed /\ LinksLast
=============================================================================
