------------------------------ MODULE Listing ------------------------------
(* Endless lists of folders and files: the cursor pagination of the core    *)
(* (getContent, searchAll, listShared and getSharedContent of               *)
(* folder.service.ts) and the four hooks of the frontend that page through  *)
(* it while rows come and go, the user moves on and answers are late.       *)
(*                                                                          *)
(* A page holds folders first.  The cursor { f, fc, fd } names the last     *)
(* folder and the last file that were sent; fd says there are no more       *)
(* files.  The server reads folders and files in two statements.            *)
EXTENDS Naturals, Sequences, SequencesExt, FiniteSets

CONSTANTS Id,         \* rows of each table; the row's place in the sort order
          Place,      \* Place[kind][id]: the folder or the query it belongs to
          Places,
          Views,      \* the hooks: "content", "search", "shared", "sharePage"
          FailViews,  \* those whose first page may fail
          Openings,   \* the rows that match at first
          Limit,      \* PAGINATION_FOLDER_LIMIT
          Budget      \* how often the user moves on, rows change and calls fail

ASSUME ListingAssumption ==
  /\ Id \subseteq Nat \ {0} /\ Limit \in Nat \ {0}
  /\ Views \subseteq {"content", "search", "shared", "sharePage"} /\ FailViews \subseteq Views

Kind == {"folder", "file"}

VARIABLES view,    \* the hook
          place,   \* the folder or the query it shows
          order,   \* the sort direction
          table,   \* the rows of the two tables
          open,    \* those that match the where clause of the view
          list,    \* the state of the hook
          calls,   \* its requests
          steady,  \* history: rows that matched ever since the page the list starts with was asked for
          budget

vars == <<view, place, order, table, open, list, calls, steady, budget>>

-----------------------------------------------------------------------------
(* Prisma: findMany with orderBy, cursor, skip 1 and take.  The cursor row  *)
(* is looked up by its id; rows from its place on are taken, and the first  *)
(* of them is skipped whether or not it is the cursor row.                  *)

Before(direction, a, b) == IF direction = "asc" THEN a < b ELSE b < a

Matching(kind, p) == {i \in open[kind] : Place[kind][i] = p}

First(rows, n) == SubSeq(rows, 1, IF n < Len(rows) THEN n ELSE Len(rows))

FindMany(kind, p, direction, cursor) ==
  LET from == {i \in Matching(kind, p) : cursor = 0 \/ ~Before(direction, i, cursor)}
      ranked == SetToSortSeq(from, LAMBDA a, b : Before(direction, a, b))
  IN  CASE cursor = 0 -> First(ranked, Limit + 1)
        [] cursor # 0 /\ (cursor \notin table[kind] \/ ranked = <<>>) -> <<>>
        [] OTHER -> First(Tail(ranked), Limit + 1)

\* A page: at most Limit rows, and whether one more was found.
Page(rows) == First(rows, Limit)
HasNext(rows) == Len(rows) > Limit

Cursor == [f : Id \cup {0}, fc : Id \cup {0}, fd : BOOLEAN]

\* A cursor that is null, absent or malformed.
NoCursor == [f |-> 0, fc |-> 0, fd |-> FALSE]

-----------------------------------------------------------------------------
(* The server's half of a request.                                          *)

IsQueryNextFile(cursor) == cursor.fc # 0 /\ cursor.f = 0

FoldersOf(call) ==
  IF IsQueryNextFile(call.cursor) THEN <<>>
  ELSE FindMany("folder", call.place, call.order, call.cursor.f)

\* Files wait until the last page of folders, but the first page has both.
ShouldFetchFilesOnce(call) == call.cursor.f = 0 /\ (view = "shared" => ~call.cursor.fd)

ShouldFetchFiles(call) ==
  /\ call.cursor.f = 0 \/ ~HasNext(call.folders)
  /\ view = "shared" => ~call.cursor.fd

FilesOf(call) ==
  IF ShouldFetchFiles(call) THEN FindMany("file", call.place, call.order, call.cursor.fc)
  ELSE <<>>

\* listShared carries the file cursor over the pages that send no files.
CarriedFileCursor(call, found) ==
  IF ~ShouldFetchFiles(call) THEN call.cursor.fc
  ELSE IF HasNext(found) THEN Last(Page(found)) ELSE 0

FilesDone(call, found) ==
  IF ShouldFetchFiles(call) THEN ~HasNext(found) ELSE call.cursor.fd

NextFolderCursor(call, found) ==
  IF ~HasNext(call.folders) THEN NoCursor
  ELSE LET last == Last(Page(call.folders))
       IN  CASE view = "shared" -> [f |-> last, fc |-> CarriedFileCursor(call, found),
                                    fd |-> FilesDone(call, found)]
             [] view = "sharePage" -> [NoCursor EXCEPT !.f = last]
             [] OTHER -> [NoCursor EXCEPT !.f = last, !.fc = call.cursor.fc]

NextFileCursor(call, found) ==
  IF HasNext(found) THEN [NoCursor EXCEPT !.fc = Last(Page(found))]
  ELSE IF view = "shared" /\ ~ShouldFetchFiles(call) THEN [NoCursor EXCEPT !.fc = call.cursor.fc]
  ELSE NoCursor

ReadFolders(call) ==
  /\ call.stage = "sent"
  /\ calls' = (calls \ {call})
                 \cup {[call EXCEPT !.stage = "folders", !.folders = FoldersOf(call)]}
  /\ UNCHANGED <<view, place, order, table, open, list, steady, budget>>

\* The second statement, and the answer.
ReadFiles(call) ==
  /\ call.stage = "folders"
  /\ LET found == FilesOf(call)
     IN  calls' = (calls \ {call}) \cup
           {[call EXCEPT !.stage = "answer", !.folders = Page(call.folders), !.files = Page(found),
                         !.next = <<NextFolderCursor(call, found), NextFileCursor(call, found)>>]}
  /\ UNCHANGED <<view, place, order, table, open, list, steady, budget>>

-----------------------------------------------------------------------------
(* The hooks.                                                               *)

\* A hook that has loaded nothing.
Blank == [folder |-> <<>>, file |-> <<>>, next |-> <<NoCursor, NoCursor>>,
          more |-> TRUE, seq |-> 0, loading |-> FALSE, loadingMore |-> FALSE, debounce |-> FALSE]

\* nextFolderCursor ?? nextFileCursor.
CursorToSend(l) == IF l.next[1] # NoCursor THEN l.next[1] ELSE l.next[2]

Request(l, p, direction, first) ==
  [seq |-> l.seq + 1, first |-> first, place |-> p, order |-> direction,
   cursor |-> IF first THEN NoCursor ELSE CursorToSend(l), stage |-> "sent",
   folders |-> <<>>, files |-> <<>>, next |-> <<NoCursor, NoCursor>>,
   matched |-> [k \in Kind |-> Matching(k, p)]]

\* fetchContent(false), runSearch(false), fetchShared, fetchContent(true).
FirstPageSameSeq(l) == [l EXCEPT !.loading = TRUE, !.debounce = FALSE]

FirstPage(l) ==
  [l EXCEPT !.seq = @ + 1, !.loading = TRUE, !.debounce = FALSE,
            !.loadingMore = IF view = "shared" THEN FALSE ELSE @]

AskFirstPage(l, p, direction) ==
  /\ list' = FirstPage(l)
  /\ calls' = calls \cup {Request(l, p, direction, TRUE)}
  /\ UNCHANGED steady

\* The effect that runs when the user opens another folder, types another query
\* or sorts the list: older answers are void, and what else is reset differs.
Reset(l, moved) ==
  CASE view = "content" /\ moved -> [Blank EXCEPT !.seq = l.seq + 1, !.loading = l.loading,
                                                  !.loadingMore = l.loadingMore]
    [] view = "sharePage" -> [l EXCEPT !.seq = @ + 1, !.next = Blank.next, !.more = TRUE]
    [] OTHER -> l

MoveOn(p, direction) ==
  /\ view # "shared" /\ budget.user > 0
  /\ <<p, direction>> # <<place, order>>
  /\ place' = p /\ order' = direction
  /\ budget' = [budget EXCEPT !.user = @ - 1]
  /\ IF view = "search"
     THEN /\ list' = [list EXCEPT !.seq = @ + 1, !.debounce = TRUE]
          /\ UNCHANGED <<calls, steady>>
     ELSE AskFirstPage(Reset(list, p # place), p, direction)
  /\ UNCHANGED <<view, table, open>>

\* The timer of the debounced search.
Debounced ==
  /\ list.debounce
  /\ AskFirstPage(list, place, order)
  /\ UNCHANGED <<view, place, order, table, open, budget>>

\* A finished action, a closed dialog or the poll of running uploads.
Refresh ==
  /\ budget.user > 0
  /\ budget' = [budget EXCEPT !.user = @ - 1]
  /\ AskFirstPage(list, place, order)
  /\ UNCHANGED <<view, place, order, table, open>>

\* The end of the list comes into sight.
LoadMore ==
  /\ list.more /\ ~list.loading /\ ~list.loadingMore
  /\ list' = [list EXCEPT !.seq = @ + 1, !.loadingMore = TRUE]
  /\ calls' = calls \cup {Request(list, place, order, FALSE)}
  /\ UNCHANGED <<view, place, order, table, open, steady, budget>>

IsStale(call) == call.seq # list.seq

\* Rows already shown are not added again.
Added(shown, rows) == shown \o SelectSeq(rows, LAMBDA i : i \notin ToSet(shown))

IdleFirst(l) == [l EXCEPT !.loading = FALSE]

Idle(l) == [l EXCEPT !.loading = FALSE, !.loadingMore = FALSE]

Deliver(call) ==
  /\ call.stage = "answer"
  /\ calls' = calls \ {call}
  /\ list' = IF IsStale(call) THEN list
             ELSE [Idle(list) EXCEPT !.folder = IF call.first THEN call.folders ELSE Added(@, call.folders),
                                     !.file = IF call.first THEN call.files ELSE Added(@, call.files),
                                     !.next = call.next,
                                     !.more = call.next # <<NoCursor, NoCursor>>]
  /\ steady' = IF call.first /\ ~IsStale(call) THEN call.matched ELSE steady
  /\ UNCHANGED <<view, place, order, table, open, budget>>

\* The request or its answer is lost; what the list shows stays.
Fail(call) ==
  /\ budget.fail > 0 /\ (call.first => view \in FailViews)
  /\ budget' = [budget EXCEPT !.fail = @ - 1]
  /\ calls' = calls \ {call}
  /\ list' = IF IsStale(call) THEN list
             ELSE Idle(list)
  /\ UNCHANGED <<view, place, order, table, open, steady>>

-----------------------------------------------------------------------------
(* The rows, as other requests change them.                                 *)

\* An upload, a new folder, a restore, a new share link.
Join(kind, i) ==
  /\ budget.rows > 0 /\ i \notin open[kind]
  /\ budget' = [budget EXCEPT !.rows = @ - 1]
  /\ table' = [table EXCEPT ![kind] = @ \cup {i}]
  /\ open' = [open EXCEPT ![kind] = @ \cup {i}]
  /\ UNCHANGED <<view, place, order, list, calls, steady>>

\* The rows that a cursor names which is, or may still be, sent.
CursorRows(kind) ==
  LET cursors == {c.cursor : c \in calls} \cup {CursorToSend(l) : l \in calls \cup {list}}
      found == {Last(Page(c.folders)) : c \in {x \in calls : x.folders # <<>>}}
  IN  IF kind = "file" THEN {c.fc : c \in cursors} ELSE {c.f : c \in cursors} \cup found

\* A delete, a move, the end of a share; with gone, the row itself goes.  Not the
\* row a cursor names: Prisma would then skip one row too many, or find nothing.
Leave(kind, i, gone) ==
  /\ budget.rows > 0 /\ i \in open[kind] /\ i \notin CursorRows(kind)
  /\ budget' = [budget EXCEPT !.rows = @ - 1]
  /\ open' = [open EXCEPT ![kind] = @ \ {i}]
  /\ table' = IF gone THEN [table EXCEPT ![kind] = @ \ {i}] ELSE table
  /\ steady' = [steady EXCEPT ![kind] = @ \ {i}]
  /\ calls' = {[c EXCEPT !.matched[kind] = @ \ {i}] : c \in calls}
  /\ UNCHANGED <<view, place, order, list>>

\* removeItems, revoke: the hook drops a row it deleted or unshared itself.
Forget(kind, i) ==
  /\ i \in ToSet(list[kind]) /\ i \notin open[kind]
  /\ list' = [list EXCEPT ![kind] = SelectSeq(@, LAMBDA j : j # i)]
  /\ UNCHANGED <<view, place, order, table, open, calls, steady, budget>>

-----------------------------------------------------------------------------
Init ==
  /\ view \in Views /\ place \in Places /\ order = "asc"
  /\ open \in [Kind -> Openings] /\ table = open
  /\ budget = Budget
  /\ steady = [k \in Kind |-> {}]
  /\ list = IF view = "search" THEN [Blank EXCEPT !.seq = 1, !.debounce = TRUE, !.more = FALSE]
            ELSE FirstPage(Blank)
  /\ calls = IF view = "search" THEN {} ELSE {Request(Blank, place, order, TRUE)}

Serve == \E c \in calls : ReadFolders(c) \/ ReadFiles(c)
Receive == \E c \in calls : Deliver(c)

Next ==
  \/ Serve \/ Receive \/ LoadMore \/ Debounced \/ Refresh
  \/ \E c \in calls : Fail(c)
  \/ \E p \in Places, d \in {"asc", "desc"} : MoveOn(p, d)
  \/ \E k \in Kind, i \in Id : Join(k, i) \/ Forget(k, i) \/ \E gone \in BOOLEAN : Leave(k, i, gone)

Spec == Init /\ [][Next]_vars

\* The core answers, and the user scrolls as long as there is more to see.
FairSpec == Spec /\ WF_vars(Serve) /\ WF_vars(Receive) /\ WF_vars(LoadMore) /\ WF_vars(Debounced)

-----------------------------------------------------------------------------
\* The hook awaits no answer and no timer.
Settled == ~list.loading /\ ~list.loadingMore /\ ~list.debounce

\* A list that says there is no more shows every row that matched all along,
\* whatever joined or left meanwhile and however often folders and files took turns;
\* and no row is ever shown twice, though the file pages may be sent again.
AllShown ==
  \A k \in Kind : /\ Settled /\ ~list.more => steady[k] \subseteq ToSet(list[k])
                  /\ IsInjective(list[k])

\* A late answer for the folder or the query the user has left is never shown.
OnlyCurrent ==
  Settled => \A k \in Kind : \A i \in ToSet(list[k]) : Place[k][i] = place

\* What is on the screen at the end of a list: all that belongs there, once, and nothing of
\* what the user has left.
ShowsItsPlace == AllShown /\ OnlyCurrent

\* Scrolling comes to the end of the list.
PagingEnds == <>[](Settled /\ ~list.more)
=============================================================================
