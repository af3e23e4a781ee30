--------------------------- MODULE MCFolderTree ---------------------------
(* FolderTree from every small tree the handlers can leave behind, and      *)
(* UploadClient with two files.  The two have nothing in common but the     *)
(* folders they are about: a behaviour is one of the core or one of the     *)
(* browser (part), and the other stays where it begins.                     *)
EXTENDS FolderTree, Client, FiniteSets

CONSTANTS d1, d2, d3, f1, f2, r1, r2

VARIABLE part

MCFolder == {d1, d2, d3}
MCFile == {f1, f2}

\* One request moves folders, the other does anything else: two movers can make a
\* cycle.
MCKind == r1 :> {"create", "batch", "move", "walk"} @@
          r2 :> {"rename", "share", "trash", "restore", "delete", "moveFile"}

\* d1 is at the root, d2 in it or beside it, d3 anywhere or not there yet.
Shape ==
  {[d \in D |-> IF d = d1 THEN Root ELSE p[d]] :
     D \in {{d1, d2}, {d1, d2, d3}},
     p \in {p \in [{d2, d3} -> {Root, d1, d2}] : p[d2] # d2}}

Below(shape, d) ==
  {e \in DOMAIN shape : e = d \/ shape[e] = d
                          \/ (shape[e] \in MCFolder /\ shape[shape[e]] = d)}

\* Two folders were trashed one after the other, or one, or none (None).
Stamps(shape) ==
  {[d \in DOMAIN shape |-> IF x # Root /\ d \in Below(shape, x) THEN 1
                           ELSE IF y # Root /\ d \in Below(shape, y) THEN 2 ELSE 0] :
     x \in {Root, d2, d3} \cap (DOMAIN shape \cup {Root}), y \in {Root, d1}}

Row(parent, b, at) ==
  [parent |-> parent, name |-> Plain(b), deletedAt |-> at, shared |-> TRUE,
   s3PublicAccess |-> FALSE]

FileIn(shape, at, d) ==
  [parent |-> d, name |-> Plain("a"), deletedAt |-> IF d = Root THEN 0 ELSE at[d]]

\* Active siblings have different names, and so have siblings trashed together.
NamesDiffer(rows) ==
  \A x, y \in DOMAIN rows :
    (rows[x].parent = rows[y].parent /\ rows[x].name = rows[y].name
       /\ rows[x].deletedAt = rows[y].deletedAt) => x = y

\* The second file is in the root, in d1 or in a folder of its own.
TreesWith(homes) ==
  LET all == UNION {UNION {
        {[folders |-> [d \in DOMAIN shape |-> Row(shape[d], names[d], at[d])],
          files |-> f1 :> FileIn(shape, at, d2) @@ f2 :> FileIn(shape, at, home),
          clock |-> 2] :
           names \in {n \in [DOMAIN shape -> Base] : n[d1] = "a"}, home \in homes \cap (DOMAIN shape \cup {Root})}
          : at \in Stamps(shape)} : shape \in Shape}
  IN  {t \in all : NamesDiffer(t.folders) /\ NamesDiffer(t.files)}

\* Folders of one name inside each other, a file in the last.
Namesakes ==
  [folders |-> d1 :> Row(Root, "a", 0) @@ d2 :> Row(d1, "a", 0) @@ d3 :> Row(d2, "a", 0),
   files |-> f1 :> [parent |-> d3, name |-> Plain("a"), deletedAt |-> 0],
   clock |-> 0]

MCTrees == TreesWith({d1, Root}) \cup {Namesakes}

-----------------------------------------------------------------------------
clientVars == <<small, queue, seen, processing, run, paused, page, move, refused, bypassed, clicks>>

\* The first file is small, or both; they are added alone or together, the second in
\* a folder.
MCFolders == <<{}, {"d"}>>

ASSUME ClientAssumption == Client!ClientFits

MCInit == /\ part \in {"tree", "upload"}
          /\ Init /\ Client!Init
          /\ part = "tree" => small = {1}
          /\ part = "upload" => LET t == CHOOSE t \in Trees : TRUE IN
                                  folders = t.folders /\ files = t.files

MCNext == \/ part = "tree" /\ Next /\ UNCHANGED <<part, clientVars>>
          \/ part = "upload" /\ Client!Next /\ UNCHANGED <<part, vars>>

MCSpec == MCInit /\ [][MCNext]_<<part, vars, clientVars>>
=============================================================================
