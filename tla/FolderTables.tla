---------------------------- MODULE FolderTables ----------------------------
(***************************************************************************)
(* The four tables of the database that hold the classification (schema in *)
(* panta_rhei.sql) and the SQL statements the program sends to them.  A    *)
(* statement is one atomic, immediately committed step: the program opens  *)
(* no transaction.  A statement that would break a primary or a foreign    *)
(* key changes nothing; the ...Fails predicates say when that is.          *)
(***************************************************************************)
EXTENDS Naturals, FiniteSets

CONSTANTS
  Folder,         \* every id the auto_increment column of folder can issue
  Work,           \* works of the bibliography (their rows are never deleted here)
  NoFolder,       \* NULL in folder.parent_id
  InitialFolder   \* the folders of the classification the model starts from

ASSUME FolderAssumption ==
  /\ NoFolder \notin Folder
  /\ InitialFolder \subseteq Folder

VARIABLES
  folder,      \* ids of the rows of table folder
  purged,      \* ids whose row was deleted: auto_increment issues them no more
  parent,      \* folder.parent_id
  workFolder,  \* table work_folder: pairs <<work_id, folder_id>>
  reference,   \* table folder_reference: pairs <<folder_id, reference_id>>
  history      \* table folder_merge_history: pairs <<source, dest>>

tables == <<folder, purged, parent, workFolder, reference, history>>

-----------------------------------------------------------------------------
\* A set of folders without a cycle of parents: every non-empty set of live
\* folders has a member whose parent is outside it.
NoCycle(p, live) == \A X \in (SUBSET live) \ {{}} : \E x \in X : p[x] \notin X

TablesInit ==
  /\ folder = InitialFolder
  /\ purged = {}
  /\ parent \in [Folder -> InitialFolder \cup {NoFolder}]
  /\ \A f \in Folder \ InitialFolder : parent[f] = NoFolder
  /\ NoCycle(parent, InitialFolder)
  /\ workFolder \in SUBSET (Work \X InitialFolder)
  /\ reference = {}
  /\ history = {}

Children(f) == {c \in folder : parent[c] = f}

FoldersOf(w) == {f \in Folder : <<w, f>> \in workFolder}

-----------------------------------------------------------------------------
\* UPDATE of one column of a two-column table: every a becomes b.
RenameFirst(R, a, b)  == {<<IF p[1] = a THEN b ELSE p[1], p[2]>> : p \in R}
RenameSecond(R, a, b) == {<<p[1], IF p[2] = a THEN b ELSE p[2]>> : p \in R}

\* The same UPDATE fails when it meets the primary key (the pair is already
\* there) or a foreign key (the new value has no row in folder).
RenameFirstFails(R, a, b) ==
  \E p \in R : p[1] = a /\ (b \notin folder \/ <<b, p[2]>> \in R)
RenameSecondFails(R, a, b) ==
  \E p \in R : p[2] = a /\ (b \notin folder \/ <<p[1], b>> \in R)

\* INSERT INTO folder: auto_increment issues an id never used before.
InsertFolder(f, p) ==
  /\ f \in Folder \ (folder \cup purged)
  /\ p \in folder \cup {NoFolder}
  /\ folder' = folder \cup {f}
  /\ parent' = [parent EXCEPT ![f] = p]
  /\ UNCHANGED <<purged, workFolder, reference, history>>

\* UPDATE folder SET ... WHERE id = f (no row is no error).
UpdateParentFails(f, p) == f \in folder /\ p \notin folder \cup {NoFolder}
UpdateParent(f, p) ==
  /\ ~UpdateParentFails(f, p)
  /\ parent' = IF f \in folder THEN [parent EXCEPT ![f] = p] ELSE parent
  /\ UNCHANGED <<folder, purged, workFolder, reference, history>>

\* UPDATE folder SET parent_id = to WHERE parent_id = from
MoveChildrenFails(from, to) == Children(from) # {} /\ to \notin folder
MoveChildren(from, to) ==
  /\ ~MoveChildrenFails(from, to)
  /\ parent' = [f \in Folder |-> IF parent[f] = from THEN to ELSE parent[f]]
  /\ UNCHANGED <<folder, purged, workFolder, reference, history>>

\* (Deviation: the table without its foreign key.)
InsertHistoryUnkeyed(from, to) == <<from, to>> \in history

\* INSERT INTO folder_merge_history
InsertHistoryFails(from, to) == to \notin folder \/ <<from, to>> \in history

\* DELETE FROM folder WHERE id = f, with the foreign keys' ON DELETE actions:
\* the children become roots, rows that name the folder go with it.
\* folder_merge_history.source_folder_id has no foreign key.
DeleteFolder(f) ==
  /\ folder' = folder \ {f}
  /\ purged' = purged \cup (folder \cap {f})
  /\ parent' = [g \in Folder |-> IF g = f \/ parent[g] = f THEN NoFolder ELSE parent[g]]
  /\ workFolder' = {p \in workFolder : p[2] # f}
  /\ reference' = {p \in reference : f \notin {p[1], p[2]}}
  /\ history' = {p \in history : p[2] # f}

-----------------------------------------------------------------------------
\* The folder d has no ancestor f: some set of folders contains d and, with
\* each member, its parent, but not f.
Avoids(d, f) ==
  \E V \in SUBSET folder :
    d \in V /\ f \notin V /\ \A x \in V : parent[x] \in V \cup {NoFolder}

\* The choices of the edit form: another root for a root, and for any other
\* folder its parent or one of the parent's siblings.
Offered(f, p) ==
  /\ f \in folder /\ p \in folder
  /\ IF parent[f] = NoFolder THEN parent[p] = NoFolder /\ p # f
                             ELSE parent[p] = parent[parent[f]]

-----------------------------------------------------------------------------
TablesType ==
  /\ folder \subseteq Folder
  /\ purged \subseteq Folder
  /\ parent \in [Folder -> Folder \cup {NoFolder}]
  /\ workFolder \subseteq Work \X Folder
  /\ reference \subseteq Folder \X Folder
  /\ history \subseteq Folder \X Folder

\* What the foreign keys guarantee at every moment.
Integrity ==
  /\ folder \cap purged = {}
  /\ \A f \in Folder : parent[f] \in folder \cup {NoFolder}
  /\ \A f \in Folder \ folder : parent[f] = NoFolder
  /\ \A p \in workFolder : p[2] \in folder
  /\ \A p \in reference : p[1] \in folder /\ p[2] \in folder
  /\ \A p \in history : p[2] \in folder

TablesOK == TablesType /\ Integrity
=============================================================================
