------------------------ MODULE ClassificationProofs ------------------------
(***************************************************************************)
(* The types, the keys of the schema and what a request has in hand hold   *)
(* whoever edits the classification and wherever requests are cut off.     *)
(***************************************************************************)
EXTENDS TreeProperties, TLAPS

-----------------------------------------------------------------------------
(* What each SQL statement does to the types and the keys of the tables,   *)
(* and to the absence of cycles among the parents.                         *)

\* The initial tables are well-typed and satisfy the foreign keys.
LEMMA TablesInitOK == TablesInit => TablesOK
BY FolderAssumption DEF TablesInit, TablesOK, TablesType, Integrity

\* INSERT INTO folder keeps the keys.
LEMMA InsertFolderOK ==
  ASSUME TablesOK, NEW f, NEW p, InsertFolder(f, p)
  PROVE  TablesOK'
BY FolderAssumption DEF InsertFolder, TablesOK, TablesType, Integrity

\* UPDATE folder ... WHERE id = f keeps the keys.
LEMMA UpdateParentOK ==
  ASSUME TablesOK, NEW f \in Folder, NEW p \in Folder \cup {NoFolder}, UpdateParent(f, p)
  PROVE  TablesOK'
BY FolderAssumption DEF UpdateParent, UpdateParentFails, TablesOK, TablesType, Integrity

\* UPDATE folder ... WHERE parent_id = from keeps the keys.
LEMMA MoveChildrenOK ==
  ASSUME TablesOK, NEW from \in Folder, NEW to \in Folder, MoveChildren(from, to)
  PROVE  TablesOK'
<1> USE FolderAssumption DEF MoveChildren, MoveChildrenFails, Children, TablesOK, TablesType, Integrity
<1>1. TablesType'
  OBVIOUS
<1>2. ASSUME NEW f \in Folder PROVE parent'[f] \in folder \cup {NoFolder}
  <2>1. CASE parent[f] = from
    <3>1. f \in folder
      BY <2>1
    <3>2. to \in folder
      BY <2>1, <3>1
    <3> QED BY <2>1, <3>2
  <2>2. CASE parent[f] # from
    BY <2>2
  <2> QED BY <2>1, <2>2
<1>3. ASSUME NEW f \in Folder \ folder PROVE parent'[f] = NoFolder
  OBVIOUS
<1> QED BY <1>1, <1>2, <1>3

\* DELETE FROM folder and its cascades keep the keys.
LEMMA DeleteFolderOK ==
  ASSUME TablesOK, NEW f \in Folder, DeleteFolder(f)
  PROVE  TablesOK'
<1> USE FolderAssumption DEF DeleteFolder, TablesOK, TablesType, Integrity
<1>1. folder' \subseteq Folder /\ purged' \subseteq Folder /\ folder' \cap purged' = {}
  OBVIOUS
<1>2. /\ parent' \in [Folder -> Folder \cup {NoFolder}]
      /\ \A g \in Folder : parent'[g] \in folder' \cup {NoFolder}
      /\ \A g \in Folder \ folder' : parent'[g] = NoFolder
  OBVIOUS
<1>3. workFolder' \subseteq Work \X Folder /\ \A p \in workFolder' : p[2] \in folder'
  OBVIOUS
<1>4. reference' \subseteq Folder \X Folder /\ \A p \in reference' : p[1] \in folder' /\ p[2] \in folder'
  OBVIOUS
<1>5. history' \subseteq Folder \X Folder /\ \A p \in history' : p[2] \in folder'
  OBVIOUS
<1> QED BY <1>1, <1>2, <1>3, <1>4, <1>5

\* An UPDATE of the second column that does not fail stays within the type
\* and leads to folders that exist.
LEMMA RenameSecondOK ==
  ASSUME NEW A, NEW R \in SUBSET (A \X Folder), NEW a \in Folder, NEW b \in Folder,
         \A p \in R : p[2] \in folder, ~RenameSecondFails(R, a, b)
  PROVE  /\ RenameSecond(R, a, b) \in SUBSET (A \X Folder)
         /\ \A p \in RenameSecond(R, a, b) : p[2] \in folder
<1> SUFFICES ASSUME NEW p \in RenameSecond(R, a, b)
             PROVE  p \in A \X Folder /\ p[2] \in folder
  OBVIOUS
<1>1. PICK q \in R : p = <<q[1], IF q[2] = a THEN b ELSE q[2]>>
  BY DEF RenameSecond
<1>2. q[1] \in A /\ q[2] \in Folder /\ q[2] \in folder
  OBVIOUS
<1>3. q[2] = a => b \in folder
  BY DEF RenameSecondFails
<1> QED BY <1>1, <1>2, <1>3

\* Such an UPDATE leaves the first column as it is.
LEMMA RenameSecondFirst ==
  ASSUME NEW R, NEW a, NEW b, NEW p \in RenameSecond(R, a, b)
  PROVE  \E q \in R : p[1] = q[1]
BY DEF RenameSecond

\* The same for the first column of folder_reference.
LEMMA RenameFirstOK ==
  ASSUME NEW R \in SUBSET (Folder \X Folder), NEW a \in Folder, NEW b \in Folder,
         \A p \in R : p[1] \in folder /\ p[2] \in folder, ~RenameFirstFails(R, a, b)
  PROVE  /\ RenameFirst(R, a, b) \in SUBSET (Folder \X Folder)
         /\ \A p \in RenameFirst(R, a, b) : p[1] \in folder /\ p[2] \in folder
<1> SUFFICES ASSUME NEW p \in RenameFirst(R, a, b)
             PROVE  p \in Folder \X Folder /\ p[1] \in folder /\ p[2] \in folder
  OBVIOUS
<1>1. PICK q \in R : p = <<IF q[1] = a THEN b ELSE q[1], q[2]>>
  BY DEF RenameFirst
<1>2. q[1] \in Folder /\ q[2] \in Folder /\ q[1] \in folder /\ q[2] \in folder
  OBVIOUS
<1>3. q[1] = a => b \in folder
  BY DEF RenameFirstFails
<1> QED BY <1>1, <1>2, <1>3

-----------------------------------------------------------------------------
\* A circle of the new parents is no circle of the old ones, so it runs
\* through a changed row; from there it stays among the ancestors of the
\* new parent, and these were a forest.
LEMMA ReparentNoCycle ==
  ASSUME TablesOK, NoCycle(parent, folder),
         NEW C \in SUBSET folder, NEW p \in folder \cup {NoFolder},
         \A x \in Folder : parent'[x] = IF x \in C THEN p ELSE parent[x], folder' = folder,
         \/ p = NoFolder
         \/ \E V \in SUBSET folder : /\ p \in V /\ C \cap V = {}
                                     /\ \A x \in V : parent[x] \in V \cup {NoFolder}
  PROVE  NoCycle(parent', folder')
<1> SUFFICES ASSUME NEW X \in SUBSET folder, X # {}, \A x \in X : parent'[x] \in X
             PROVE  FALSE
  BY DEF NoCycle
<1> USE FolderAssumption DEF TablesOK, TablesType
<1>1. CASE X \cap C = {}
  <2>1. \A x \in X : parent[x] \in X
    BY <1>1
  <2> QED BY <2>1 DEF NoCycle
<1>2. CASE X \cap C # {}
  <2>1. p \in X
    BY <1>2
  <2>2. p # NoFolder
    BY <2>1
  <2>3. PICK V \in SUBSET folder : /\ p \in V /\ C \cap V = {}
                                   /\ \A x \in V : parent[x] \in V \cup {NoFolder}
    BY <2>2
  <2>4. \A x \in X \cap V : parent[x] \in X \cap V
    BY <2>3
  <2>5. X \cap V # {}
    BY <2>1, <2>3
  <2> QED BY <2>4, <2>5 DEF NoCycle
<1> QED BY <1>1, <1>2

\* Moving a folder below one that does not have it as an ancestor closes no
\* circle, and neither does making it a root.
LEMMA UpdateParentNoCycle ==
  ASSUME TablesOK, NoCycle(parent, folder),
         NEW f \in Folder, NEW p \in Folder \cup {NoFolder}, UpdateParent(f, p),
         p = NoFolder \/ (p # f /\ Avoids(p, f))
  PROVE  NoCycle(parent', folder')
<1> USE FolderAssumption DEF UpdateParent, UpdateParentFails, TablesOK, TablesType
<1>1. CASE f \in folder
  <2> DEFINE C == {f}
  <2>1. \A x \in Folder : parent'[x] = IF x \in C THEN p ELSE parent[x]
    BY <1>1
  <2>2. p \in folder \cup {NoFolder} /\ C \in SUBSET folder /\ folder' = folder
    BY <1>1
  <2>3. \/ p = NoFolder
        \/ \E V \in SUBSET folder : /\ p \in V /\ C \cap V = {}
                                    /\ \A x \in V : parent[x] \in V \cup {NoFolder}
    BY DEF Avoids
  <2> HIDE DEF C
  <2> QED BY <2>1, <2>2, <2>3, ReparentNoCycle
<1>2. CASE f \notin folder
  BY <1>2
<1> QED BY <1>1, <1>2

\* Moving all children of a folder below another that does not have it as an
\* ancestor closes no circle.
LEMMA MoveChildrenNoCycle ==
  ASSUME TablesOK, NoCycle(parent, folder),
         NEW from \in Folder, NEW to \in Folder, MoveChildren(from, to), Avoids(to, from)
  PROVE  NoCycle(parent', folder')
<1> USE FolderAssumption DEF MoveChildren, MoveChildrenFails, TablesOK, TablesType, Integrity
<1> DEFINE C == Children(from)
<1>1. \A x \in Folder : parent'[x] = IF x \in C THEN to ELSE parent[x]
  BY DEF Children
<1>2. PICK V \in SUBSET folder : to \in V /\ from \notin V /\ \A x \in V : parent[x] \in V \cup {NoFolder}
  BY DEF Avoids
<1>3. C \in SUBSET folder /\ C \cap V = {}
  BY <1>2 DEF Children
<1>4. folder' = folder /\ to \in folder
  BY <1>2
<1> HIDE DEF C
<1> QED BY <1>1, <1>2, <1>3, <1>4, ReparentNoCycle

\* A folder can be put below any folder the form offers.
LEMMA OfferedNoCycle ==
  ASSUME TablesOK, NoCycle(parent, folder),
         NEW f \in Folder, NEW p \in Folder, UpdateParent(f, p), Offered(f, p)
  PROVE  NoCycle(parent', folder')
<1> USE FolderAssumption DEF UpdateParent, TablesOK, TablesType, Integrity
<1> DEFINE q == parent[f]
<1>1. f \in folder /\ p \in folder /\ parent' = [parent EXCEPT ![f] = p] /\ folder' = folder
  BY DEF Offered
<1>2. SUFFICES ASSUME NEW X \in SUBSET folder, X # {}, \A x \in X : parent'[x] \in X
               PROVE  FALSE
  BY <1>1 DEF NoCycle
<1>3. f \in X
  <2>1. SUFFICES ASSUME f \notin X PROVE FALSE
    OBVIOUS
  <2>2. \A x \in X : parent[x] \in X
    BY <1>1, <1>2, <2>1
  <2> QED BY <1>2, <2>2 DEF NoCycle
<1>4. p \in X
  BY <1>1, <1>2, <1>3
<1>5. p # f
  <2>1. CASE q = NoFolder
    BY <2>1 DEF Offered
  <2>2. CASE q # NoFolder /\ p = f
    <3>1. q \in folder /\ parent[q] = q
      BY <2>2 DEF Offered
    <3> DEFINE Q == {q}
    <3>2. Q \in SUBSET folder /\ Q # {} /\ \A x \in Q : parent[x] \in Q
      BY <3>1
    <3> HIDE DEF Q
    <3> QED BY <3>2 DEF NoCycle
  <2> QED BY <2>1, <2>2
<1>6. parent[p] \in X
  BY <1>1, <1>2, <1>4, <1>5
<1>7. q # NoFolder /\ q \in folder /\ parent[p] = parent[q]
  BY <1>6 DEF Offered
<1> DEFINE Y == X \cup {q}
<1>8. Y \in SUBSET folder /\ Y # {} /\ \A x \in Y : parent[x] \in Y
  BY <1>1, <1>2, <1>6, <1>7
<1> HIDE DEF Y
<1> QED BY <1>8 DEF NoCycle

\* A new folder is nobody's parent yet.
LEMMA InsertFolderNoCycle ==
  ASSUME TablesOK, NoCycle(parent, folder), NEW f, NEW p, InsertFolder(f, p)
  PROVE  NoCycle(parent', folder')
<1> USE FolderAssumption DEF InsertFolder, TablesOK, TablesType, Integrity
<1> SUFFICES ASSUME NEW X \in SUBSET folder', X # {}, \A x \in X : parent'[x] \in X
             PROVE  FALSE
  BY DEF NoCycle
<1>1. \A x \in X \ {f} : parent[x] \in X \ {f}
  OBVIOUS
<1>2. X \ {f} # {}
  OBVIOUS
<1> QED BY <1>1, <1>2 DEF NoCycle

\* Deleting a row only makes parents NULL.
LEMMA DeleteFolderNoCycle ==
  ASSUME TablesOK, NoCycle(parent, folder), NEW f \in Folder, DeleteFolder(f)
  PROVE  NoCycle(parent', folder')
<1> USE FolderAssumption DEF DeleteFolder, TablesOK, TablesType, Integrity
<1> SUFFICES ASSUME NEW X \in SUBSET folder', X # {}, \A x \in X : parent'[x] \in X
             PROVE  FALSE
  BY DEF NoCycle
<1>1. \A x \in X : parent[x] \in X
  OBVIOUS
<1> QED BY <1>1 DEF NoCycle

-----------------------------------------------------------------------------
(* What a request has in hand.                                             *)

LocalsOK == LocalsType /\ InHand

\* The labels are distinct strings; requests and pages never overlap.
LEMMA Labels ==
  /\ "idle" \notin Pages \cup Running
  /\ MergeStatements \subseteq Running
  /\ Chains \subseteq Running
BY DEF Pages, Running, MergeStatements, Chains

\* The end of a request leaves every local well-typed.
LEMMA FinishOK ==
  ASSUME LocalsOK, NEW s \in Session, Finish(s)
  PROVE  LocalsOK'
BY TreeAssumption, FolderAssumption
   DEF LocalsOK, LocalsType, InHand, Finish, Goto, Empty, Pages, Running, MergeStatements

\* So does going on to a later statement of a merge.
LEMMA MergeThenOK ==
  ASSUME LocalsOK, NEW s \in Session, pc[s] \in MergeStatements,
         NEW label \in MergeStatements, Then(s, label)
  PROVE  LocalsOK'
<1> USE DEF LocalsOK, Then, Goto, locals
<1>1. LocalsType'
  BY DEF LocalsType, Running
<1>2. InHand'
  BY DEF LocalsType, InHand, MergeStatements
<1> QED BY <1>1, <1>2

\* And rendering a page with folders on it.
LEMMA ShowOK ==
  ASSUME LocalsOK, NEW s \in Session, NEW op,
         NEW page \in {"addPage", "editPage", "deletePage", "refsPage"},
         NEW f \in Folder \cup {NoFolder}, NEW p \in Folder \cup {NoFolder}, NEW ids \in SUBSET Folder,
         page \in {"editPage", "refsPage"} => f \in Folder,
         Show(s, op, page, f, p, ids)
  PROVE  LocalsOK'
<1> USE DEF LocalsOK, Show, Goto, tables
<1>1. LocalsType'
  BY DEF LocalsType, Pages
<1>2. InHand'
  BY DEF LocalsType, InHand, MergeStatements
<1> QED BY <1>1, <1>2

\* Loading a folder object keeps the cache well-typed.
LEMMA LoadOK ==
  ASSUME TablesOK, LocalsType, NEW s \in Session, NEW f \in Folder, Load(s, f)
  PROVE  /\ cache' \in [Session -> [Folder -> Folder \cup {NoFolder, NotRead}]]
         /\ \A t \in Session \ {s} : cache'[t] = cache[t]
         /\ \A g \in Folder : cache'[s][g] = IF g = f /\ cache[s][f] = NotRead THEN parent[f]
                                             ELSE cache[s][g]
<1> USE DEF TablesOK, TablesType, LocalsType
<1> DEFINE c == [cache[s] EXCEPT ![f] = IF cache[s][f] = NotRead THEN parent[f] ELSE cache[s][f]]
<1>0. cache[s] \in [Folder -> Folder \cup {NoFolder, NotRead}] /\ parent[f] \in Folder \cup {NoFolder}
  OBVIOUS
<1>1. c \in [Folder -> Folder \cup {NoFolder, NotRead}]
  BY <1>0
<1>2. \A g \in Folder : c[g] = IF g = f /\ cache[s][f] = NotRead THEN parent[f] ELSE cache[s][g]
  BY <1>0
<1>3. cache' = [cache EXCEPT ![s] = c]
  BY DEF Load
<1> HIDE DEF c
<1> QED BY <1>1, <1>2, <1>3

-----------------------------------------------------------------------------
\* Adding and editing folders.
LEMMA EditTypeOK ==
  ASSUME TypeOK, NEW s \in Session, Edit(s)
  PROVE  TypeOK'
<1> USE FolderAssumption, TreeAssumption
<1>0. TablesOK /\ LocalsOK /\ folder \subseteq Folder
  BY DEF TypeOK, LocalsOK, TablesOK, TablesType
<1>1. CASE OpenAdd(s)
  <2>1. PICK p \in folder \cup {NoFolder} : Show(s, "add", "addPage", NoFolder, p, {})
    BY <1>1 DEF OpenAdd
  <2>2. LocalsOK'
    BY <1>0, <2>1, ShowOK
  <2>3. TablesOK'
    BY <1>0, <2>1 DEF Show, tables, TablesOK, TablesType, Integrity
  <2> QED BY <2>2, <2>3 DEF TypeOK, LocalsOK
<1>2. CASE SubmitAdd(s)
  <2>1. TablesOK'
    BY <1>0, <1>2, InsertFolderOK DEF SubmitAdd
  <2> QED BY <1>0, <1>2, <2>1, FinishOK DEF SubmitAdd, TypeOK, LocalsOK
<1>3. CASE OpenEdit(s)
  <2>0. PICK f \in folder :
          \E p \in ParentOptions(f) \cup {NoFolder} : Show(s, "edit", "editPage", f, p, {})
    BY <1>3 DEF OpenEdit
  <2>1. PICK p \in ParentOptions(f) \cup {NoFolder} : Show(s, "edit", "editPage", f, p, {})
    BY <2>0
  <2>2. p \in Folder \cup {NoFolder} /\ f \in Folder
    BY <1>0, <2>1 DEF ParentOptions
  <2>3. LocalsOK'
    BY <1>0, <2>1, <2>2, ShowOK
  <2>4. TablesOK'
    BY <1>0, <2>1 DEF Show, tables, TablesOK, TablesType, Integrity
  <2> QED BY <2>3, <2>4 DEF TypeOK, LocalsOK
<1>4. CASE SubmitEdit(s)
  <2>1. self[s] \in Folder /\ dest[s] \in Folder \cup {NoFolder}
    BY <1>0, <1>4 DEF SubmitEdit, LocalsOK, LocalsType, InHand
  <2>2. TablesOK'
    BY <1>0, <1>4, <2>1, UpdateParentOK DEF SubmitEdit
  <2> QED BY <1>0, <1>4, <2>2, FinishOK DEF SubmitEdit, TypeOK, LocalsOK
<1> QED BY <1>1, <1>2, <1>3, <1>4 DEF Edit

\* Deleting folders.
LEMMA DeleteTypeOK ==
  ASSUME TypeOK, NEW s \in Session, Delete(s)
  PROVE  TypeOK'
<1> USE FolderAssumption, TreeAssumption
<1>0. TablesOK /\ LocalsOK /\ folder \subseteq Folder
  BY DEF TypeOK, LocalsOK, TablesOK, TablesType
<1>1. CASE OpenDelete(s)
  <2>1. PICK ids \in SUBSET folder : Show(s, "delete", "deletePage", NoFolder, NoFolder, ids)
    BY <1>1 DEF OpenDelete
  <2>2. LocalsOK'
    BY <1>0, <2>1, ShowOK
  <2>3. TablesOK'
    BY <1>0, <2>1 DEF Show, tables, TablesOK, TablesType, Integrity
  <2> QED BY <2>2, <2>3 DEF TypeOK, LocalsOK
<1>2. CASE Unlink(s)
  <2>1. TablesOK'
    BY <1>0, <1>2 DEF Unlink, TablesOK, TablesType, Integrity
  <2>2. LocalsType'
    BY <1>0, <1>2 DEF Unlink, Goto, LocalsOK, LocalsType, Running
  <2>3. InHand'
    BY <1>0, <1>2 DEF Unlink, Goto, LocalsOK, LocalsType, InHand, MergeStatements
  <2> QED BY <2>1, <2>2, <2>3 DEF TypeOK
<1>3. CASE Drop(s)
  <2>1. self[s] \in Folder
    BY <1>0, <1>3 DEF Drop, LocalsOK, InHand
  <2>2. TablesOK'
    BY <1>0, <1>3, <2>1, DeleteFolderOK DEF Drop
  <2>3. CASE Finish(s)
    BY <1>0, <2>2, <2>3, FinishOK DEF TypeOK, LocalsOK
  <2>4. CASE ~Finish(s)
    <3>1. /\ Goto(s, "unlink")
          /\ todo' = [todo EXCEPT ![s] = todo[s] \ {self[s]}]
          /\ UNCHANGED <<self, dest, item, cache, at, seen>>
      BY <1>3, <2>4 DEF Drop
    <3>2. LocalsType'
      BY <1>0, <3>1 DEF Goto, LocalsOK, LocalsType, Running
    <3>3. InHand'
      BY <1>0, <3>1 DEF Goto, LocalsOK, LocalsType, InHand, MergeStatements
    <3> QED BY <2>2, <3>2, <3>3 DEF TypeOK
  <2> QED BY <2>3, <2>4
<1> QED BY <1>1, <1>2, <1>3 DEF Delete
-----------------------------------------------------------------------------
\* Reading the parent chains, and the move they lead to.
LEMMA WalkTypeOK ==
  ASSUME TypeOK, NEW s \in Session,
         Move(s) \/ StartMerge(s) \/ LoadDest(s) \/ Climb(s) \/ CheckMergeDest(s) \/ CheckMergeSource(s)
  PROVE  TypeOK'
<1> USE FolderAssumption, TreeAssumption
<1>0. TablesOK /\ LocalsOK /\ LocalsType /\ folder \subseteq Folder /\ purged \subseteq Folder
  BY DEF TypeOK, LocalsOK, TablesOK, TablesType
<1>1. ASSUME UNCHANGED tables PROVE TablesOK'
  BY <1>0, <1>1 DEF tables, TablesOK, TablesType, Integrity
<1>2. ASSUME NEW op, NEW next \in {"moveWrite", "moveDest", "mergeDest"},
             NEW f \in Folder, NEW d \in Folder \cup {NoFolder},
             next # "moveWrite" => d \in Folder,
             StartRequest(s, op, next, f, d)
      PROVE  TypeOK'
  <2>1. LocalsType'
    BY <1>0, <1>2, LoadOK DEF StartRequest, Goto, LocalsType, Running
  <2>2. InHand'
    BY <1>0, <1>2 DEF StartRequest, Goto, LocalsOK, LocalsType, InHand, MergeStatements
  <2> QED BY <1>1, <1>2, <2>1, <2>2 DEF StartRequest, TypeOK
<1>3. CASE StartMove(s)
  <2>1. PICK f \in folder, d \in folder \cup purged \cup {NoFolder} :
          StartRequest(s, "move", IF d = NoFolder THEN "moveWrite" ELSE "moveDest", f, d)
    BY <1>3 DEF StartMove
  <2>2. CASE d = NoFolder
    BY <1>0, <1>2, <2>1, <2>2
  <2>3. CASE d # NoFolder
    BY <1>0, <1>2, <2>1, <2>3
  <2> QED BY <2>2, <2>3
<1>4. CASE StartMerge(s)
  <2>1. PICK f \in folder, d \in folder \cup purged : StartRequest(s, "merge", "mergeDest", f, d)
    BY <1>4 DEF StartMerge
  <2> QED BY <1>0, <1>2, <2>1
<1>5. CASE LoadDest(s)
  <2>1. CASE dest[s] \notin folder
    BY <1>0, <1>1, <1>5, <2>1, FinishOK DEF LoadDest, TypeOK, LocalsOK
  <2>2. CASE dest[s] \in folder
    <3>1. /\ Load(s, dest[s])
          /\ at' = [at EXCEPT ![s] = dest[s]]
          /\ seen' = [seen EXCEPT ![s] = {dest[s]}]
          /\ Goto(s, IF pc[s] = "moveDest" THEN "moveChain" ELSE "mergeDestChain")
          /\ pc[s] \in {"moveDest", "mergeDest"}
          /\ UNCHANGED <<self, dest, item, todo>>
          /\ UNCHANGED tables
      BY <1>5, <2>2 DEF LoadDest
    <3>2. dest[s] \in Folder
      BY <1>0, <2>2
    <3>3. LocalsType'
      BY <1>0, <3>1, <3>2, LoadOK DEF Goto, LocalsType, Running
    <3>4. InHand'
      BY <1>0, <3>1 DEF Goto, LocalsOK, LocalsType, InHand, MergeStatements
    <3> QED BY <1>1, <3>1, <3>3, <3>4 DEF TypeOK
  <2> QED BY <2>1, <2>2
<1>6. CASE Climb(s)
  <2> DEFINE p == cache[s][at[s]]
  <2>1. p \in Folder /\ UNCHANGED <<tables, pc, self, dest, item, todo>>
    BY <1>6 DEF Climb, Climbs
  <2>2. CASE cache[s][p] # NotRead \/ p \in folder
    <3>1. /\ Load(s, p)
          /\ at' = [at EXCEPT ![s] = p]
          /\ seen' = [seen EXCEPT ![s] = @ \cup {p}]
      BY <1>6, <2>2 DEF Climb
    <3>2. LocalsType'
      BY <1>0, <2>1, <3>1, LoadOK DEF LocalsType
    <3> QED BY <1>0, <1>1, <2>1, <3>2 DEF TypeOK, LocalsOK, InHand
  <2>3. CASE ~(cache[s][p] # NotRead \/ p \in folder)
    <3>1. at' = [at EXCEPT ![s] = NoFolder] /\ UNCHANGED <<cache, seen>>
      BY <1>6, <2>3 DEF Climb
    <3>2. LocalsType'
      BY <1>0, <2>1, <3>1 DEF LocalsType
    <3> QED BY <1>0, <1>1, <2>1, <3>2 DEF TypeOK, LocalsOK, InHand
  <2> QED BY <2>2, <2>3
<1>7. ASSUME NEW label \in {"moveWrite", "children"}, Passed(s, label), UNCHANGED tables,
             pc[s] \in {"moveChain", "mergeSourceChain"}
      PROVE  TypeOK'
  <2>1. LocalsType'
    BY <1>0, <1>7 DEF Passed, Goto, Empty, LocalsType, Running, MergeStatements
  <2>2. InHand'
    BY <1>0, <1>7 DEF Passed, Goto, LocalsOK, LocalsType, InHand, MergeStatements
  <2> QED BY <1>1, <1>7, <2>1, <2>2 DEF TypeOK
<1>8. CASE CheckMove(s)
  BY <1>0, <1>1, <1>7, <1>8, FinishOK DEF CheckMove, ChainRead, TypeOK, LocalsOK
<1>9. CASE CheckMergeDest(s)
  <2>1. CASE self[s] \in seen[s]
    BY <1>0, <1>1, <1>9, <2>1, FinishOK DEF CheckMergeDest, ChainRead, TypeOK, LocalsOK
  <2>2. CASE self[s] \notin seen[s]
    <3>1. /\ pc[s] = "mergeDestChain" /\ UNCHANGED tables
          /\ Goto(s, "mergeSourceChain")
          /\ at' = [at EXCEPT ![s] = self[s]]
          /\ seen' = [seen EXCEPT ![s] = {self[s]}]
          /\ UNCHANGED <<self, dest, item, todo, cache>>
      BY <1>9, <2>2 DEF CheckMergeDest, ChainRead
    <3>2. self[s] \in Folder
      BY <1>0, <3>1 DEF LocalsOK, InHand
    <3>3. LocalsType'
      BY <1>0, <3>1, <3>2 DEF Goto, LocalsType, Running
    <3>4. InHand'
      BY <1>0, <3>1 DEF Goto, LocalsOK, LocalsType, InHand, MergeStatements
    <3> QED BY <1>1, <3>1, <3>3, <3>4 DEF TypeOK
  <2> QED BY <2>1, <2>2
<1>10. CASE CheckMergeSource(s)
  BY <1>0, <1>1, <1>7, <1>10, FinishOK DEF CheckMergeSource, ChainRead, TypeOK, LocalsOK
<1>11. CASE WriteMove(s)
  <2>1. self[s] \in Folder /\ dest[s] \in Folder \cup {NoFolder}
    BY <1>0, <1>11 DEF WriteMove, LocalsOK, LocalsType, InHand
  <2>2. TablesOK'
    BY <1>0, <1>11, <2>1, UpdateParentOK DEF WriteMove
  <2> QED BY <1>0, <1>11, <2>2, FinishOK DEF WriteMove, TypeOK, LocalsOK
<1> QED BY <1>3, <1>4, <1>5, <1>6, <1>8, <1>9, <1>10, <1>11 DEF Move
-----------------------------------------------------------------------------
\* The statements of a merge.
MergeWrites(s) ==
  \/ MergeChildren(s) \/ MergeDedupe(s) \/ MergeWorks(s)
  \/ MergeReferenceSources(s) \/ MergeReferenceTargets(s)
  \/ MergeHistory(s) \/ MergeRecord(s) \/ MergePurge(s)

\* Each statement of a merge keeps types and keys.
LEMMA MergeTypeOK ==
  ASSUME TypeOK, NEW s \in Session, MergeWrites(s)
  PROVE  TypeOK'
<1> USE FolderAssumption, TreeAssumption
<1>0. TablesOK /\ LocalsOK /\ folder \subseteq Folder
  BY DEF TypeOK, LocalsOK, TablesOK, TablesType
<1>1. pc[s] \in MergeStatements
  BY DEF MergeWrites, MergeChildren, MergeDedupe, MergeWorks, MergeReferenceSources,
         MergeReferenceTargets, MergeHistory, MergeRecord, MergePurge, MergeStatements
<1>2. self[s] \in Folder /\ dest[s] \in Folder
  BY <1>0, <1>1 DEF LocalsOK, InHand
<1>3. ASSUME NEW label \in MergeStatements, Then(s, label), TablesOK' PROVE TypeOK'
  BY <1>0, <1>1, <1>3, MergeThenOK DEF TypeOK, LocalsOK
<1>4. {"children", "dedupe", "works", "refFrom", "refTo", "rehist", "hist", "purge"} \subseteq MergeStatements
  BY DEF MergeStatements
<1>5. CASE MergeChildren(s)
  <2>1. TablesOK' /\ Then(s, "dedupe")
    BY <1>0, <1>2, <1>5, MoveChildrenOK DEF MergeChildren
  <2> QED BY <1>3, <1>4, <2>1
<1>6. CASE MergeDedupe(s)
  <2>1. TablesOK' /\ Then(s, "works")
    BY <1>0, <1>6 DEF MergeDedupe, TablesOK, TablesType, Integrity
  <2> QED BY <1>3, <1>4, <2>1
<1>7. CASE MergeWorks(s)
  <2>1. workFolder \in SUBSET (Work \X Folder) /\ \A p \in workFolder : p[2] \in folder
    BY <1>0 DEF TablesOK, TablesType, Integrity
  <2>2. workFolder' \in SUBSET (Work \X Folder) /\ \A p \in workFolder' : p[2] \in folder
    BY <1>2, <1>7, <2>1, RenameSecondOK DEF MergeWorks
  <2>3. TablesOK' /\ Then(s, "refFrom")
    BY <1>0, <1>7, <2>2 DEF MergeWorks, TablesOK, TablesType, Integrity
  <2> QED BY <1>3, <1>4, <2>3
<1>8. CASE MergeReferenceSources(s)
  <2>1. reference \in SUBSET (Folder \X Folder) /\ \A p \in reference : p[1] \in folder /\ p[2] \in folder
    BY <1>0 DEF TablesOK, TablesType, Integrity
  <2>2. reference' \in SUBSET (Folder \X Folder) /\ \A p \in reference' : p[1] \in folder /\ p[2] \in folder
    BY <1>2, <1>8, <2>1, RenameFirstOK DEF MergeReferenceSources
  <2>3. TablesOK' /\ Then(s, "refTo")
    BY <1>0, <1>8, <2>2 DEF MergeReferenceSources, TablesOK, TablesType, Integrity
  <2> QED BY <1>3, <1>4, <2>3
<1>9. CASE MergeReferenceTargets(s)
  <2>1. reference \in SUBSET (Folder \X Folder) /\ \A p \in reference : p[1] \in folder /\ p[2] \in folder
    BY <1>0 DEF TablesOK, TablesType, Integrity
  <2>2. reference' \in SUBSET (Folder \X Folder) /\ \A p \in reference' : p[2] \in folder
    BY <1>2, <1>9, <2>1, RenameSecondOK DEF MergeReferenceTargets
  <2>4. \A p \in reference' : p[1] \in folder
    BY <1>9, <2>1, RenameSecondFirst DEF MergeReferenceTargets
  <2>3. TablesOK' /\ Then(s, "rehist")
    BY <1>0, <1>9, <2>2, <2>4 DEF MergeReferenceTargets, TablesOK, TablesType, Integrity
  <2> QED BY <1>3, <1>4, <2>3
<1>10. CASE MergeHistory(s)
  <2>1. /\ history \in SUBSET (Folder \X Folder)
        /\ \A p \in history : p[2] \in folder
    BY <1>0 DEF TablesOK, TablesType, Integrity
  <2>2. history' \in SUBSET (Folder \X Folder) /\ \A p \in history' : p[2] \in folder
    BY <1>2, <1>10, <2>1, RenameSecondOK DEF MergeHistory
  <2>3. TablesOK' /\ Then(s, "hist")
    BY <1>0, <1>10, <2>1, <2>2 DEF MergeHistory, TablesOK, TablesType, Integrity
  <2> QED BY <1>3, <1>4, <2>3
<1>11. CASE MergeRecord(s)
  <2>1. TablesOK' /\ Then(s, "purge")
    BY <1>0, <1>2, <1>11 DEF MergeRecord, InsertHistoryFails, TablesOK, TablesType, Integrity
  <2> QED BY <1>3, <1>4, <2>1
<1>12. CASE MergePurge(s)
  <2>1. TablesOK'
    BY <1>0, <1>2, <1>12, DeleteFolderOK DEF MergePurge
  <2> QED BY <1>0, <1>12, <2>1, FinishOK DEF MergePurge, TypeOK, LocalsOK
<1> QED BY <1>5, <1>6, <1>7, <1>8, <1>9, <1>10, <1>11, <1>12 DEF MergeWrites

-----------------------------------------------------------------------------
\* The references page and the category tab.
LEMMA ReferencesTypeOK ==
  ASSUME TypeOK, NEW s \in Session, References(s)
  PROVE  TypeOK'
<1> USE FolderAssumption, TreeAssumption
<1>0. TablesOK /\ LocalsOK /\ folder \subseteq Folder
  BY DEF TypeOK, LocalsOK, TablesOK, TablesType
<1>1. CASE OpenReferences(s)
  <2>1. PICK f \in folder : \E ids \in SUBSET folder : \E twice \in ids \cup {NoFolder} :
          Show(s, "refs", "refsPage", f, twice, ids)
    BY <1>1 DEF OpenReferences
  <2>2. PICK ids \in SUBSET folder : \E twice \in ids \cup {NoFolder} :
          Show(s, "refs", "refsPage", f, twice, ids)
    BY <2>1
  <2>3. PICK twice \in ids \cup {NoFolder} : Show(s, "refs", "refsPage", f, twice, ids)
    BY <2>2
  <2>4. LocalsOK'
    BY <1>0, <2>3, ShowOK
  <2>5. TablesOK'
    BY <1>0, <2>3 DEF Show, tables, TablesOK, TablesType, Integrity
  <2> QED BY <2>4, <2>5 DEF TypeOK, LocalsOK
<1>2. CASE DropReferences(s)
  <2>1. TablesOK'
    BY <1>0, <1>2 DEF DropReferences, TablesOK, TablesType, Integrity
  <2>2. LocalsType'
    BY <1>0, <1>2 DEF DropReferences, Then, Goto, locals, LocalsOK, LocalsType, Running
  <2>3. InHand'
    BY <1>0, <1>2 DEF DropReferences, Then, Goto, locals, LocalsOK, LocalsType, InHand, MergeStatements
  <2> QED BY <2>1, <2>2, <2>3 DEF TypeOK
<1>3. CASE AddReference(s)
  <2>1. PICK g \in todo[s] :
          /\ ~ReferenceFails(s, g)
          /\ reference' = reference \cup {<<self[s], g>>}
          /\ IF g = dest[s]
             THEN dest' = [dest EXCEPT ![s] = NoFolder] /\ UNCHANGED todo
             ELSE todo' = [todo EXCEPT ![s] = @ \ {g}] /\ UNCHANGED dest
    BY <1>3 DEF AddReference
  <2>2. /\ UNCHANGED <<folder, purged, parent, workFolder, history, pc, self, item, cache, at, seen>>
        /\ pc[s] = "addRefs"
    BY <1>3 DEF AddReference
  <2>3. TablesOK'
    BY <1>0, <2>1, <2>2 DEF ReferenceFails, TablesOK, TablesType, Integrity
  <2>4. LocalsType'
    <3>1. dest' \in [Session -> Folder \cup {NoFolder}] /\ todo' \in [Session -> SUBSET Folder]
      <4>1. CASE g = dest[s]
        BY <1>0, <2>1, <4>1 DEF LocalsOK, LocalsType
      <4>2. CASE g # dest[s]
        BY <1>0, <2>1, <4>2 DEF LocalsOK, LocalsType
      <4> QED BY <4>1, <4>2
    <3> QED BY <1>0, <2>2, <3>1 DEF LocalsOK, LocalsType
  <2>5. \A t \in Session \ {s} : dest'[t] = dest[t]
    BY <1>0, <2>1 DEF LocalsOK, LocalsType
  <2>6. InHand'
    BY <1>0, <2>2, <2>5 DEF LocalsOK, InHand, MergeStatements
  <2> QED BY <2>3, <2>4, <2>6 DEF TypeOK
<1> QED BY <1>1, <1>2, <1>3 DEF References

\* So does the category tab of a work.
LEMMA ClassifyTypeOK ==
  ASSUME TypeOK, NEW s \in Session, Classify(s)
  PROVE  TypeOK'
<1> USE FolderAssumption, TreeAssumption
<1>0. TablesOK /\ LocalsOK /\ folder \subseteq Folder
  BY DEF TypeOK, LocalsOK, TablesOK, TablesType
<1>1. CASE OpenClassify(s)
  <2>1. PICK w \in Work, ids \in SUBSET folder :
          /\ Goto(s, "classifyPage")
          /\ item' = [item EXCEPT ![s] = w]
          /\ todo' = [todo EXCEPT ![s] = ids]
          /\ UNCHANGED <<tables, self, dest, cache, at, seen>>
    BY <1>1 DEF OpenClassify
  <2>2. TablesOK'
    BY <1>0, <2>1 DEF tables, TablesOK, TablesType, Integrity
  <2>3. LocalsType'
    BY <1>0, <2>1 DEF Goto, LocalsOK, LocalsType, Pages
  <2>4. InHand'
    BY <1>0, <2>1 DEF Goto, LocalsOK, LocalsType, InHand, MergeStatements
  <2> QED BY <2>2, <2>3, <2>4 DEF TypeOK
<1>2. CASE DropAllFolders(s)
  <2>1. TablesOK'
    BY <1>0, <1>2 DEF DropAllFolders, TablesOK, TablesType, Integrity
  <2>2. LocalsType'
    BY <1>0, <1>2 DEF DropAllFolders, Then, Goto, locals, LocalsOK, LocalsType, Running
  <2>3. InHand'
    BY <1>0, <1>2 DEF DropAllFolders, Then, Goto, locals, LocalsOK, LocalsType, InHand, MergeStatements
  <2> QED BY <2>1, <2>2, <2>3 DEF TypeOK
<1>3. CASE AddWork(s) \/ RemoveWork(s)
  <2>1. PICK f \in todo[s] :
          /\ \/ f \in folder /\ workFolder' = workFolder \cup {<<item[s], f>>}
             \/ workFolder' = workFolder \ {<<item[s], f>>}
          /\ todo' = [todo EXCEPT ![s] = @ \ {f}]
          /\ seen' \in {seen, [seen EXCEPT ![s] = @ \cup {f}]}
    BY <1>3 DEF AddWork, RemoveWork
  <2>2. /\ UNCHANGED <<folder, purged, parent, reference, history, pc, self, dest, item, cache, at>>
        /\ pc[s] \in {"addWorks", "removeWorks"}
    BY <1>3 DEF AddWork, RemoveWork
  <2>3. item[s] \in Work
    BY <1>0, <2>2 DEF LocalsOK, InHand
  <2>4. TablesOK'
    BY <1>0, <2>1, <2>2, <2>3 DEF TablesOK, TablesType, Integrity
  <2>5. LocalsType'
    BY <1>0, <2>1, <2>2 DEF LocalsOK, LocalsType
  <2> QED BY <1>0, <2>2, <2>4, <2>5 DEF TypeOK, LocalsOK, InHand
<1>4. CASE PickRemovals(s)
  <2>1. PICK ids \in SUBSET Folder : todo' = [todo EXCEPT ![s] = ids]
    BY <1>0, <1>4 DEF PickRemovals, LocalsOK, LocalsType
  <2>2. /\ pc[s] = "addWorks" /\ Goto(s, "removeWorks")
        /\ UNCHANGED <<tables, self, dest, item, cache, at, seen>>
    BY <1>4 DEF PickRemovals
  <2>3. TablesOK'
    BY <1>0, <2>2 DEF tables, TablesOK, TablesType, Integrity
  <2>4. LocalsType'
    BY <1>0, <2>1, <2>2 DEF Goto, LocalsOK, LocalsType, Running
  <2>5. InHand'
    BY <1>0, <2>2 DEF Goto, LocalsOK, LocalsType, InHand, MergeStatements
  <2> QED BY <2>3, <2>4, <2>5 DEF TypeOK
<1> QED BY <1>1, <1>2, <1>3, <1>4 DEF Classify

-----------------------------------------------------------------------------
\* A request that ends without writing.
Ends(s) == EndLoop(s) \/ HandleError(s) \/ Abandon(s) \/ Crash(s)

\* So does every way a request can end.
LEMMA EndsTypeOK ==
  ASSUME TypeOK, NEW s \in Session, Ends(s)
  PROVE  TypeOK'
<1>1. Finish(s) /\ UNCHANGED tables
  BY DEF Ends, EndLoop, HandleError, Abandon, Crash
<1>2. TablesOK'
  BY <1>1 DEF TypeOK, tables, TablesOK, TablesType, Integrity
<1>3. LocalsOK'
  BY <1>1, FinishOK DEF TypeOK, LocalsOK
<1> QED BY <1>2, <1>3 DEF TypeOK, LocalsOK

\* What a step of a session can be.
LEMMA StepCases ==
  ASSUME NEW s \in Session, Step(s)
  PROVE  \/ Edit(s) \/ Delete(s) \/ MergeWrites(s) \/ References(s) \/ Classify(s) \/ Ends(s)
         \/ Move(s) \/ StartMerge(s) \/ LoadDest(s) \/ Climb(s)
         \/ CheckMergeDest(s) \/ CheckMergeSource(s)
BY DEF Step, Merge, MergeWrites, Ends

\* The program starts well-typed ...
LEMMA InitTypeOK == Init => TypeOK
<1> SUFFICES ASSUME Init PROVE TypeOK
  OBVIOUS
<1>1. TablesOK
  BY TablesInitOK DEF Init
<1>2. LocalsType /\ InHand
  BY FolderAssumption, TreeAssumption DEF Init, Empty, LocalsType, InHand, MergeStatements
<1> QED BY <1>1, <1>2 DEF TypeOK

\* ... and every step of every session keeps it so.
LEMMA NextTypeOK == TypeOK /\ [Next]_vars => TypeOK'
<1> SUFFICES ASSUME TypeOK, [Next]_vars PROVE TypeOK'
  OBVIOUS
<1>1. ASSUME NEW s \in Session, Step(s) PROVE TypeOK'
  BY <1>1, StepCases, EditTypeOK, DeleteTypeOK, MergeTypeOK, ReferencesTypeOK,
     ClassifyTypeOK, EndsTypeOK, WalkTypeOK
<1>2. CASE UNCHANGED vars
  BY <1>2 DEF vars, TypeOK, TablesOK, TablesType, Integrity, LocalsType, InHand
<1> QED BY <1>1, <1>2 DEF Next

\* However many editors work at once and wherever their requests are cut
\* off, all data is well-typed and every key of the schema holds.
THEOREM Typing == Spec => []TypeOK
BY InitTypeOK, NextTypeOK, PTL DEF Spec

=============================================================================
