---------------------------- MODULE SerialProofs ----------------------------
(***************************************************************************)
(* Theorems about a single editor at work (Serial): wherever a request is  *)
(* cut off, the classification stays a forest, merges lose neither works   *)
(* nor bookmarks.  The runs with two editors show that each of them needs  *)
(* the assumption.                                                         *)
(***************************************************************************)
EXTENDS ClassificationProofs

\* A request that has ended has read nothing and promises nothing.
LEMMA FinishInv ==
  ASSUME TypeOK, NEW s \in Session, Finish(s)
  PROVE  RequestInv(s)'
<1>1. pc'[s] = "idle" /\ cache'[s] = Empty
  BY DEF Finish, Goto, TypeOK, LocalsType
<1>2. ChainInv(s)'
  BY <1>1 DEF ChainInv, Chains, Empty
<1>3. CheckedInv(s)' /\ MergeInv(s)'
  BY <1>1 DEF CheckedInv, MergeInv, MergeStatements
<1> QED BY <1>2, <1>3 DEF RequestInv

\* Nor does one in a loop over posted ids, or with a page on the screen,
\* except for what the edit form offers.
LEMMA PlainInv ==
  ASSUME NEW s \in Session,
         pc'[s] \in (Pages \ {"editPage"}) \cup {"unlink", "drop", "addRefs", "addWorks", "removeWorks"}
  PROVE  RequestInv(s)'
BY DEF RequestInv, ChainInv, CheckedInv, MergeInv, Chains, MergeStatements, Pages

\* At the start no request has read or promised anything.
LEMMA InitSerialInv == Init => SerialInv
<1> SUFFICES ASSUME Init PROVE SerialInv
  OBVIOUS
<1>1. TypeOK
  BY InitTypeOK
<1>2. Acyclic
  BY DEF Init, TablesInit, Acyclic
<1>3. ASSUME NEW s \in Session PROVE RequestInv(s)
  BY DEF Init, RequestInv, ChainInv, CheckedInv, MergeInv, Chains, MergeStatements
<1> QED BY <1>1, <1>2, <1>3 DEF SerialInv, Forest

-----------------------------------------------------------------------------
\* Adding and editing: the form offers no descendant.
LEMMA EditInv ==
  ASSUME SerialInv, NEW s \in Session, Edit(s)
  PROVE  Forest' /\ RequestInv(s)'
<1> USE FolderAssumption, TreeAssumption
<1>0. TypeOK /\ TablesOK /\ (PicksSelf \/ NoCycle(parent, folder)) /\ RequestInv(s)
  BY DEF SerialInv, TypeOK, Forest, Acyclic
<1>1. CASE OpenAdd(s)
  <2>1. pc'[s] = "addPage" /\ UNCHANGED <<folder, parent>>
    BY <1>0, <1>1 DEF OpenAdd, Show, Goto, tables, TypeOK, LocalsType
  <2> QED BY <1>0, <2>1, PlainInv DEF Forest, Acyclic, Pages
<1>2. CASE SubmitAdd(s)
  BY <1>0, <1>2, InsertFolderNoCycle, FinishInv DEF SubmitAdd, Forest, Acyclic
<1>3. CASE OpenEdit(s)
  <2>1. PICK f \in folder :
          \E p \in ParentOptions(f) \cup {NoFolder} : Show(s, "edit", "editPage", f, p, {})
    BY <1>3 DEF OpenEdit
  <2>2. PICK p \in ParentOptions(f) \cup {NoFolder} : Show(s, "edit", "editPage", f, p, {})
    BY <2>1
  <2>3. /\ pc'[s] = "editPage" /\ self'[s] = f /\ dest'[s] = p
        /\ UNCHANGED <<folder, parent>>
    BY <1>0, <2>2 DEF Show, Goto, tables, TypeOK, LocalsType
  <2>4. PicksSelf \/ p = NoFolder \/ Offered(f, p)
    BY <2>2 DEF ParentOptions, Offered
  <2>5. RequestInv(s)'
    BY <2>3, <2>4 DEF RequestInv, ChainInv, CheckedInv, MergeInv, Chains, MergeStatements, Offered
  <2> QED BY <1>0, <2>3, <2>5 DEF Forest, Acyclic
<1>4. CASE SubmitEdit(s)
  <2>1. self[s] \in Folder /\ dest[s] \in Folder \cup {NoFolder}
    BY <1>0, <1>4 DEF SubmitEdit, TypeOK, LocalsType, InHand
  <2>2. PicksSelf \/ dest[s] = NoFolder \/ Offered(self[s], dest[s])
    BY <1>0, <1>4 DEF SubmitEdit, RequestInv, CheckedInv
  <2>0. CASE PicksSelf
    BY <1>0, <1>4, <2>0, FinishInv DEF SubmitEdit, Forest
  <2>3. CASE dest[s] = NoFolder
    BY <1>0, <1>4, <2>1, <2>3, UpdateParentNoCycle, FinishInv DEF SubmitEdit, Forest, Acyclic
  <2>4. CASE ~PicksSelf /\ dest[s] # NoFolder
    BY <1>0, <1>4, <2>1, <2>2, <2>4, OfferedNoCycle, FinishInv DEF SubmitEdit, Forest, Acyclic
  <2> QED BY <2>0, <2>3, <2>4
<1> QED BY <1>1, <1>2, <1>3, <1>4 DEF Edit

\* Deleting folders closes no circle.
LEMMA DeleteInv ==
  ASSUME SerialInv, NEW s \in Session, Delete(s)
  PROVE  Forest' /\ RequestInv(s)'
<1> USE FolderAssumption, TreeAssumption
<1>0. TypeOK /\ TablesOK /\ (PicksSelf \/ NoCycle(parent, folder))
  BY DEF SerialInv, TypeOK, Forest, Acyclic
<1>1. CASE OpenDelete(s)
  <2>1. pc'[s] = "deletePage" /\ UNCHANGED <<folder, parent>>
    BY <1>0, <1>1 DEF OpenDelete, Show, Goto, tables, TypeOK, LocalsType
  <2> QED BY <1>0, <2>1, PlainInv DEF Forest, Acyclic, Pages
<1>2. CASE Unlink(s)
  <2>1. pc'[s] = "drop" /\ UNCHANGED <<folder, parent>>
    BY <1>0, <1>2 DEF Unlink, Goto, TypeOK, LocalsType
  <2> QED BY <1>0, <2>1, PlainInv DEF Forest, Acyclic
<1>3. CASE Drop(s)
  <2>1. self[s] \in Folder
    BY <1>0, <1>3 DEF Drop, TypeOK, InHand
  <2>2. Forest'
    BY <1>0, <1>3, <2>1, DeleteFolderNoCycle DEF Drop, Forest, Acyclic
  <2>3. CASE Finish(s)
    BY <1>0, <2>2, <2>3, FinishInv
  <2>4. CASE ~Finish(s)
    <3>1. pc'[s] = "unlink"
      BY <1>0, <1>3, <2>4 DEF Drop, Goto, TypeOK, LocalsType
    <3> QED BY <2>2, <3>1, PlainInv
  <2> QED BY <2>3, <2>4
<1> QED BY <1>1, <1>2, <1>3 DEF Delete
-----------------------------------------------------------------------------
\* Walking up the parents: what has been read is closed under parent but for
\* the current folder, and closed when the loop is left.
LEMMA ChainAvoids ==
  ASSUME TypeOK, NEW s \in Session, ChainInv(s), pc[s] \in {"moveChain", "mergeDestChain"},
         ~Climbs(s), self[s] \notin seen[s]
  PROVE  Avoids(dest[s], self[s])
<1> USE FolderAssumption, TreeAssumption
<1>1. /\ at[s] \in seen[s] /\ seen[s] \subseteq folder /\ dest[s] \in seen[s]
      /\ \A f \in seen[s] : cache[s][f] = parent[f]
      /\ \A f \in seen[s] \ {at[s]} : parent[f] \in seen[s] \cup {NoFolder}
  BY DEF ChainInv, Chains
<1>2. folder \subseteq Folder /\ \A f \in Folder : parent[f] \in folder \cup {NoFolder}
  BY DEF TypeOK, TablesOK, TablesType, Integrity
<1>3. parent[at[s]] \in seen[s] \cup {NoFolder}
  BY <1>1, <1>2 DEF Climbs
<1>4. \A f \in seen[s] : parent[f] \in seen[s] \cup {NoFolder}
  BY <1>1, <1>3
<1> QED BY <1>1, <1>4 DEF Avoids

\* A request of handleMove or processMerge loads the folder it is about.
LEMMA StartInv ==
  ASSUME SerialInv, NEW s \in Session, NEW f \in folder, NEW d \in Folder \cup {NoFolder},
         NEW op, NEW next \in {"moveDest", "mergeDest", "moveWrite"},
         next = "moveWrite" => d = NoFolder, StartRequest(s, op, next, f, d)
  PROVE  RequestInv(s)' /\ UNCHANGED <<folder, parent>>
<1> USE FolderAssumption, TreeAssumption
<1>0. TablesOK /\ LocalsType /\ ChainInv(s) /\ f \in Folder
  BY DEF SerialInv, TypeOK, RequestInv, TablesOK, TablesType
<1>1. pc'[s] = next /\ self'[s] = f /\ dest'[s] = d /\ UNCHANGED <<folder, parent>>
  BY <1>0 DEF StartRequest, Goto, LocalsType, tables
<1>2. \A g \in Folder : cache'[s][g] = IF g = f THEN parent[f] ELSE NotRead
  <2>1. \A g \in Folder : cache[s][g] = NotRead
    BY <1>0 DEF StartRequest, ChainInv, Empty
  <2>2. \A g \in Folder : cache'[s][g] = IF g = f /\ cache[s][f] = NotRead THEN parent[f]
                                          ELSE cache[s][g]
    BY <1>0, LoadOK DEF StartRequest
  <2> QED BY <2>1, <2>2, <1>0
<1>3. ChainInv(s)'
  BY <1>0, <1>1, <1>2 DEF ChainInv, Chains
<1>4. CheckedInv(s)' /\ MergeInv(s)'
  BY <1>1 DEF CheckedInv, MergeInv, MergeStatements
<1> QED BY <1>1, <1>3, <1>4 DEF RequestInv

\* The destination is loaded: the chain begins with it.
LEMMA LoadDestInv ==
  ASSUME SerialInv, NEW s \in Session, LoadDest(s)
  PROVE  RequestInv(s)' /\ UNCHANGED <<folder, parent>>
<1> USE FolderAssumption, TreeAssumption
<1>0. TypeOK /\ TablesOK /\ LocalsType /\ ChainInv(s) /\ dest[s] \in Folder /\ self[s] \in Folder
  BY DEF SerialInv, TypeOK, RequestInv, LoadDest, InHand
<1>1. UNCHANGED <<folder, parent>>
  BY DEF LoadDest, tables
<1>2. CASE dest[s] \notin folder
  BY <1>0, <1>1, <1>2, FinishInv DEF LoadDest
<1>3. CASE dest[s] \in folder
  <2>1. /\ pc'[s] = (IF pc[s] = "moveDest" THEN "moveChain" ELSE "mergeDestChain")
        /\ at'[s] = dest[s] /\ seen'[s] = {dest[s]}
        /\ self'[s] = self[s] /\ dest'[s] = dest[s] /\ Load(s, dest[s])
        /\ pc[s] \in {"moveDest", "mergeDest"}
    BY <1>0, <1>3 DEF LoadDest, Goto, LocalsType
  <2>2. \A g \in Folder : cache'[s][g] = IF g = dest[s] /\ cache[s][dest[s]] = NotRead
                                            THEN parent[dest[s]] ELSE cache[s][g]
    BY <1>0, <2>1, LoadOK
  <2>3. /\ \A g \in Folder : cache[s][g] \in {NotRead, parent[g]}
        /\ pc[s] = "mergeDest" => self[s] \in folder /\ cache[s][self[s]] = parent[self[s]]
    BY <1>0, <2>1 DEF ChainInv
  <2>4. parent[self[s]] # NotRead
    BY <1>0 DEF TablesOK, TablesType
  <2>5. /\ \A g \in Folder : cache'[s][g] \in {NotRead, parent[g]}
        /\ cache'[s][dest[s]] = parent[dest[s]]
        /\ pc[s] = "mergeDest" => cache'[s][self[s]] = parent[self[s]]
    BY <1>0, <2>2, <2>3, <2>4
  <2>6. ChainInv(s)'
    BY <1>0, <1>1, <1>3, <2>1, <2>3, <2>5 DEF ChainInv, Chains
  <2>7. CheckedInv(s)' /\ MergeInv(s)'
    BY <2>1 DEF CheckedInv, MergeInv, MergeStatements
  <2> QED BY <1>1, <2>6, <2>7 DEF RequestInv
<1> QED BY <1>2, <1>3

\* One round of Folder::getParentChain.
LEMMA ClimbInv ==
  ASSUME SerialInv, NEW s \in Session, Climb(s)
  PROVE  RequestInv(s)' /\ UNCHANGED <<folder, parent>>
<1> USE FolderAssumption, TreeAssumption
<1> DEFINE p == cache[s][at[s]]
           start == IF pc[s] = "mergeSourceChain" THEN self[s] ELSE dest[s]
<1>0. TypeOK /\ TablesOK /\ LocalsType /\ ChainInv(s) /\ CheckedInv(s)
  BY DEF SerialInv, TypeOK, RequestInv
<1>1. UNCHANGED <<folder, parent, pc, self, dest>> /\ pc[s] \in Chains
  BY DEF Climb, tables
<1>2. folder \subseteq Folder /\ \A f \in Folder : parent[f] \in folder \cup {NoFolder}
  BY <1>0 DEF TablesOK, TablesType, Integrity
<1>3. /\ at[s] \in seen[s] /\ seen[s] \subseteq folder /\ start \in seen[s]
      /\ \A f \in seen[s] : cache[s][f] = parent[f]
      /\ \A f \in seen[s] \ {at[s]} : parent[f] \in seen[s] \cup {NoFolder}
  BY <1>0, <1>1 DEF ChainInv
<1>4. \A f \in Folder : cache[s][f] \in {NotRead, parent[f]}
  BY <1>0, <1>1 DEF ChainInv
<1>5. p = parent[at[s]] /\ p \in folder \ seen[s]
  BY <1>1, <1>2, <1>3 DEF Climb, Climbs
<1>6. /\ Load(s, p)
      /\ at' = [at EXCEPT ![s] = p]
      /\ seen' = [seen EXCEPT ![s] = @ \cup {p}]
  BY <1>5 DEF Climb
<1>7. at'[s] = p /\ seen'[s] = seen[s] \cup {p}
  BY <1>0, <1>6 DEF LocalsType
<1>8. \A g \in Folder : cache'[s][g] = IF g = p /\ cache[s][p] = NotRead THEN parent[p]
                                       ELSE cache[s][g]
  BY <1>0, <1>2, <1>5, <1>6, LoadOK
<1> HIDE DEF p
<1>9. /\ \A g \in Folder : cache'[s][g] \in {NotRead, parent[g]}
      /\ \A f \in seen'[s] : cache'[s][f] = parent[f]
      /\ \A g \in Folder : cache[s][g] # NotRead => cache'[s][g] = cache[s][g]
  BY <1>2, <1>3, <1>4, <1>5, <1>7, <1>8
<1>10. \A f \in seen'[s] \ {at'[s]} : parent[f] \in seen'[s] \cup {NoFolder}
  BY <1>3, <1>5, <1>7
<1>11. pc[s] = "mergeDestChain" => self[s] \in folder /\ cache'[s][self[s]] = parent[self[s]]
  <2>1. pc[s] = "mergeDestChain" => self[s] \in folder /\ cache[s][self[s]] = parent[self[s]]
    BY <1>0 DEF ChainInv
  <2>2. \A f \in folder : parent[f] # NotRead
    BY <1>2
  <2> QED BY <1>2, <1>9, <2>1, <2>2
<1>12. ChainInv(s)'
  BY <1>1, <1>3, <1>5, <1>7, <1>9, <1>10, <1>11 DEF ChainInv, Chains
<1>13. CheckedInv(s)'
  BY <1>0, <1>1 DEF CheckedInv, Avoids, Chains
<1>14. MergeInv(s)'
  BY <1>1 DEF MergeInv, MergeStatements, Chains
<1> QED BY <1>1, <1>12, <1>13, <1>14 DEF RequestInv

\* The searches of the chains, and the move that follows the first of them.
LEMMA CheckInv ==
  ASSUME SerialInv, NEW s \in Session, CheckMove(s) \/ CheckMergeDest(s) \/ CheckMergeSource(s)
  PROVE  RequestInv(s)' /\ UNCHANGED <<folder, parent>>
<1> USE FolderAssumption, TreeAssumption
<1>0. TypeOK /\ TablesOK /\ LocalsType /\ ChainInv(s) /\ CheckedInv(s)
  BY DEF SerialInv, TypeOK, RequestInv
<1>1. UNCHANGED <<folder, parent>>
  BY DEF CheckMove, CheckMergeDest, CheckMergeSource, ChainRead, tables
<1>2. CASE Finish(s)
  BY <1>0, <1>1, <1>2, FinishInv
<1>3. CASE CheckMove(s) /\ ~Finish(s)
  <2>1. /\ pc[s] = "moveChain" /\ ~Climbs(s) /\ self[s] \notin seen[s]
        /\ pc'[s] = "moveWrite" /\ self'[s] = self[s] /\ dest'[s] = dest[s]
    BY <1>0, <1>3 DEF CheckMove, ChainRead, Passed, Goto, LocalsType
  <2>2. Avoids(dest[s], self[s])
    BY <1>0, <2>1, ChainAvoids
  <2>3. CheckedInv(s)'
    BY <1>1, <2>1, <2>2 DEF CheckedInv, Avoids
  <2> QED BY <1>1, <2>1, <2>3 DEF RequestInv, ChainInv, MergeInv, Chains, MergeStatements
<1>4. CASE CheckMergeDest(s) /\ ~Finish(s)
  <2>1. /\ pc[s] = "mergeDestChain" /\ ~Climbs(s) /\ self[s] \notin seen[s]
        /\ pc'[s] = "mergeSourceChain" /\ self'[s] = self[s] /\ dest'[s] = dest[s]
        /\ at'[s] = self[s] /\ seen'[s] = {self[s]} /\ cache'[s] = cache[s]
    BY <1>0, <1>4 DEF CheckMergeDest, ChainRead, Goto, LocalsType
  <2>2. Avoids(dest[s], self[s])
    BY <1>0, <2>1, ChainAvoids
  <2>3. CheckedInv(s)'
    BY <1>1, <2>1, <2>2 DEF CheckedInv, Avoids
  <2>4. self[s] \in folder /\ cache[s][self[s]] = parent[self[s]]
    BY <1>0, <2>1 DEF ChainInv
  <2>5. ChainInv(s)'
    BY <1>0, <1>1, <2>1, <2>4 DEF ChainInv, Chains
  <2> QED BY <1>1, <2>1, <2>3, <2>5 DEF RequestInv, MergeInv, MergeStatements
<1>5. CASE CheckMergeSource(s) /\ ~Finish(s)
  <2>1. /\ pc[s] = "mergeSourceChain"
        /\ pc'[s] = "children" /\ self'[s] = self[s] /\ dest'[s] = dest[s]
    BY <1>0, <1>5 DEF CheckMergeSource, ChainRead, Passed, Goto, LocalsType
  <2>2. CheckedInv(s)'
    BY <1>0, <1>1, <2>1 DEF CheckedInv, Avoids
  <2> QED BY <1>1, <2>1, <2>2 DEF RequestInv, ChainInv, MergeInv, Chains, MergeStatements
<1> QED BY <1>2, <1>3, <1>4, <1>5

\* Every step of a move or a merge before its first UPDATE, and the UPDATE of
\* a move.
LEMMA WalkInv ==
  ASSUME SerialInv, NEW s \in Session,
         \/ Move(s) \/ LoadDest(s) \/ Climb(s)
         \/ StartMerge(s) \/ CheckMergeDest(s) \/ CheckMergeSource(s)
  PROVE  Forest' /\ RequestInv(s)'
<1> USE FolderAssumption, TreeAssumption
<1>0. TypeOK /\ TablesOK /\ (PicksSelf \/ NoCycle(parent, folder)) /\ CheckedInv(s)
  BY DEF SerialInv, TypeOK, Forest, Acyclic, RequestInv
<1>1. folder \subseteq Folder /\ purged \subseteq Folder
  BY <1>0 DEF TablesOK, TablesType
<1>2. CASE UNCHANGED <<folder, parent>> /\ RequestInv(s)'
  BY <1>0, <1>2 DEF Forest, Acyclic
<1>3. CASE StartMove(s)
  <2>1. PICK f \in folder : \E d \in folder \cup purged \cup {NoFolder} :
          StartRequest(s, "move", IF d = NoFolder THEN "moveWrite" ELSE "moveDest", f, d)
    BY <1>3 DEF StartMove
  <2>2. PICK d \in folder \cup purged \cup {NoFolder} :
          StartRequest(s, "move", IF d = NoFolder THEN "moveWrite" ELSE "moveDest", f, d)
    BY <2>1
  <2> DEFINE next == IF d = NoFolder THEN "moveWrite" ELSE "moveDest"
  <2>3. next \in {"moveDest", "mergeDest", "moveWrite"} /\ (next = "moveWrite" => d = NoFolder)
    OBVIOUS
  <2>4. StartRequest(s, "move", next, f, d)
    BY <2>2
  <2> HIDE DEF next
  <2> QED BY <1>1, <1>2, <2>3, <2>4, StartInv
<1>4. CASE StartMerge(s)
  <2>1. PICK f \in folder : \E d \in folder \cup purged : StartRequest(s, "merge", "mergeDest", f, d)
    BY <1>4 DEF StartMerge
  <2>2. PICK d \in folder \cup purged : StartRequest(s, "merge", "mergeDest", f, d)
    BY <2>1
  <2> QED BY <1>1, <1>2, <2>2, StartInv
<1>5. CASE WriteMove(s)
  <2>1. /\ self[s] \in Folder /\ dest[s] \in Folder \cup {NoFolder} /\ self[s] # dest[s]
        /\ UpdateParent(self[s], dest[s]) /\ Finish(s)
    BY <1>0, <1>5 DEF WriteMove, TypeOK, LocalsType, InHand
  <2>2. dest[s] = NoFolder \/ Avoids(dest[s], self[s])
    BY <1>0, <1>5 DEF WriteMove, CheckedInv
  <2> QED BY <1>0, <2>1, <2>2, UpdateParentNoCycle, FinishInv DEF Forest, Acyclic
<1> QED BY <1>2, <1>3, <1>4, <1>5, LoadDestInv, ClimbInv, CheckInv DEF Move

-----------------------------------------------------------------------------
\* The statements of a merge, in the order of processMerge.
LEMMA MergeStepInv ==
  ASSUME SerialInv, NEW s \in Session, MergeWrites(s)
  PROVE  Forest' /\ RequestInv(s)'
<1> USE FolderAssumption, TreeAssumption
<1>0. /\ TypeOK /\ TablesOK /\ LocalsType /\ (PicksSelf \/ NoCycle(parent, folder))
      /\ CheckedInv(s) /\ MergeInv(s)
  BY DEF SerialInv, TypeOK, Forest, Acyclic, RequestInv
<1>1. pc[s] \in MergeStatements
  BY DEF MergeWrites, MergeChildren, MergeDedupe, MergeWorks, MergeReferenceSources,
     MergeReferenceTargets, MergeHistory, MergeRecord, MergePurge, MergeStatements
<1>2. self[s] \in Folder /\ dest[s] \in Folder /\ self[s] # dest[s]
  BY <1>0, <1>1 DEF TypeOK, InHand
<1>3. ASSUME NEW label \in MergeStatements \ {"children"}, Then(s, label), MergeInv(s)'
      PROVE  RequestInv(s)'
  <2>1. pc'[s] = label
    BY <1>0, <1>3 DEF Then, Goto, LocalsType
  <2> QED BY <1>3, <2>1 DEF RequestInv, ChainInv, CheckedInv, Chains, MergeStatements
<1>4. ASSUME NEW label, Then(s, label)
      PROVE  pc'[s] = label /\ self'[s] = self[s] /\ dest'[s] = dest[s]
  BY <1>0, <1>4 DEF Then, Goto, locals, LocalsType
<1>5. CASE MergeChildren(s)
  <2>1. Then(s, "dedupe") /\ pc'[s] = "dedupe" /\ self'[s] = self[s]
    BY <1>4, <1>5 DEF MergeChildren
  <2>2. Forest'
    BY <1>0, <1>2, <1>5, MoveChildrenNoCycle DEF MergeChildren, CheckedInv, Forest, Acyclic
  <2>3. MergeInv(s)'
    BY <1>0, <1>2, <1>5, <2>1
       DEF MergeChildren, MoveChildren, MergeInv, Children, TablesOK, TablesType
  <2> QED BY <1>3, <2>1, <2>2, <2>3 DEF MergeStatements
<1>6. CASE MergeDedupe(s)
  <2>1. /\ Then(s, "works") /\ pc'[s] = "works" /\ self'[s] = self[s] /\ pc[s] = "dedupe"
        /\ UNCHANGED <<folder, parent>>
    BY <1>4, <1>6 DEF MergeDedupe
  <2>2. MergeInv(s)'
    BY <1>0, <2>1 DEF MergeInv, Children, MergeStatements
  <2> QED BY <1>0, <1>3, <2>1, <2>2 DEF MergeStatements, Forest, Acyclic
<1>7. CASE MergeWorks(s)
  <2>1. /\ Then(s, "refFrom") /\ pc'[s] = "refFrom" /\ self'[s] = self[s] /\ pc[s] = "works"
        /\ UNCHANGED <<folder, parent>> /\ workFolder' = RenameSecond(workFolder, self[s], dest[s])
    BY <1>4, <1>7 DEF MergeWorks
  <2>2. \A w \in Work : <<w, self[s]>> \notin workFolder'
    BY <1>2, <2>1 DEF RenameSecond
  <2>3. MergeInv(s)'
    BY <1>0, <2>1, <2>2 DEF MergeInv, Children, MergeStatements
  <2> QED BY <1>0, <1>3, <2>1, <2>3 DEF MergeStatements, Forest, Acyclic
<1>8. CASE MergeReferenceSources(s) \/ MergeReferenceTargets(s)
  <2>1. /\ Then(s, pc'[s]) /\ self'[s] = self[s] /\ pc[s] \in {"refFrom", "refTo"}
        /\ pc'[s] \in {"refTo", "rehist"}
        /\ UNCHANGED <<folder, parent, workFolder>>
    BY <1>4, <1>8 DEF MergeReferenceSources, MergeReferenceTargets
  <2>2. MergeInv(s)'
    BY <1>0, <2>1 DEF MergeInv, Children, MergeStatements
  <2> QED BY <1>0, <1>3, <2>1, <2>2 DEF MergeStatements, Forest, Acyclic
<1>9. CASE MergeHistory(s)
  <2>1. /\ Then(s, "hist") /\ pc'[s] = "hist" /\ self'[s] = self[s] /\ pc[s] = "rehist"
        /\ UNCHANGED <<folder, parent, workFolder>>
        /\ history' = RenameSecond(history, self[s], dest[s])
    BY <1>4, <1>9 DEF MergeHistory
  <2>2. \A f \in Folder : <<f, self[s]>> \notin history'
    BY <1>2, <2>1 DEF RenameSecond
  <2>3. MergeInv(s)'
    BY <1>0, <2>1, <2>2 DEF MergeInv, Children, MergeStatements
  <2> QED BY <1>0, <1>3, <2>1, <2>3 DEF MergeStatements, Forest, Acyclic
<1>10. CASE MergeRecord(s)
  <2>1. /\ Then(s, "purge") /\ pc'[s] = "purge" /\ self'[s] = self[s] /\ dest'[s] = dest[s]
        /\ pc[s] = "hist" /\ UNCHANGED <<folder, parent, workFolder>>
        /\ history' = history \cup {<<self[s], dest[s]>>}
    BY <1>4, <1>10 DEF MergeRecord
  <2>2. MergeInv(s)'
    BY <1>0, <1>2, <2>1 DEF MergeInv, Children, MergeStatements
  <2> QED BY <1>0, <1>3, <2>1, <2>2 DEF MergeStatements, Forest, Acyclic
<1>11. CASE MergePurge(s)
  BY <1>0, <1>2, <1>11, DeleteFolderNoCycle, FinishInv DEF MergePurge, Forest, Acyclic
<1> QED BY <1>5, <1>6, <1>7, <1>8, <1>9, <1>10, <1>11 DEF MergeWrites

\* The pages of references and of a work's categories, and the ends of
\* requests, leave the tree alone.
LEMMA OtherInv ==
  ASSUME SerialInv, NEW s \in Session, References(s) \/ Classify(s) \/ Ends(s)
  PROVE  Forest' /\ RequestInv(s)'
<1> USE FolderAssumption, TreeAssumption
<1>0. TypeOK /\ LocalsType /\ Forest
  BY DEF SerialInv, TypeOK
<1>1. UNCHANGED <<folder, parent>>
  BY DEF References, Classify, Ends, OpenReferences, Show, DropReferences, AddReference, OpenClassify,
     DropAllFolders, AddWork, PickRemovals, RemoveWork, EndLoop, HandleError, Abandon, Crash, tables
<1>2. Forest'
  BY <1>0, <1>1 DEF Forest, Acyclic
<1>3. CASE Ends(s)
  BY <1>0, <1>2, <1>3, FinishInv DEF Ends, EndLoop, HandleError, Abandon, Crash
<1>4. CASE References(s)
  <2>1. pc'[s] \in {"refsPage", "addRefs"}
    BY <1>0, <1>4 DEF References, OpenReferences, Show, DropReferences, AddReference, Then, Goto, LocalsType
  <2> QED BY <1>2, <2>1, PlainInv DEF Pages
<1>5. CASE Classify(s)
  <2>1. pc'[s] \in {"classifyPage", "addWorks", "removeWorks"}
    BY <1>0, <1>5 DEF Classify, OpenClassify, DropAllFolders, AddWork, PickRemovals, RemoveWork,
       Then, Goto, LocalsType
  <2> QED BY <1>2, <2>1, PlainInv DEF Pages
<1> QED BY <1>3, <1>4, <1>5

\* Nobody but the one editor disturbs what a request has read.
LEMMA NextSerialInv ==
  ASSUME Serial, SerialInv, [Next]_vars
  PROVE  SerialInv'
<1>1. TypeOK'
  BY NextTypeOK DEF SerialInv
<1>2. ASSUME NEW s \in Session, Step(s) PROVE SerialInv'
  <2>1. Forest' /\ RequestInv(s)'
    BY <1>2, StepCases, EditInv, DeleteInv, WalkInv, MergeStepInv, OtherInv
  <2>2. \A t \in Session : t = s
    BY DEF Serial
  <2> QED BY <1>1, <2>1, <2>2 DEF SerialInv
<1>3. CASE UNCHANGED vars
  <2>1. Forest'
    BY <1>3 DEF SerialInv, Forest, Acyclic, vars
  <2>2. ASSUME NEW s \in Session PROVE RequestInv(s)'
    BY <1>3 DEF SerialInv, RequestInv, ChainInv, CheckedInv, MergeInv, Avoids, Offered, Children, vars
  <2> QED BY <1>1, <2>1, <2>2 DEF SerialInv
<1> QED BY <1>2, <1>3 DEF Next

\* While one editor is at work, what a request of his has read still holds
\* when it writes, and each statement of a merge leaves the next one what it
\* needs, wherever earlier requests were cut off.
THEOREM SerialInvariant == Serial => (Spec => []SerialInv)
<1> SUFFICES ASSUME Serial PROVE Spec => []SerialInv
  OBVIOUS
<1>1. SerialInv /\ [Next]_vars => SerialInv'
  BY NextSerialInv
<1> QED BY <1>1, InitSerialInv, PTL DEF Spec

\* The classification of a single editor stays a forest: the climbs of
\* handleMove and processMerge and the choices of the edit form suffice, if
\* the form's offer of the folder itself is not taken up.
THEOREM ForestKept == Serial /\ ~PicksSelf => (Spec => []Acyclic)
<1> SUFFICES ASSUME Serial, ~PicksSelf PROVE Spec => []Acyclic
  OBVIOUS
<1>1. SerialInv => Acyclic
  BY DEF SerialInv, Forest
<1>2. Spec => []SerialInv
  BY SerialInvariant
<1> QED BY <1>1, <1>2, PTL

-----------------------------------------------------------------------------
\* Statements that leave the rows of folder and folder_merge_history alone
\* leave every lookup alone; an INSERT only adds to them.
LEMMA LookupKept ==
  ASSUME folder \subseteq folder', history \subseteq history'
  PROVE  IdsResolve
BY DEF IdsResolve, LookupById

\* The last statements of a merge: the aliases of the source are moved to
\* the destination, its own is added, and only then does it go.
LEMMA MergeResolves ==
  ASSUME SerialInv, NEW s \in Session, MergeWrites(s)
  PROVE  IdsResolve
<1>0. TypeOK /\ TablesOK /\ MergeInv(s)
  BY DEF SerialInv, TypeOK, RequestInv
<1>1. CASE MergeHistory(s)
  <2>1. /\ history' = RenameSecond(history, self[s], dest[s]) /\ folder' = folder
        /\ ~RenameSecondFails(history, self[s], dest[s])
    BY <1>1 DEF MergeHistory
  <2>2. SUFFICES ASSUME NEW x \in Folder, NEW f \in folder, f = x \/ <<x, f>> \in history
                 PROVE  LookupById(x)' # {}
    BY DEF IdsResolve, LookupById
  <2>3. CASE f = x \/ f # self[s]
    <3>1. f = x \/ <<x, f>> \in history'
      BY <2>1, <2>2, <2>3 DEF RenameSecond
    <3> QED BY <2>1, <3>1 DEF LookupById
  <2>4. CASE f # x /\ f = self[s]
    <3>1. <<x, dest[s]>> \in history' /\ dest[s] \in folder
      BY <2>1, <2>2, <2>4 DEF RenameSecond, RenameSecondFails
    <3> QED BY <2>1, <3>1 DEF LookupById
  <2> QED BY <2>3, <2>4
<1>2. CASE MergePurge(s)
  <2>1. /\ <<self[s], dest[s]>> \in history /\ \A f \in Folder : <<f, self[s]>> \notin history
        /\ self[s] # dest[s]
    BY <1>0, <1>2 DEF MergePurge, MergeInv, TypeOK, InHand, MergeStatements
  <2>2. folder' = folder \ {self[s]} /\ history' = {p \in history : p[2] # self[s]}
    BY <1>2 DEF MergePurge, DeleteFolder
  <2>3. dest[s] \in folder'
    BY <1>0, <2>1, <2>2 DEF TablesOK, Integrity
  <2>4. SUFFICES ASSUME NEW x \in Folder, NEW f \in folder, f = x \/ <<x, f>> \in history
                 PROVE  LookupById(x)' # {}
    BY DEF IdsResolve, LookupById
  <2>5. CASE f = self[s]
    <3>1. <<x, dest[s]>> \in history'
      BY <2>1, <2>2, <2>4, <2>5
    <3> QED BY <2>3, <3>1 DEF LookupById
  <2>6. CASE f # self[s]
    <3>1. f \in folder' /\ (f = x \/ <<x, f>> \in history')
      BY <2>2, <2>4, <2>6
    <3> QED BY <3>1 DEF LookupById
  <2> QED BY <2>5, <2>6
<1>3. CASE ~(MergeHistory(s) \/ MergePurge(s))
  <2>1. folder \subseteq folder' /\ history \subseteq history'
    BY <1>3 DEF MergeWrites, MergeChildren, MoveChildren, MergeDedupe, MergeWorks,
       MergeReferenceSources, MergeReferenceTargets, MergeRecord
  <2> QED BY <2>1, LookupKept
<1> QED BY <1>1, <1>2, <1>3

\* No other step touches what a bookmark leads to, handleDelete apart.
LEMMA StepResolves ==
  ASSUME SerialInv, NEW s \in Session, Step(s)
  PROVE  IdsResolve
<1>1. CASE MergeWrites(s)
  BY <1>1, MergeResolves
<1>2. CASE Drop(s)
  BY <1>2 DEF Drop, IdsResolve
<1>3. CASE Edit(s) \/ OpenDelete(s) \/ Unlink(s)
  <2>1. folder \subseteq folder' /\ history \subseteq history'
    BY <1>3 DEF Edit, OpenAdd, SubmitAdd, InsertFolder, OpenEdit, SubmitEdit, UpdateParent,
       OpenDelete, Unlink, Show, tables
  <2> QED BY <2>1, LookupKept
<1>4. CASE References(s) \/ Classify(s) \/ Ends(s)
  <2>1. folder \subseteq folder' /\ history \subseteq history'
    BY <1>4 DEF References, Classify, Ends, OpenReferences, Show, DropReferences, AddReference, OpenClassify,
       DropAllFolders, AddWork, PickRemovals, RemoveWork, EndLoop, HandleError, Abandon, Crash, tables
  <2> QED BY <2>1, LookupKept
<1>5. CASE \/ Move(s) \/ StartMerge(s) \/ LoadDest(s) \/ Climb(s)
           \/ CheckMergeDest(s) \/ CheckMergeSource(s)
  <2>1. folder \subseteq folder' /\ history \subseteq history'
    BY <1>5 DEF Move, StartMove, StartRequest, CheckMove, WriteMove, UpdateParent, StartMerge, LoadDest,
       Climb, CheckMergeDest, CheckMergeSource, ChainRead, tables
  <2> QED BY <2>1, LookupKept
<1> QED BY <1>1, <1>2, <1>3, <1>4, <1>5, StepCases DEF Delete

\* Whatever a single editor merges, and wherever a merge is cut off, an id
\* that led to a folder goes on leading to one, unless it is deleted.
THEOREM BookmarksKept == Serial => (Spec => BookmarksResolve)
<1> SUFFICES ASSUME Serial PROVE Spec => BookmarksResolve
  OBVIOUS
<1>1. SerialInv /\ [Next]_vars => [IdsResolve]_vars
  BY StepResolves DEF Next
<1>2. Spec => []SerialInv
  BY SerialInvariant
<1> QED BY <1>1, <1>2, PTL DEF Spec, BookmarksResolve

-----------------------------------------------------------------------------
\* A step at a statement of a merge either executes it or ends the request.
LEMMA MergeStepCases ==
  ASSUME NEW s \in Session, Step(s), pc[s] \in MergeStatements
  PROVE  MergeWrites(s) \/ UNCHANGED tables
<1>1. CASE Ends(s)
  BY <1>1 DEF Ends, EndLoop, HandleError, Abandon, Crash
<1>2. ~Edit(s) /\ ~Delete(s) /\ ~References(s) /\ ~Classify(s)
  BY DEF MergeStatements, Edit, OpenAdd, SubmitAdd, OpenEdit, SubmitEdit, Delete, OpenDelete, Unlink, Drop,
     References, OpenReferences, DropReferences, AddReference, Show,
     Classify, OpenClassify, DropAllFolders, AddWork, PickRemovals, RemoveWork
<1>3. /\ ~Move(s) /\ ~StartMerge(s) /\ ~LoadDest(s) /\ ~Climb(s)
      /\ ~CheckMergeDest(s) /\ ~CheckMergeSource(s)
  BY DEF MergeStatements, Move, StartMove, StartMerge, StartRequest, CheckMove, WriteMove, LoadDest, Climb,
     Chains, CheckMergeDest, CheckMergeSource, ChainRead
<1> QED BY <1>1, <1>2, <1>3, StepCases

\* DELETE of the duplicates, UPDATE of the rest: no work is lost between.
LEMMA MergeWorksKept ==
  ASSUME SerialInv, NEW s \in Session, MergeWrites(s)
  PROVE  WorksKept(s)
<1>0. /\ TypeOK /\ workFolder \in SUBSET (Work \X Folder) /\ MergeInv(s)
      /\ self[s] \in Folder /\ dest[s] \in Folder /\ self[s] # dest[s]
  BY DEF SerialInv, TypeOK, RequestInv, TablesOK, TablesType, InHand, MergeStatements,
     MergeWrites, MergeChildren, MergeDedupe, MergeWorks, MergeReferenceSources,
     MergeReferenceTargets, MergeHistory, MergeRecord, MergePurge
<1>1. CASE workFolder' = workFolder
  BY <1>1 DEF WorksKept, FoldersOf
<1>2. CASE MergeDedupe(s)
  <2>1. workFolder' = {p \in workFolder : ~(p[2] = dest[s] /\ <<p[1], self[s]>> \in workFolder)}
    BY <1>2 DEF MergeDedupe
  <2>2. ASSUME NEW w \in Work, NEW f \in Folder
        PROVE  <<w, f>> \in workFolder' <=>
                 <<w, f>> \in workFolder /\ ~(f = dest[s] /\ <<w, self[s]>> \in workFolder)
    BY <2>1
  <2> QED BY <1>0, <2>2 DEF WorksKept, FoldersOf
<1>3. CASE MergeWorks(s)
  <2>1. workFolder' = RenameSecond(workFolder, self[s], dest[s])
    BY <1>3 DEF MergeWorks
  <2>2. ASSUME NEW w \in Work, NEW f \in Folder
        PROVE  <<w, f>> \in workFolder' <=>
                 \/ f # self[s] /\ <<w, f>> \in workFolder
                 \/ f = dest[s] /\ <<w, self[s]>> \in workFolder
    BY <1>0, <2>1 DEF RenameSecond
  <2> QED BY <1>0, <2>2 DEF WorksKept, FoldersOf
<1>4. CASE MergePurge(s)
  <2>1. \A p \in workFolder : p[2] # self[s]
    BY <1>0, <1>4 DEF MergePurge, MergeInv
  <2>2. workFolder' = workFolder
    BY <1>4, <2>1 DEF MergePurge, DeleteFolder
  <2> QED BY <1>1, <2>2
<1> QED BY <1>1, <1>2, <1>3, <1>4
        DEF MergeWrites, MergeChildren, MoveChildren, MergeReferenceSources, MergeReferenceTargets,
            MergeHistory, MergeRecord

\* A merge of a single editor loses no work and touches no other category.
THEOREM WorksKeptByMerges == Serial => (Spec => MergeKeepsWorks)
<1> SUFFICES ASSUME Serial PROVE Spec => MergeKeepsWorks
  OBVIOUS
<1>1. ASSUME SerialInv, NEW s \in Session, Step(s), pc[s] \in MergeStatements
      PROVE  WorksKept(s)
  <2>1. CASE UNCHANGED tables
    BY <2>1 DEF WorksKept, FoldersOf, tables
  <2> QED BY <1>1, <2>1, MergeWorksKept, MergeStepCases
<1>2. SerialInv /\ [Next]_vars =>
        [\A s \in Session : StepAt(s, MergeStatements) => WorksKept(s)]_vars
  BY <1>1 DEF Next, StepAt, Serial
<1>3. Spec => []SerialInv
  BY SerialInvariant
<1> QED BY <1>2, <1>3, PTL DEF Spec, MergeKeepsWorks

\* The children are moved before the source is purged, so the schema's
\* ON DELETE SET NULL makes nothing a root.
LEMMA MergeRootsKept ==
  ASSUME SerialInv, NEW s \in Session, MergeWrites(s)
  PROVE  RootsKept(s)
<1>0. /\ TypeOK /\ MergeInv(s) /\ folder \subseteq Folder
      /\ parent \in [Folder -> Folder \cup {NoFolder}]
      /\ self[s] \in Folder /\ dest[s] \in Folder
  BY DEF SerialInv, TypeOK, RequestInv, TablesOK, TablesType, InHand, MergeStatements,
     MergeWrites, MergeChildren, MergeDedupe, MergeWorks, MergeReferenceSources,
     MergeReferenceTargets, MergeHistory, MergeRecord, MergePurge
<1>1. CASE MergeChildren(s)
  BY <1>0, <1>1, FolderAssumption DEF MergeChildren, MoveChildren, RootsKept
<1>2. CASE MergePurge(s)
  <2>1. \A f \in folder : parent[f] # self[s]
    BY <1>0, <1>2 DEF MergePurge, MergeInv, Children, MergeStatements
  <2> QED BY <1>0, <1>2, <2>1 DEF MergePurge, DeleteFolder, RootsKept
<1> QED BY <1>1, <1>2 DEF MergeWrites, MergeDedupe, MergeWorks, MergeReferenceSources,
        MergeReferenceTargets, MergeHistory, MergeRecord, RootsKept

\* A merge of a single editor neither creates roots nor takes any away.
THEOREM RootsKeptByMerges == Serial => (Spec => MergeKeepsRoots)
<1> SUFFICES ASSUME Serial PROVE Spec => MergeKeepsRoots
  OBVIOUS
<1>1. ASSUME SerialInv, NEW s \in Session, Step(s), pc[s] \in MergeStatements
      PROVE  RootsKept(s)
  <2>1. CASE UNCHANGED tables
    BY <2>1 DEF RootsKept, tables
  <2> QED BY <1>1, <2>1, MergeRootsKept, MergeStepCases
<1>2. SerialInv /\ [Next]_vars =>
        [\A s \in Session : StepAt(s, MergeStatements) => RootsKept(s)]_vars
  BY <1>1 DEF Next, StepAt, Serial
<1>3. Spec => []SerialInv
  BY SerialInvariant
<1> QED BY <1>2, <1>3, PTL DEF Spec, MergeKeepsRoots

-----------------------------------------------------------------------------
(* What the requests of merges and deletions keep in hand between their    *)
(* statements, beyond what SerialInv says.                                 *)

DeletePoints == {"deletePage", "unlink", "drop"}
MergePoints == {"mergeDest", "mergeDestChain", "mergeSourceChain"} \cup MergeStatements

\* A merge: both folders are there, and once the duplicates are gone no work
\* is in both.
PairInv(s) ==
  /\ pc[s] \in MergePoints => self[s] \in folder
  /\ pc[s] \in MergePoints \ {"mergeDest"} => dest[s] \in folder
  /\ pc[s] = "works" => \A w \in Work : ~({<<w, self[s]>>, <<w, dest[s]>>} \subseteq workFolder)

\* A deletion: what is still to be deleted is there and has no children.
PostedInv(s) ==
  /\ pc[s] \in DeletePoints => todo[s] \subseteq folder /\ \A f \in todo[s] : Children(f) = {}
  /\ pc[s] = "drop" => self[s] \in todo[s]

\* Aliases are ids that were issued.
Issued == \A p \in history : p[1] \in folder \cup purged

HandsInv == Issued /\ \A s \in Session : PairInv(s) /\ PostedInv(s)

\* A request elsewhere has none of this in hand.
LEMMA PlainHands ==
  ASSUME NEW s \in Session, pc'[s] \notin MergePoints \cup DeletePoints
  PROVE  PairInv(s)' /\ PostedInv(s)'
BY DEF PairInv, PostedInv, MergePoints, DeletePoints, MergeStatements

LEMMA FinishHands ==
  ASSUME TypeOK, NEW s \in Session, Finish(s)
  PROVE  PairInv(s)' /\ PostedInv(s)'
<1>1. pc'[s] = "idle"
  BY DEF Finish, Goto, TypeOK, LocalsType
<1> QED BY <1>1, PlainHands DEF MergePoints, DeletePoints, MergeStatements

LEMMA EditHands ==
  ASSUME SerialInv, HandsInv, NEW s \in Session, Edit(s)
  PROVE  Issued' /\ PairInv(s)' /\ PostedInv(s)'
<1>0. TypeOK /\ LocalsType
  BY DEF SerialInv, TypeOK
<1>1. folder \subseteq folder' /\ UNCHANGED <<purged, history>>
  BY DEF Edit, OpenAdd, SubmitAdd, InsertFolder, OpenEdit, SubmitEdit, UpdateParent, Show, tables
<1>2. Issued'
  BY <1>1 DEF HandsInv, Issued
<1>3. CASE SubmitAdd(s) \/ SubmitEdit(s)
  BY <1>0, <1>2, <1>3, FinishHands DEF SubmitAdd, SubmitEdit
<1>4. CASE OpenAdd(s) \/ OpenEdit(s)
  <2>1. pc'[s] \in {"addPage", "editPage"}
    BY <1>0, <1>4 DEF OpenAdd, OpenEdit, Show, Goto, LocalsType
  <2> QED BY <1>2, <2>1, PlainHands DEF MergePoints, DeletePoints, MergeStatements
<1> QED BY <1>3, <1>4 DEF Edit

\* The page offers folders without children, and nobody else adds any.
LEMMA DeleteHands ==
  ASSUME SerialInv, HandsInv, NEW s \in Session, Delete(s)
  PROVE  Issued' /\ PairInv(s)' /\ PostedInv(s)'
<1>0. TypeOK /\ LocalsType /\ folder \subseteq Folder /\ Issued /\ PostedInv(s)
  BY DEF SerialInv, TypeOK, TablesOK, TablesType, HandsInv
<1>1. CASE OpenDelete(s)
  <2>1. \E ticked \in SUBSET folder :
          Show(s, "delete", "deletePage", NoFolder, NoFolder,
               {f \in ticked : ~(HasChildren(f) \/ HasWorks(f))})
    BY <1>1 DEF OpenDelete
  <2>5. PICK ticked \in SUBSET folder :
          Show(s, "delete", "deletePage", NoFolder, NoFolder,
               {f \in ticked : ~(HasChildren(f) \/ HasWorks(f))})
    BY <2>1
  <2>2. /\ pc'[s] = "deletePage" /\ UNCHANGED <<folder, parent, purged, history>>
        /\ todo'[s] = {f \in ticked : ~(HasChildren(f) \/ HasWorks(f))}
    BY <1>0, <2>5 DEF Show, Goto, LocalsType, tables
  <2>3. todo'[s] \subseteq folder' /\ \A f \in todo'[s] : Children(f)' = {}
    BY <2>5, <2>2 DEF HasChildren, Children
  <2> QED BY <1>0, <2>2, <2>3 DEF PairInv, PostedInv, Issued, MergePoints, MergeStatements
<1>2. CASE Unlink(s)
  <2>1. /\ pc'[s] = "drop" /\ self'[s] \in todo[s] /\ UNCHANGED <<folder, parent, purged, history, todo>>
        /\ pc[s] \in DeletePoints
    BY <1>0, <1>2 DEF Unlink, Goto, LocalsType, DeletePoints
  <2> QED BY <1>0, <2>1 DEF PairInv, PostedInv, Issued, Children, MergePoints, MergeStatements, DeletePoints
<1>3. CASE Drop(s)
  <2>1. /\ folder' = folder \ {self[s]} /\ purged' = purged \cup (folder \cap {self[s]})
        /\ history' \subseteq history /\ pc[s] = "drop"
        /\ parent' = [g \in Folder |-> IF g = self[s] \/ parent[g] = self[s] THEN NoFolder ELSE parent[g]]
    BY <1>3 DEF Drop, DeleteFolder
  <2>2. Issued'
    BY <1>0, <2>1 DEF Issued
  <2>3. CASE Finish(s)
    BY <1>0, <2>2, <2>3, FinishHands
  <2>4. CASE ~Finish(s)
    <3>1. pc'[s] = "unlink" /\ todo'[s] = todo[s] \ {self[s]}
      BY <1>0, <1>3, <2>4 DEF Drop, Goto, LocalsType
    <3>2. todo[s] \subseteq folder /\ \A f \in todo[s] : Children(f) = {}
      BY <1>0, <2>1 DEF PostedInv, DeletePoints
    <3>3. ASSUME NEW f \in todo'[s] PROVE f \in folder' /\ Children(f)' = {}
      <4>1. f \in folder /\ f # self[s] /\ Children(f) = {}
        BY <3>1, <3>2, <3>3
      <4>2. ASSUME NEW c \in folder', parent'[c] = f PROVE FALSE
        <5>1. c \in folder /\ c \in Folder /\ parent[c] # f
          BY <1>0, <2>1, <4>1, <4>2 DEF Children
        <5>2. parent'[c] = NoFolder
          BY <2>1, <4>2, <5>1
        <5> QED BY <1>0, <4>1, <4>2, <5>2, FolderAssumption
      <4> QED BY <2>1, <4>1, <4>2 DEF Children
    <3> QED BY <2>2, <3>1, <3>3 DEF PairInv, PostedInv, MergePoints, MergeStatements
  <2> QED BY <2>3, <2>4
<1> QED BY <1>1, <1>2, <1>3 DEF Delete

\* Up to the first UPDATE of a merge its two folders have been seen to exist.
LEMMA WalkHands ==
  ASSUME SerialInv, HandsInv, NEW s \in Session,
         \/ Move(s) \/ LoadDest(s) \/ Climb(s)
         \/ StartMerge(s) \/ CheckMergeDest(s) \/ CheckMergeSource(s)
  PROVE  Issued' /\ PairInv(s)' /\ PostedInv(s)'
<1>0. TypeOK /\ LocalsType /\ folder \subseteq Folder /\ Issued /\ PairInv(s)
  BY DEF SerialInv, TypeOK, TablesOK, TablesType, HandsInv
<1>1. UNCHANGED <<folder, purged, history, workFolder>>
  BY DEF Move, StartMove, StartRequest, CheckMove, WriteMove, UpdateParent, StartMerge, LoadDest,
     Climb, CheckMergeDest, CheckMergeSource, ChainRead, tables
<1>2. Issued'
  BY <1>0, <1>1 DEF Issued
<1>3. CASE Finish(s)
  BY <1>0, <1>2, <1>3, FinishHands
<1>4. CASE StartMove(s)
  <2>1. pc'[s] \in {"moveWrite", "moveDest"}
    BY <1>0, <1>4 DEF StartMove, StartRequest, Goto, LocalsType
  <2> QED BY <1>2, <2>1, PlainHands DEF MergePoints, DeletePoints, MergeStatements
<1>5. CASE StartMerge(s)
  <2>1. pc'[s] = "mergeDest" /\ self'[s] \in folder
    BY <1>0, <1>5 DEF StartMerge, StartRequest, Goto, LocalsType
  <2> QED BY <1>1, <1>2, <2>1 DEF PairInv, PostedInv, DeletePoints
<1>6. CASE LoadDest(s) /\ ~Finish(s)
  <2>1. /\ pc'[s] = IF pc[s] = "moveDest" THEN "moveChain" ELSE "mergeDestChain"
        /\ pc[s] \in {"moveDest", "mergeDest"} /\ self'[s] = self[s] /\ dest'[s] = dest[s]
        /\ dest[s] \in folder
    BY <1>0, <1>6 DEF LoadDest, Goto, LocalsType
  <2> QED BY <1>0, <1>1, <1>2, <2>1 DEF PairInv, PostedInv, MergePoints, DeletePoints, MergeStatements
<1>7. CASE Climb(s)
  <2>1. UNCHANGED <<pc, self, dest>> /\ pc[s] \in Chains
    BY <1>7 DEF Climb
  <2> QED BY <1>0, <1>1, <1>2, <2>1 DEF PairInv, PostedInv, Chains, DeletePoints
<1>8. CASE CheckMove(s) /\ ~Finish(s)
  <2>1. pc'[s] = "moveWrite"
    BY <1>0, <1>8 DEF CheckMove, Passed, Goto, LocalsType
  <2> QED BY <1>2, <2>1, PlainHands DEF MergePoints, DeletePoints, MergeStatements
<1>9. CASE (CheckMergeDest(s) \/ CheckMergeSource(s)) /\ ~Finish(s)
  <2>1. /\ pc'[s] \in {"mergeSourceChain", "children"} /\ pc[s] \in {"mergeDestChain", "mergeSourceChain"}
        /\ self'[s] = self[s] /\ dest'[s] = dest[s]
    BY <1>0, <1>9 DEF CheckMergeDest, CheckMergeSource, ChainRead, Passed, Goto, LocalsType
  <2> QED BY <1>0, <1>1, <1>2, <2>1 DEF PairInv, PostedInv, MergePoints, DeletePoints, MergeStatements
<1>10. CASE WriteMove(s)
  BY <1>3, <1>10 DEF WriteMove
<1> QED BY <1>3, <1>4, <1>5, <1>6, <1>7, <1>8, <1>9, <1>10 DEF Move

\* The statements of a merge: neither folder goes before the last of them.
LEMMA MergeHands ==
  ASSUME SerialInv, HandsInv, NEW s \in Session, MergeWrites(s)
  PROVE  Issued' /\ PairInv(s)' /\ PostedInv(s)'
<1>0. TypeOK /\ LocalsType /\ Issued /\ PairInv(s) /\ history \subseteq Folder \X Folder
  BY DEF SerialInv, TypeOK, TablesOK, TablesType, HandsInv
<1>1. CASE MergePurge(s)
  <2>1. /\ Finish(s) /\ history' \subseteq history
        /\ folder' = folder \ {self[s]} /\ purged' = purged \cup (folder \cap {self[s]})
    BY <1>1 DEF MergePurge, DeleteFolder
  <2>2. Issued'
    BY <1>0, <2>1 DEF Issued
  <2> QED BY <1>0, <2>1, <2>2, FinishHands
<1>2. CASE ~MergePurge(s)
  <2>1. /\ UNCHANGED <<folder, purged, locals>> /\ pc[s] \in MergeStatements
        /\ pc'[s] \in MergeStatements /\ (pc'[s] = "works" => MergeDedupe(s))
    BY <1>0, <1>2 DEF MergeWrites, MergeChildren, MoveChildren, MergeDedupe, MergeWorks, MergeStatements,
       MergeReferenceSources, MergeReferenceTargets, MergeHistory, MergeRecord, Then, Goto, LocalsType
  <2>2. UNCHANGED <<self, dest, todo>> /\ self[s] \in folder /\ dest[s] \in folder
    BY <1>0, <2>1 DEF locals, PairInv, MergePoints, MergeStatements
  <2>3. ASSUME MergeDedupe(s), NEW w \in Work
        PROVE  ~({<<w, self[s]>>, <<w, dest[s]>>} \subseteq workFolder')
    BY <2>3 DEF MergeDedupe
  <2>4. PairInv(s)' /\ PostedInv(s)'
    BY <2>1, <2>2, <2>3 DEF PairInv, PostedInv, MergePoints, DeletePoints, MergeStatements
  <2>5. CASE MergeHistory(s)
    <3>1. history' = RenameSecond(history, self[s], dest[s])
      BY <2>5 DEF MergeHistory
    <3>2. \A q \in history' : \E p \in history : q[1] = p[1]
      BY <3>1 DEF RenameSecond
    <3> QED BY <1>0, <2>1, <2>4, <3>2 DEF Issued
  <2>6. CASE MergeRecord(s)
    <3>1. history' = history \cup {<<self[s], dest[s]>>}
      BY <2>6 DEF MergeRecord
    <3> QED BY <1>0, <2>1, <2>2, <2>4, <3>1 DEF Issued
  <2>7. CASE UNCHANGED history
    BY <1>0, <2>1, <2>4, <2>7 DEF Issued
  <2> QED BY <1>2, <2>5, <2>6, <2>7 DEF MergeWrites, MergeChildren, MoveChildren, MergeDedupe, MergeWorks,
       MergeReferenceSources, MergeReferenceTargets
<1> QED BY <1>1, <1>2

LEMMA OtherHands ==
  ASSUME SerialInv, HandsInv, NEW s \in Session, References(s) \/ Classify(s) \/ Ends(s)
  PROVE  Issued' /\ PairInv(s)' /\ PostedInv(s)'
<1>0. TypeOK /\ LocalsType /\ Issued
  BY DEF SerialInv, TypeOK, HandsInv
<1>1. UNCHANGED <<folder, purged, history>>
  BY DEF References, Classify, Ends, OpenReferences, Show, DropReferences, AddReference, OpenClassify,
     DropAllFolders, AddWork, PickRemovals, RemoveWork, EndLoop, HandleError, Abandon, Crash, tables
<1>2. Issued'
  BY <1>0, <1>1 DEF Issued
<1>3. CASE Ends(s)
  BY <1>0, <1>2, <1>3, FinishHands DEF Ends, EndLoop, HandleError, Abandon, Crash
<1>4. CASE References(s) \/ Classify(s)
  <2>1. pc'[s] \in {"refsPage", "addRefs", "classifyPage", "addWorks", "removeWorks"}
    BY <1>0, <1>4 DEF References, OpenReferences, Show, DropReferences, AddReference,
       Classify, OpenClassify, DropAllFolders, AddWork, PickRemovals, RemoveWork, Then, Goto, LocalsType
  <2> QED BY <1>2, <2>1, PlainHands DEF MergePoints, DeletePoints, MergeStatements
<1> QED BY <1>3, <1>4

LEMMA NextHands ==
  ASSUME Serial, SerialInv, HandsInv, [Next]_vars
  PROVE  HandsInv'
<1>1. ASSUME NEW s \in Session, Step(s) PROVE HandsInv'
  <2>1. Issued' /\ PairInv(s)' /\ PostedInv(s)'
    BY <1>1, StepCases, EditHands, DeleteHands, WalkHands, MergeHands, OtherHands
  <2>2. \A t \in Session : t = s
    BY DEF Serial
  <2> QED BY <2>1, <2>2 DEF HandsInv
<1>2. CASE UNCHANGED vars
  <2>1. ASSUME NEW s \in Session PROVE PairInv(s)' /\ PostedInv(s)'
    BY <1>2 DEF HandsInv, PairInv, PostedInv, Children, vars
  <2> QED BY <1>2, <2>1 DEF HandsInv, Issued, vars
<1> QED BY <1>1, <1>2 DEF Next

LEMMA AlwaysHands == Serial => (Spec => [](SerialInv /\ HandsInv))
<1> SUFFICES ASSUME Serial PROVE Spec => [](SerialInv /\ HandsInv)
  OBVIOUS
<1>1. Init => HandsInv
  BY DEF Init, TablesInit, HandsInv, Issued, PairInv, PostedInv, MergePoints, DeletePoints, MergeStatements
<1>2. SerialInv /\ HandsInv /\ [Next]_vars => HandsInv'
  BY NextHands
<1> QED BY <1>1, <1>2, SerialInvariant, PTL DEF Spec

\* A deletion takes away only folders without sub-branches, whatever the
\* page showed and however many requests were cut off (showDelete and
\* handleDelete of tree.php).
THEOREM OnlyLeavesDeleted == Serial => (Spec => DeletesOnlyLeaves)
<1> SUFFICES ASSUME Serial PROVE Spec => DeletesOnlyLeaves
  OBVIOUS
<1>1. SerialInv /\ HandsInv /\ [Next]_vars =>
        [\A s \in Session : StepAt(s, {"drop"}) /\ pc'[s] # "drop" /\ self[s] \notin folder' =>
           Children(self[s]) = {}]_vars
  BY DEF HandsInv, PostedInv, DeletePoints, StepAt
<1> QED BY <1>1, AlwaysHands, PTL DEF Spec, DeletesOnlyLeaves

-----------------------------------------------------------------------------
(* Merges that are not cut off.                                            *)

\* An id has one alias, and has it only when it is gone or just about to go.
AliasInv ==
  /\ \A p, q \in history : p[1] = q[1] => p = q
  /\ \A p \in history : p[1] \in purged \/ \E s \in Session : pc[s] = "purge" /\ p[1] = self[s]

\* Nothing but the DELETE follows the INSERT of the alias.
LEMMA PurgeFollows ==
  ASSUME ~MayCrash, NEW s \in Session, Step(s), pc[s] = "purge"
  PROVE  MergePurge(s)
<1>1. ~Ends(s)
  BY DEF Ends, EndLoop, HandleError, Fails, Abandon, Crash, Pages
<1>2. ~Edit(s) /\ ~Delete(s) /\ ~References(s) /\ ~Classify(s)
  BY DEF Edit, OpenAdd, SubmitAdd, OpenEdit, SubmitEdit, Delete, OpenDelete, Unlink, Drop,
     References, OpenReferences, DropReferences, AddReference, Show,
     Classify, OpenClassify, DropAllFolders, AddWork, PickRemovals, RemoveWork
<1>3. /\ ~Move(s) /\ ~StartMerge(s) /\ ~LoadDest(s) /\ ~Climb(s)
      /\ ~CheckMergeDest(s) /\ ~CheckMergeSource(s)
  BY DEF Move, StartMove, StartMerge, StartRequest, CheckMove, WriteMove, LoadDest, Climb,
     Chains, CheckMergeDest, CheckMergeSource, ChainRead
<1>4. MergeWrites(s)
  BY <1>1, <1>2, <1>3, StepCases
<1> QED BY <1>4 DEF MergeWrites, MergeChildren, MergeDedupe, MergeWorks, MergeReferenceSources,
     MergeReferenceTargets, MergeHistory, MergeRecord

\* Only two statements of a merge add to the history.
LEMMA HistoryGrows ==
  ASSUME NEW s \in Session, Step(s), ~MergeHistory(s), ~MergeRecord(s)
  PROVE  history' \subseteq history
<1>1. CASE Edit(s) \/ Delete(s) \/ References(s) \/ Classify(s) \/ Ends(s)
  BY <1>1 DEF Edit, OpenAdd, SubmitAdd, InsertFolder, OpenEdit, SubmitEdit, UpdateParent,
     Delete, OpenDelete, Unlink, Drop, DeleteFolder,
     References, OpenReferences, Show, DropReferences, AddReference,
     Classify, OpenClassify, DropAllFolders, AddWork, PickRemovals, RemoveWork,
     Ends, EndLoop, HandleError, Abandon, Crash, tables
<1>2. CASE \/ Move(s) \/ StartMerge(s) \/ LoadDest(s) \/ Climb(s)
           \/ CheckMergeDest(s) \/ CheckMergeSource(s)
  BY <1>2 DEF Move, StartMove, StartRequest, CheckMove, WriteMove, UpdateParent, StartMerge, LoadDest,
     Climb, CheckMergeDest, CheckMergeSource, ChainRead, tables
<1>3. CASE MergeWrites(s)
  BY <1>3 DEF MergeWrites, MergeChildren, MoveChildren, MergeDedupe, MergeWorks,
     MergeReferenceSources, MergeReferenceTargets, MergePurge, DeleteFolder
<1> QED BY <1>1, <1>2, <1>3, StepCases

\* An id that is gone stays gone.
LEMMA PurgedGrows ==
  ASSUME NEW s \in Session, Step(s)
  PROVE  purged \subseteq purged'
<1>1. CASE Edit(s) \/ Delete(s) \/ References(s) \/ Classify(s) \/ Ends(s)
  BY <1>1 DEF Edit, OpenAdd, SubmitAdd, InsertFolder, OpenEdit, SubmitEdit, UpdateParent,
     Delete, OpenDelete, Unlink, Drop, DeleteFolder,
     References, OpenReferences, Show, DropReferences, AddReference,
     Classify, OpenClassify, DropAllFolders, AddWork, PickRemovals, RemoveWork,
     Ends, EndLoop, HandleError, Abandon, Crash, tables
<1>2. CASE \/ Move(s) \/ StartMerge(s) \/ LoadDest(s) \/ Climb(s)
           \/ CheckMergeDest(s) \/ CheckMergeSource(s)
  BY <1>2 DEF Move, StartMove, StartRequest, CheckMove, WriteMove, UpdateParent, StartMerge, LoadDest,
     Climb, CheckMergeDest, CheckMergeSource, ChainRead, tables
<1>3. CASE MergeWrites(s)
  BY <1>3 DEF MergeWrites, MergeChildren, MoveChildren, MergeDedupe, MergeWorks,
     MergeReferenceSources, MergeReferenceTargets, MergeHistory, MergeRecord, MergePurge, DeleteFolder
<1> QED BY <1>1, <1>2, <1>3, StepCases

LEMMA StepAlias ==
  ASSUME Serial, ~MayCrash, SerialInv, HandsInv, AliasInv, NEW s \in Session, Step(s)
  PROVE  AliasInv'
<1>0. /\ TypeOK /\ LocalsType /\ PairInv(s) /\ history \subseteq Folder \X Folder
      /\ folder \cap purged = {} /\ \A t \in Session : t = s
  BY DEF SerialInv, TypeOK, TablesOK, TablesType, Integrity, HandsInv, Serial
<1>1. CASE pc[s] = "purge"
  <2>1. /\ purged' = purged \cup (folder \cap {self[s]}) /\ history' \subseteq history
    BY <1>1, PurgeFollows DEF MergePurge, DeleteFolder
  <2>2. self[s] \in folder
    BY <1>0, <1>1 DEF PairInv, MergePoints, MergeStatements
  <2>3. \A p \in history : p[1] \in purged \cup {self[s]}
    BY <1>0 DEF AliasInv
  <2> QED BY <2>1, <2>2, <2>3 DEF AliasInv
<1>2. CASE pc[s] # "purge"
  <2>1. \A p \in history : p[1] \in purged'
    BY <1>0, <1>2, PurgedGrows DEF AliasInv
  <2>2. CASE MergeHistory(s)
    <3>1. history' = RenameSecond(history, self[s], dest[s])
      BY <2>2 DEF MergeHistory
    <3>2. \A q \in history' : \E p \in history :
            q = <<p[1], IF p[2] = self[s] THEN dest[s] ELSE p[2]>>
      BY <3>1 DEF RenameSecond
    <3>3. ASSUME NEW q \in history', NEW r \in history', q[1] = r[1] PROVE q = r
      BY <3>2, <3>3 DEF AliasInv
    <3> QED BY <2>1, <3>2, <3>3 DEF AliasInv
  <2>3. CASE MergeRecord(s)
    <3>1. /\ history' = history \cup {<<self[s], dest[s]>>} /\ pc'[s] = "purge" /\ self'[s] = self[s]
          /\ pc[s] = "hist"
      BY <1>0, <2>3 DEF MergeRecord, Then, Goto, locals, LocalsType
    <3>2. self[s] \notin purged
      BY <1>0, <3>1 DEF PairInv, MergePoints, MergeStatements
    <3>3. \A p \in history : p[1] # self[s]
      BY <1>0, <1>2, <3>2 DEF AliasInv
    <3>4. ASSUME NEW q \in history', NEW r \in history', q[1] = r[1] PROVE q = r
      BY <3>1, <3>3, <3>4 DEF AliasInv
    <3>5. ASSUME NEW q \in history' PROVE q[1] \in purged' \/ (pc'[s] = "purge" /\ q[1] = self'[s])
      BY <2>1, <3>1
    <3> QED BY <3>4, <3>5 DEF AliasInv
  <2>4. CASE history' \subseteq history
    BY <2>1, <2>4 DEF AliasInv
  <2> QED BY <2>2, <2>3, <2>4, HistoryGrows
<1> QED BY <1>1, <1>2

LEMMA AlwaysAlias ==
  Serial /\ ~MayCrash => (Spec => [](SerialInv /\ HandsInv /\ AliasInv))
<1> SUFFICES ASSUME Serial, ~MayCrash PROVE Spec => [](SerialInv /\ HandsInv /\ AliasInv)
  OBVIOUS
<1>1. Init => AliasInv
  BY DEF Init, TablesInit, AliasInv
<1>2. ASSUME SerialInv, HandsInv, AliasInv, [Next]_vars PROVE AliasInv'
  <2>1. CASE UNCHANGED vars
    BY <1>2, <2>1 DEF AliasInv, vars
  <2> QED BY <1>2, <2>1, StepAlias DEF Next
<1> QED BY <1>1, <1>2, AlwaysHands, PTL DEF Spec

\* When merges are not cut off the merge history is a function between
\* requests, from ids that are gone: a bookmark has one answer, and no
\* living folder is an alias (processMerge, Folder::lookupById).
THEOREM OneAlias == Serial /\ ~MayCrash => (Spec => []HistoryIsFunction)
<1> SUFFICES ASSUME Serial, ~MayCrash PROVE Spec => []HistoryIsFunction
  OBVIOUS
<1>1. AliasInv => HistoryIsFunction
  BY DEF AliasInv, HistoryIsFunction, MergeStatements
<1> QED BY <1>1, AlwaysAlias, PTL

\* Which statements of a merge run into a key: only those that rename
\* references which the two folders share.
LEMMA MergeFails ==
  ASSUME SerialInv, HandsInv, AliasInv, Serial, NEW s \in Session, pc[s] \in MergeStatements, Fails(s)
  PROVE  pc[s] \in {"refFrom", "refTo"} /\ ShareReference(s)
<1>0. /\ PairInv(s) /\ self[s] # dest[s] /\ self[s] \in Folder /\ dest[s] \in Folder
      /\ workFolder \subseteq Work \X Folder /\ reference \subseteq Folder \X Folder
      /\ history \subseteq Folder \X Folder /\ folder \cap purged = {}
  BY DEF SerialInv, TypeOK, InHand, TablesOK, TablesType, Integrity, HandsInv
<1>1. self[s] \in folder /\ dest[s] \in folder
  BY <1>0 DEF PairInv, MergePoints, MergeStatements
<1>2. pc[s] # "children"
  BY <1>1 DEF Fails, MoveChildrenFails
<1>3. pc[s] # "works"
  <2> SUFFICES ASSUME pc[s] = "works" PROVE FALSE
    OBVIOUS
  <2>1. PICK p \in workFolder : p[2] = self[s] /\ <<p[1], dest[s]>> \in workFolder
    BY <1>1 DEF Fails, RenameSecondFails
  <2>2. p[1] \in Work /\ <<p[1], self[s]>> \in workFolder
    BY <1>0, <2>1
  <2> QED BY <1>0, <2>1, <2>2 DEF PairInv
<1>4. pc[s] # "rehist"
  <2> SUFFICES ASSUME pc[s] = "rehist" PROVE FALSE
    OBVIOUS
  <2>1. PICK p \in history : p[2] = self[s] /\ <<p[1], dest[s]>> \in history
    BY <1>1 DEF Fails, RenameSecondFails
  <2>2. p = <<p[1], dest[s]>>
    BY <2>1 DEF AliasInv
  <2> QED BY <1>0, <2>1, <2>2
<1>5. pc[s] # "hist"
  <2> SUFFICES ASSUME pc[s] = "hist" PROVE FALSE
    OBVIOUS
  <2>1. <<self[s], dest[s]>> \in history
    BY <1>1 DEF Fails, InsertHistoryFails
  <2>2. self[s] \in purged
    BY <2>1 DEF AliasInv, Serial
  <2> QED BY <1>0, <1>1, <2>2
<1>6. CASE pc[s] = "refFrom"
  <2>1. PICK p \in reference : p[1] = self[s] /\ <<dest[s], p[2]>> \in reference
    BY <1>1, <1>6 DEF Fails, RenameFirstFails
  <2>2. p[2] \in Folder /\ <<self[s], p[2]>> \in reference
    BY <1>0, <2>1
  <2> QED BY <1>6, <2>1, <2>2 DEF ShareReference
<1>7. CASE pc[s] = "refTo"
  <2>1. PICK p \in reference : p[2] = self[s] /\ <<p[1], dest[s]>> \in reference
    BY <1>1, <1>7 DEF Fails, RenameSecondFails
  <2>2. p[1] \in Folder /\ <<p[1], self[s]>> \in reference
    BY <1>0, <2>1
  <2> QED BY <1>7, <2>1, <2>2 DEF ShareReference
<1>8. pc[s] # "dedupe" /\ pc[s] # "purge"
  BY DEF Fails
<1> QED BY <1>2, <1>3, <1>4, <1>5, <1>6, <1>7, <1>8 DEF MergeStatements

\* Once a merge of a single editor starts to write it reaches its last
\* statement, unless the two folders share a reference: each statement of
\* processMerge has cleared the way for the keys of the later ones.
THEOREM MergesComplete == Serial /\ ~MayCrash => (Spec => MergeRunsToEnd)
<1> SUFFICES ASSUME Serial, ~MayCrash PROVE Spec => MergeRunsToEnd
  OBVIOUS
<1>1. ASSUME SerialInv, HandsInv, AliasInv, NEW s \in Session, Step(s),
             StepAt(s, MergeStatements), pc'[s] = "idle"
      PROVE  pc[s] = "purge" \/ (pc[s] \in {"refFrom", "refTo"} /\ ShareReference(s))
  <2>1. pc[s] \in MergeStatements /\ LocalsType
    BY <1>1 DEF StepAt, SerialInv, TypeOK
  <2>2. CASE Ends(s)
    <3>1. ~EndLoop(s) /\ ~Abandon(s) /\ ~Crash(s)
      BY <2>1 DEF EndLoop, Abandon, Crash, MergeStatements, Pages
    <3> QED BY <1>1, <2>1, <2>2, <3>1, MergeFails DEF Ends, HandleError
  <2>3. CASE MergeWrites(s)
    BY <1>1, <2>1, <2>3 DEF MergeWrites, MergeChildren, MergeDedupe, MergeWorks, MergeReferenceSources,
       MergeReferenceTargets, MergeHistory, MergeRecord, MergePurge, Then, Goto, LocalsType
  <2>4. ~Edit(s) /\ ~Delete(s) /\ ~References(s) /\ ~Classify(s)
    BY <2>1 DEF MergeStatements, Edit, OpenAdd, SubmitAdd, OpenEdit, SubmitEdit, Delete, OpenDelete, Unlink,
       Drop, References, OpenReferences, DropReferences, AddReference, Show,
       Classify, OpenClassify, DropAllFolders, AddWork, PickRemovals, RemoveWork
  <2>5. /\ ~Move(s) /\ ~StartMerge(s) /\ ~LoadDest(s) /\ ~Climb(s)
        /\ ~CheckMergeDest(s) /\ ~CheckMergeSource(s)
    BY <2>1 DEF MergeStatements, Move, StartMove, StartMerge, StartRequest, CheckMove, WriteMove, LoadDest,
       Climb, Chains, CheckMergeDest, CheckMergeSource, ChainRead
  <2> QED BY <1>1, <2>2, <2>3, <2>4, <2>5, StepCases
<1>2. SerialInv /\ HandsInv /\ AliasInv /\ [Next]_vars =>
        [\A s \in Session :
           StepAt(s, MergeStatements) /\ pc'[s] = "idle" =>
             pc[s] = "purge" \/ (pc[s] \in {"refFrom", "refTo"} /\ ShareReference(s))]_vars
  <2> SUFFICES ASSUME SerialInv, HandsInv, AliasInv, Next, NEW s \in Session,
                      StepAt(s, MergeStatements), pc'[s] = "idle"
               PROVE  pc[s] = "purge" \/ (pc[s] \in {"refFrom", "refTo"} /\ ShareReference(s))
    OBVIOUS
  <2>1. Step(s)
    BY DEF Next, Serial
  <2> QED BY <1>1, <2>1
<1> QED BY <1>2, AlwaysAlias, PTL DEF Spec, MergeRunsToEnd

-----------------------------------------------------------------------------
(* The classification of a single editor implements Bookmarks.             *)

\* A step that leaves the tables of bookmarks alone can only change what is
\* posted.
LEMMA Unmoved ==
  ASSUME folder' = folder, history' = history
  PROVE  BM!Ask
<1>1. Leads' = Leads
  BY DEF Leads, LookupById
<1>2. Condemned' \subseteq folder
  BY DEF Condemned
<1> QED BY <1>1, <1>2 DEF BM!Ask

\* A new row has an id that led nowhere, and no alias leads to it.
LEMMA AddIssues ==
  ASSUME Serial, SerialInv, HandsInv, NEW s \in Session, SubmitAdd(s)
  PROVE  \E f \in Folder : BM!Issue(f)
<1>0. LocalsType /\ (\A p \in history : p[2] \in folder) /\ Issued /\ folder \subseteq Folder
  BY DEF SerialInv, TypeOK, TablesOK, TablesType, Integrity, HandsInv
<1>1. PICK f \in Folder : f \notin folder \cup purged /\ folder' = folder \cup {f} /\ history' = history
  BY DEF SubmitAdd, InsertFolder
<1>2. \A g \in Folder : <<f, g>> \notin history
  BY <1>0, <1>1 DEF Issued
<1>3. \A x \in Folder : <<x, f>> \notin history
  BY <1>0, <1>1
<1>4. Leads[f] = {}
  BY <1>0, <1>1, <1>2 DEF Leads, LookupById
<1>5. ASSUME NEW x \in Folder
      PROVE  LookupById(x)' = IF x = f THEN {f} ELSE LookupById(x)
  BY <1>0, <1>1, <1>2, <1>3 DEF LookupById
<1>6. Leads' = [Leads EXCEPT ![f] = {f}]
  BY <1>5 DEF Leads
<1>7. Condemned = {} /\ Condemned' = {}
  <2>1. pc[s] = "addPage" /\ pc'[s] = "idle"
    BY <1>0 DEF SubmitAdd, Finish, Goto, LocalsType
  <2> QED BY <2>1 DEF Condemned, Serial
<1> QED BY <1>1, <1>4, <1>6, <1>7 DEF BM!Issue

\* Aliases of the source come to lead to the destination instead.
LEMMA HistoryRedirects ==
  ASSUME Serial, SerialInv, HandsInv, NEW s \in Session, MergeHistory(s)
  PROVE  \E from, to \in Folder : BM!Redirect(from, to)
<1>0. /\ LocalsType /\ self[s] \in folder /\ dest[s] \in folder /\ self[s] # dest[s]
      /\ folder \subseteq Folder /\ history \subseteq Folder \X Folder /\ pc[s] = "rehist"
  BY DEF SerialInv, TypeOK, InHand, TablesOK, TablesType, HandsInv, PairInv, MergeHistory, MergePoints,
     MergeStatements
<1>1. history' = RenameSecond(history, self[s], dest[s]) /\ folder' = folder /\ pc'[s] = "hist"
  BY <1>0 DEF MergeHistory, Then, Goto, LocalsType
<1>2. ASSUME NEW x \in Folder, NEW f \in Folder
      PROVE  <<x, f>> \in history' <=>
               \/ f # self[s] /\ <<x, f>> \in history
               \/ f = dest[s] /\ <<x, self[s]>> \in history
  BY <1>0, <1>1 DEF RenameSecond
<1>3. ASSUME NEW x \in Folder
      PROVE  \/ LookupById(x)' = LookupById(x)
             \/ /\ self[s] \in LookupById(x)
                /\ LookupById(x)' \in {LookupById(x) \cup {dest[s]},
                                       (LookupById(x) \ {self[s]}) \cup {dest[s]}}
  <2>0. /\ \A f \in LookupById(x) : f \in Folder /\ f \in folder /\ (f = x \/ <<x, f>> \in history)
        /\ \A f \in folder : f = x \/ <<x, f>> \in history => f \in LookupById(x)
        /\ \A f \in LookupById(x)' : f \in Folder /\ f \in folder /\ (f = x \/ <<x, f>> \in history')
        /\ \A f \in folder : f = x \/ <<x, f>> \in history' => f \in LookupById(x)'
    BY <1>0, <1>1 DEF LookupById
  <2>1. CASE <<x, self[s]>> \notin history
    <3>1. \A f \in folder : <<x, f>> \in history' <=> <<x, f>> \in history
      BY <1>0, <1>2, <2>1
    <3> QED BY <2>0, <3>1
  <2>2. CASE <<x, self[s]>> \in history /\ x = self[s]
    <3>1. LookupById(x)' = LookupById(x) \cup {dest[s]}
      BY <1>0, <1>2, <2>0, <2>2
    <3> QED BY <1>0, <2>0, <2>2, <3>1
  <2>3. CASE <<x, self[s]>> \in history /\ x # self[s]
    <3>1. LookupById(x)' = (LookupById(x) \ {self[s]}) \cup {dest[s]}
      BY <1>0, <1>2, <2>0, <2>3
    <3> QED BY <1>0, <2>0, <2>3, <3>1
  <2> QED BY <2>1, <2>2, <2>3
<1>4. /\ Leads' \in [Folder -> SUBSET folder]
      /\ \A x \in Folder : Leads[x] = LookupById(x) /\ Leads'[x] = LookupById(x)'
  BY <1>1 DEF Leads, LookupById
<1>5. Condemned' = Condemned
  BY <1>0, <1>1 DEF Condemned, Serial
<1> QED BY <1>0, <1>1, <1>3, <1>4, <1>5 DEF BM!Redirect

\* The id of the source comes to lead to the destination as well.
LEMMA RecordRedirects ==
  ASSUME Serial, SerialInv, HandsInv, NEW s \in Session, MergeRecord(s)
  PROVE  \E from, to \in Folder : BM!Redirect(from, to)
<1>0. /\ LocalsType /\ self[s] \in folder /\ dest[s] \in folder /\ self[s] # dest[s]
      /\ folder \subseteq Folder /\ pc[s] = "hist"
  BY DEF SerialInv, TypeOK, InHand, TablesOK, TablesType, HandsInv, PairInv, MergeRecord, MergePoints,
     MergeStatements
<1>1. history' = history \cup {<<self[s], dest[s]>>} /\ folder' = folder /\ pc'[s] = "purge"
  BY <1>0 DEF MergeRecord, Then, Goto, LocalsType
<1>2. ASSUME NEW x \in Folder
      PROVE  \/ LookupById(x)' = LookupById(x)
             \/ self[s] \in LookupById(x) /\ LookupById(x)' = LookupById(x) \cup {dest[s]}
  BY <1>0, <1>1 DEF LookupById
<1>3. /\ Leads' \in [Folder -> SUBSET folder]
      /\ \A x \in Folder : Leads[x] = LookupById(x) /\ Leads'[x] = LookupById(x)'
  BY <1>1 DEF Leads, LookupById
<1>4. Condemned' = Condemned
  BY <1>0, <1>1 DEF Condemned, Serial
<1> QED BY <1>0, <1>1, <1>2, <1>3, <1>4 DEF BM!Redirect

\* DELETE of the source: the aliases have been moved, its own is there.
LEMMA PurgeAbsorbs ==
  ASSUME Serial, SerialInv, HandsInv, NEW s \in Session, MergePurge(s)
  PROVE  \E f \in Folder : BM!Absorb(f)
<1>0. /\ LocalsType /\ self[s] \in folder /\ dest[s] \in folder /\ self[s] # dest[s]
      /\ folder \subseteq Folder /\ history \subseteq Folder \X Folder /\ pc[s] = "purge"
      /\ \A f \in Folder : <<f, self[s]>> \notin history
      /\ <<self[s], dest[s]>> \in history
  BY DEF SerialInv, TypeOK, InHand, TablesOK, TablesType, HandsInv, PairInv, MergePurge, MergePoints,
     MergeStatements, RequestInv, MergeInv
<1>1. /\ folder' = folder \ {self[s]} /\ history' = {p \in history : p[2] # self[s]} /\ pc'[s] = "idle"
  BY <1>0 DEF MergePurge, DeleteFolder, Finish, Goto, LocalsType
<1>2. ASSUME NEW x \in Folder
      PROVE  LookupById(x)' = LookupById(x) \ {self[s]} /\ LookupById(x) # {self[s]}
  BY <1>0, <1>1 DEF LookupById
<1>3. Leads' = [x \in Folder |-> Leads[x] \ {self[s]}] /\ \A x \in Folder : Leads[x] # {self[s]}
  BY <1>2 DEF Leads
<1>4. Condemned = {} /\ Condemned' = {}
  BY <1>0, <1>1 DEF Condemned, Serial
<1> QED BY <1>0, <1>1, <1>3, <1>4 DEF BM!Absorb

\* A deletion takes what was asked for.
LEMMA DropWithdraws ==
  ASSUME Serial, SerialInv, HandsInv, NEW s \in Session, Drop(s)
  PROVE  \E f \in Folder : BM!Withdraw(f)
<1>0. /\ LocalsType /\ self[s] \in todo[s] /\ todo[s] \subseteq folder
      /\ folder \subseteq Folder /\ pc[s] = "drop"
  BY DEF SerialInv, TypeOK, TablesOK, TablesType, HandsInv, PostedInv, Drop, DeletePoints
<1>1. /\ folder' = folder \ {self[s]} /\ history' = {p \in history : p[2] # self[s]}
      /\ pc'[s] = "idle" \/ (pc'[s] = "unlink" /\ todo'[s] = todo[s] \ {self[s]})
  BY <1>0 DEF Drop, DeleteFolder, Finish, Goto, LocalsType
<1>2. ASSUME NEW x \in Folder
      PROVE  LookupById(x)' = LookupById(x) \ {self[s]}
  BY <1>0, <1>1 DEF LookupById
<1>3. Leads' = [x \in Folder |-> Leads[x] \ {self[s]}]
  BY <1>2 DEF Leads
<1>4. self[s] \in Condemned /\ Condemned' \subseteq Condemned
  BY <1>0, <1>1 DEF Condemned, Serial, DeletePoints
<1> QED BY <1>0, <1>1, <1>3, <1>4 DEF BM!Withdraw

\* Every other step leaves them alone.
LEMMA OthersAsk ==
  ASSUME NEW s \in Session, Step(s),
         ~SubmitAdd(s), ~MergeHistory(s), ~MergeRecord(s), ~MergePurge(s), ~Drop(s)
  PROVE  folder' = folder /\ history' = history
<1>1. CASE Edit(s) \/ Delete(s) \/ References(s) \/ Classify(s) \/ Ends(s)
  BY <1>1 DEF Edit, OpenAdd, OpenEdit, SubmitEdit, UpdateParent, Delete, OpenDelete, Unlink,
     References, OpenReferences, Show, DropReferences, AddReference,
     Classify, OpenClassify, DropAllFolders, AddWork, PickRemovals, RemoveWork,
     Ends, EndLoop, HandleError, Abandon, Crash, tables
<1>2. CASE \/ Move(s) \/ StartMerge(s) \/ LoadDest(s) \/ Climb(s)
           \/ CheckMergeDest(s) \/ CheckMergeSource(s)
  BY <1>2 DEF Move, StartMove, StartRequest, CheckMove, WriteMove, UpdateParent, StartMerge, LoadDest,
     Climb, CheckMergeDest, CheckMergeSource, ChainRead, tables
<1>3. CASE MergeWrites(s)
  BY <1>3 DEF MergeWrites, MergeChildren, MoveChildren, MergeDedupe, MergeWorks,
     MergeReferenceSources, MergeReferenceTargets
<1> QED BY <1>1, <1>2, <1>3, StepCases

\* The statements of a single editor's merges and deletions, in the order the
\* code sends them and wherever they are cut off, implement the promise made
\* to bookmarks: the comment of Folder::lookupById holds.
THEOREM BookmarkPromiseKept == Serial => (Spec => KeepsBookmarkPromise)
<1> SUFFICES ASSUME Serial PROVE Spec => KeepsBookmarkPromise
  OBVIOUS
<1>1. Init => BM!Init
  <2> SUFFICES ASSUME Init PROVE BM!Init
    OBVIOUS
  <2>1. folder \subseteq Folder /\ history = {} /\ \A s \in Session : pc[s] = "idle"
    BY FolderAssumption DEF Init, TablesInit
  <2>2. Leads = [x \in Folder |-> {x} \cap folder]
    BY <2>1 DEF Leads, LookupById
  <2>3. Condemned = {}
    BY <2>1 DEF Condemned
  <2> QED BY <2>1, <2>2, <2>3 DEF BM!Init
<1>2. SerialInv /\ HandsInv /\ [Next]_vars => [BM!Next]_(BM!bookmarkVars)
  <2> SUFFICES ASSUME SerialInv, HandsInv, [Next]_vars PROVE [BM!Next]_(BM!bookmarkVars)
    OBVIOUS
  <2>1. CASE UNCHANGED vars
    BY <2>1, Unmoved DEF BM!Next, vars
  <2>2. ASSUME NEW s \in Session, Step(s) PROVE BM!Next
    <3>1. CASE SubmitAdd(s)
      BY <3>1, AddIssues DEF BM!Next
    <3>2. CASE MergeHistory(s)
      BY <3>2, HistoryRedirects DEF BM!Next
    <3>3. CASE MergeRecord(s)
      BY <3>3, RecordRedirects DEF BM!Next
    <3>4. CASE MergePurge(s)
      BY <3>4, PurgeAbsorbs DEF BM!Next
    <3>5. CASE Drop(s)
      BY <3>5, DropWithdraws DEF BM!Next
    <3> QED BY <2>2, <3>1, <3>2, <3>3, <3>4, <3>5, OthersAsk, Unmoved DEF BM!Next
  <2> QED BY <2>1, <2>2 DEF Next
<1> QED BY <1>1, <1>2, AlwaysHands, PTL DEF Spec, KeepsBookmarkPromise, BM!Spec
=============================================================================
