------------------------- MODULE ClassificationTree -------------------------
(***************************************************************************)
(* The editing of the classification: the handlers of admin/tree.php, the  *)
(* category tab of admin/work.php and the class Folder they use.           *)
(*                                                                         *)
(* A session is a logged-in editor.  PHP serves one request of a session   *)
(* at a time, so a session has one program counter; requests of different  *)
(* sessions interleave between any two SQL statements.  A "page" value of  *)
(* pc is a form the editor has on the screen: its choices were computed    *)
(* when it was rendered and are used only when it is submitted.            *)
(***************************************************************************)
EXTENDS FolderTables

CONSTANTS
  Session,     \* editors at work
  Ops,         \* the operations the editors use (a subset of AllOps)
  NotRead,     \* a folder the request has not loaded
  NoWork,      \* no work
  MayCrash,    \* TRUE: a request may be cut off between two statements
  PicksSelf    \* TRUE: an editor may choose a folder as its own parent

AllOps == {"add", "edit", "move", "merge", "delete", "refs", "classify"}

ASSUME TreeAssumption ==
  /\ NotRead \notin Folder \cup {NoFolder}
  /\ NoWork \notin Work
  /\ Ops \subseteq AllOps
  /\ MayCrash \in BOOLEAN
  /\ PicksSelf \in BOOLEAN

VARIABLES
  pc,      \* what the session is about to do
  self,    \* the folder its request is about ($folder, $source)
  dest,    \* the other folder ($dest, or the parent_id of a form)
  item,    \* the work whose category tab is open
  todo,    \* posted folder ids the request has still to process
  cache,   \* parent_id of each folder object that staticGet has loaded
  at,      \* $current in Folder::getParentChain
  seen     \* $encounteredIds in Folder::getParentChain; on the category tab,
           \* the folders the work was added to

locals == <<self, dest, item, todo, cache, at, seen>>
vars == <<folder, purged, parent, workFolder, reference, history,
          pc, self, dest, item, todo, cache, at, seen>>

Pages == {"addPage", "editPage", "deletePage", "refsPage", "classifyPage"}
MergeStatements == {"children", "dedupe", "works", "refFrom", "refTo",
                    "rehist", "hist", "purge"}
Running == {"moveDest", "moveChain", "moveWrite",
            "mergeDest", "mergeDestChain", "mergeSourceChain",
            "unlink", "drop", "addRefs", "addWorks", "removeWorks"}
           \cup MergeStatements

Empty == [f \in Folder |-> NotRead]

Init ==
  /\ TablesInit
  /\ pc = [s \in Session |-> "idle"]
  /\ self = [s \in Session |-> NoFolder]
  /\ dest = [s \in Session |-> NoFolder]
  /\ item = [s \in Session |-> NoWork]
  /\ todo = [s \in Session |-> {}]
  /\ cache = [s \in Session |-> Empty]
  /\ at = [s \in Session |-> NoFolder]
  /\ seen = [s \in Session |-> {}]

-----------------------------------------------------------------------------
\* Control of a session.
Goto(s, label) == pc' = [pc EXCEPT ![s] = label]

\* The request proceeds to its next statement, its locals as they are.
Then(s, label) == Goto(s, label) /\ UNCHANGED locals

\* The request ends and its locals with it.
Finish(s) ==
  /\ Goto(s, "idle")
  /\ self' = [self EXCEPT ![s] = NoFolder]
  /\ dest' = [dest EXCEPT ![s] = NoFolder]
  /\ item' = [item EXCEPT ![s] = NoWork]
  /\ todo' = [todo EXCEPT ![s] = {}]
  /\ cache' = [cache EXCEPT ![s] = Empty]
  /\ at' = [at EXCEPT ![s] = NoFolder]
  /\ seen' = [seen EXCEPT ![s] = {}]

\* A page is rendered: the folder it is about, the parent chosen on it and
\* the folders ticked on it.
Show(s, op, page, f, p, ids) ==
  /\ pc[s] = "idle" /\ op \in Ops
  /\ Goto(s, page)
  /\ self' = [self EXCEPT ![s] = f]
  /\ dest' = [dest EXCEPT ![s] = p]
  /\ todo' = [todo EXCEPT ![s] = ids]
  /\ UNCHANGED <<tables, item, cache, at, seen>>

\* The editor leaves the page.
Abandon(s) == pc[s] \in Pages /\ Finish(s) /\ UNCHANGED tables

\* max_execution_time, memory_limit or a lost server end the request; what
\* its earlier statements wrote stays.
Crash(s) == MayCrash /\ pc[s] \in Running /\ Finish(s) /\ UNCHANGED tables

-----------------------------------------------------------------------------
\* showForm and handleForm: a new folder, or new values for an old one.
OpenAdd(s) ==
  \E p \in folder \cup {NoFolder} : Show(s, "add", "addPage", NoFolder, p, {})

SubmitAdd(s) ==
  /\ pc[s] = "addPage"
  /\ \E f \in Folder : InsertFolder(f, dest[s])
  /\ Finish(s)

\* getParentFolderList: the siblings of the parent, or every root -- among
\* them the folder itself.  The form offers an empty choice besides.
ParentOptions(f) ==
  {g \in folder :
     /\ parent[g] = (IF parent[f] = NoFolder THEN NoFolder ELSE parent[parent[f]])
     /\ parent[f] = NoFolder /\ g = f => PicksSelf}

OpenEdit(s) ==
  \E f \in folder : \E p \in ParentOptions(f) \cup {NoFolder} :
    Show(s, "edit", "editPage", f, p, {})

SubmitEdit(s) ==
  /\ pc[s] = "editPage"
  /\ UpdateParent(self[s], dest[s])
  /\ Finish(s)

-----------------------------------------------------------------------------
\* showDelete and folder-delete.tpl: of the ticked children of one folder,
\* those without dependencies carry a hidden id.  hasWorks runs its COUNT
\* query, never fetches its row and returns an unset property.
HasChildrenUnread(f) == FALSE  \* (deviation: the count is not read either)
HasChildren(f) == Children(f) # {}
HasWorks(f) == FALSE

OpenDelete(s) ==
  \E p \in folder \cup {NoFolder} : \E ticked \in SUBSET {f \in folder : parent[f] = p} :
    LET free == {f \in ticked : ~(HasChildren(f) \/ HasWorks(f))}
    IN  free # {} /\ Show(s, "delete", "deletePage", NoFolder, NoFolder, free)

\* handleDelete, two statements for each id.
Unlink(s) ==
  /\ pc[s] \in {"deletePage", "unlink"}
  /\ \E f \in todo[s] :
       /\ workFolder' = {p \in workFolder : p[2] # f}
       /\ self' = [self EXCEPT ![s] = f]
  /\ Goto(s, "drop")
  /\ UNCHANGED <<folder, purged, parent, reference, history,
                 dest, item, todo, cache, at, seen>>

Drop(s) ==
  /\ pc[s] = "drop"
  /\ DeleteFolder(self[s])
  /\ LET rest == todo[s] \ {self[s]}
     IN  IF rest = {} THEN Finish(s)
         ELSE /\ Goto(s, "unlink")
              /\ todo' = [todo EXCEPT ![s] = rest]
              /\ UNCHANGED <<self, dest, item, cache, at, seen>>

-----------------------------------------------------------------------------
\* Folder::staticGet keeps the objects it has loaded for the whole request.
Load(s, f) == cache' = [cache EXCEPT ![s][f] = IF @ = NotRead THEN parent[f] ELSE @]

\* handleMove and processMerge begin by loading the folder; a destination
\* may have gone since the page that offered it was rendered.  (A request
\* about a folder that has gone itself ends at once and writes nothing.)
StartRequest(s, op, next, f, d) ==
  /\ pc[s] = "idle" /\ op \in Ops
  /\ f # d
  /\ Load(s, f)
  /\ Goto(s, next)
  /\ self' = [self EXCEPT ![s] = f]
  /\ dest' = [dest EXCEPT ![s] = d]
  /\ UNCHANGED <<tables, item, todo, at, seen>>

StartMove(s) ==
  \E f \in folder, d \in folder \cup purged \cup {NoFolder} :
    StartRequest(s, "move", IF d = NoFolder THEN "moveWrite" ELSE "moveDest", f, d)

StartMerge(s) ==
  \E f \in folder, d \in folder \cup purged : StartRequest(s, "merge", "mergeDest", f, d)

\* The destination is loaded; a missing one ends the request.
LoadDest(s) ==
  /\ pc[s] \in {"moveDest", "mergeDest"}
  /\ UNCHANGED tables
  /\ IF dest[s] \notin folder THEN Finish(s)
     ELSE /\ Load(s, dest[s])
          /\ at' = [at EXCEPT ![s] = dest[s]]
          /\ seen' = [seen EXCEPT ![s] = {dest[s]}]
          /\ Goto(s, IF pc[s] = "moveDest" THEN "moveChain" ELSE "mergeDestChain")
          /\ UNCHANGED <<self, dest, item, todo>>

-----------------------------------------------------------------------------
\* Folder::getParentChain: it goes on while the current folder has a parent
\* that was not encountered before.
Chains == {"moveChain", "mergeDestChain", "mergeSourceChain"}
ClimbsUnguarded(s) ==  \* (deviation: no safety check against circles)
  at[s] # NoFolder /\ cache[s][at[s]] \in Folder
Climbs(s) ==
  /\ at[s] # NoFolder
  /\ cache[s][at[s]] \in Folder \ seen[s]

\* One round of the loop.  staticGet of a row that has gone yields false,
\* which has no parent_id: the chain ends there.
Climb(s) ==
  /\ pc[s] \in Chains /\ Climbs(s)
  /\ LET p == cache[s][at[s]]
     IN  IF cache[s][p] # NotRead \/ p \in folder
         THEN /\ Load(s, p)
              /\ at' = [at EXCEPT ![s] = p]
              /\ seen' = [seen EXCEPT ![s] = @ \cup {p}]
         ELSE /\ at' = [at EXCEPT ![s] = NoFolder]
              /\ UNCHANGED <<cache, seen>>
  /\ UNCHANGED <<tables, pc, self, dest, item, todo>>

ChainRead(s, label) == pc[s] = label /\ ~Climbs(s) /\ UNCHANGED tables

\* The checks are passed: what was read for them is not looked at again.
Passed(s, label) ==
  /\ Goto(s, label)
  /\ cache' = [cache EXCEPT ![s] = Empty]
  /\ at' = [at EXCEPT ![s] = NoFolder]
  /\ seen' = [seen EXCEPT ![s] = {}]
  /\ UNCHANGED <<self, dest, item, todo>>

\* The chain is in the hands of the caller, who looks for the other folder.
CheckMoveUnasked(s) ==  \* (deviation: the chain is not searched)
  ChainRead(s, "moveChain") /\ Passed(s, "moveWrite")
CheckMove(s) ==
  /\ ChainRead(s, "moveChain")
  /\ IF self[s] \in seen[s] THEN Finish(s) ELSE Passed(s, "moveWrite")

CheckMergeDest(s) ==
  /\ ChainRead(s, "mergeDestChain")
  /\ IF self[s] \in seen[s] THEN Finish(s)
     ELSE /\ Goto(s, "mergeSourceChain")
          /\ at' = [at EXCEPT ![s] = self[s]]
          /\ seen' = [seen EXCEPT ![s] = {self[s]}]
          /\ UNCHANGED <<self, dest, item, todo, cache>>

CheckMergeSource(s) ==
  /\ ChainRead(s, "mergeSourceChain")
  /\ IF dest[s] \in seen[s] THEN Finish(s) ELSE Passed(s, "children")

\* handleMove writes the whole row it loaded, with the new parent.
WriteMove(s) ==
  /\ pc[s] = "moveWrite"
  /\ UpdateParent(self[s], dest[s])
  /\ Finish(s)

-----------------------------------------------------------------------------
\* Deviations of processMerge: a statement left out.
SkipTo(s, label, next) == pc[s] = label /\ Then(s, next) /\ UNCHANGED tables
MergeChildrenSkipped(s) == SkipTo(s, "children", "dedupe")
MergeDedupeSkipped(s) == SkipTo(s, "dedupe", "works")
MergeWorksSkipped(s) == SkipTo(s, "works", "refFrom")
MergeHistorySkipped(s) == SkipTo(s, "rehist", "hist")
MergeRecordSkipped(s) == SkipTo(s, "hist", "purge")
MergePurgeSkipped(s) == pc[s] = "purge" /\ Finish(s) /\ UNCHANGED tables

\* processMerge, confirmed: one action per statement.
MergeChildren(s) ==
  /\ pc[s] = "children"
  /\ MoveChildren(self[s], dest[s])
  /\ Then(s, "dedupe")

MergeDedupe(s) ==
  /\ pc[s] = "dedupe"
  /\ workFolder' = {p \in workFolder : ~(p[2] = dest[s] /\ <<p[1], self[s]>> \in workFolder)}
  /\ Then(s, "works")
  /\ UNCHANGED <<folder, purged, parent, reference, history>>

MergeWorks(s) ==
  /\ pc[s] = "works"
  /\ ~RenameSecondFails(workFolder, self[s], dest[s])
  /\ workFolder' = RenameSecond(workFolder, self[s], dest[s])
  /\ Then(s, "refFrom")
  /\ UNCHANGED <<folder, purged, parent, reference, history>>

MergeReferenceSources(s) ==
  /\ pc[s] = "refFrom"
  /\ ~RenameFirstFails(reference, self[s], dest[s])
  /\ reference' = RenameFirst(reference, self[s], dest[s])
  /\ Then(s, "refTo")
  /\ UNCHANGED <<folder, purged, parent, workFolder, history>>

MergeReferenceTargets(s) ==
  /\ pc[s] = "refTo"
  /\ ~RenameSecondFails(reference, self[s], dest[s])
  /\ reference' = RenameSecond(reference, self[s], dest[s])
  /\ Then(s, "rehist")
  /\ UNCHANGED <<folder, purged, parent, workFolder, history>>

MergeHistory(s) ==
  /\ pc[s] = "rehist"
  /\ ~RenameSecondFails(history, self[s], dest[s])
  /\ history' = RenameSecond(history, self[s], dest[s])
  /\ Then(s, "hist")
  /\ UNCHANGED <<folder, purged, parent, workFolder, reference>>

MergeRecord(s) ==
  /\ pc[s] = "hist"
  /\ ~InsertHistoryFails(self[s], dest[s])
  /\ history' = history \cup {<<self[s], dest[s]>>}
  /\ Then(s, "purge")
  /\ UNCHANGED <<folder, purged, parent, workFolder, reference>>

MergePurge(s) ==
  /\ pc[s] = "purge"
  /\ DeleteFolder(self[s])
  /\ Finish(s)

-----------------------------------------------------------------------------
\* handleReferences: all references of a folder are dropped, then the posted
\* ones inserted.  One of them may be on the page twice (dest names it).
OpenReferences(s) ==
  \E f \in folder : \E ids \in SUBSET folder : \E twice \in ids \cup {NoFolder} :
    Show(s, "refs", "refsPage", f, twice, ids)

DropReferences(s) ==
  /\ pc[s] = "refsPage"
  /\ reference' = {p \in reference : p[1] # self[s]}
  /\ Then(s, "addRefs")
  /\ UNCHANGED <<folder, purged, parent, workFolder, history>>

ReferenceFails(s, g) ==
  <<self[s], g>> \in reference \/ ~({self[s], g} \subseteq folder)

AddReference(s) ==
  /\ pc[s] = "addRefs"
  /\ \E g \in todo[s] :
       /\ ~ReferenceFails(s, g)
       /\ reference' = reference \cup {<<self[s], g>>}
       /\ IF g = dest[s]
          THEN dest' = [dest EXCEPT ![s] = NoFolder] /\ UNCHANGED todo
          ELSE todo' = [todo EXCEPT ![s] = @ \ {g}] /\ UNCHANGED dest
  /\ UNCHANGED <<folder, purged, parent, workFolder, history,
                 pc, self, item, cache, at, seen>>

-----------------------------------------------------------------------------
\* The category tab of a work: its folders are dropped, the posted ones
\* inserted, those ticked for removal deleted again.
OpenClassify(s) ==
  \E w \in Work, ids \in SUBSET folder :
    /\ pc[s] = "idle" /\ "classify" \in Ops
    /\ Goto(s, "classifyPage")
    /\ item' = [item EXCEPT ![s] = w]
    /\ todo' = [todo EXCEPT ![s] = ids]
    /\ UNCHANGED <<tables, self, dest, cache, at, seen>>

DropAllFolders(s) ==
  /\ pc[s] = "classifyPage"
  /\ workFolder' = {p \in workFolder : p[1] # item[s]}
  /\ Then(s, "addWorks")
  /\ UNCHANGED <<folder, purged, parent, reference, history>>

\* Folder::addWork; the duplicate is no error, the missing folder is.
AddWork(s) ==
  /\ pc[s] = "addWorks"
  /\ \E f \in todo[s] \cap folder :
       /\ workFolder' = workFolder \cup {<<item[s], f>>}
       /\ todo' = [todo EXCEPT ![s] = @ \ {f}]
       /\ seen' = [seen EXCEPT ![s] = @ \cup {f}]
  /\ UNCHANGED <<folder, purged, parent, reference, history,
                 pc, self, dest, item, cache, at>>

\* The ticked ones are among those on the page.
PickRemovals(s) ==
  /\ pc[s] = "addWorks" /\ todo[s] = {}
  /\ \E ids \in SUBSET seen[s] : todo' = [todo EXCEPT ![s] = ids]
  /\ Goto(s, "removeWorks")
  /\ UNCHANGED <<tables, self, dest, item, cache, at, seen>>

RemoveWork(s) ==
  /\ pc[s] = "removeWorks"
  /\ \E f \in todo[s] :
       /\ workFolder' = workFolder \ {<<item[s], f>>}
       /\ todo' = [todo EXCEPT ![s] = @ \ {f}]
  /\ UNCHANGED <<folder, purged, parent, reference, history,
                 pc, self, dest, item, cache, at, seen>>

\* The loops over the posted ids end.
EndLoop(s) ==
  /\ pc[s] \in {"addRefs", "removeWorks"} /\ todo[s] = {}
  /\ Finish(s) /\ UNCHANGED tables

-----------------------------------------------------------------------------
\* A statement that violates a key goes to handleError, which exits.
Fails(s) ==
  \/ pc[s] \in {"editPage", "moveWrite"} /\ UpdateParentFails(self[s], dest[s])
  \/ pc[s] = "addPage" /\ dest[s] \notin folder \cup {NoFolder}
  \/ pc[s] = "children" /\ MoveChildrenFails(self[s], dest[s])
  \/ pc[s] = "works" /\ RenameSecondFails(workFolder, self[s], dest[s])
  \/ pc[s] = "refFrom" /\ RenameFirstFails(reference, self[s], dest[s])
  \/ pc[s] = "refTo" /\ RenameSecondFails(reference, self[s], dest[s])
  \/ pc[s] = "rehist" /\ RenameSecondFails(history, self[s], dest[s])
  \/ pc[s] = "hist" /\ InsertHistoryFails(self[s], dest[s])
  \/ pc[s] = "addRefs" /\ \E g \in todo[s] : ReferenceFails(s, g)
  \/ pc[s] = "addWorks" /\ ~(todo[s] \subseteq folder)

HandleError(s) == Fails(s) /\ Finish(s) /\ UNCHANGED tables

Edit(s) == OpenAdd(s) \/ SubmitAdd(s) \/ OpenEdit(s) \/ SubmitEdit(s)
Delete(s) == OpenDelete(s) \/ Unlink(s) \/ Drop(s)
Move(s) == StartMove(s) \/ CheckMove(s) \/ WriteMove(s)
Merge(s) ==
  \/ StartMerge(s) \/ CheckMergeDest(s) \/ CheckMergeSource(s)
  \/ MergeChildren(s) \/ MergeDedupe(s) \/ MergeWorks(s)
  \/ MergeReferenceSources(s) \/ MergeReferenceTargets(s)
  \/ MergeHistory(s) \/ MergeRecord(s) \/ MergePurge(s)
References(s) == OpenReferences(s) \/ DropReferences(s) \/ AddReference(s)
Classify(s) ==
  \/ OpenClassify(s) \/ DropAllFolders(s) \/ AddWork(s)
  \/ PickRemovals(s) \/ RemoveWork(s)

Step(s) ==
  \/ Edit(s) \/ Delete(s) \/ Move(s) \/ Merge(s) \/ References(s) \/ Classify(s)
  \/ LoadDest(s) \/ Climb(s) \/ EndLoop(s) \/ HandleError(s)
  \/ Abandon(s) \/ Crash(s)

Next == \E s \in Session : Step(s)

Spec == Init /\ [][Next]_vars

\* PHP runs a request on once it has begun; editors owe nothing.
Fairness == \A s \in Session : WF_vars(pc[s] \in Running /\ Step(s))
FairSpec == Spec /\ Fairness
=============================================================================
