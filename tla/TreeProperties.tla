--------------------------- MODULE TreeProperties ---------------------------
(***************************************************************************)
(* What the editing of the classification must and must not do.  TLC       *)
(* checks these on small instances (MCTree); ClassificationProofs proves   *)
(* some of them for every value of the constants.                          *)
(***************************************************************************)
EXTENDS ClassificationTree

LocalsType ==
  /\ pc \in [Session -> {"idle"} \cup Pages \cup Running]
  /\ self \in [Session -> Folder \cup {NoFolder}]
  /\ dest \in [Session -> Folder \cup {NoFolder}]
  /\ item \in [Session -> Work \cup {NoWork}]
  /\ todo \in [Session -> SUBSET Folder]
  /\ cache \in [Session -> [Folder -> Folder \cup {NoFolder, NotRead}]]
  /\ at \in [Session -> Folder \cup {NoFolder}]
  /\ seen \in [Session -> SUBSET Folder]

\* What a request has in hand when it reaches a statement that uses it.
InHand ==
  \A s \in Session :
    /\ pc[s] \in MergeStatements \cup {"mergeDest", "mergeDestChain", "mergeSourceChain",
                                     "moveDest", "moveChain"} =>
         self[s] \in Folder /\ dest[s] \in Folder /\ self[s] # dest[s]
    /\ pc[s] \in {"moveWrite", "editPage", "drop", "refsPage", "addRefs"} => self[s] \in Folder
    /\ pc[s] = "moveWrite" => self[s] # dest[s]
    /\ pc[s] \in {"classifyPage", "addWorks", "removeWorks"} => item[s] \in Work

\* Every table and every local of a request has its type, and the foreign
\* keys of panta_rhei.sql hold at every moment, whoever runs what.
TypeOK == TablesOK /\ LocalsType /\ InHand

\* The classification is a forest: handleMove and processMerge walk the
\* parent chain so that no folder ends up below itself, which would take the
\* branch off every page that starts from the roots (exports, tree lists)
\* and send Work::_developBranchString into an endless recursion.
Acyclic == NoCycle(parent, folder)

\* A step of session s, taken while its request is at one of the labels.
StepAt(s, labels) == pc[s] \in labels /\ pc'[s] # pc[s]

\* A lookup by id finds a folder: its own row, or one it was merged into
\* (Folder::lookupById).
LookupById(x) == {f \in folder : f = x \/ <<x, f>> \in history}

\* Whatever merges are run and wherever they are cut off, an id that once
\* led to a folder leads to one for ever, unless handleDelete takes it.
IdsResolve ==
  \A x \in Folder :
    LookupById(x) # {} => \/ LookupById(x)' # {}
                          \/ \E s \in Session : pc[s] = "drop"

BookmarksResolve == [][IdsResolve]_vars

\* A merge moves works and loses none: after each of its statements a work
\* of one of the two folders is still in one of them, and nobody's other
\* folders have changed.
WorksKept(s) ==
  \A w \in Work :
    LET pair == {self[s], dest[s]}
    IN  /\ FoldersOf(w)' \ pair = FoldersOf(w) \ pair
        /\ FoldersOf(w) \cap pair # {} => FoldersOf(w)' \cap pair # {}

MergeKeepsWorks ==
  [][\A s \in Session : StepAt(s, MergeStatements) => WorksKept(s)]_vars

\* A merge keeps the shape of the rest of the tree: apart from the purged
\* folder no branch becomes a root or stops being one, though the schema
\* makes the children of a deleted row roots.
RootsKept(s) ==
  \A f \in folder \ {self[s]} : parent[f] = NoFolder <=> parent'[f] = NoFolder

MergeKeepsRoots ==
  [][\A s \in Session : StepAt(s, MergeStatements) => RootsKept(s)]_vars

\* The two folders of a merge refer to the same folder, or are referred to by
\* the same.
ShareReference(s) ==
  \E f \in Folder : \/ {<<self[s], f>>, <<dest[s], f>>} \subseteq reference
                    \/ {<<f, self[s]>>, <<f, dest[s]>>} \subseteq reference

\* Once a merge starts to write it reaches its last statement: no statement
\* of it runs into a key that an earlier one should have cleared the way for,
\* except those that move references which the two folders share.
MergeRunsToEnd ==
  [][\A s \in Session :
       StepAt(s, MergeStatements) /\ pc'[s] = "idle" =>
         pc[s] = "purge" \/ (pc[s] \in {"refFrom", "refTo"} /\ ShareReference(s))]_vars

\* Between requests the merge history is a function from ids that are gone:
\* one bookmark has one answer, and no living folder is an alias.
HistoryIsFunction ==
  (\A s \in Session : pc[s] \notin MergeStatements) =>
    \A p \in history : /\ p[1] \in purged
                       /\ \A q \in history : p[1] = q[1] => p = q

\* handleDelete takes away only folders without sub-branches: the page that
\* offered them left those with children out.
DeletesOnlyLeaves ==
  [][\A s \in Session : StepAt(s, {"drop"}) /\ pc'[s] # "drop" /\ self[s] \notin folder' =>
       Children(self[s]) = {}]_vars

\* A request that has begun comes to an end, even if other requests close
\* the chain it is climbing into a circle.
RequestsComplete == \A s \in Session : pc[s] \in Running ~> pc[s] \notin Running

-----------------------------------------------------------------------------
\* Why the checks of handleMove and processMerge work when one editor is at
\* work: what a request has read still holds when it writes.

\* The chain read so far: it consists of folders, begins with the folder it
\* was asked for, each member's parent has been met too, except that of the
\* current one, and nothing has changed since it was read.
ChainInv(s) ==
  /\ pc[s] = "idle" => cache[s] = Empty
  /\ pc[s] \in Chains \cup {"moveDest", "mergeDest"} =>
       \A f \in Folder : cache[s][f] \in {NotRead, parent[f]}
  /\ pc[s] \in {"mergeDest", "mergeDestChain"} =>
       self[s] \in folder /\ cache[s][self[s]] = parent[self[s]]
  /\ pc[s] \in Chains =>
       /\ at[s] \in seen[s] /\ seen[s] \subseteq folder
       /\ (IF pc[s] = "mergeSourceChain" THEN self[s] ELSE dest[s]) \in seen[s]
       /\ \A f \in seen[s] : cache[s][f] = parent[f]
       /\ \A f \in seen[s] \ {at[s]} : parent[f] \in seen[s] \cup {NoFolder}

\* What the checks have established when a request goes on to write.
CheckedInv(s) ==
  /\ pc[s] \in {"mergeSourceChain", "children"} => Avoids(dest[s], self[s])
  /\ pc[s] = "moveWrite" => dest[s] = NoFolder \/ Avoids(dest[s], self[s])
  /\ pc[s] = "editPage" => PicksSelf \/ dest[s] = NoFolder \/ Offered(self[s], dest[s])

\* What the earlier statements of a merge have done for the later ones.
MergeInv(s) ==
  /\ pc[s] \in MergeStatements \ {"children"} => Children(self[s]) = {}
  /\ pc[s] \in {"refFrom", "refTo", "rehist", "hist", "purge"} =>
       \A w \in Work : <<w, self[s]>> \notin workFolder
  /\ pc[s] \in {"hist", "purge"} => \A f \in Folder : <<f, self[s]>> \notin history
  /\ pc[s] = "purge" => <<self[s], dest[s]>> \in history

RequestInv(s) == ChainInv(s) /\ CheckedInv(s) /\ MergeInv(s)

\* The inductive invariant of a single editor.  Only an editor who picks a
\* folder as its own parent closes a circle.
Serial == \A s, t \in Session : s = t

Forest == PicksSelf \/ Acyclic

SerialInv == TypeOK /\ Forest /\ \A s \in Session : RequestInv(s)

-----------------------------------------------------------------------------
\* What the bookmarks lead to, and the folders an editor has asked to delete.
Leads == [x \in Folder |-> LookupById(x)]
Condemned == folder \cap UNION {todo[s] : s \in {t \in Session : pc[t] \in {"deletePage", "unlink", "drop"}}}

BM == INSTANCE Bookmarks WITH live <- folder, leads <- Leads, condemned <- Condemned

\* The statements of a merge, in the order the code sends them, implement
\* the promise made to bookmarks.
KeepsBookmarkPromise == BM!Spec
=============================================================================
