# Panta Rhei: a verification development

Panta Rhei is a web bibliography: PHP pages over a MySQL database (`src/panta_rhei.sql`),
reached through PEAR `DB_DataObject`. Visitors browse a *classification tree* of folders and
the *works* filed under them; editors maintain both through the pages under `src/admin/`.
Looking up a book in a union catalogue
(`zLookup` in `src/admin/work.php`, `classes/Work.php`) goes through the Z39.50/SRU client of YAZ,
whose C sources are part of the repository (`src/YAZ/`).
This directory holds TLA+ models of the parts in which state can go wrong, TLC runs over small
instances, and proofs checked by TLAPS.

## How the program runs, and what that does to its state

* All lasting state is in the database and in a few files (`translations/*.inc`, `menu.xml`,
  `instructions.inc`). A request keeps its locals in PHP variables and forgets them at its end.
* `admin/framework.php` starts a session, so two requests of one editor never overlap
  (PHP locks the session); requests of different editors do.
* There are no transactions. Every SQL statement commits by itself, so other requests, and
  the end of this one, fit between any two.
* `PEAR::setErrorHandling` sends every failing statement to `handleError`, which shows a page
  and `exit()`s: the earlier statements of the request stay done, the later ones never happen.
  `max_execution_time` and `memory_limit` (set after line 120 of the framework) do the same at
  any point.
* A page carries what was read when it was rendered back to the handler as hidden fields. The
  handler seldom reads it again.

## Inventory

| Component | State | Operations | What is hard | What makes it correct |
|---|---|---|---|---|
| Classification tree (`admin/tree.php`, `classes/Folder.php`) | `folder`, `folder_reference`, `folder_merge_history`, `work_folder` | add, edit, move, merge, delete, references | checks and writes in different statements; eight-statement merge; cascades; stale pages | stays a forest; merges lose no work, branch or bookmark |
| Filing of works (category tab of `admin/work.php`) | `work_folder` | drop all, add, remove | shares a table with merges | filings survive merges |
| Work editing (`admin/work.php`, `classes/Work.php`) | `work` and its link tables | one tab at a time: general, publisher, agent, attributes; delete | drop-then-insert; find-or-insert against UNIQUE keys; circles of parent works | nothing the form showed is lost |
| Publishers (`admin/publisher.php`) | `publisher`, `publisher_location`, `work_publisher` | edit, merge, merge locations, delete | cascades to `work_publisher`; count on the wrong column (l. 382) | a merge keeps each publishing |
| Agents (`admin/agent.php`, `admin/agenttype.php`) | `agent`, `agenttype`, `work_agent` | edit, merge, delete | UPDATE meets the primary key; delete checks | a merge keeps each credit |
| Work types and attributes (`admin/worktype.php`) | `worktype`, `workattribute`, `workattribute_option`, `worktype_workattribute` | edit, rank, options, merge options | rank swap in two statements; option merge rewrites values | ranks stay distinct; values follow options |
| Interface texts (`lib/translator.php`, `admin/language.php`) | `translations/*.inc`, loaded strings of one language | load, setTranslation, save | whole-file rewrite of what was loaded; several editors | no text is lost by a save |
| Imports (`import.php`, `import-data.php`, `import-tree.php`) | the tables above | one-time scripts | parent stack of the tree import | the tree read is the tree written |
| Order of branches (`init_sort_order.php`) | `folder.sort_order` | one-time conversion | number parsing | keeps the order of siblings |
| Users and sessions (`admin/users.php`, `classes/User.php`) | `user`, session | log in, edit users | little | a user edits what the level allows |
| Browsing, search, display, export (`treeview.php`, `search.php`, `worklist.php`, exports of `tree.php`) | none | read only | depend on the tree being a forest | |
| Repair scripts (`update_Qs`, `*.sql`, `get_ids.php`, ...) | the tables | run by hand | | |
| ZOOM connection (`YAZ/src/zoom-*.c`) | tasks, events, error, result sets with references and record caches, reconnect and redirect flags | connect, search, records, sort, scan, packages, destroy; `ZOOM_event` | callbacks chained over several files; connection lost, refused, redirected, timed out under a task; responses without ids | an answer meets its task; nothing waits for ever; no error means the records are there |
| COMSTACK transport (`YAZ/src/tcpip.c`) | resolver state, `towrite`/`written`, buffer and surplus buffer of the caller | connect, put, get, more, close | partial writes and reads, growing buffers that trade places, several addresses | PDUs whole, once, in order |
| Generic frontend server (`YAZ/src/seshigh.c`, `requestq.c`, `eventl.c`) | queues, event masks, state and backend handle of an association | the handlers of its events and requests | pipelined requests, slow readers, reads nested in a search, death at any point | no request forgotten, answers in order, backends closed |
| BER codec and message framing (`YAZ/src/ber_*.c`, `odr_cons.c`, `comstack.c`) | none | encode, decode, complete? | off-by-ones at the end of a buffer, nesting, lengths of lengths | a message is found with its last octet; values decode to themselves |
| Rest of YAZ (queries, MARC, character tables, generated codecs, programs), PEAR, fpdf, map, tree menu | | | | |

`PROJECT.json` lists every component with its status, and under `hazards` each place where
this code can go wrong in a way a test would hardly reach.

## Modules

```
Bookmarks            what the id in a bookmarked URL is promised   (abstract)
FolderTables         the four tables, their keys, one operator per SQL statement
  ClassificationTree the handlers, one action per statement, any number of editors
    TreeProperties   invariants, action properties, liveness, refinement of Bookmarks
      MCTree         instances for TLC
ClassificationProofs   the statements; types and keys, any number of editors
    SerialProofs     one editor: forest, bookmarks and their promise, works, roots, aliases, leaves

Publishing           publishers, locations, publishings: tables and handlers
  PublishingProperties  keys, coherence, merges, the saved form, inductive invariants
    MCPublishing     instances for TLC
    PublishingProofs types and keys, coherence without merges; one editor: merges, the saved form

ZoomConnection       the asynchronous client: API calls, ZOOM_event, the server's answers
  ZoomProperties     tasks, references, records, errors, liveness
    MCZoom           instances for TLC
    ZoomProofs       types, references and errors for every application and server; what is under way
                     for a careful application
      ZoomRecordsProofs  whose records are in the caches

PduChannel           a queue of whole messages that may break             (abstract)
Comstack             one direction of a TCP comstack, byte ranges
  ComstackProperties buffers, order, whole PDUs, refinement of PduChannel
    MCComstack       instance for TLC
    ComstackProofs   all of the safety, for every size

Association          an association of the server and its event loop
  AssociationProperties  queues, order of answers, backends, liveness
    MCAssociation    instance for TLC
    AssociationProofs  nothing forgotten, backends closed, for any stream
      AssociationOrderProofs  order of the answers, Close last

Ber                  BER primitives and completeBER, octet by octet
  HttpFraming        cs_complete_http and its helpers
    Framing          a buffer that octets arrive in
      FramingProperties  reference definitions of elements and messages
        MCFraming    the values, messages and octets tried
```

**FolderTables.** `folder` is the set of ids with a row, `parent` is `folder.parent_id`
(`NoFolder` is NULL), `workFolder`, `reference` and `history` are the two-column tables as
sets of pairs (their primary keys are the whole pair). `purged` remembers the ids that
`auto_increment` will not issue again. `DeleteFolder` performs the `ON DELETE` actions of the
schema; `folder_merge_history.source_folder_id` has no foreign key. Each statement comes with a
`...Fails` predicate that says when a key stops it. Titles and `sort_order` are left out.

**ClassificationTree.** `pc[s]` is what session `s` does next. The values in `Pages` are forms
on an editor's screen, those in `Running` are points in a request between two statements. `self`
and `dest` are `$folder`/`$source` and `$dest` (or the parent chosen on a form), `todo` the posted
ids still to process, `cache` the objects `staticGet` keeps for the length of a request, `at` and
`seen` the loop of `Folder::getParentChain`. The handlers are the actions, in the order of the
code. A session can at any time leave a page (`Abandon`), and a request can be cut off (`Crash`,
if `MayCrash`) or stopped by a key (`HandleError`). `PicksSelf` says whether an editor may take up
the edit form's offer of the folder itself as its parent. Reading pages that change nothing
(lists, exports, the confirmation page of a merge) are no actions.

Operators marked "deviation" are not part of the program: each is a plausible slip in one
definition, and shows that some property would notice it.

**Publishing.** `publisher`, `location` and `publishing` are the tables `publisher`,
`publisher_location` and `work_publisher` as functions from the ids that have a row; `gone` holds
the ids of deleted publishers and locations. Names and towns are model values, the years are left
out. Ids of `work_publisher` are numbers like those of `publisher`, because `processMerge` compares
the one with the other. `job[s]` is the record of what a request has in hand: `pub`/`end` are the
source and destination of a merge (or the publisher of a page, or of a line of the tab), `into` the
location to merge into (or the one found for a line), `here` the location in the loop, `todo` the
posted ids, `lines` and `i` the form of the publisher tab and the loop over it. The actions are the
SQL statements of `processMerge` (`MoveRows`, `MoveLocation`, `MergeRows`, `DropLocation`,
`CountRows`, `RemoveSource`), `handleLocationMerge` (`ReplaceRows`, `DropPlace`), `handleDelete` and
`handleLocationDelete` (`DeleteNext`), `handleForm` (`NewName`), `handleLocationForm` (`SavePlace`)
and of the publisher tab (`DropPublishers` to `SetPublisher`). A posted id of a location that was
left empty is the number 0 to MySQL, which meets the foreign key. The tab is used with lines that
have a publisher or a year, since `Work::setPublisher` inserts nothing for any other.

**Bookmarks** is the promise of the comment of `Folder::lookupById`: an id once issued leads to
a folder that exists. `TreeProperties` maps it (`Leads`, `Condemned`) and `KeepsBookmarkPromise`
says that the tree implements it.

**ZoomConnection.** `conn` is `struct ZOOM_connection_p`: `tasks` and `events` are its lists, `cs` its
comstack ("none", "connecting", "data"), `out` the request still being written, `mask` what the socket
is waited for, `location` the request to be sent again after a redirect. `sets` are the result sets the
application holds (`ref`, `name`, `size`, `live`, the record cache), `net` is the wire and what the server
keeps of a session. A record is known by the query it answers and by whether its set was sorted; `crossed` is a ghost of a set that says
whether another task for it was queued when it was last asked to be sorted, which the code does not ask. Each API call and each
step of `ZOOM_event` is one action; the handlers they chain are operators on a record of everything they
can change (`SendSearch`, `HandleRecords`, `Reconnect`, ...), and a choice `ch` says how the comstack
behaved (written whole, in part or not; connected now, later or not; the answer of a fit size).
The error and the return value of each C function are fields of that record.

**Comstack.** The bytes of the stream are numbered, and a buffer is the range `lo`..`hi` it holds, `torn`
if it is not one. `cl` is the client's comstack with the state of its resolver, `nt` the connection and the bytes
on their way, `rx` the server's buffers. `Recv`, `Deliver` and `More` are the loop of `tcpip_get`, its return and
`tcpip_more`; `Put` and `Send` are `tcpip_put` and its calls again with the same buffer; `NextAddress` is `cont_connect`.
`RecvEnds` is the end of the stream: `tcpip_get` returns the length of what it holds, so one octet looks like an incomplete PDU and two or more
are given to the server as a PDU, which decodes (HTTP) or is the end of the session.

**Association.** `as` is the association and its I/O channel: both queues, `state`, `init`, `version`,
`backend`, the masks (`getmask`/`putmask` of `cs_get_mask`, `in`/`out` the flags the channel has), the forced event, and
`cur`, the request that is being handled. `todo` holds the events one round of `iochan_event_loop` has still to
give, in the order of the code. A request is its place in the client's stream. `bend_assoc_is_alive`, which reads from
within a search, is an action of its own (`IsAlive`) that leaves `cur` alone. `control` says whether `last_control`, the options of the virtual
server in use, is set; `control_association` sets it with each Init and each HTTP request. A host that is configured may be that of
another server, whose backend is then closed (`ServerChosen`; an SRU request opens one where there is none, `SruOpened`, a file or a 404 does not). The requests of
kinds `Stray` name a host that is not: an Init gets a diagnostic and the backend so far is forgotten (`StrayInit`), an HTTP request gets a 404
(`StrayRequest`), and where the code then needs the options that are not there, it follows a null pointer (`Astray`) and the process ends
(`Crash`).

**Ber, HttpFraming, Framing.** Each decoder is the C function as a recursive operator over a sequence of octets, with the widths
of `Odr_int` and `int` as constants (`IntBytes`, `LenBytes`). In HTTP messages a header name is a single octet, since the code
compares names whole. `Framing` adds octets to a buffer one at a time: an encoded value and something after it, or octets without sense.

## Runs

All runs have `CHECK_DEADLOCK FALSE`: ids, calls and PDUs are bounded, so the system of a small
instance comes to rest when they are used up. Symmetry is used in runs without liveness.

| Run | Instance | Shows |
|---|---|---|
| `tree_serial` | 1 editor, 3 folders in every shape and with every filing of one work; requests cut off anywhere | `Acyclic`, `BookmarksResolve`, `MergeKeepsWorks`, `MergeKeepsRoots`, `DeletesOnlyLeaves`, refinement of `Bookmarks` (`KeepsBookmarkPromise`), and the inductive invariant `SerialInv` |
| `tree_nocrash` | 1 editor, 2 folders and a third id, references, no cut-offs | a merge gets to its end unless the two folders share a reference (`MergeRunsToEnd`); the history is a function of purged ids (`HistoryIsFunction`) |
| `tree_ends` | 2 editors editing, moving, merging, deleting 2 folders, circles included | every request ends (`RequestsComplete`); keys and what a request has in hand (`TypeOK`) |
| `publisher_merge` | 1 editor, 2 publishers and a third id, 3 locations, 3 publishings of a work, tabs of up to 2 lines that may name the same new publisher | `MergesKeepPublishings`, `Coherent`, `SoloInv`; the rows of a saved tab are those of the form (`TabSavesForm`) |
| `publisher_pages` | 2 editors on all pages but the merge of publishers, cut off anywhere | `TypeOK` and the inductive invariant `PagesInv` |
| `zoom` | 1 result set of up to 2 records fetched singly, 4 calls, 2 tasks at a time, Z39.50 or SRU | `AnswersMatch`, `InitFirst`, `DoneWhenZero`, `NoAbort`, `OneOrder`, `RecordsDelivered`, `ErrorStays` |
| `zoom_two` | 2 result sets, 3 tasks, 4 calls, Z39.50 | `RefCounts`; records answer their own query (`RecordsFromOwnQuery`) |
| `zoom_ends` | 1 result set, 3 calls, with fairness | every task ends (`TasksEnd`) |
| `zoom_redirect` | SRU server that redirects | a violation of `DoneWhenZero`, see below |
| `comstack` | chunk 3, PDUs of 1 to 4, limit 6, 3 PDUs, network of 4, 1 or 2 addresses | `NoOverrun`, `InOrder`, `GotWhole`, refinement of `PduChannel` with its liveness |
| `association` | 4 PDUs of 12 kinds, Z39.50 or HTTP, for virtual hosts that are configured or not, backend that asks if the client lives | `NeverSleeps`, `AnswersInOrder`, `CloseIsLast`, `BackendsClosed`, `DeadIsDestroyed` |
| `codecs` | the values, packages and HTTP messages of `MCFraming`, and all sequences of up to 7 of six octets or 11 of three | `FindsElement`, `WholeOnly`, `Settled`, `RoundTrip` |

Three folders are enough for a chain with a bystander, a merge with an alias to hand on, and two
merges in a row. Two editors suffice for every race listed, since each involves two requests; two folders
suffice for a circle. For publishers, two locations of one publisher can be moved and merged in
one request while the other publisher has one to merge into, and three ids of `work_publisher` leave
a publishing of each kind. Two records fetched singly make a task send a search and a present; two tasks at a time
let one wait behind another that fails; reconnecting, resending and a late answer need no more. A chunk of 3 and PDUs of
up to 4 make a PDU longer than a chunk, two PDUs in a chunk, and the buffers trade places and grow. Four pipelined requests let
one be handled, two wait and a Close follow. The octets 0, 1, 30h, 80h, 82h make every form of a BER length and two levels of
nesting; `MaxLevel` 1 stands for the 1000 of `completeBER_n`, `IntBytes` 2 and `LenBytes` 3 for the widths of `Odr_int` and `int`.

`MergesKeepPublishings` speaks of merges in which the editor has moved or merged every location of
the source that has publishings.

The constants `Careless` and `Habits` of `ZoomConnection` and `Habits` of `Association` name what peers may do that the code has no answer to; each
passing run leaves these out, and each is described below. A careful application (`Careless = {}`) does not connect anew while tasks are queued, nor
after a refused Init without closing, adds no task to a failed connection before its tasks are dropped, and sorts a set that has been searched or has
a task queued that will do it. That task, and a present of the set that is under way, are no obstacle: a sort may be asked for at any moment.
`RecordsFromOwnQuery` and `OneOrder` speak of the sets that have a name of their own: a server without named result sets keeps one set
for all, and the caches of two sets called `default` may hold records of either search, sorted or not. `OneOrder` and `RecordsDelivered` except
the sets that are `crossed`, where they fail as the code does (below); `GotWhole` excepts the last PDU of a client that closed before it was written, and says
what the server may get of it; `BackendsClosed` asks of every client that no handle is closed twice, and that none stays open of those that
named no unknown virtual host.

### Known disagreements between the code and what it says

One run expects a violation:

* `zoom_redirect`: `doc/zoom.events.html` says to call `ZOOM_event` until it returns zero "to ensure that all outstanding
  requests are performed". After a redirected SRU search, `ZOOM_handle_sru` sends the request for the remaining records and
  `handle_http` (`zoom-c.c:1607`) then closes that connection: `ZOOM_event` returns 0 with the task still queued (`DoneWhenZero`).

Others were found with the models, and are described at their hazard:

* Two moves check their chains before either writes, and close a circle (`tree.php:439`; `Acyclic` with two sessions).
* The alias of one merge is cascaded away by another, and a bookmark leads nowhere (`tree.php:548`; `BookmarksResolve` with two sessions).
* A reference two folders share stops a merge of the two half-way at a primary key (`tree.php:542`; the exception in `MergeRunsToEnd`).
* A folder with works passes the dependency check: `hasWorks` never fetches its count (`Folder.php:100`).
* A publisher is removed while publishings refer to it: the count asks for the wrong column (`publisher.php:382`).
* An Init refused with a diagnostic sets an error that the next task clears, and the task is sent in a session never opened
  (`zoom-c.c:124`; `"explain"` in `Habits` breaks `InitFirst`).
* A sort that is asked for while a search or a present of the set is queued or under way empties the cache at once; what that task still
  fetches comes into it unsorted, and stays beside the sorted records, or what it had fetched is lost (`zoom-c.c:846`; the exception of `crossed` sets in `OneOrder` and `RecordsDelivered`).
* `doc/comstack.common.html` says that `cs_get` returns 1 until a full package has been read. At the end of the stream `tcpip_get` returns the length of
  what it has (`tcpip.c:1235`): a request cut short is given to the server, and the HTTP decoder takes what follows the head
  as the body, whatever the `Content-Length` (`http.c:126`; the exception in `GotWhole`).
* A second Init that names a virtual host which is not configured leaves the backend of the first open (`statserv.c:321`, `seshigh.c:2196`, `2232`),
  while `doc/server.main.html` has `bend_close` called when the session is closed; an HTTP request for such a host is
  answered through a null pointer unless it asks for `Connection: close` (`seshigh.c:1986`), and then `destroy_association` follows one if a backend is open
  (`seshigh.c:217`). `BackendsClosed` excepts what such clients leak.
* A connection that breaks in the midst of a PDU while another address is left: the rest of the PDU goes to the next server without
  its head (`tcpip.c:1354`; `FailsOver = TRUE` breaks `GotWhole`).
* A request that arrives with a TriggerResourceControl, first in its read, waits until something else arrives (`seshigh.c:2100`; the exception in `NeverSleeps`).
* A malformed HTTP request is answered past those before it that wait (`seshigh.c:336`; `"pipelinebad"`), and a client that goes on sending, or closes its
  end, after asking for `Connection: close` keeps the loop busy with an event nobody takes (`seshigh.c:1990`; `"afterclose"`).
* A chunked body whose lines end in LF alone is found an octet late, and with such lines the last digit of a `Content-Length` that ends
  the head is dropped (`comstack.c:300`, `437`; `MCFraming` leaves those messages out).
* `tcpip_get` refuses a PDU within the limit when too much of the next has come with it (`tcpip.c:1239`; excluded by `ComstackAssumption`).

Smaller things: `getParentFolderList` offers a root as its own parent
and `handleForm` stores it (the constant `PicksSelf`); nothing calls `Folder::lookupById`, so
`treeview.php` finds no folder for a merged id; a work filed under the source after line 538 of
`tree.php` is unfiled by the purge.

## Fairness

`FairSpec` gives weak fairness to each session *while a request of it is running*
(`pc[s] \in Running /\ Step(s)`): PHP executes a request on until it ends, and a statement never
waits for another request for ever. No fairness is given to editors: a page may stay on the screen
for ever. `RequestsComplete` needs nothing more.

`Comstack`: each side calls its comstack again when its socket is ready, as `ZOOM_event` and the event loop of the server do, the resolver ends, and
the network answers a connection request. Nothing is assumed of `Put` and `Close`, nor that nothing breaks: the promise of
`PduChannel` ends when the channel is broken. `Association`: the event loop goes round, time passes when nothing happens, a handler ends, and
a PDU is not in part on its way for ever; a client need not read, send or leave. `ZoomConnection`: the application goes on calling `ZOOM_event`,
and what the peer has begun is completed, fails or times out (strong fairness of `Settled`, since each octet that dribbles in starts the wait, and
the timeout, again); API calls have no fairness. In `Association` strong fairness of `Input` and `Output` says the same.

## Proofs

*Any number of editors* (`ClassificationProofs`). `Typing`: `TypeOK` is inductive. It joins the
types, the foreign keys (`Integrity`) and what a request has in hand at the statement that uses it
(`InHand`, which is what makes it inductive: a merge that reaches its UPDATEs has two distinct
folder ids).

*One editor* (`SerialProofs`, under `Serial`: there are no two sessions). The forest is not
inductive by itself: it matters that what was read is still true at the write. `SerialInv` adds
`ChainInv` (the part of the chain read so far is closed under `parent` except at the current
folder, and agrees with the table), `CheckedInv` (when the check is passed, the destination does
not have the source among its ancestors, or the form offered a harmless parent) and `MergeInv`
(what earlier statements of a merge leave for the later ones: no children, no filings, no aliases of
the source; its own alias recorded before the purge). `NoCycle` says that every non-empty set of
folders has a member whose parent is outside it, and `ReparentNoCycle` is the heart: a circle of the
new parents runs through a changed row, so through the new parent, and stays among the ancestors
of that parent, which were a forest. From `SerialInv` follow `ForestKept` (for an editor who does
not pick a folder as its own parent), `BookmarksKept`, `WorksKeptByMerges` and `RootsKeptByMerges`,
all of them with requests cut off anywhere. `Serial` and the restriction to editors who do not pick a
folder as its own parent are needed: with two editors TLC finds both properties violated.

Two more invariants of a single editor rest on it. `HandsInv`: the two folders of a merge are in the table and share no work when its
filings are moved (`PairInv`), the folders to be deleted are there and without sub-branches until their turn comes (`PostedInv`), and an alias
is of an id that was issued (`Issued`). Hence `OnlyLeavesDeleted`: what a single editor's page said of a folder is still so at its
DELETE. `AliasInv`, for requests not cut off: the aliases are a function, and only the source of a merge about to be purged has one
before it is gone; hence `OneAlias`. `MergesComplete` goes through the statements of a merge and shows that no key stops them
but that of a shared reference.
`BookmarkPromiseKept` is the refinement of `Bookmarks`: an id leads (`Leads`) to the folder it is, or to that of its alias. Adding a
folder is `Issue`, the UPDATE of the old aliases and the INSERT of the new one are `Redirect`, the purge is `Absorb`, a deletion
is `Withdraw` of what led to the folder, the announcement of a deletion is `Ask`, and every other statement a stutter.

*Publishing* (`PublishingProofs`). `PublishingTyping`: `TypeOK`, for any number of editors, with merges
and cut-offs: types, foreign keys through every cascade, uniqueness of names, and what a request has in
hand (`Hand`). `PagesInvariant`: if nobody merges publishers (`"merge" \notin Ops`), any number of
editors keep `PagesInv`: every publishing is at a location of its publisher, and the location a page
or a request holds *belongs* to its publisher or has been deleted. The argument is that `processMerge`
alone moves a location to another publisher and that ids are not issued twice, so what a page was shown
may go but not change hands; without `gone` the invariant would not be inductive. `PublishingsCoherent`
follows. With merges, for a single editor (`Solo`) who is not cut off (`~MayCrash`): `SoloInv` says in addition that the locations still
to be moved or merged are the source's, one choice for each, that the destination is there with the location to merge
into, and that a location is empty when it is deleted. It is not enough to say that the location to be dropped and the one its
publishings were given to both belong to the publisher: they must be different, or the cascade takes what was just moved. `SoloInvariant`
gives `Coherent` in a program that merges, and `MergesKeep`: an UPDATE changes rows of the source only, an empty location and a publisher all of
whose locations were dealt with go without a cascade. `TabSaves` rests on `TabInv`: as many publishings as lines were written, each line
shown by one, and the publisher and location in hand are those of the line (`Written`, `NameFound`, `TownFound`); publishers and
locations are only added meanwhile (`Grown`). It needs a single editor and no more: a request that is cut off has not saved the form.

*Comstack* (`ComstackProofs`). `BInv` types everything and says that a buffer that was ever allocated has room for a
chunk (`Fits`), which makes doubling enough: `TypeCorrect` and `NeverOverruns` follow for every chunk, PDU and
network. `OInv` adds where things are: the ends of PDUs rise, at most one of the two buffers is filled (`OneHeld`), and
what is held starts at the end of the last PDU got and ends where the bytes on their way begin (`Placed`). Hence
`BytesInOrder` and `PdusWhole`; the latter's exception is exact: only what was put last can be cut short, by a client that closed. They need `~FailsOver`: when a connection breaks while another address is left, the code sends
the rest of a PDU to a new server, and the invariant fails as the program does. `ChannelOrder` maps the PDUs put and not yet got to the queue of `PduChannel` (`Queue`) and
shows that `Put` is a `Send`, `Deliver` a `Receive`, what breaks the link a `Break`, and every other step a stutter; the
liveness of the channel is left to TLC.

*Association* (`AssociationProofs`, for any number of PDUs of any kinds, with and without `bend_assoc_is_alive`). `NeverSleeps`
speaks of the moments when the event loop waits; `AInv` says what holds in between. `Sane`: the requests held were got,
an association is deaf only when dead, and each backend open is the one in hand, with the options to close it, unless the client named an unknown
host (`Unstrayed`); then there are at least as many open as in hand, so none is closed twice. `Masked`: there is something to put exactly when
`putmask` says so, and then yaz_poll is asked for it. `Drained`: while nothing is handled nothing waits, unless a
TriggerResourceControl was got, the one request after which no handler goes on. `Doomed`: a dead association has an answer
to put, a forced or pending timeout, or a client that has gone and is still listened to; it holds because the timeout is given
last in a round. `OneProtocol`: only HTTP turns `getmask` off, so no Init revives a deaf association. `Sane`, `Masked`
and `Ending` are shown of each step of the handlers (`NextRequestIs`, `RespondIs`, `DoCloseIs`, `DestroyedIs`, `PutAllIs`,
`ReadBatchIs`, and for the virtual hosts `ServerChosenIs`, `SruOpenedIs`, `AstrayIs`), and every action is a use of these. `NothingForgotten` and `BackendsAreClosed` follow.

*Order of the answers* (`AssociationOrderProofs`). `AnswersInOrder` and `CloseIsLast` speak of what was sent; `OInv` speaks of `Said`,
what was sent followed by what is to be sent, so that putting an answer on the wire changes nothing. `Rising`: requests wait in
their order, behind the one that is handled. `Ordered`: responses rise, and stay below whatever is handled or waits.
`Closing`: with a Close queued the association is dead and nothing waits; only a search from within which the end was
found may still be handled, and then that Close is not sent yet. `Chained`: there is no gap up to any response, and `Complete`: until the
end every request got, but a TriggerResourceControl, is answered or waits; both speak of the time before anything
malformed was read. `BadNext` and `Over` say when a malformed HTTP request may come and what a destroyed association has left. The
argument: what a handler does is at most one of three things to `Said` - nothing, one more response (`ResponseShown`),
one more Close (`CloseShown`) - and every action is a use of these. `AnsweredInOrder` and `NothingAfterClose`
assume a client that does not send a malformed HTTP request while others wait (`"pipelinebad" \notin Habits`):
the code answers it at once, past those, and then both fail as the program does.

*ZOOM connection* (`ZoomProofs`, for any number of result sets, tasks and calls, careless applications and redirects
included). `ZoomInv` types the connection, its sets and the server, counts the references of each set (`RefsOK`) and says that no
package is queued for SRU. Each of the chained handlers is shown to lead from a record of the connection to one that is as
good, with an error if there was one (`Leads`); most of what they do changes no list and no count (`Alike`), and only
the lemmas about `RemoveTask`, `RemoveTasks`, `InsertTask` and the calls of the application have to count. The handlers keep an error
of any kind, a call keeps the sticky ones (`Calls`); `ReferencesCounted` and `LossIsSticky` follow.

For a careful application and a server that neither redirects nor explains why it refuses an Init
(`Careless = {}`, `"redirect"` and `"explain"` not in `Habits`; it may withhold records), `FlowInv` says what may be under way between two steps
of `ZOOM_event`: nothing, and then no task is running unless it has an error to be dropped for (`Rested`); or one request, written
in part or waiting for its answer, that fits the running task at the head (`UnderWay`, `Fits`); or a comstack that is being connected
for the connect task at the head (`Dialing`). It is not inductive without `Queue` (only the head runs; a sort is queued only for a
set the server knows, or behind a search for it, `Prepared`, so that a search which ends without an error must leave its set known, `Told`; and a set the server knows has a name), `Session` (the client and the server agree on protocol and Init) and
`Covered` (without an accepted Init there is a sticky error). Between the steps of the handlers less is true:
`Over` has nothing under way and says nothing of the head; `Serving` adds that the head may send. Each sender leaves a steady
state, or is complete and `Over` (`Post`), and whoever removes or resumes the head then makes it steady again
(`RemoveTaskOver`, `ResumeOver`). `Keeps` collects the steps that move nothing on the line. `NeverAborts`, `AnswersToTheHead`,
`InitGoesFirst` and `ZeroMeansDone` follow. What each of the two habits breaks is told above.

`ZoomRecordsProofs` adds to it which records are in the caches: `OwnInv` is `FlowInv` and `Sound`. A record in the cache of a set
answers the query of the set where the set has a name of its own, no two sets share such a name, and what the server keeps
by the name of a set whose size is known is a version of its query (`Own`); that is not inductive without `Aimed`: a request
under way uses the name its set has now, and records are only asked for a set whose size is known. The records of such a set
are all from one side of a sort, that on which the server has the set (`Even`). For this a set that waits to be sorted has no
records yet, unless another task for it is queued before its sort, and then it is `crossed` (`Lined`), and a search that is to be sorted brings no records along
(`Aimed` again, `SortReady` between the handlers). Steps that leave sets as they were or free them are `Calm`; where
one set changes while nothing is under way, `OneSound` asks only about that set. `OwnRecordsOnly` and `OneOrderOnly` follow, from
the same assumptions as `FlowInv`.

Assumed by the proofs are the named assumptions on the constants (`FolderTables`, `ClassificationTree`,
`Publishing`, `Comstack`, `Association`, `ZoomConnection`), which TLC evaluates in the runs.

TLAPS as installed proves neither liveness under fairness nor facts about ENABLED, and neither what a
recursive definition computes for every input nor anything in a module with RECURSIVE operators; these
stay with TLC. `Ber`, `HttpFraming` and `FramingProperties` are recursive (nesting of elements, chunks) and so only model-checked.

Only model-checked: `RequestsComplete`, and the liveness of `Association`, `Comstack` and `ZoomConnection`; that
the records a search was asked for are in the cache when it ends (`RecordsDelivered`); everything about the codecs.

## Plan

Next, in this order; the hazards that wait for a module name it in `PROJECT.json`.

1. `Attributes` (`admin/worktype.php`, attribute and citation tabs): rank swap in a read and two
   UPDATEs, options found or inserted, merging of duplicate options. Properties: ranks of a type are
   distinct and keep their range; a value of an option attribute names an option that exists.
2. `Credits` (`admin/agent.php`, `admin/agenttype.php`, agent tab): the merge of agents against the
   primary key of `work_agent`, deletion checks, the tab. Properties: merges keep credits or stop
   before they change any; an agent type in use is not deleted.
3. `Translations` (`lib/translator.php`, `admin/language.php`): load, change, rewrite of whole files.
   Properties: a text once saved is in the file unless changed; a save loses no text.
4. `WorkEdit` (general tab, deletion of works, parent works); a composed model of the tabs
   over `Publishing` and `Credits`.
5. `ImportTree` and `SortOrder`: pure algorithms against a reference definition on bounded inputs.

Abstract specifications worth stating: the *catalogue* of a work (what its page shows: pairs of
publisher and town, credits, categories), changed only by its own form and renamed by merges, to be
refined by `Publishing` and `Credits`; and a *dictionary* of texts, refined by `Translations`.

Theorems to come: types and the main invariant of each new module; `RecordsDelivered`.

## Not modelled, and why

* Titles, notes, years, `sort_order`: written by one statement from one form; nothing else depends on them.
* Users, preferences, menu and instructions: each operation is one statement on one row, or rewrites one
  file from what it posts.
* Browsing, search, display and export: they only read. What they rely on (a forest, ids that resolve,
  coherent publishings) is what the models keep.
* Repair scripts and tables no page uses.
* Of YAZ: the character tables (`marc8.c`, `marc8r.c`, `iso5426.c`, two fifths of all its lines) and the codecs generated from ASN.1
  are data, one entry a line, whose correctness is the table's; parsers of CQL, CCL and PQF and MARC converters map text to text; `client.c`,
  `zoomsh`, `ztest` are programs the library does not run; memory, string, lock and log wrappers keep no state of the system.
  These are most of the C lines, so the share of lines that models cover stays small.
* Of the modelled parts of YAZ: blocking mode, TLS, HTTP proxy, UNIX sockets, listening, forking and threads of the server, explain,
  the contents of responses, options, facets, the BIT STRING, BOOLEAN, NULL and choice codecs.
* In them too: sizes of an HTTP chunk or a `Content-Length` that overflow an `int` and are caught by `chunk_len < 0` and `content_len < 0` (`comstack.c:319`,
  `439`), since the values of `MCFraming` are short, as are the lengths in BER: the wrap of `Odr_int` is written but not met; the `keepalive` option of a server
  switched off; a server process run for several clients in one thread (static mode), whose associations share the options selected last; a sort asked for over SRU, for
  which `send_Z3950_sort` writes a Z39.50 request to the HTTP connection (`Sort` is for Z39.50).
* PEAR, fpdf, the map and the tree menu: libraries used as they are.
* Deadlocks and lock timeouts inside MySQL: each statement is taken to be atomic and to end.
