----------------------------- MODULE Publishing -----------------------------
(***************************************************************************)
(* Publishers, their locations and the publishings of works: the handlers  *)
(* of admin/publisher.php and the publisher tab of admin/work.php, over    *)
(* the tables publisher, publisher_location and work_publisher.            *)
(*                                                                         *)
(* As in ClassificationTree, a session runs one request at a time, every   *)
(* SQL statement is a step of its own, and a statement that meets a key    *)
(* ends its request.  Years of publication are left out.                   *)
(***************************************************************************)
EXTENDS Naturals, Sequences, Functions

CONSTANTS
  Publisher, Location,   \* ids that auto_increment can issue
  Row,                   \* ids of work_publisher; numbers like the others, so
                         \* an id may be both in Row and in Publisher
  Work, Name, Town,      \* works, publishers' names, names of locations
  Session, None,
  Ops,                   \* the operations the editors use
  MaxLines,              \* most publishings on the form of a work
  MayCrash,              \* TRUE: a request may be cut off between statements
  InitialPublisher, InitialLocation, InitialRow

ASSUME PublishingAssumption ==
  /\ None \notin Publisher \cup Location \cup Work \cup Name \cup Town
  /\ Publisher \cap Location = {}
  /\ MaxLines \in Nat /\ MayCrash \in BOOLEAN
  /\ InitialPublisher \subseteq Publisher
  /\ InitialLocation \subseteq Location
  /\ InitialRow \subseteq Row

VARIABLES
  publisher,    \* table publisher: the name of each row
  location,     \* table publisher_location: publisher_id and location of each row
  publishing,   \* table work_publisher: work_id, publisher_id, location_id
  gone,         \* deleted publishers and locations; their ids are not reissued
  pc,           \* what each session is about to do
  job           \* the locals of its request

tables == <<publisher, location, publishing, gone>>
vars == <<publisher, location, publishing, gone, pc, job>>

Line == [name : Name \cup {None}, town : Town \cup {None}]
Place == [owner : Publisher, town : Town]
Imprint == [work : Work, by : Publisher \cup {None}, at : Location \cup {None}]

NoJob == [pub |-> None, end |-> None, into |-> None, here |-> None,
          todo |-> {}, work |-> None, lines |-> <<>>, i |-> 1]

Init ==
  /\ publisher \in {f \in [InitialPublisher -> Name] : IsInjective(f)}
  /\ location \in [InitialLocation -> {p \in Place : p.owner \in InitialPublisher}]
  /\ publishing \in [InitialRow -> {x \in Imprint :
       x.by \in InitialPublisher \cup {None} /\ x.at \in InitialLocation \cup {None}}]
  /\ \A r \in InitialRow :
       publishing[r].at # None => location[publishing[r].at].owner = publishing[r].by
  /\ gone = {}
  /\ pc = [s \in Session |-> "idle"]
  /\ job = [s \in Session |-> NoJob]

-----------------------------------------------------------------------------
\* Statements.
Put(f, x, v) == [y \in DOMAIN f \cup {x} |-> IF y = x THEN v ELSE f[y]]
Without(f, S) == Restrict(f, DOMAIN f \ S)

\* Unique_Publisher
NameTaken(p, n) == \E q \in DOMAIN publisher \ {p} : publisher[q] = n

RowsOf(p, l) == {r \in DOMAIN publishing : publishing[r].by = p /\ publishing[r].at = l}
LocationsOf(p) == {l \in DOMAIN location : location[l].owner = p}

\* The foreign keys of work_publisher, which may be NULL.
KeysExist(p, l) == p \in DOMAIN publisher \cup {None} /\ l \in DOMAIN location \cup {None}

\* UPDATE work_publisher SET publisher_id = p, location_id = l for some rows
UpdateRowsUnkeyed(rows, p, l) == FALSE  \* (deviation: no foreign keys)
UpdateRowsFails(rows, p, l) == rows # {} /\ ~KeysExist(p, l)
UpdateRows(rows, p, l) ==
  /\ ~UpdateRowsFails(rows, p, l)
  /\ publishing' = [r \in DOMAIN publishing |->
                      IF r \in rows THEN [publishing[r] EXCEPT !.by = p, !.at = l]
                                    ELSE publishing[r]]
  /\ UNCHANGED <<publisher, location, gone>>

\* DELETE FROM publisher_location; the publishings there go by ON DELETE CASCADE.
DeleteLocation(l) ==
  /\ location' = Without(location, {l})
  /\ publishing' = Without(publishing, {r \in DOMAIN publishing : publishing[r].at = l})
  /\ gone' = gone \cup ({l} \cap DOMAIN location)
  /\ UNCHANGED publisher

\* DELETE FROM publisher; its locations and publishings go with it.
DeletePublisher(p) ==
  /\ publisher' = Without(publisher, {p})
  /\ location' = Without(location, LocationsOf(p))
  /\ publishing' = Without(publishing, {r \in DOMAIN publishing :
                      publishing[r].by = p \/ publishing[r].at \in LocationsOf(p)})
  /\ gone' = gone \cup ({p} \cap DOMAIN publisher) \cup LocationsOf(p)

-----------------------------------------------------------------------------
\* Control of a session.
Goto(s, label, j) == pc' = [pc EXCEPT ![s] = label] /\ job' = [job EXCEPT ![s] = j]
Finish(s) == Goto(s, "idle", NoJob)
Open(s, op, page, j) == pc[s] = "idle" /\ op \in Ops /\ Goto(s, page, j) /\ UNCHANGED tables

\* A loop goes on to one of the posted ids still to do.
Take(j, t) == [j EXCEPT !.here = t[1], !.todo = @ \ {t}]

Pages == {"mergePage", "placesPage", "dropPage", "placePage", "tabPage"}
MergeLabels == {"merge", "moveLocation", "dropLocation", "removeSource"}
TabLabels == {"line", "newPublisher", "findLocation", "newLocation", "setPublisher"}
Running == {"places", "dropPlace", "drop"} \cup MergeLabels \cup TabLabels

Abandon(s) == pc[s] \in Pages /\ Finish(s) /\ UNCHANGED tables
Crash(s) == MayCrash /\ pc[s] \in Running /\ Finish(s) /\ UNCHANGED tables

-----------------------------------------------------------------------------
\* showMerge: two publishers, for some locations of the first whether to move
\* it or to merge it, and one location of the second to merge them into.
OpenMerge(s) ==
  \E p, e \in DOMAIN publisher :
  \E moved \in SUBSET LocationsOf(p) : \E merged \in SUBSET (LocationsOf(p) \ moved) :
  \E m \in LocationsOf(e) \cup {None} :
    /\ p # e
    /\ Open(s, "merge", "mergePage",
            [NoJob EXCEPT !.pub = p, !.end = e, !.into = m,
                          !.todo = (moved \X {"move"}) \cup (merged \X {"merge"})])

\* processMerge, a location moved: its publishings, then the location.
MoveRowsFails(s, l) == UpdateRowsFails(RowsOf(job[s].pub, l), job[s].end, l)
MoveRows(s) ==
  /\ pc[s] \in {"mergePage", "merge"}
  /\ \E t \in job[s].todo :
       /\ t[2] = "move"
       /\ UpdateRows(RowsOf(job[s].pub, t[1]), job[s].end, t[1])
       /\ Goto(s, "moveLocation", Take(job[s], t))

MoveLocationSkipped(s) ==  \* (deviation: only the publishings are moved)
  pc[s] = "moveLocation" /\ Goto(s, "merge", job[s]) /\ UNCHANGED tables
MovesLocation(s) == job[s].here \in LocationsOf(job[s].pub)
MoveLocation(s) ==
  /\ pc[s] = "moveLocation"
  /\ MovesLocation(s) => job[s].end \in DOMAIN publisher
  /\ location' = IF MovesLocation(s) THEN [location EXCEPT ![job[s].here].owner = job[s].end]
                                     ELSE location
  /\ Goto(s, "merge", job[s])
  /\ UNCHANGED <<publisher, publishing, gone>>

\* A location merged into another: its publishings, then it is deleted.  No
\* destination chosen is the number 0, which no location has.
MergeRowsFails(s, l) ==
  /\ RowsOf(job[s].pub, l) # {}
  /\ ~(job[s].end \in DOMAIN publisher /\ job[s].into \in DOMAIN location)
MergeRowsSkipped(s) ==  \* (deviation: the publishings stay behind)
  /\ pc[s] \in {"mergePage", "merge"}
  /\ \E t \in job[s].todo :
       t[2] = "merge" /\ Goto(s, "dropLocation", Take(job[s], t))
  /\ UNCHANGED tables
MergeRows(s) ==
  /\ pc[s] \in {"mergePage", "merge"}
  /\ \E t \in job[s].todo :
       /\ t[2] = "merge" /\ ~MergeRowsFails(s, t[1])
       /\ UpdateRows(RowsOf(job[s].pub, t[1]), job[s].end, job[s].into)
       /\ Goto(s, "dropLocation", Take(job[s], t))

DropLocation(s) ==
  /\ pc[s] = "dropLocation"
  /\ DeleteLocation(job[s].here)
  /\ Goto(s, "merge", job[s])

\* The publisher goes if no row of work_publisher has its number -- as the
\* id of the row, not as its publisher_id.
CountRows(s) ==
  /\ pc[s] \in {"mergePage", "merge"} /\ job[s].todo = {}
  /\ IF job[s].pub \in DOMAIN publishing THEN Finish(s) ELSE Goto(s, "removeSource", job[s])
  /\ UNCHANGED tables

RemoveSource(s) ==
  pc[s] = "removeSource" /\ DeletePublisher(job[s].pub) /\ Finish(s)

-----------------------------------------------------------------------------
\* handleLocationMerge: ticked locations of a publisher into a master.
OpenPlaces(s) ==
  \E p \in DOMAIN publisher : \E m \in LocationsOf(p) : \E ids \in SUBSET LocationsOf(p) :
    Open(s, "places", "placesPage",
         [NoJob EXCEPT !.pub = p, !.into = m, !.todo = (ids \ {m}) \X {"merge"}])

ReplaceRows(s) ==
  /\ pc[s] \in {"placesPage", "places"}
  /\ \E t \in job[s].todo :
       /\ UpdateRows(RowsOf(job[s].pub, t[1]), job[s].pub, job[s].into)
       /\ Goto(s, "dropPlace", Take(job[s], t))

DropPlace(s) ==
  /\ pc[s] = "dropPlace"
  /\ DeleteLocation(job[s].here)
  /\ Goto(s, "places", job[s])

\* handleDelete and handleLocationDelete, one statement for each ticked id.
OpenDelete(s) ==
  \/ \E ids \in SUBSET DOMAIN publisher :
       Open(s, "delete", "dropPage", [NoJob EXCEPT !.todo = ids \X {"publisher"}])
  \/ \E p \in DOMAIN publisher : \E ids \in SUBSET LocationsOf(p) :
       Open(s, "delete", "dropPage", [NoJob EXCEPT !.todo = ids \X {"location"}])

DeleteNext(s) ==
  /\ pc[s] \in {"dropPage", "drop"}
  /\ \E t \in job[s].todo :
       /\ IF t[2] = "publisher" THEN DeletePublisher(t[1]) ELSE DeleteLocation(t[1])
       /\ Goto(s, "drop", [job[s] EXCEPT !.todo = @ \ {t}])

EndLoop(s) ==
  /\ pc[s] \in {"placesPage", "places", "dropPage", "drop"} /\ job[s].todo = {}
  /\ Finish(s) /\ UNCHANGED tables

-----------------------------------------------------------------------------
\* handleForm: a new publisher, or a new name for one.  (An UPDATE of one
\* that is gone by now changes nothing.)
NewName(s) ==
  \E p \in Publisher, n \in Name :
    /\ pc[s] = "idle" /\ "name" \in Ops /\ ~NameTaken(p, n)
    /\ p \notin gone
    /\ publisher' = Put(publisher, p, n)
    /\ UNCHANGED <<location, publishing, gone, pc, job>>

\* handleLocationForm: the form of a location carries its publisher.
OpenPlace(s) ==
  \E p \in DOMAIN publisher : \E l \in LocationsOf(p) \cup {None} :
    Open(s, "place", "placePage", [NoJob EXCEPT !.pub = p, !.here = l])

SavePlaceFails(s) ==
  /\ job[s].pub \notin DOMAIN publisher
  /\ job[s].here \in DOMAIN location \cup {None}
SavePlace(s) ==
  /\ pc[s] = "placePage" /\ ~SavePlaceFails(s)
  /\ \E t \in Town :
       LET row == [owner |-> job[s].pub, town |-> t]
       IN  \/ /\ job[s].here = None
              /\ \E l \in Location \ (DOMAIN location \cup gone) : location' = Put(location, l, row)
           \/ /\ job[s].here # None
              /\ location' = IF job[s].here \in DOMAIN location
                             THEN [location EXCEPT ![job[s].here] = row] ELSE location
  /\ Finish(s)
  /\ UNCHANGED <<publisher, publishing, gone>>

-----------------------------------------------------------------------------
\* The publisher tab of a work: its publishings are dropped, then for each
\* line of the form that is not ticked for removal publisher and location are
\* found or inserted.  A line without a publisher has a year: without one,
\* Work::setPublisher would insert nothing.
OpenTab(s) ==
  \E w \in Work, n \in 0 .. MaxLines : \E lines \in [1 .. n -> Line] :
    Open(s, "tab", "tabPage", [NoJob EXCEPT !.work = w, !.lines = lines])

DropPublishers(s) ==
  /\ pc[s] = "tabPage"
  /\ publishing' = Without(publishing, {r \in DOMAIN publishing : publishing[r].work = job[s].work})
  /\ Goto(s, "line", job[s])
  /\ UNCHANGED <<publisher, location, gone>>

LineOf(s) == job[s].lines[job[s].i]

\* With the publisher known, the location is looked for if the line has one.
WithPublisher(s, p) ==
  Goto(s, IF LineOf(s).name = None \/ LineOf(s).town = None THEN "setPublisher" ELSE "findLocation",
       [job[s] EXCEPT !.pub = p, !.into = None])

Named(s) == {p \in DOMAIN publisher : publisher[p] = LineOf(s).name}
FindPublisher(s) ==
  /\ pc[s] = "line" /\ job[s].i <= Len(job[s].lines)
  /\ \/ LineOf(s).name = None /\ WithPublisher(s, None)
     \/ \E p \in Named(s) : WithPublisher(s, p)
     \/ LineOf(s).name # None /\ Named(s) = {} /\ Goto(s, "newPublisher", job[s])
  /\ UNCHANGED tables

NewPublisher(s) ==
  /\ pc[s] = "newPublisher"
  /\ \E p \in Publisher \ (DOMAIN publisher \cup gone) :
       /\ ~NameTaken(None, LineOf(s).name)
       /\ publisher' = Put(publisher, p, LineOf(s).name)
       /\ WithPublisher(s, p)
  /\ UNCHANGED <<location, publishing, gone>>

AtFound(s, found) ==
  /\ pc[s] = "findLocation"
  /\ \/ \E l \in found : Goto(s, "setPublisher", [job[s] EXCEPT !.into = l])
     \/ found = {} /\ Goto(s, "newLocation", job[s])
  /\ UNCHANGED tables
FindLocationAnywhere(s) ==  \* (deviation: the publisher is not asked for)
  AtFound(s, {l \in DOMAIN location : location[l].town = LineOf(s).town})
FindLocation(s) ==
  AtFound(s, {l \in LocationsOf(job[s].pub) : location[l].town = LineOf(s).town})

NewLocation(s) ==
  /\ pc[s] = "newLocation" /\ job[s].pub \in DOMAIN publisher
  /\ \E l \in Location \ (DOMAIN location \cup gone) :
       /\ location' = Put(location, l, [owner |-> job[s].pub, town |-> LineOf(s).town])
       /\ Goto(s, "setPublisher", [job[s] EXCEPT !.into = l])
  /\ UNCHANGED <<publisher, publishing, gone>>

\* Work::setPublisher, and on to the next line.
SetPublisher(s) ==
  /\ pc[s] = "setPublisher" /\ KeysExist(job[s].pub, job[s].into)
  /\ \E r \in Row \ DOMAIN publishing :
       publishing' = Put(publishing, r, [work |-> job[s].work, by |-> job[s].pub, at |-> job[s].into])
  /\ Goto(s, "line", [job[s] EXCEPT !.i = @ + 1])
  /\ UNCHANGED <<publisher, location, gone>>

EndTab(s) ==
  /\ pc[s] = "line" /\ job[s].i > Len(job[s].lines)
  /\ Finish(s) /\ UNCHANGED tables

-----------------------------------------------------------------------------
\* A statement that meets a key goes to handleError, which exits.
Fails(s) ==
  \/ /\ pc[s] \in {"mergePage", "merge"}
     /\ \E t \in job[s].todo :
          \/ t[2] = "move" /\ MoveRowsFails(s, t[1])
          \/ t[2] = "merge" /\ MergeRowsFails(s, t[1])
  \/ pc[s] = "moveLocation" /\ MovesLocation(s) /\ job[s].end \notin DOMAIN publisher
  \/ /\ pc[s] \in {"placesPage", "places"}
     /\ \E t \in job[s].todo : UpdateRowsFails(RowsOf(job[s].pub, t[1]), job[s].pub, job[s].into)
  \/ pc[s] = "placePage" /\ SavePlaceFails(s)
  \/ pc[s] = "newPublisher" /\ NameTaken(None, LineOf(s).name)
  \/ pc[s] = "newLocation" /\ job[s].pub \notin DOMAIN publisher
  \/ pc[s] = "setPublisher" /\ ~KeysExist(job[s].pub, job[s].into)

HandleError(s) == Fails(s) /\ Finish(s) /\ UNCHANGED tables

Merge(s) ==
  \/ OpenMerge(s) \/ MoveRows(s) \/ MoveLocation(s) \/ MergeRows(s) \/ DropLocation(s)
  \/ CountRows(s) \/ RemoveSource(s)
Maintain(s) ==
  \/ OpenPlaces(s) \/ ReplaceRows(s) \/ DropPlace(s) \/ OpenDelete(s) \/ DeleteNext(s)
  \/ EndLoop(s) \/ NewName(s) \/ OpenPlace(s) \/ SavePlace(s)
Tab(s) ==
  \/ OpenTab(s) \/ DropPublishers(s) \/ FindPublisher(s) \/ NewPublisher(s)
  \/ FindLocation(s) \/ NewLocation(s) \/ SetPublisher(s) \/ EndTab(s)

Next == \E s \in Session :
  Merge(s) \/ Maintain(s) \/ Tab(s) \/ HandleError(s) \/ Abandon(s) \/ Crash(s)

Spec == Init /\ [][Next]_vars
=============================================================================
