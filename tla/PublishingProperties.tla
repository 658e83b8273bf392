------------------------ MODULE PublishingProperties ------------------------
(***************************************************************************)
(* What the editing of publishers and publishings must and must not do.    *)
(***************************************************************************)
EXTENDS Publishing, FiniteSets

TablesOK ==
  /\ publisher \in [DOMAIN publisher -> Name] /\ DOMAIN publisher \subseteq Publisher
  /\ location \in [DOMAIN location -> [owner : DOMAIN publisher, town : Town]]
  /\ DOMAIN location \subseteq Location
  /\ publishing \in [DOMAIN publishing -> [work : Work, by : DOMAIN publisher \cup {None},
                                           at : DOMAIN location \cup {None}]]
  /\ DOMAIN publishing \subseteq Row
  /\ gone \subseteq (Publisher \cup Location) \ (DOMAIN publisher \cup DOMAIN location)
  /\ \A p, q \in DOMAIN publisher : publisher[p] = publisher[q] => p = q

Job == [pub : Publisher \cup {None}, end : Publisher \cup {None},
        into : Location \cup {None}, here : Location \cup {None},
        todo : SUBSET ((Publisher \cup Location) \X {"publisher", "move", "merge", "location"}),
        work : Work \cup {None}, lines : Seq(Line), i : Nat \ {0}]

\* What a request has in hand (its locals j) when it reaches a statement that
\* uses it.
Hand(label, j) ==
  /\ label \in {"mergePage"} \cup MergeLabels => j.pub \in Publisher /\ j.end \in Publisher \ {j.pub}
  /\ label \in {"placesPage", "places", "dropPlace"} => j.pub \in Publisher /\ j.into \in Location
  /\ label \in {"mergePage", "placesPage"} \cup MergeLabels \cup {"places", "dropPlace"} =>
       j.todo \subseteq Location \X {"move", "merge"}
  /\ label \in {"moveLocation", "dropLocation", "dropPlace"} => j.here \in Location
  /\ label \in {"dropPage", "drop"} =>
       j.todo \subseteq (Publisher \X {"publisher"}) \cup (Location \X {"location"})
  /\ label = "placePage" => j.pub \in Publisher
  /\ label \in {"tabPage"} \cup TabLabels => j.work \in Work
  /\ label \in TabLabels \ {"line"} => j.i \in 1 .. Len(j.lines)
  /\ label \in {"newPublisher", "findLocation", "newLocation"} => j.lines[j.i].name # None
  /\ label \in {"findLocation", "newLocation"} => j.lines[j.i].town # None /\ j.pub \in Publisher

\* Every row and every local of a request has its type; the foreign keys of
\* panta_rhei.sql and Unique_Publisher hold at every moment, whoever runs
\* what and wherever a cascade goes.
TypeOK ==
  /\ TablesOK
  /\ pc \in [Session -> {"idle"} \cup Pages \cup Running]
  /\ job \in [Session -> Job]
  /\ \A s \in Session : Hand(pc[s], job[s])

\* A work's page shows a publishing as "town: publisher, year" (work.php,
\* Work::getPublishers): the location of a publishing is one of the locations
\* of its publisher.  No key says so; only while processMerge is between its
\* two UPDATEs is it otherwise.
CoherentRow(r) ==
  LET x == publishing[r]
  IN  x.at # None => location[x.at].owner = x.by

Coherent ==
  \A r \in DOMAIN publishing :
    \/ CoherentRow(r)
    \/ \E s \in Session : pc[s] = "moveLocation" /\ publishing[r].at = job[s].here

\* The locations a merge of publishers has still to deal with.
Ahead(s) ==
  {t[1] : t \in job[s].todo} \cup (IF pc[s] = "dropLocation" THEN {job[s].here} ELSE {})

\* The editor has said of every publishing of the source what becomes of it.
AllHandled(s) ==
  \A r \in DOMAIN publishing : publishing[r].by = job[s].pub => publishing[r].at \in Ahead(s)

\* A statement of a merge of publishers or of locations.
AtMerge(s) ==
  pc[s] \in {"mergePage"} \cup MergeLabels \cup {"placesPage", "places", "dropPlace"}
  /\ (pc[s] \in {"mergePage"} \cup MergeLabels => AllHandled(s))
  /\ pc'[s] # pc[s]

\* Merging publishers or locations loses no publishing, though each location
\* and each publisher deleted on the way cascades to work_publisher, and
\* leaves the publishings of every other publisher as they were; provided
\* the editor has moved or merged each location that has publishings.
RowsKept(s) ==
  \A r \in DOMAIN publishing :
    /\ r \in DOMAIN publishing'
    /\ publishing[r].by # job[s].pub => publishing'[r] = publishing[r]

MergesKeepPublishings == [][\A s \in Session : AtMerge(s) => RowsKept(s)]_vars

\* When the publisher tab has been saved, the work's publishings are the
\* lines of the form: as many, each with its publisher and its location,
\* though each line finds or inserts its rows in statements of their own and
\* two lines may name the same new publisher.
Shows(x, line) ==
  /\ IF line.name = None THEN x.by = None
                         ELSE x.by \in DOMAIN publisher /\ publisher[x.by] = line.name
  /\ IF line.name = None \/ line.town = None
     THEN x.at = None
     ELSE x.at \in LocationsOf(x.by) /\ location[x.at].town = line.town

FormSaved(s) ==
  LET rows == {r \in DOMAIN publishing : publishing[r].work = job[s].work}
  IN  /\ Cardinality(rows) = Len(job[s].lines)
      /\ \A i \in DOMAIN job[s].lines : \E r \in rows : Shows(publishing[r], job[s].lines[i])

TabSavesForm == \A s \in Session : pc[s] = "line" /\ job[s].i > Len(job[s].lines) => FormSaved(s)

-----------------------------------------------------------------------------
\* Why publishings stay coherent.

\* A location an editor was shown for a publisher is still one of its
\* locations, or has been deleted.
Belongs(l, p) == l \in DOMAIN location \cup gone /\ (l \in DOMAIN location => location[l].owner = p)

\* What a session holds while nobody merges publishers: its location belongs
\* to its publisher, however long the page has been on the screen.
PageHeld(s) ==
  /\ pc[s] \notin {"mergePage"} \cup MergeLabels
  /\ pc[s] \in {"placesPage", "places", "dropPlace"} => Belongs(job[s].into, job[s].pub)
  /\ pc[s] = "placePage" /\ job[s].here # None => Belongs(job[s].here, job[s].pub)
  /\ pc[s] = "setPublisher" /\ job[s].into # None => Belongs(job[s].into, job[s].pub)

\* The inductive invariant of any number of editors who do not merge
\* publishers: only processMerge moves a location to another publisher.
PagesInv == (\A r \in DOMAIN publishing : CoherentRow(r)) /\ \A s \in Session : PageHeld(s)

\* What a single editor holds: the locations to be moved or merged are still
\* those of the source, those to merge them into of the destination, and a
\* location is empty when it is deleted.
Firsts(todo) == {t[1] : t \in todo}
SoloHeld(s) ==
  /\ pc[s] \in {"mergePage"} \cup MergeLabels =>
       /\ job[s].end \in DOMAIN publisher
       /\ job[s].into \in LocationsOf(job[s].end) \cup {None}
  /\ pc[s] \in {"placesPage", "places", "dropPlace"} =>
       job[s].into \in LocationsOf(job[s].pub) \ Firsts(job[s].todo)
  /\ pc[s] \in {"mergePage", "placesPage", "places", "dropPlace"} \cup MergeLabels =>
       /\ Firsts(job[s].todo) \subseteq LocationsOf(job[s].pub)
       /\ \A t, u \in job[s].todo : t[1] = u[1] => t = u
  /\ pc[s] \in {"moveLocation", "dropLocation", "dropPlace"} =>
       job[s].here \in LocationsOf(job[s].pub) \ Firsts(job[s].todo)
  /\ pc[s] = "dropPlace" => job[s].here # job[s].into
  /\ pc[s] = "moveLocation" =>
       \A r \in DOMAIN publishing : publishing[r].at = job[s].here => publishing[r].by = job[s].end
  /\ pc[s] \in {"dropLocation", "dropPlace"} => \A r \in DOMAIN publishing : publishing[r].at # job[s].here
  /\ pc[s] = "removeSource" => job[s].todo = {}
  /\ pc[s] = "placePage" => job[s].here \in LocationsOf(job[s].pub) \cup {None}
  /\ pc[s] = "setPublisher" => job[s].into \in LocationsOf(job[s].pub) \cup {None}

\* The inductive invariant of a single editor whose requests are not cut off.
Solo == \A s, t \in Session : s = t
SoloInv == Coherent /\ \A s \in Session : SoloHeld(s)
=============================================================================
