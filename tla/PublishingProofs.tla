--------------------------- MODULE PublishingProofs ---------------------------
(***************************************************************************)
(* Theorems about publishers and publishings, for any ids, works and       *)
(* editors, with requests cut off anywhere; then for a single editor.      *)
(***************************************************************************)
EXTENDS PublishingProperties, FiniteSetTheorems, TLAPS

LocalsOK ==
  /\ pc \in [Session -> {"idle"} \cup Pages \cup Running]
  /\ job \in [Session -> Job]
  /\ \A s \in Session : Hand(pc[s], job[s])

Labels == {"idle"} \cup Pages \cup Running

\* A request that goes on with locals of the right type, which hold what the
\* next statement needs, keeps all locals right.
LEMMA GotoOK ==
  ASSUME LocalsOK, NEW s \in Session, NEW label \in Labels, NEW j \in Job, Hand(label, j),
         Goto(s, label, j)
  PROVE  LocalsOK'
<1>1. pc' \in [Session -> Labels] /\ job' \in [Session -> Job]
  BY DEF LocalsOK, Goto, Labels
<1>2. ASSUME NEW t \in Session PROVE Hand(pc'[t], job'[t])
  <2>1. CASE t = s
    BY <2>1 DEF LocalsOK, Goto
  <2>2. CASE t # s
    BY <2>2 DEF LocalsOK, Goto
  <2> QED BY <2>1, <2>2
<1> QED BY <1>1, <1>2 DEF LocalsOK, Labels

\* The locals of a session between two requests.
LEMMA NoJobOK == NoJob \in Job /\ Hand("idle", NoJob)
BY DEF NoJob, Job, Hand, MergeLabels, TabLabels

\* The end of a request keeps all locals right.
LEMMA FinishOK ==
  ASSUME LocalsOK, NEW s \in Session, Finish(s)
  PROVE  LocalsOK'
BY GotoOK, NoJobOK DEF Finish, Labels

-----------------------------------------------------------------------------
\* Statements.

\* What is left of a table after rows have been deleted.
LEMMA WithoutRows ==
  ASSUME NEW f, NEW S
  PROVE  /\ DOMAIN Without(f, S) = DOMAIN f \ S
         /\ \A x \in DOMAIN f \ S : Without(f, S)[x] = f[x]
         /\ Without(f, S) = [x \in DOMAIN f \ S |-> f[x]]
BY DEF Without, Restrict

\* A table after a row has been inserted or replaced.
LEMMA PutRow ==
  ASSUME NEW f, NEW x, NEW v
  PROVE  /\ DOMAIN Put(f, x, v) = DOMAIN f \cup {x}
         /\ Put(f, x, v)[x] = v
         /\ \A y \in DOMAIN f \ {x} : Put(f, x, v)[y] = f[y]
         /\ Put(f, x, v) = [y \in DOMAIN f \cup {x} |-> Put(f, x, v)[y]]
BY DEF Put

\* A row of work_publisher of which two columns are known to be smaller.
LEMMA RowNarrowed ==
  ASSUME NEW A, NEW B, NEW C, NEW D, NEW E, NEW x \in [work : A, by : B, at : C], x.by \in D, x.at \in E
  PROVE  x \in [work : A, by : D, at : E]
OBVIOUS

\* UPDATE work_publisher keeps the keys.
LEMMA UpdateRowsOK ==
  ASSUME TablesOK, NEW rows, NEW p, NEW l, UpdateRows(rows, p, l)
  PROVE  TablesOK'
<1>1. /\ DOMAIN publishing' = DOMAIN publishing
      /\ publishing' \in [DOMAIN publishing -> [work : Work, by : DOMAIN publisher \cup {None},
                                                at : DOMAIN location \cup {None}]]
  <2>1. CASE rows = {}
    BY <2>1 DEF UpdateRows, TablesOK
  <2>2. CASE rows # {}
    <3>1. p \in DOMAIN publisher \cup {None} /\ l \in DOMAIN location \cup {None}
      BY <2>2 DEF UpdateRows, UpdateRowsFails, KeysExist
    <3> DEFINE T == [work : Work, by : DOMAIN publisher \cup {None},
                     at : DOMAIN location \cup {None}]
               new(r) == IF r \in rows THEN [publishing[r] EXCEPT !.by = p, !.at = l]
                                       ELSE publishing[r]
    <3>2. \A t \in T : [t EXCEPT !.by = p, !.at = l] \in T
      BY <3>1
    <3>3. \A r \in DOMAIN publishing : publishing[r] \in T
      BY DEF TablesOK
    <3> HIDE DEF T
    <3>4. \A r \in DOMAIN publishing : new(r) \in T
      BY <3>2, <3>3
    <3>5. publishing' = [r \in DOMAIN publishing |-> new(r)]
      BY DEF UpdateRows
    <3> HIDE DEF new
    <3> QED BY <3>4, <3>5 DEF T
  <2> QED BY <2>1, <2>2
<1> QED BY <1>1 DEF UpdateRows, TablesOK

\* So does DELETE FROM publisher_location, whose cascade takes the
\* publishings at the location.
LEMMA DeleteLocationOK ==
  ASSUME TablesOK, NEW l \in Location, DeleteLocation(l)
  PROVE  TablesOK'
<1> DEFINE Gone == {r \in DOMAIN publishing : publishing[r].at = l}
<1>1. /\ location' = [x \in DOMAIN location \ {l} |-> location[x]]
      /\ publishing' = [x \in DOMAIN publishing \ Gone |-> publishing[x]]
  BY WithoutRows DEF DeleteLocation
<1>2. publishing' \in [DOMAIN publishing' -> [work : Work, by : DOMAIN publisher \cup {None},
                                              at : DOMAIN location' \cup {None}]]
  <2> SUFFICES ASSUME NEW r \in DOMAIN publishing \ Gone
               PROVE  publishing[r] \in [work : Work, by : DOMAIN publisher \cup {None},
                                         at : DOMAIN location' \cup {None}]
    BY <1>1 DEF DeleteLocation
  <2>1. publishing[r] \in [work : Work, by : DOMAIN publisher \cup {None},
                           at : DOMAIN location \cup {None}]
    BY DEF TablesOK
  <2>2. publishing[r].at \in DOMAIN location' \cup {None}
    BY <1>1, <2>1
  <2> QED BY <2>1, <2>2, RowNarrowed
<1>3. gone' \subseteq (Publisher \cup Location) \ (DOMAIN publisher' \cup DOMAIN location')
  BY <1>1, PublishingAssumption DEF TablesOK, DeleteLocation
<1>4. location' \in [DOMAIN location' -> [owner : DOMAIN publisher', town : Town]]
  BY <1>1 DEF TablesOK, DeleteLocation
<1>5. DOMAIN location' \subseteq Location /\ DOMAIN publishing' \subseteq Row
  BY <1>1 DEF TablesOK
<1>6. publisher' = publisher
  BY DEF DeleteLocation
<1> QED BY <1>2, <1>3, <1>4, <1>5, <1>6 DEF TablesOK

\* And DELETE FROM publisher, whose cascade takes its locations and its
\* publishings, and the publishings at those locations.
LEMMA DeletePublisherOK ==
  ASSUME TablesOK, NEW p \in Publisher, DeletePublisher(p)
  PROVE  TablesOK'
<1> DEFINE Here == LocationsOf(p)
           Gone == {r \in DOMAIN publishing : publishing[r].by = p \/ publishing[r].at \in Here}
<1>1. /\ publisher' = [x \in DOMAIN publisher \ {p} |-> publisher[x]]
      /\ location' = [x \in DOMAIN location \ Here |-> location[x]]
      /\ publishing' = [x \in DOMAIN publishing \ Gone |-> publishing[x]]
  BY WithoutRows DEF DeletePublisher
<1>2. location' \in [DOMAIN location' -> [owner : DOMAIN publisher', town : Town]]
  BY <1>1 DEF TablesOK, LocationsOf
<1>3. publishing' \in [DOMAIN publishing' -> [work : Work, by : DOMAIN publisher' \cup {None},
                                              at : DOMAIN location' \cup {None}]]
  <2> SUFFICES ASSUME NEW r \in DOMAIN publishing \ Gone
               PROVE  publishing[r] \in [work : Work, by : DOMAIN publisher' \cup {None},
                                         at : DOMAIN location' \cup {None}]
    BY <1>1
  <2>1. publishing[r].by # p /\ publishing[r].at \notin Here
    OBVIOUS
  <2>2. publishing[r] \in [work : Work, by : DOMAIN publisher \cup {None},
                           at : DOMAIN location \cup {None}]
    BY DEF TablesOK
  <2>3. publishing[r].by \in DOMAIN publisher' \cup {None} /\ publishing[r].at \in DOMAIN location' \cup {None}
    BY <1>1, <2>1, <2>2
  <2> QED BY <2>2, <2>3, RowNarrowed
<1>4. gone' \subseteq (Publisher \cup Location) \ (DOMAIN publisher' \cup DOMAIN location')
  BY <1>1, PublishingAssumption DEF TablesOK, DeletePublisher, LocationsOf
<1>5. /\ DOMAIN publisher' \subseteq Publisher /\ DOMAIN location' \subseteq Location
      /\ DOMAIN publishing' \subseteq Row
  BY <1>1 DEF TablesOK
<1>6. /\ publisher' \in [DOMAIN publisher' -> Name]
      /\ \A q, r \in DOMAIN publisher' : publisher'[q] = publisher'[r] => q = r
  BY <1>1 DEF TablesOK
<1> QED BY <1>2, <1>3, <1>4, <1>5, <1>6 DEF TablesOK

\* A publisher inserted or renamed under a name nobody has.
LEMMA PutPublisherOK ==
  ASSUME TablesOK, NEW p \in Publisher \ gone, NEW n \in Name, ~NameTaken(p, n),
         publisher' = Put(publisher, p, n), UNCHANGED <<location, publishing, gone>>
  PROVE  TablesOK'
<1>1. /\ DOMAIN publisher' = DOMAIN publisher \cup {p}
      /\ publisher'[p] = n
      /\ \A q \in DOMAIN publisher \ {p} : publisher'[q] = publisher[q]
      /\ publisher' \in [DOMAIN publisher' -> Name]
  BY PutRow DEF TablesOK, Put
<1>2. \A q \in DOMAIN publisher \ {p} : publisher[q] # n
  BY DEF NameTaken
<1>3. \A q, r \in DOMAIN publisher' : publisher'[q] = publisher'[r] => q = r
  BY <1>1, <1>2 DEF TablesOK
<1>4. gone' \subseteq (Publisher \cup Location) \ (DOMAIN publisher' \cup DOMAIN location')
  BY <1>1 DEF TablesOK
<1>5. location' \in [DOMAIN location' -> [owner : DOMAIN publisher', town : Town]]
  BY <1>1 DEF TablesOK
<1>6. publishing' \in [DOMAIN publishing' -> [work : Work, by : DOMAIN publisher' \cup {None},
                                              at : DOMAIN location' \cup {None}]]
  BY <1>1 DEF TablesOK
<1> QED BY <1>1, <1>3, <1>4, <1>5, <1>6 DEF TablesOK

\* A location inserted or saved for a publisher that exists.
LEMMA PutLocationOK ==
  ASSUME TablesOK, NEW l \in Location \ gone, NEW p \in DOMAIN publisher, NEW t \in Town,
         location' = Put(location, l, [owner |-> p, town |-> t]),
         UNCHANGED <<publisher, publishing, gone>>
  PROVE  TablesOK'
<1>1. /\ DOMAIN location' = DOMAIN location \cup {l}
      /\ location' \in [DOMAIN location' -> [owner : DOMAIN publisher, town : Town]]
  BY PutRow DEF TablesOK, Put
<1>2. gone' \subseteq (Publisher \cup Location) \ (DOMAIN publisher' \cup DOMAIN location')
  BY <1>1 DEF TablesOK
<1>3. publishing' \in [DOMAIN publishing' -> [work : Work, by : DOMAIN publisher' \cup {None},
                                              at : DOMAIN location' \cup {None}]]
  BY <1>1 DEF TablesOK
<1> QED BY <1>1, <1>2, <1>3 DEF TablesOK

\* A change of nothing.
LEMMA TablesKept ==
  ASSUME TablesOK, UNCHANGED tables
  PROVE  TablesOK'
BY DEF TablesOK, tables

-----------------------------------------------------------------------------
\* Actions.

\* The locals of a session, and what its label says of them.
LEMMA JobOK ==
  ASSUME LocalsOK, NEW s \in Session
  PROVE  job[s] \in Job /\ Hand(pc[s], job[s])
BY DEF LocalsOK

\* Taking a location off the list of a merge.
LEMMA TakeOK ==
  ASSUME NEW j \in Job, NEW t \in Location \X {"move", "merge"},
         j.todo \subseteq Location \X {"move", "merge"}
  PROVE  /\ Take(j, t) \in Job /\ Take(j, t).here = t[1] /\ t[1] \in Location
         /\ Take(j, t).todo = j.todo \ {t}
         /\ Take(j, t).pub = j.pub /\ Take(j, t).end = j.end /\ Take(j, t).into = j.into
BY DEF Job, Take

LEMMA MergeOK ==
  ASSUME TablesOK, LocalsOK, NEW s \in Session, Merge(s)
  PROVE  TablesOK' /\ LocalsOK'
<1> USE JobOK
<1>1. CASE OpenMerge(s)
  <2>1. PICK p \in DOMAIN publisher, e \in DOMAIN publisher : \E moved \in SUBSET LocationsOf(p) :
          \E merged \in SUBSET (LocationsOf(p) \ moved) : \E m \in LocationsOf(e) \cup {None} :
            p # e /\ Open(s, "merge", "mergePage",
              [NoJob EXCEPT !.pub = p, !.end = e, !.into = m,
                            !.todo = (moved \X {"move"}) \cup (merged \X {"merge"})])
    BY <1>1 DEF OpenMerge
  <2>2. PICK moved \in SUBSET LocationsOf(p) :
          \E merged \in SUBSET (LocationsOf(p) \ moved) : \E m \in LocationsOf(e) \cup {None} :
            p # e /\ Open(s, "merge", "mergePage",
              [NoJob EXCEPT !.pub = p, !.end = e, !.into = m,
                            !.todo = (moved \X {"move"}) \cup (merged \X {"merge"})])
    BY <2>1
  <2>3. PICK merged \in SUBSET (LocationsOf(p) \ moved), m \in LocationsOf(e) \cup {None} :
            p # e /\ Open(s, "merge", "mergePage",
              [NoJob EXCEPT !.pub = p, !.end = e, !.into = m,
                            !.todo = (moved \X {"move"}) \cup (merged \X {"merge"})])
    BY <2>2
  <2> DEFINE todo == (moved \X {"move"}) \cup (merged \X {"merge"})
             j == [NoJob EXCEPT !.pub = p, !.end = e, !.into = m, !.todo = todo]
  <2>4. p \in Publisher /\ e \in Publisher /\ LocationsOf(p) \subseteq Location
        /\ m \in Location \cup {None}
    BY DEF TablesOK, LocationsOf
  <2>5. todo \subseteq Location \X {"move", "merge"}
    BY <2>4
  <2>6. j \in Job /\ j.pub = p /\ j.end = e /\ j.todo = todo
    <3>1. todo \subseteq (Publisher \cup Location) \X {"publisher", "move", "merge", "location"}
      BY <2>4
    <3> HIDE DEF todo
    <3> QED BY <2>4, <3>1, NoJobOK DEF Job
  <2>7. Hand("mergePage", j)
    <3> HIDE DEF j, todo
    <3> QED BY <2>3, <2>4, <2>5, <2>6 DEF Hand, MergeLabels, TabLabels
  <2>8. Goto(s, "mergePage", j) /\ UNCHANGED tables
    BY <2>3 DEF Open
  <2> QED
    <3> HIDE DEF j
    <3> QED BY <2>6, <2>7, <2>8, GotoOK, TablesKept DEF Labels, Pages
<1>2. CASE MoveRows(s)
  <2>1. PICK t \in job[s].todo :
          /\ UpdateRows(RowsOf(job[s].pub, t[1]), job[s].end, t[1])
          /\ Goto(s, "moveLocation", Take(job[s], t))
    BY <1>2 DEF MoveRows
  <2> DEFINE j == Take(job[s], t)
  <2>2. /\ job[s].todo \subseteq Location \X {"move", "merge"}
        /\ job[s].pub \in Publisher /\ job[s].end \in Publisher \ {job[s].pub}
    BY <1>2 DEF MoveRows, Hand, MergeLabels
  <2>3. /\ j \in Job /\ j.here \in Location /\ j.todo \subseteq Location \X {"move", "merge"}
        /\ j.pub \in Publisher /\ j.end \in Publisher \ {j.pub}
    <3>1. t \in Location \X {"move", "merge"} /\ job[s] \in Job
      BY <2>2
    <3> QED BY <2>2, <3>1, TakeOK
  <2>5. Hand("moveLocation", j)
    <3> HIDE DEF j
    <3> QED BY <2>3 DEF Hand, MergeLabels, TabLabels
  <2>4. LocalsOK'
    BY <2>1, <2>3, <2>5, GotoOK DEF Labels, Running, MergeLabels
  <2> QED BY <2>1, <2>4, UpdateRowsOK
<1>3. CASE MoveLocation(s)
  <2>1. Hand("merge", job[s])
    BY <1>3 DEF MoveLocation, Hand, MergeLabels, TabLabels
  <2>2. LocalsOK'
    BY <1>3, <2>1, GotoOK DEF MoveLocation, Labels, Running, MergeLabels
  <2>3. CASE MovesLocation(s)
    <3>1. /\ job[s].end \in DOMAIN publisher /\ UNCHANGED <<publisher, publishing, gone>>
          /\ location' = [location EXCEPT ![job[s].here].owner = job[s].end]
          /\ job[s].here \in DOMAIN location
      BY <1>3, <2>3 DEF MoveLocation, MovesLocation, LocationsOf
    <3>2. /\ DOMAIN location' = DOMAIN location
          /\ location' \in [DOMAIN location -> [owner : DOMAIN publisher, town : Town]]
      BY <3>1 DEF TablesOK
    <3>3. TablesOK'
      BY <3>1, <3>2 DEF TablesOK
    <3> QED BY <3>3, <2>2
  <2>4. CASE ~MovesLocation(s)
    BY <1>3, <2>4, <2>2 DEF MoveLocation, TablesOK
  <2> QED BY <2>3, <2>4
<1>4. CASE MergeRows(s)
  <2>1. PICK t \in job[s].todo :
          /\ UpdateRows(RowsOf(job[s].pub, t[1]), job[s].end, job[s].into)
          /\ Goto(s, "dropLocation", Take(job[s], t))
    BY <1>4 DEF MergeRows
  <2> DEFINE j == Take(job[s], t)
  <2>2. /\ job[s].todo \subseteq Location \X {"move", "merge"}
        /\ job[s].pub \in Publisher /\ job[s].end \in Publisher \ {job[s].pub}
    BY <1>4 DEF MergeRows, Hand, MergeLabels
  <2>3. /\ j \in Job /\ j.here \in Location /\ j.todo \subseteq Location \X {"move", "merge"}
        /\ j.pub \in Publisher /\ j.end \in Publisher \ {j.pub}
    <3>1. t \in Location \X {"move", "merge"} /\ job[s] \in Job
      BY <2>2
    <3> QED BY <2>2, <3>1, TakeOK
  <2>5. Hand("dropLocation", j)
    <3> HIDE DEF j
    <3> QED BY <2>3 DEF Hand, MergeLabels, TabLabels
  <2>4. LocalsOK'
    BY <2>1, <2>3, <2>5, GotoOK DEF Labels, Running, MergeLabels
  <2> QED BY <2>1, <2>4, UpdateRowsOK
<1>5. CASE DropLocation(s)
  <2>1. Hand("merge", job[s]) /\ job[s].here \in Location
    BY <1>5 DEF DropLocation, Hand, MergeLabels, TabLabels
  <2>2. LocalsOK'
    BY <1>5, <2>1, GotoOK DEF DropLocation, Labels, Running, MergeLabels
  <2> QED BY <1>5, <2>1, <2>2, DeleteLocationOK DEF DropLocation
<1>6. CASE CountRows(s)
  <2>1. Hand("removeSource", job[s])
    BY <1>6 DEF CountRows, Hand, MergeLabels, TabLabels
  <2>2. LocalsOK'
    BY <1>6, <2>1, GotoOK, FinishOK DEF CountRows, Labels, Running, MergeLabels
  <2> QED BY <1>6, <2>2, TablesKept DEF CountRows
<1>7. CASE RemoveSource(s)
  <2>1. job[s].pub \in Publisher
    BY <1>7 DEF RemoveSource, Hand, MergeLabels
  <2> QED BY <1>7, <2>1, DeletePublisherOK, FinishOK DEF RemoveSource
<1> QED BY <1>1, <1>2, <1>3, <1>4, <1>5, <1>6, <1>7 DEF Merge

\* Opening a page changes no table.
LEMMA OpenOK ==
  ASSUME TablesOK, LocalsOK, NEW s \in Session, NEW op, NEW page \in Pages, NEW j \in Job,
         Hand(page, j), Open(s, op, page, j)
  PROVE  TablesOK' /\ LocalsOK'
BY GotoOK, TablesKept DEF Open, Labels

LEMMA MaintainOK ==
  ASSUME TablesOK, LocalsOK, NEW s \in Session, Maintain(s)
  PROVE  TablesOK' /\ LocalsOK'
<1> USE JobOK
<1>1. CASE OpenPlaces(s)
  <2>1. PICK p \in DOMAIN publisher : \E m \in LocationsOf(p) : \E ids \in SUBSET LocationsOf(p) :
          Open(s, "places", "placesPage",
               [NoJob EXCEPT !.pub = p, !.into = m, !.todo = (ids \ {m}) \X {"merge"}])
    BY <1>1 DEF OpenPlaces
  <2>2. PICK m \in LocationsOf(p), ids \in SUBSET LocationsOf(p) :
          Open(s, "places", "placesPage",
               [NoJob EXCEPT !.pub = p, !.into = m, !.todo = (ids \ {m}) \X {"merge"}])
    BY <2>1
  <2> DEFINE todo == (ids \ {m}) \X {"merge"}
             j == [NoJob EXCEPT !.pub = p, !.into = m, !.todo = todo]
  <2>3. p \in Publisher /\ m \in Location /\ ids \subseteq Location
    BY DEF TablesOK, LocationsOf
  <2>4. /\ todo \subseteq Location \X {"move", "merge"}
        /\ todo \subseteq (Publisher \cup Location) \X {"publisher", "move", "merge", "location"}
    BY <2>3
  <2>5. j \in Job /\ j.pub = p /\ j.into = m /\ j.todo = todo
    <3> HIDE DEF todo
    <3> QED BY <2>3, <2>4, NoJobOK DEF Job
  <2>6. Hand("placesPage", j)
    <3> HIDE DEF j, todo
    <3> QED BY <2>3, <2>4, <2>5 DEF Hand, MergeLabels, TabLabels
  <2>7. Open(s, "places", "placesPage", j)
    BY <2>2
  <2> QED
    <3> HIDE DEF j
    <3> QED BY <2>5, <2>6, <2>7, OpenOK DEF Pages
<1>2. CASE ReplaceRows(s)
  <2>1. PICK t \in job[s].todo :
          /\ UpdateRows(RowsOf(job[s].pub, t[1]), job[s].pub, job[s].into)
          /\ Goto(s, "dropPlace", Take(job[s], t))
    BY <1>2 DEF ReplaceRows
  <2> DEFINE j == Take(job[s], t)
  <2>2. /\ job[s].todo \subseteq Location \X {"move", "merge"}
        /\ job[s].pub \in Publisher /\ job[s].into \in Location
    BY <1>2 DEF ReplaceRows, Hand
  <2>3. /\ j \in Job /\ j.here \in Location /\ j.todo \subseteq Location \X {"move", "merge"}
        /\ j.pub \in Publisher /\ j.into \in Location
    <3>1. t \in Location \X {"move", "merge"} /\ job[s] \in Job
      BY <2>2
    <3> QED BY <2>2, <3>1, TakeOK
  <2>4. Hand("dropPlace", j)
    <3> HIDE DEF j
    <3> QED BY <2>3 DEF Hand, MergeLabels, TabLabels
  <2>5. LocalsOK'
    BY <2>1, <2>3, <2>4, GotoOK DEF Labels, Running
  <2> QED BY <2>1, <2>5, UpdateRowsOK
<1>3. CASE DropPlace(s)
  <2>1. Hand("places", job[s]) /\ job[s].here \in Location
    BY <1>3 DEF DropPlace, Hand, MergeLabels, TabLabels
  <2>2. LocalsOK'
    BY <1>3, <2>1, GotoOK DEF DropPlace, Labels, Running
  <2> QED BY <1>3, <2>1, <2>2, DeleteLocationOK DEF DropPlace
<1>4. CASE OpenDelete(s)
  <2>1. PICK todo \in SUBSET ((Publisher \X {"publisher"}) \cup (Location \X {"location"})) :
          Open(s, "delete", "dropPage", [NoJob EXCEPT !.todo = todo])
    <3>1. CASE \E ids \in SUBSET DOMAIN publisher :
                 Open(s, "delete", "dropPage", [NoJob EXCEPT !.todo = ids \X {"publisher"}])
      BY <3>1 DEF TablesOK
    <3>2. CASE \E p \in DOMAIN publisher : \E ids \in SUBSET LocationsOf(p) :
                 Open(s, "delete", "dropPage", [NoJob EXCEPT !.todo = ids \X {"location"}])
      BY <3>2 DEF TablesOK, LocationsOf
    <3> QED BY <1>4, <3>1, <3>2 DEF OpenDelete
  <2> DEFINE j == [NoJob EXCEPT !.todo = todo]
  <2>2. j \in Job /\ j.todo = todo
    <3>1. todo \subseteq (Publisher \cup Location) \X {"publisher", "move", "merge", "location"}
      OBVIOUS
    <3> QED BY <3>1, NoJobOK DEF Job
  <2>3. Hand("dropPage", j)
    <3> HIDE DEF j
    <3> QED BY <2>2 DEF Hand, MergeLabels, TabLabels
  <2> QED BY <2>1, <2>2, <2>3, OpenOK DEF Pages
<1>5. CASE DeleteNext(s)
  <2>1. PICK t \in job[s].todo :
          /\ IF t[2] = "publisher" THEN DeletePublisher(t[1]) ELSE DeleteLocation(t[1])
          /\ Goto(s, "drop", [job[s] EXCEPT !.todo = @ \ {t}])
    BY <1>5 DEF DeleteNext
  <2>2. job[s].todo \subseteq (Publisher \X {"publisher"}) \cup (Location \X {"location"})
    BY <1>5 DEF DeleteNext, Hand
  <2> DEFINE j == [job[s] EXCEPT !.todo = job[s].todo \ {t}]
  <2>3. j \in Job /\ j.todo = job[s].todo \ {t}
    BY DEF Job
  <2>4. Hand("drop", j)
    <3> HIDE DEF j
    <3> QED BY <2>2, <2>3 DEF Hand, MergeLabels, TabLabels
  <2>5. LocalsOK'
    BY <2>1, <2>3, <2>4, GotoOK DEF Labels, Running
  <2>6. \/ t[1] \in Publisher /\ DeletePublisher(t[1])
        \/ t[1] \in Location /\ DeleteLocation(t[1])
    BY <2>1, <2>2
  <2> QED BY <2>5, <2>6, DeletePublisherOK, DeleteLocationOK
<1>6. CASE EndLoop(s)
  BY <1>6, FinishOK, TablesKept DEF EndLoop
<1>7. CASE NewName(s)
  <2>1. PICK p \in Publisher, n \in Name :
          /\ ~NameTaken(p, n) /\ p \notin gone
          /\ publisher' = Put(publisher, p, n)
          /\ UNCHANGED <<location, publishing, gone, pc, job>>
    BY <1>7 DEF NewName
  <2>2. TablesOK'
    BY <2>1, PutPublisherOK
  <2> QED BY <2>1, <2>2 DEF LocalsOK
<1>8. CASE OpenPlace(s)
  <2>1. PICK p \in DOMAIN publisher : \E l \in LocationsOf(p) \cup {None} :
          Open(s, "place", "placePage", [NoJob EXCEPT !.pub = p, !.here = l])
    BY <1>8 DEF OpenPlace
  <2>2. PICK l \in LocationsOf(p) \cup {None} :
          Open(s, "place", "placePage", [NoJob EXCEPT !.pub = p, !.here = l])
    BY <2>1
  <2> DEFINE j == [NoJob EXCEPT !.pub = p, !.here = l]
  <2>3. p \in Publisher /\ l \in Location \cup {None}
    BY DEF TablesOK, LocationsOf
  <2>4. j \in Job /\ j.pub = p
    BY <2>3, NoJobOK DEF Job
  <2>5. Hand("placePage", j)
    <3> HIDE DEF j
    <3> QED BY <2>3, <2>4 DEF Hand, MergeLabels, TabLabels
  <2> QED BY <2>2, <2>4, <2>5, OpenOK DEF Pages
<1>9. CASE SavePlace(s)
  <2>1. LocalsOK'
    BY <1>9, FinishOK DEF SavePlace
  <2>2. UNCHANGED <<publisher, publishing, gone>> /\ ~SavePlaceFails(s)
    BY <1>9 DEF SavePlace
  <2>3. PICK t \in Town :
          LET row == [owner |-> job[s].pub, town |-> t]
          IN  \/ /\ job[s].here = None
                 /\ \E l \in Location \ (DOMAIN location \cup gone) : location' = Put(location, l, row)
              \/ /\ job[s].here # None
                 /\ location' = IF job[s].here \in DOMAIN location
                                THEN [location EXCEPT ![job[s].here] = row] ELSE location
    BY <1>9 DEF SavePlace
  <2>4. CASE job[s].here = None
    <3>1. job[s].pub \in DOMAIN publisher
      BY <2>2, <2>4 DEF SavePlaceFails
    <3> QED BY <2>1, <2>2, <2>3, <2>4, <3>1, PutLocationOK
  <2>5. CASE job[s].here \in DOMAIN location
    <3>1. job[s].pub \in DOMAIN publisher /\ job[s].here # None
      BY <2>2, <2>5, PublishingAssumption DEF SavePlaceFails, TablesOK
    <3>2. /\ location' = [location EXCEPT ![job[s].here] = [owner |-> job[s].pub, town |-> t]]
          /\ DOMAIN location' = DOMAIN location
      BY <2>3, <2>5, <3>1
    <3>3. location' \in [DOMAIN location' -> [owner : DOMAIN publisher, town : Town]]
      BY <3>1, <3>2 DEF TablesOK
    <3> QED BY <2>1, <2>2, <3>2, <3>3 DEF TablesOK
  <2>6. CASE job[s].here # None /\ job[s].here \notin DOMAIN location
    BY <2>1, <2>2, <2>3, <2>6, TablesKept DEF tables
  <2> QED BY <2>4, <2>5, <2>6
<1> QED BY <1>1, <1>2, <1>3, <1>4, <1>5, <1>6, <1>7, <1>8, <1>9 DEF Maintain

\* The line of the form a request of the publisher tab is at.
LEMMA LineOK ==
  ASSUME LocalsOK, NEW s \in Session, job[s].i \in 1 .. Len(job[s].lines)
  PROVE  LineOf(s) \in Line
BY JobOK DEF Job, LineOf

\* Going on with the publisher found or inserted.
LEMMA WithPublisherOK ==
  ASSUME LocalsOK, NEW s \in Session, NEW p \in Publisher \cup {None},
         job[s].work \in Work, job[s].i \in 1 .. Len(job[s].lines),
         LineOf(s).name # None => p # None,
         WithPublisher(s, p)
  PROVE  LocalsOK'
<1> DEFINE j == [job[s] EXCEPT !.pub = p, !.into = None]
           label == IF LineOf(s).name = None \/ LineOf(s).town = None THEN "setPublisher"
                                                                   ELSE "findLocation"
<1>1. j \in Job /\ j.pub = p /\ j.work = job[s].work /\ j.lines = job[s].lines /\ j.i = job[s].i
  BY JobOK DEF Job
<1>2. label \in {"setPublisher", "findLocation"}
      /\ (label = "findLocation" => LineOf(s).name # None /\ LineOf(s).town # None)
  OBVIOUS
<1>3. Hand(label, j) /\ label \in Labels
  <2> HIDE DEF j, label
  <2> QED BY <1>1, <1>2 DEF Hand, MergeLabels, TabLabels, LineOf, Labels, Running
<1> QED BY <1>1, <1>3, GotoOK DEF WithPublisher

LEMMA TabOK ==
  ASSUME TablesOK, LocalsOK, NEW s \in Session, Tab(s)
  PROVE  TablesOK' /\ LocalsOK'
<1> USE JobOK
<1>1. CASE OpenTab(s)
  <2>1. PICK w \in Work, n \in 0 .. MaxLines : \E lines \in [1 .. n -> Line] :
          Open(s, "tab", "tabPage", [NoJob EXCEPT !.work = w, !.lines = lines])
    BY <1>1 DEF OpenTab
  <2>2. PICK lines \in [1 .. n -> Line] :
          Open(s, "tab", "tabPage", [NoJob EXCEPT !.work = w, !.lines = lines])
    BY <2>1
  <2> DEFINE j == [NoJob EXCEPT !.work = w, !.lines = lines]
  <2>3. lines \in Seq(Line)
    BY PublishingAssumption
  <2>4. j \in Job /\ j.work = w
    BY <2>3, NoJobOK DEF Job
  <2>5. Hand("tabPage", j)
    <3> HIDE DEF j
    <3> QED BY <2>4 DEF Hand, MergeLabels, TabLabels
  <2> QED BY <2>2, <2>4, <2>5, OpenOK DEF Pages
<1>2. CASE DropPublishers(s)
  <2>1. Hand("line", job[s])
    BY <1>2 DEF DropPublishers, Hand, MergeLabels, TabLabels
  <2>2. LocalsOK'
    BY <1>2, <2>1, GotoOK DEF DropPublishers, Labels, Running, TabLabels
  <2> DEFINE Gone == {r \in DOMAIN publishing : publishing[r].work = job[s].work}
  <2>3. publishing' = [r \in DOMAIN publishing \ Gone |-> publishing[r]]
    BY <1>2, WithoutRows DEF DropPublishers
  <2>4. TablesOK'
    BY <1>2, <2>3 DEF DropPublishers, TablesOK
  <2> QED BY <2>2, <2>4
<1>3. CASE FindPublisher(s)
  <2>1. job[s].work \in Work /\ job[s].i \in 1 .. Len(job[s].lines)
    BY <1>3 DEF FindPublisher, Hand, TabLabels, Job
  <2>2. LineOf(s) \in Line
    BY <2>1, LineOK
  <2> SUFFICES LocalsOK'
    BY <1>3, TablesKept DEF FindPublisher
  <2>3. CASE LineOf(s).name = None /\ WithPublisher(s, None)
    BY <2>1, <2>3, WithPublisherOK
  <2>4. CASE \E p \in Named(s) : WithPublisher(s, p)
    BY <2>1, <2>4, WithPublisherOK, PublishingAssumption DEF Named, TablesOK
  <2>5. CASE LineOf(s).name # None /\ Goto(s, "newPublisher", job[s])
    <3>1. Hand("newPublisher", job[s])
      BY <2>1, <2>5 DEF Hand, MergeLabels, TabLabels, LineOf
    <3> QED BY <2>5, <3>1, GotoOK DEF Labels, Running, TabLabels
  <2> QED BY <1>3, <2>3, <2>4, <2>5 DEF FindPublisher
<1>4. CASE NewPublisher(s)
  <2>1. /\ job[s].work \in Work /\ job[s].i \in 1 .. Len(job[s].lines)
        /\ LineOf(s).name # None
    BY <1>4 DEF NewPublisher, Hand, TabLabels, LineOf
  <2>2. LineOf(s).name \in Name
    BY <2>1, LineOK DEF Line
  <2>3. PICK p \in Publisher \ (DOMAIN publisher \cup gone) :
          /\ ~NameTaken(None, LineOf(s).name)
          /\ publisher' = Put(publisher, p, LineOf(s).name)
          /\ WithPublisher(s, p)
    BY <1>4 DEF NewPublisher
  <2>4. ~NameTaken(p, LineOf(s).name)
    BY <2>3, PublishingAssumption DEF NameTaken, TablesOK
  <2>5. TablesOK'
    BY <1>4, <2>2, <2>3, <2>4, PutPublisherOK DEF NewPublisher
  <2>6. LocalsOK'
    BY <2>1, <2>3, WithPublisherOK, PublishingAssumption
  <2> QED BY <2>5, <2>6
<1>5. CASE FindLocation(s)
  <2> DEFINE found == {l \in LocationsOf(job[s].pub) : location[l].town = LineOf(s).town}
  <2>1. /\ pc[s] = "findLocation" /\ UNCHANGED tables
        /\ \/ \E l \in found : Goto(s, "setPublisher", [job[s] EXCEPT !.into = l])
           \/ found = {} /\ Goto(s, "newLocation", job[s])
    BY <1>5 DEF FindLocation, AtFound
  <2>2. CASE Goto(s, "newLocation", job[s])
    <3>1. Hand("newLocation", job[s])
      BY <2>1 DEF Hand, MergeLabels, TabLabels, LineOf
    <3> QED BY <2>1, <2>2, <3>1, GotoOK, TablesKept DEF Labels, Running, TabLabels
  <2>3. CASE \E l \in found : Goto(s, "setPublisher", [job[s] EXCEPT !.into = l])
    <3>1. PICK l \in found : Goto(s, "setPublisher", [job[s] EXCEPT !.into = l])
      BY <2>3
    <3> DEFINE j == [job[s] EXCEPT !.into = l]
    <3>2. l \in Location
      BY DEF TablesOK, LocationsOf
    <3>3. j \in Job /\ j.work = job[s].work /\ j.lines = job[s].lines /\ j.i = job[s].i
      BY <3>2 DEF Job
    <3>4. Hand("setPublisher", j)
      <4> HIDE DEF j
      <4> QED BY <2>1, <3>3 DEF Hand, MergeLabels, TabLabels
    <3> QED BY <2>1, <3>1, <3>3, <3>4, GotoOK, TablesKept DEF Labels, Running, TabLabels
  <2> QED BY <2>1, <2>2, <2>3
<1>6. CASE NewLocation(s)
  <2>1. PICK l \in Location \ (DOMAIN location \cup gone) :
          /\ location' = Put(location, l, [owner |-> job[s].pub, town |-> LineOf(s).town])
          /\ Goto(s, "setPublisher", [job[s] EXCEPT !.into = l])
    BY <1>6 DEF NewLocation
  <2>2. /\ job[s].work \in Work /\ job[s].i \in 1 .. Len(job[s].lines)
        /\ LineOf(s).town # None
    BY <1>6 DEF NewLocation, Hand, TabLabels, LineOf
  <2>3. LineOf(s).town \in Town
    BY <2>2, LineOK DEF Line
  <2>4. TablesOK'
    BY <1>6, <2>1, <2>3, PutLocationOK DEF NewLocation
  <2> DEFINE j == [job[s] EXCEPT !.into = l]
  <2>5. j \in Job /\ j.work = job[s].work /\ j.lines = job[s].lines /\ j.i = job[s].i
    BY DEF Job
  <2>6. Hand("setPublisher", j)
    <3> HIDE DEF j
    <3> QED BY <2>2, <2>5 DEF Hand, MergeLabels, TabLabels
  <2>7. LocalsOK'
    BY <2>1, <2>5, <2>6, GotoOK DEF Labels, Running, TabLabels
  <2> QED BY <2>4, <2>7
<1>7. CASE SetPublisher(s)
  <2>1. job[s].work \in Work /\ job[s].i \in Nat \ {0} /\ KeysExist(job[s].pub, job[s].into)
    BY <1>7 DEF SetPublisher, Hand, TabLabels, Job
  <2>2. PICK r \in Row \ DOMAIN publishing :
          publishing' = Put(publishing, r, [work |-> job[s].work, by |-> job[s].pub, at |-> job[s].into])
    BY <1>7 DEF SetPublisher
  <2>3. TablesOK'
    <3>1. /\ DOMAIN publishing' = DOMAIN publishing \cup {r}
          /\ publishing' \in [DOMAIN publishing' -> [work : Work, by : DOMAIN publisher \cup {None},
                                                    at : DOMAIN location \cup {None}]]
      BY <2>1, <2>2, PutRow DEF TablesOK, KeysExist, Put
    <3> QED BY <1>7, <3>1 DEF TablesOK, SetPublisher
  <2> DEFINE j == [job[s] EXCEPT !.i = job[s].i + 1]
  <2>4. j \in Job /\ j.work = job[s].work
    BY <2>1 DEF Job
  <2>5. Hand("line", j)
    <3> HIDE DEF j
    <3> QED BY <2>1, <2>4 DEF Hand, MergeLabels, TabLabels
  <2>6. LocalsOK'
    BY <1>7, <2>4, <2>5, GotoOK DEF SetPublisher, Labels, Running, TabLabels
  <2> QED BY <2>3, <2>6
<1>8. CASE EndTab(s)
  BY <1>8, FinishOK, TablesKept DEF EndTab
<1> QED BY <1>1, <1>2, <1>3, <1>4, <1>5, <1>6, <1>7, <1>8 DEF Tab

-----------------------------------------------------------------------------
LEMMA InitOK ==
  ASSUME Init
  PROVE  TypeOK
<1>1. /\ publisher \in [InitialPublisher -> Name]
      /\ \A p, q \in InitialPublisher : publisher[p] = publisher[q] => p = q
  BY DEF Init, IsInjective
<1>2. /\ location \in [InitialLocation -> [owner : InitialPublisher, town : Town]]
      /\ gone = {}
  BY DEF Init, Place
<1>3. publishing \in [InitialRow -> [work : Work, by : InitialPublisher \cup {None},
                                     at : InitialLocation \cup {None}]]
  BY DEF Init, Imprint
<1>4. TablesOK
  BY <1>1, <1>2, <1>3, PublishingAssumption DEF TablesOK
<1>5. LocalsOK
  BY NoJobOK DEF Init, LocalsOK
<1> QED BY <1>4, <1>5 DEF TypeOK, LocalsOK

\* However many editors are at work, and wherever their requests are cut off
\* or stopped by a key, the tables of publishers, locations and publishings
\* keep their foreign keys and no two publishers share a name.
THEOREM PublishingTyping == Spec => []TypeOK
<1> USE DEF TypeOK
<1>1. Init => TypeOK
  BY InitOK
<1>2. TypeOK /\ [Next]_vars => TypeOK'
  <2> SUFFICES ASSUME TablesOK, LocalsOK, [Next]_vars
               PROVE  TablesOK' /\ LocalsOK'
    BY DEF LocalsOK
  <2>1. CASE UNCHANGED vars
    BY <2>1 DEF vars, TablesOK, LocalsOK
  <2>2. ASSUME NEW s \in Session, HandleError(s) \/ Abandon(s) \/ Crash(s)
        PROVE  TablesOK' /\ LocalsOK'
    BY <2>2, FinishOK, TablesKept DEF HandleError, Abandon, Crash
  <2> QED BY <2>1, <2>2, MergeOK, MaintainOK, TabOK DEF Next
<1> QED BY <1>1, <1>2, PTL DEF Spec

-----------------------------------------------------------------------------
\* Coherence of publishings while nobody merges publishers.

AllCoherent == \A r \in DOMAIN publishing : CoherentRow(r)

\* No location changes hands, and an id that has been issued is not issued
\* again.
Stable ==
  \A l \in DOMAIN location \cup gone :
    /\ l \in DOMAIN location' \cup gone'
    /\ l \in DOMAIN location' => l \in DOMAIN location /\ location'[l].owner = location[l].owner

\* A publishing that has not changed stays coherent if its location has not.
LEMMA SameRowCoherent ==
  ASSUME TablesOK', NEW r \in DOMAIN publishing, CoherentRow(r), r \in DOMAIN publishing',
         publishing'[r] = publishing[r],
         \A l \in DOMAIN location' : l \in DOMAIN location /\ location'[l].owner = location[l].owner
  PROVE  CoherentRow(r)'
<1>1. publishing'[r].at \in DOMAIN location' \cup {None}
  BY DEF TablesOK
<1> QED BY <1>1 DEF CoherentRow

LEMMA DeleteLocationCoherent ==
  ASSUME TablesOK, NEW l \in Location, DeleteLocation(l)
  PROVE  Stable /\ (AllCoherent => AllCoherent')
<1>1. /\ DOMAIN location' = DOMAIN location \ {l}
      /\ \A m \in DOMAIN location' : location'[m] = location[m]
      /\ DOMAIN publishing' \subseteq DOMAIN publishing
      /\ \A r \in DOMAIN publishing' : publishing'[r] = publishing[r]
      /\ gone' = gone \cup ({l} \cap DOMAIN location)
  <2> DEFINE Gone == {r \in DOMAIN publishing : publishing[r].at = l}
  <2>1. /\ location' = [x \in DOMAIN location \ {l} |-> location[x]]
        /\ publishing' = [x \in DOMAIN publishing \ Gone |-> publishing[x]]
    BY WithoutRows DEF DeleteLocation
  <2> HIDE DEF Gone
  <2> QED BY <2>1 DEF DeleteLocation
<1>2. Stable
  BY <1>1 DEF Stable, TablesOK
<1>3. TablesOK'
  BY DeleteLocationOK
<1> QED BY <1>1, <1>2, <1>3, SameRowCoherent DEF AllCoherent

LEMMA DeletePublisherCoherent ==
  ASSUME TablesOK, NEW p \in Publisher, DeletePublisher(p)
  PROVE  Stable /\ (AllCoherent => AllCoherent')
<1>1. /\ DOMAIN location' = DOMAIN location \ LocationsOf(p)
      /\ \A m \in DOMAIN location' : location'[m] = location[m]
      /\ DOMAIN publishing' \subseteq DOMAIN publishing
      /\ \A r \in DOMAIN publishing' : publishing'[r] = publishing[r]
      /\ gone \cup LocationsOf(p) \subseteq gone'
  <2> DEFINE Gone == {r \in DOMAIN publishing :
                       publishing[r].by = p \/ publishing[r].at \in LocationsOf(p)}
  <2>1. /\ location' = [x \in DOMAIN location \ LocationsOf(p) |-> location[x]]
        /\ publishing' = [x \in DOMAIN publishing \ Gone |-> publishing[x]]
    BY WithoutRows DEF DeletePublisher
  <2> HIDE DEF Gone
  <2> QED BY <2>1 DEF DeletePublisher
<1>2. Stable
  <2>1. DOMAIN location \cap gone = {}
    BY DEF TablesOK
  <2> QED BY <1>1, <2>1 DEF Stable
<1>3. TablesOK'
  BY DeletePublisherOK
<1> QED BY <1>1, <1>2, <1>3, SameRowCoherent DEF AllCoherent

\* Publishings sent to a location of the publisher they are given.
LEMMA UpdateRowsCoherent ==
  ASSUME TablesOK, AllCoherent, NEW rows, NEW p, NEW l, UpdateRows(rows, p, l),
         l \in DOMAIN location => location[l].owner = p
  PROVE  Stable /\ AllCoherent'
<1>1. Stable
  BY DEF UpdateRows, Stable, TablesOK
<1>2. TablesOK'
  BY UpdateRowsOK
<1>3. ASSUME NEW r \in DOMAIN publishing' PROVE CoherentRow(r)'
  <2>1. r \in DOMAIN publishing /\ UNCHANGED <<publisher, location, gone>>
    BY DEF UpdateRows
  <2>2. CASE r \notin rows
    <3>1. publishing'[r] = publishing[r]
      BY <2>1, <2>2 DEF UpdateRows
    <3> QED BY <1>2, <2>1, <3>1, SameRowCoherent DEF AllCoherent
  <2>3. CASE r \in rows
    <3>1. publishing[r] \in [work : Work, by : DOMAIN publisher \cup {None}, at : DOMAIN location \cup {None}]
      BY <2>1 DEF TablesOK
    <3>2. publishing'[r] = [publishing[r] EXCEPT !.by = p, !.at = l]
      BY <2>1, <2>3 DEF UpdateRows
    <3>3. publishing'[r].by = p /\ publishing'[r].at = l
      BY <3>1, <3>2
    <3>4. l \in DOMAIN location \cup {None}
      BY <2>1, <2>3 DEF UpdateRows, UpdateRowsFails, KeysExist
    <3> QED BY <2>1, <3>3, <3>4 DEF CoherentRow
  <2> QED BY <2>2, <2>3
<1> QED BY <1>1, <1>3 DEF AllCoherent

\* A location inserted, or saved for the publisher it had.
LEMMA PutLocationCoherent ==
  ASSUME TablesOK, NEW l \in Location, NEW p \in DOMAIN publisher, NEW t \in Town,
         l \notin gone, l \in DOMAIN location => location[l].owner = p,
         location' = Put(location, l, [owner |-> p, town |-> t]),
         UNCHANGED <<publisher, publishing, gone>>
  PROVE  /\ \A m \in DOMAIN location : m \in DOMAIN location' /\ location'[m].owner = location[m].owner
         /\ AllCoherent => AllCoherent'
<1>1. /\ DOMAIN location' = DOMAIN location \cup {l}
      /\ location'[l].owner = p
      /\ \A m \in DOMAIN location \ {l} : location'[m] = location[m]
  <2> DEFINE row == [owner |-> p, town |-> t]
  <2>1. row.owner = p
    OBVIOUS
  <2>2. location' = Put(location, l, row)
    OBVIOUS
  <2> HIDE DEF row
  <2> QED BY <2>1, <2>2 DEF Put
<1>2. \A r \in DOMAIN publishing : publishing[r].at \in DOMAIN location \cup {None}
  BY DEF TablesOK
<1>3. \A m \in DOMAIN location : m \in DOMAIN location' /\ location'[m].owner = location[m].owner
  BY <1>1
<1>4. ASSUME AllCoherent, NEW r \in DOMAIN publishing' PROVE CoherentRow(r)'
  <2>1. r \in DOMAIN publishing /\ publishing'[r] = publishing[r] /\ CoherentRow(r)
    BY <1>4 DEF AllCoherent
  <2> QED BY <1>2, <1>3, <2>1 DEF CoherentRow
<1> QED BY <1>3, <1>4 DEF AllCoherent

\* What a session holds survives the steps of the others.
LEMMA OthersHeld ==
  ASSUME Stable, NEW t \in Session, PageHeld(t), pc'[t] = pc[t], job'[t] = job[t]
  PROVE  PageHeld(t)'
<1>1. \A l, p : Belongs(l, p) => Belongs(l, p)'
  BY DEF Stable, Belongs
<1> QED BY <1>1 DEF PageHeld

\* A step of one session, with its effect on the tables and on its own locals,
\* keeps the invariant.
LEMMA PagesStep ==
  ASSUME LocalsOK, NEW s \in Session, PagesInv, Stable, AllCoherent => AllCoherent',
         \A t \in Session \ {s} : pc'[t] = pc[t] /\ job'[t] = job[t],
         PageHeld(s)'
  PROVE  PagesInv'
<1>1. ASSUME NEW t \in Session PROVE PageHeld(t)'
  <2>1. CASE t = s
    BY <2>1
  <2>2. CASE t # s
    BY <2>2, OthersHeld DEF PagesInv
  <2> QED BY <2>1, <2>2
<1> QED BY <1>1 DEF PagesInv, AllCoherent

\* The locals after a step of a session, and those of the others.
LEMMA GotoAt ==
  ASSUME LocalsOK, NEW s \in Session, NEW label, NEW j, Goto(s, label, j)
  PROVE  /\ pc'[s] = label /\ job'[s] = j
         /\ \A t \in Session \ {s} : pc'[t] = pc[t] /\ job'[t] = job[t]
BY DEF LocalsOK, Goto

LEMMA SameTables ==
  ASSUME TablesOK, UNCHANGED tables
  PROVE  Stable /\ (AllCoherent => AllCoherent')
BY DEF tables, Stable, AllCoherent, CoherentRow, TablesOK

\* At these labels a session holds nothing that could go stale.
HoldsNothing == {"idle", "dropPage", "drop", "tabPage", "line", "newPublisher", "findLocation",
                 "newLocation"}

LEMMA FreeHeld ==
  ASSUME NEW s \in Session, pc'[s] \in HoldsNothing
  PROVE  PageHeld(s)'
BY DEF PageHeld, HoldsNothing, MergeLabels

\* A session goes on, the tables having changed in a harmless way.
LEMMA FreeStep ==
  ASSUME LocalsOK, NEW s \in Session, PagesInv, Stable, AllCoherent => AllCoherent',
         NEW label \in HoldsNothing, NEW j, Goto(s, label, j)
  PROVE  PagesInv'
BY GotoAt, FreeHeld, PagesStep

LEMMA FinishStep ==
  ASSUME LocalsOK, NEW s \in Session, PagesInv, Stable, AllCoherent => AllCoherent', Finish(s)
  PROVE  PagesInv'
BY FreeStep DEF Finish, HoldsNothing

LEMMA MergeIdle ==
  ASSUME "merge" \notin Ops, NEW s \in Session, PageHeld(s), Merge(s)
  PROVE  FALSE
<1>1. ~OpenMerge(s)
  BY DEF OpenMerge, Open
<1>2. pc[s] \notin {"mergePage"} \cup MergeLabels
  BY DEF PageHeld
<1> QED BY <1>1, <1>2 DEF Merge, MoveRows, MoveLocation, MergeRows, DropLocation, CountRows,
                          RemoveSource, MergeLabels

LEMMA MaintainPages ==
  ASSUME TablesOK, LocalsOK, PagesInv, NEW s \in Session, Maintain(s)
  PROVE  PagesInv'
<1> USE JobOK
<1>1. CASE OpenPlaces(s)
  <2>1. PICK p \in DOMAIN publisher : \E m \in LocationsOf(p) : \E ids \in SUBSET LocationsOf(p) :
          Open(s, "places", "placesPage",
               [NoJob EXCEPT !.pub = p, !.into = m, !.todo = (ids \ {m}) \X {"merge"}])
    BY <1>1 DEF OpenPlaces
  <2>2. PICK m \in LocationsOf(p), ids \in SUBSET LocationsOf(p) :
          Open(s, "places", "placesPage",
               [NoJob EXCEPT !.pub = p, !.into = m, !.todo = (ids \ {m}) \X {"merge"}])
    BY <2>1
  <2> DEFINE todo == (ids \ {m}) \X {"merge"}
             j == [NoJob EXCEPT !.pub = p, !.into = m, !.todo = todo]
  <2>3. j.pub = p /\ j.into = m
    BY DEF NoJob
  <2>4. Goto(s, "placesPage", j) /\ UNCHANGED tables
    BY <2>2 DEF Open
  <2>5. pc'[s] = "placesPage" /\ job'[s] = j /\ \A t \in Session \ {s} : pc'[t] = pc[t] /\ job'[t] = job[t]
    <3> HIDE DEF j
    <3> QED BY <2>4, GotoAt
  <2>6. PageHeld(s)'
    <3> HIDE DEF j
    <3> QED BY <2>3, <2>4, <2>5 DEF PageHeld, MergeLabels, Belongs, LocationsOf, tables
  <2> HIDE DEF j
  <2> QED BY <2>4, <2>5, <2>6, PagesStep, SameTables
<1>2. CASE ReplaceRows(s)
  <2>1. PICK t \in job[s].todo :
          /\ UpdateRows(RowsOf(job[s].pub, t[1]), job[s].pub, job[s].into)
          /\ Goto(s, "dropPlace", Take(job[s], t))
    BY <1>2 DEF ReplaceRows
  <2>2. Belongs(job[s].into, job[s].pub)
    BY <1>2 DEF ReplaceRows, PagesInv, PageHeld
  <2>3. Stable /\ (AllCoherent => AllCoherent')
    BY <2>1, <2>2, UpdateRowsCoherent DEF PagesInv, AllCoherent, Belongs
  <2>4. Take(job[s], t).pub = job[s].pub /\ Take(job[s], t).into = job[s].into
    BY DEF Take, Job
  <2>5. pc'[s] = "dropPlace" /\ job'[s] = Take(job[s], t)
        /\ \A u \in Session \ {s} : pc'[u] = pc[u] /\ job'[u] = job[u]
    BY <2>1, GotoAt
  <2>6. PageHeld(s)'
    BY <2>1, <2>2, <2>4, <2>5 DEF PageHeld, MergeLabels, Belongs, UpdateRows
  <2> QED BY <2>3, <2>5, <2>6, PagesStep
<1>3. CASE DropPlace(s)
  <2>1. job[s].here \in Location /\ Belongs(job[s].into, job[s].pub)
    BY <1>3 DEF DropPlace, Hand, PagesInv, PageHeld
  <2>2. Stable /\ (AllCoherent => AllCoherent')
    BY <1>3, <2>1, DeleteLocationCoherent DEF DropPlace
  <2>3. pc'[s] = "places" /\ job'[s] = job[s] /\ \A u \in Session \ {s} : pc'[u] = pc[u] /\ job'[u] = job[u]
    BY <1>3, GotoAt DEF DropPlace
  <2>4. PageHeld(s)'
    BY <2>1, <2>2, <2>3 DEF PageHeld, MergeLabels, Belongs, Stable
  <2> QED BY <2>2, <2>3, <2>4, PagesStep
<1>4. CASE OpenDelete(s)
  <2>1. PICK j : Goto(s, "dropPage", j) /\ UNCHANGED tables
    BY <1>4 DEF OpenDelete, Open
  <2> QED BY <2>1, FreeStep, SameTables DEF HoldsNothing
<1>5. CASE DeleteNext(s)
  <2>1. PICK t \in job[s].todo :
          /\ IF t[2] = "publisher" THEN DeletePublisher(t[1]) ELSE DeleteLocation(t[1])
          /\ Goto(s, "drop", [job[s] EXCEPT !.todo = @ \ {t}])
    BY <1>5 DEF DeleteNext
  <2>2. job[s].todo \subseteq (Publisher \X {"publisher"}) \cup (Location \X {"location"})
    BY <1>5 DEF DeleteNext, Hand
  <2>3. \/ t[1] \in Publisher /\ DeletePublisher(t[1])
        \/ t[1] \in Location /\ DeleteLocation(t[1])
    BY <2>1, <2>2
  <2>4. Stable /\ (AllCoherent => AllCoherent')
    BY <2>3, DeletePublisherCoherent, DeleteLocationCoherent
  <2> QED BY <2>1, <2>4, FreeStep DEF HoldsNothing
<1>6. CASE EndLoop(s)
  BY <1>6, FinishStep, SameTables DEF EndLoop
<1>7. CASE NewName(s)
  <2>1. UNCHANGED <<location, publishing, gone, pc, job>>
    BY <1>7 DEF NewName
  <2> QED BY <2>1 DEF PagesInv, CoherentRow, PageHeld, Belongs
<1>8. CASE OpenPlace(s)
  <2>1. PICK p \in DOMAIN publisher : \E l \in LocationsOf(p) \cup {None} :
          Open(s, "place", "placePage", [NoJob EXCEPT !.pub = p, !.here = l])
    BY <1>8 DEF OpenPlace
  <2>2. PICK l \in LocationsOf(p) \cup {None} :
          Open(s, "place", "placePage", [NoJob EXCEPT !.pub = p, !.here = l])
    BY <2>1
  <2> DEFINE j == [NoJob EXCEPT !.pub = p, !.here = l]
  <2>3. j.pub = p /\ j.here = l
    BY DEF NoJob
  <2>4. Goto(s, "placePage", j) /\ UNCHANGED tables
    BY <2>2 DEF Open
  <2> HIDE DEF j
  <2>5. pc'[s] = "placePage" /\ job'[s] = j /\ \A t \in Session \ {s} : pc'[t] = pc[t] /\ job'[t] = job[t]
    BY <2>4, GotoAt
  <2>6. PageHeld(s)'
    BY <2>3, <2>4, <2>5 DEF PageHeld, MergeLabels, Belongs, LocationsOf, tables
  <2> QED BY <2>4, <2>5, <2>6, PagesStep, SameTables
<1>9. CASE SavePlace(s)
  <2>1. /\ Finish(s) /\ UNCHANGED <<publisher, publishing, gone>> /\ ~SavePlaceFails(s)
        /\ (job[s].here # None => Belongs(job[s].here, job[s].pub))
    BY <1>9 DEF SavePlace, PagesInv, PageHeld
  <2>2. PICK t \in Town :
          LET row == [owner |-> job[s].pub, town |-> t]
          IN  \/ /\ job[s].here = None
                 /\ \E l \in Location \ (DOMAIN location \cup gone) : location' = Put(location, l, row)
              \/ /\ job[s].here # None
                 /\ location' = IF job[s].here \in DOMAIN location
                                THEN [location EXCEPT ![job[s].here] = row] ELSE location
    BY <1>9 DEF SavePlace
  <2>3. CASE job[s].here = None
    <3>1. job[s].pub \in DOMAIN publisher
      BY <2>1, <2>3 DEF SavePlaceFails
    <3>2. PICK l \in Location \ (DOMAIN location \cup gone) :
            location' = Put(location, l, [owner |-> job[s].pub, town |-> t])
      BY <2>2, <2>3
    <3>3. DOMAIN location' = DOMAIN location \cup {l}
      BY <3>2 DEF Put
    <3>4. Stable /\ (AllCoherent => AllCoherent')
      BY <2>1, <3>1, <3>2, <3>3, PutLocationCoherent DEF Stable, TablesOK
    <3> QED BY <2>1, <3>4, FinishStep
  <2>4. CASE job[s].here \in DOMAIN location
    <3>1. job[s].here # None /\ location[job[s].here].owner = job[s].pub
      BY <2>1, <2>4, PublishingAssumption DEF TablesOK, Belongs
    <3>2. location' = [location EXCEPT ![job[s].here] = [owner |-> job[s].pub, town |-> t]]
      BY <2>2, <2>4, <3>1
    <3>3. DOMAIN location' = DOMAIN location /\ \A l \in DOMAIN location : location'[l].owner = location[l].owner
      BY <3>1, <3>2
    <3>4. Stable /\ (AllCoherent => AllCoherent')
      BY <2>1, <3>3 DEF Stable, AllCoherent, CoherentRow, TablesOK
    <3> QED BY <2>1, <3>4, FinishStep
  <2>5. CASE job[s].here # None /\ job[s].here \notin DOMAIN location
    BY <2>1, <2>2, <2>5, FinishStep, SameTables DEF tables
  <2> QED BY <2>3, <2>4, <2>5
<1> QED BY <1>1, <1>2, <1>3, <1>4, <1>5, <1>6, <1>7, <1>8, <1>9 DEF Maintain

\* Going on with a publisher: no location is held yet.
LEMMA WithPublisherPages ==
  ASSUME LocalsOK, PagesInv, NEW s \in Session, NEW p, WithPublisher(s, p),
         Stable, AllCoherent => AllCoherent'
  PROVE  PagesInv'
<1> DEFINE j == [job[s] EXCEPT !.pub = p, !.into = None]
           label == IF LineOf(s).name = None \/ LineOf(s).town = None THEN "setPublisher"
                                                                   ELSE "findLocation"
<1>1. j.into = None /\ label \in {"setPublisher", "findLocation"}
  BY JobOK DEF Job
<1>2. pc'[s] = label /\ job'[s] = j /\ \A t \in Session \ {s} : pc'[t] = pc[t] /\ job'[t] = job[t]
  BY GotoAt DEF WithPublisher
<1>3. PageHeld(s)'
  <2> HIDE DEF j, label
  <2> QED BY <1>1, <1>2 DEF PageHeld, MergeLabels
<1> QED BY <1>2, <1>3, PagesStep

LEMMA TabPages ==
  ASSUME TablesOK, LocalsOK, PagesInv, NEW s \in Session, Tab(s)
  PROVE  PagesInv'
<1> USE JobOK
<1>1. CASE OpenTab(s)
  <2>1. PICK j : Goto(s, "tabPage", j) /\ UNCHANGED tables
    BY <1>1 DEF OpenTab, Open
  <2> QED BY <2>1, FreeStep, SameTables DEF HoldsNothing
<1>2. CASE DropPublishers(s)
  <2> DEFINE Gone == {r \in DOMAIN publishing : publishing[r].work = job[s].work}
  <2>1. publishing' = [r \in DOMAIN publishing \ Gone |-> publishing[r]]
    BY <1>2, WithoutRows DEF DropPublishers
  <2>2. Stable /\ (AllCoherent => AllCoherent')
    <3> HIDE DEF Gone
    <3> QED BY <1>2, <2>1 DEF DropPublishers, Stable, AllCoherent, CoherentRow, TablesOK
  <2> QED BY <1>2, <2>2, FreeStep DEF DropPublishers, HoldsNothing
<1>3. CASE FindPublisher(s)
  <2>1. Stable /\ (AllCoherent => AllCoherent')
    BY <1>3, SameTables DEF FindPublisher
  <2>2. (\E p : WithPublisher(s, p)) \/ Goto(s, "newPublisher", job[s])
    BY <1>3 DEF FindPublisher
  <2> QED BY <2>1, <2>2, WithPublisherPages, FreeStep DEF HoldsNothing
<1>4. CASE NewPublisher(s)
  <2>1. Stable /\ (AllCoherent => AllCoherent')
    BY <1>4 DEF NewPublisher, Stable, AllCoherent, CoherentRow, TablesOK
  <2>2. \E p : WithPublisher(s, p)
    BY <1>4 DEF NewPublisher
  <2> QED BY <2>1, <2>2, WithPublisherPages
<1>5. CASE FindLocation(s)
  <2> DEFINE found == {l \in LocationsOf(job[s].pub) : location[l].town = LineOf(s).town}
  <2>1. /\ UNCHANGED tables
        /\ \/ \E l \in found : Goto(s, "setPublisher", [job[s] EXCEPT !.into = l])
           \/ Goto(s, "newLocation", job[s])
    BY <1>5 DEF FindLocation, AtFound
  <2>2. CASE Goto(s, "newLocation", job[s])
    BY <2>1, <2>2, FreeStep, SameTables DEF HoldsNothing
  <2>3. CASE \E l \in found : Goto(s, "setPublisher", [job[s] EXCEPT !.into = l])
    <3>1. PICK l \in found : Goto(s, "setPublisher", [job[s] EXCEPT !.into = l])
      BY <2>3
    <3> DEFINE j == [job[s] EXCEPT !.into = l]
    <3>2. j.into = l /\ j.pub = job[s].pub /\ l \in LocationsOf(job[s].pub)
      BY DEF Job
    <3>3. pc'[s] = "setPublisher" /\ job'[s] = j
          /\ \A t \in Session \ {s} : pc'[t] = pc[t] /\ job'[t] = job[t]
      BY <3>1, GotoAt
    <3>4. PageHeld(s)'
      <4> HIDE DEF j
      <4> QED BY <2>1, <3>2, <3>3 DEF PageHeld, MergeLabels, Belongs, LocationsOf, tables
    <3> QED BY <2>1, <3>3, <3>4, PagesStep, SameTables
  <2> QED BY <2>1, <2>2, <2>3
<1>6. CASE NewLocation(s)
  <2>1. PICK l \in Location \ (DOMAIN location \cup gone) :
          /\ location' = Put(location, l, [owner |-> job[s].pub, town |-> LineOf(s).town])
          /\ Goto(s, "setPublisher", [job[s] EXCEPT !.into = l])
    BY <1>6 DEF NewLocation
  <2>2. /\ job[s].pub \in DOMAIN publisher /\ LineOf(s).town \in Town
        /\ UNCHANGED <<publisher, publishing, gone>>
    <3>1. job[s].i \in 1 .. Len(job[s].lines) /\ LineOf(s).town # None
      BY <1>6 DEF NewLocation, Hand, TabLabels, LineOf
    <3> QED BY <1>6, <3>1, LineOK DEF NewLocation, Line
  <2>3. DOMAIN location' = DOMAIN location \cup {l} /\ location'[l].owner = job[s].pub
    <3> DEFINE row == [owner |-> job[s].pub, town |-> LineOf(s).town]
    <3>1. row.owner = job[s].pub /\ location' = Put(location, l, row)
      BY <2>1
    <3> HIDE DEF row
    <3> QED BY <3>1 DEF Put
  <2>4. Stable /\ (AllCoherent => AllCoherent')
    BY <2>1, <2>2, <2>3, PutLocationCoherent DEF Stable, TablesOK
  <2> DEFINE j == [job[s] EXCEPT !.into = l]
  <2>5. j.into = l /\ j.pub = job[s].pub
    BY DEF Job
  <2>6. pc'[s] = "setPublisher" /\ job'[s] = j
        /\ \A t \in Session \ {s} : pc'[t] = pc[t] /\ job'[t] = job[t]
    BY <2>1, GotoAt
  <2>7. PageHeld(s)'
    <3> HIDE DEF j
    <3> QED BY <2>3, <2>5, <2>6 DEF PageHeld, MergeLabels, Belongs
  <2> QED BY <2>4, <2>6, <2>7, PagesStep
<1>7. CASE SetPublisher(s)
  <2> DEFINE row == [work |-> job[s].work, by |-> job[s].pub, at |-> job[s].into]
  <2>1. PICK r \in Row \ DOMAIN publishing : publishing' = Put(publishing, r, row)
    BY <1>7 DEF SetPublisher
  <2>2. /\ KeysExist(job[s].pub, job[s].into) /\ UNCHANGED <<publisher, location, gone>>
        /\ (job[s].into # None => Belongs(job[s].into, job[s].pub))
    BY <1>7 DEF SetPublisher, PagesInv, PageHeld
  <2>3. row.by = job[s].pub /\ row.at = job[s].into
    OBVIOUS
  <2>4. ASSUME AllCoherent, NEW q \in DOMAIN publishing' PROVE CoherentRow(q)'
    <3> HIDE DEF row
    <3>1. CASE q = r
      <4>1. publishing'[q] = row
        BY <2>1, <3>1 DEF Put
      <4> QED BY <2>2, <2>3, <4>1 DEF CoherentRow, KeysExist, Belongs
    <3>2. CASE q # r
      <4>1. q \in DOMAIN publishing /\ publishing'[q] = publishing[q]
        BY <2>1, <3>2 DEF Put
      <4> QED BY <2>2, <2>4, <4>1 DEF CoherentRow, AllCoherent
    <3> QED BY <3>1, <3>2
  <2>5. Stable /\ (AllCoherent => AllCoherent')
    BY <2>2, <2>4 DEF Stable, AllCoherent, TablesOK
  <2>6. Goto(s, "line", [job[s] EXCEPT !.i = @ + 1])
    BY <1>7 DEF SetPublisher
  <2> QED BY <2>5, <2>6, FreeStep DEF HoldsNothing
<1>8. CASE EndTab(s)
  BY <1>8, FinishStep, SameTables DEF EndTab
<1> QED BY <1>1, <1>2, <1>3, <1>4, <1>5, <1>6, <1>7, <1>8 DEF Tab

\* The inductive invariant behind PublishingsCoherent.
THEOREM PagesInvariant == "merge" \notin Ops => (Spec => []PagesInv)
<1> SUFFICES ASSUME "merge" \notin Ops PROVE Spec => []PagesInv
  OBVIOUS
<1>1. Init => PagesInv
  BY DEF Init, PagesInv, PageHeld, CoherentRow, MergeLabels
<1>2. TypeOK /\ PagesInv /\ [Next]_vars => PagesInv'
  <2> SUFFICES ASSUME TablesOK, LocalsOK, PagesInv, [Next]_vars PROVE PagesInv'
    BY DEF TypeOK, LocalsOK
  <2>1. CASE UNCHANGED vars
    BY <2>1 DEF vars, PagesInv, PageHeld, CoherentRow, Belongs
  <2>2. ASSUME NEW s \in Session, HandleError(s) \/ Abandon(s) \/ Crash(s)
        PROVE  PagesInv'
    BY <2>2, FinishStep, SameTables DEF HandleError, Abandon, Crash
  <2>3. ASSUME NEW s \in Session, Merge(s) PROVE FALSE
    BY <2>3, MergeIdle DEF PagesInv
  <2> QED BY <2>1, <2>2, <2>3, MaintainPages, TabPages DEF Next
<1> QED BY <1>1, <1>2, PublishingTyping, PTL DEF Spec

\* However many editors work on publishers, locations and the publisher tab,
\* with pages as old as they like and requests cut off anywhere, a publishing
\* is at a location of its publisher as long as nobody merges publishers.
THEOREM PublishingsCoherent == "merge" \notin Ops => (Spec => []Coherent)
<1>1. PagesInv => Coherent
  BY DEF PagesInv, Coherent
<1> QED BY <1>1, PagesInvariant, PTL

-----------------------------------------------------------------------------
\* A single editor, merges of publishers included.

\* While no location is being moved every publishing is coherent.
LEMMA SoloCoherent ==
  ASSUME Solo, Coherent, NEW s \in Session, pc[s] # "moveLocation"
  PROVE  AllCoherent
BY DEF Solo, Coherent, AllCoherent

LEMMA CoherentAgain == AllCoherent' => Coherent'
BY DEF Coherent, AllCoherent

LEMMA FreeSolo ==
  ASSUME NEW s \in Session, pc'[s] \in HoldsNothing
  PROVE  SoloHeld(s)'
BY DEF SoloHeld, HoldsNothing, MergeLabels

LEMMA FinishSolo ==
  ASSUME LocalsOK, NEW s \in Session, Finish(s)
  PROVE  SoloHeld(s)'
BY GotoAt, FreeSolo DEF Finish, HoldsNothing

\* Which location each choice on a page is about.
OnePerLocation(todo) == \A t, u \in todo : t[1] = u[1] => t = u

LEMMA TakeFirsts ==
  ASSUME NEW j \in Job, NEW t \in j.todo, j.todo \subseteq Location \X {"move", "merge"},
         OnePerLocation(j.todo)
  PROVE  /\ Take(j, t) \in Job /\ Take(j, t).here = t[1] /\ t[1] \in Location
         /\ Take(j, t).pub = j.pub /\ Take(j, t).end = j.end /\ Take(j, t).into = j.into
         /\ t[1] \in Firsts(j.todo) /\ t[1] \notin Firsts(Take(j, t).todo)
         /\ Firsts(Take(j, t).todo) \subseteq Firsts(j.todo)
         /\ OnePerLocation(Take(j, t).todo)
<1>1. t \in Location \X {"move", "merge"}
  OBVIOUS
<1>2. /\ Take(j, t) \in Job /\ Take(j, t).here = t[1] /\ t[1] \in Location
      /\ Take(j, t).pub = j.pub /\ Take(j, t).end = j.end /\ Take(j, t).into = j.into
      /\ Take(j, t).todo = j.todo \ {t}
  BY <1>1, TakeOK
<1>3. \A u \in j.todo \ {t} : u \in j.todo /\ u[1] # t[1]
  BY DEF OnePerLocation
<1>4. t[1] \in Firsts(j.todo) /\ t[1] \notin Firsts(j.todo \ {t}) /\ Firsts(j.todo \ {t}) \subseteq Firsts(j.todo)
  BY <1>3 DEF Firsts
<1>5. OnePerLocation(j.todo \ {t})
  BY DEF OnePerLocation
<1> HIDE DEF Take, Firsts, OnePerLocation
<1> QED BY <1>2, <1>4, <1>5

\* Who owns what.
LEMMA Owners ==
  ASSUME TablesOK
  PROVE  /\ LocationsOf(None) = {}
         /\ \A p : LocationsOf(p) \subseteq DOMAIN location
         /\ \A p, q, l : l \in LocationsOf(p) /\ l \in LocationsOf(q) => p = q
         /\ \A p, l : l \in LocationsOf(p) => location[l].owner = p /\ l \in Location /\ l # None
BY PublishingAssumption DEF TablesOK, LocationsOf

\* All publishings at a location of a publisher are its own, so an UPDATE of
\* them empties the location.
LEMMA RowsAt ==
  ASSUME TablesOK, AllCoherent, NEW p, NEW l \in LocationsOf(p)
  PROVE  RowsOf(p, l) = {r \in DOMAIN publishing : publishing[r].at = l}
<1>1. location[l].owner = p /\ l # None
  BY Owners
<1> QED BY <1>1 DEF RowsOf, AllCoherent, CoherentRow

\* The rows after an UPDATE of some of them.
LEMMA UpdatedRows ==
  ASSUME TablesOK, NEW rows, NEW p, NEW l, UpdateRows(rows, p, l)
  PROVE  /\ DOMAIN publishing' = DOMAIN publishing
         /\ \A r \in DOMAIN publishing :
              IF r \in rows THEN publishing'[r].by = p /\ publishing'[r].at = l
                            ELSE publishing'[r] = publishing[r]
         /\ UNCHANGED <<publisher, location, gone>>
<1>1. \A r \in DOMAIN publishing :
        publishing[r] \in [work : Work, by : DOMAIN publisher \cup {None}, at : DOMAIN location \cup {None}]
  BY DEF TablesOK
<1>2. \A r \in DOMAIN publishing :
        publishing'[r] = IF r \in rows THEN [publishing[r] EXCEPT !.by = p, !.at = l] ELSE publishing[r]
  BY DEF UpdateRows
<1>3. \A x : x \in [work : Work, by : DOMAIN publisher \cup {None}, at : DOMAIN location \cup {None}] =>
        LET y == [x EXCEPT !.by = p, !.at = l] IN y.by = p /\ y.at = l
  OBVIOUS
<1>4. \A r \in rows : r \in DOMAIN publishing => publishing'[r].by = p /\ publishing'[r].at = l
  BY <1>1, <1>2, <1>3
<1>5. DOMAIN publishing' = DOMAIN publishing /\ UNCHANGED <<publisher, location, gone>>
  BY DEF UpdateRows
<1> QED BY <1>2, <1>4, <1>5

\* What a session that merges holds, whatever statement is next.
MergeHeld(j, todo, here) ==
  /\ j.end \in DOMAIN publisher /\ j.into \in LocationsOf(j.end) \cup {None}
  /\ Firsts(todo) \subseteq LocationsOf(j.pub) /\ OnePerLocation(todo)
  /\ here # None => here \in LocationsOf(j.pub) \ Firsts(todo)

LEMMA HeldAtMerge ==
  ASSUME NEW s \in Session, SoloHeld(s), pc[s] \in {"mergePage"} \cup MergeLabels
  PROVE  /\ MergeHeld(job[s], job[s].todo, None)
         /\ pc[s] \in {"moveLocation", "dropLocation"} => MergeHeld(job[s], job[s].todo, job[s].here)
BY DEF SoloHeld, MergeHeld, MergeLabels, OnePerLocation

LEMMA OpenMergeSolo ==
  ASSUME TablesOK, LocalsOK, Solo, SoloInv, NEW s \in Session, OpenMerge(s)
  PROVE  AllCoherent' /\ SoloHeld(s)'
<1>1. PICK p \in DOMAIN publisher, e \in DOMAIN publisher : \E moved \in SUBSET LocationsOf(p) :
        \E merged \in SUBSET (LocationsOf(p) \ moved) : \E m \in LocationsOf(e) \cup {None} :
          p # e /\ Open(s, "merge", "mergePage",
            [NoJob EXCEPT !.pub = p, !.end = e, !.into = m,
                          !.todo = (moved \X {"move"}) \cup (merged \X {"merge"})])
  BY DEF OpenMerge
<1>2. PICK moved \in SUBSET LocationsOf(p) :
        \E merged \in SUBSET (LocationsOf(p) \ moved) : \E m \in LocationsOf(e) \cup {None} :
          p # e /\ Open(s, "merge", "mergePage",
            [NoJob EXCEPT !.pub = p, !.end = e, !.into = m,
                          !.todo = (moved \X {"move"}) \cup (merged \X {"merge"})])
  BY <1>1
<1>3. PICK merged \in SUBSET (LocationsOf(p) \ moved), m \in LocationsOf(e) \cup {None} :
          p # e /\ Open(s, "merge", "mergePage",
            [NoJob EXCEPT !.pub = p, !.end = e, !.into = m,
                          !.todo = (moved \X {"move"}) \cup (merged \X {"merge"})])
  BY <1>2
<1> DEFINE todo == (moved \X {"move"}) \cup (merged \X {"merge"})
           j == [NoJob EXCEPT !.pub = p, !.end = e, !.into = m, !.todo = todo]
<1>4. j.pub = p /\ j.end = e /\ j.into = m /\ j.todo = todo
  <2> HIDE DEF todo
  <2> QED BY DEF NoJob
<1>5. pc[s] = "idle" /\ Goto(s, "mergePage", j) /\ UNCHANGED tables
  BY <1>3 DEF Open
<1>6. Firsts(todo) \subseteq LocationsOf(p) /\ OnePerLocation(todo)
  BY <1>3 DEF Firsts, OnePerLocation
<1> HIDE DEF todo, j
<1>7. pc'[s] = "mergePage" /\ job'[s] = j
  BY <1>5, GotoAt
<1>8. AllCoherent
  BY <1>5, SoloCoherent DEF SoloInv
<1>9. SoloHeld(s)'
  BY <1>4, <1>5, <1>6, <1>7 DEF SoloHeld, MergeLabels, LocationsOf, OnePerLocation, tables
<1> QED BY <1>5, <1>8, <1>9, SameTables

\* A location to be moved: its publishings go first.
LEMMA MoveRowsSolo ==
  ASSUME TablesOK, LocalsOK, Solo, SoloInv, NEW s \in Session, MoveRows(s)
  PROVE  Coherent' /\ SoloHeld(s)'
<1>1. PICK t \in job[s].todo :
        /\ UpdateRows(RowsOf(job[s].pub, t[1]), job[s].end, t[1])
        /\ Goto(s, "moveLocation", Take(job[s], t))
  BY DEF MoveRows
<1> DEFINE j == Take(job[s], t)
           l == t[1]
<1>2. pc[s] \in {"mergePage", "merge"} /\ AllCoherent /\ MergeHeld(job[s], job[s].todo, None)
  BY SoloCoherent, HeldAtMerge DEF MoveRows, SoloInv, MergeLabels
<1>3. job[s] \in Job /\ job[s].todo \subseteq Location \X {"move", "merge"} /\ OnePerLocation(job[s].todo)
  BY <1>2, JobOK DEF Hand, MergeLabels, MergeHeld
<1>4. /\ j.here = l /\ j.pub = job[s].pub /\ j.end = job[s].end /\ j.into = job[s].into
      /\ l \in Firsts(job[s].todo) /\ l \notin Firsts(j.todo)
      /\ Firsts(j.todo) \subseteq Firsts(job[s].todo) /\ OnePerLocation(j.todo)
  BY <1>3, TakeFirsts
<1>5. pc'[s] = "moveLocation" /\ job'[s] = j
  BY <1>1, GotoAt
<1> HIDE DEF j, l
<1>6. l \in LocationsOf(job[s].pub)
  BY <1>2, <1>4 DEF MergeHeld
<1>7. RowsOf(job[s].pub, l) = {r \in DOMAIN publishing : publishing[r].at = l}
  BY <1>2, <1>6, RowsAt
<1>8. UpdateRows(RowsOf(job[s].pub, l), job[s].end, l)
  BY <1>1 DEF l
<1>9. /\ DOMAIN publishing' = DOMAIN publishing /\ UNCHANGED <<publisher, location, gone>>
      /\ \A r \in DOMAIN publishing :
           IF publishing[r].at = l THEN publishing'[r].by = job[s].end /\ publishing'[r].at = l
                                   ELSE publishing'[r] = publishing[r]
  BY <1>7, <1>8, UpdatedRows
<1>10. Coherent'
  <2> SUFFICES ASSUME NEW r \in DOMAIN publishing'
               PROVE  CoherentRow(r)' \/ (pc'[s] = "moveLocation" /\ publishing'[r].at = job'[s].here)
    BY DEF Coherent
  <2>1. CASE publishing[r].at = l
    BY <1>4, <1>5, <1>9, <2>1
  <2>2. CASE publishing[r].at # l
    BY <1>2, <1>9, <2>2 DEF AllCoherent, CoherentRow
  <2> QED BY <2>1, <2>2
<1>11. SoloHeld(s)'
  <2>1. \A r \in DOMAIN publishing' : publishing'[r].at = l => publishing'[r].by = job[s].end
    BY <1>9
  <2>2. /\ j.end \in DOMAIN publisher /\ j.into \in LocationsOf(j.end) \cup {None}
        /\ Firsts(j.todo) \subseteq LocationsOf(j.pub) /\ l \in LocationsOf(j.pub) \ Firsts(j.todo)
    BY <1>2, <1>4, <1>6 DEF MergeHeld
  <2>3. \A p : LocationsOf(p)' = LocationsOf(p)
    BY <1>9 DEF LocationsOf
  <2> QED BY <1>4, <1>5, <1>9, <2>1, <2>2, <2>3 DEF SoloHeld, MergeLabels, OnePerLocation
<1> QED BY <1>10, <1>11

\* Then the location itself.
LEMMA MoveLocationSolo ==
  ASSUME TablesOK, LocalsOK, Solo, SoloInv, NEW s \in Session, MoveLocation(s)
  PROVE  AllCoherent' /\ SoloHeld(s)'
<1>1. pc[s] = "moveLocation" /\ Goto(s, "merge", job[s]) /\ UNCHANGED <<publisher, publishing, gone>>
  BY DEF MoveLocation
<1>2. /\ MergeHeld(job[s], job[s].todo, job[s].here)
      /\ \A r \in DOMAIN publishing : publishing[r].at = job[s].here => publishing[r].by = job[s].end
  BY <1>1, HeldAtMerge DEF SoloInv, SoloHeld, MergeLabels
<1>3. job[s].here \in Location /\ job[s].end # job[s].pub
  BY <1>1, JobOK DEF Hand, MergeLabels
<1> DEFINE here == job[s].here
           end == job[s].end
<1>4. here \in LocationsOf(job[s].pub) \ Firsts(job[s].todo)
  BY <1>2, <1>3, PublishingAssumption DEF MergeHeld
<1>5. location' = [location EXCEPT ![here].owner = end] /\ here \in DOMAIN location
  BY <1>4 DEF MoveLocation, MovesLocation, LocationsOf
<1>6. /\ DOMAIN location' = DOMAIN location
      /\ \A l \in DOMAIN location : location'[l].owner = IF l = here THEN end ELSE location[l].owner
  BY <1>5 DEF TablesOK
<1>7. pc'[s] = "merge" /\ job'[s] = job[s]
  BY <1>1, GotoAt
<1>8. \A r \in DOMAIN publishing : publishing[r].at \in DOMAIN location \cup {None}
  BY DEF TablesOK
<1>9. \A r \in DOMAIN publishing : publishing[r].at # here => CoherentRow(r)
  BY <1>1 DEF SoloInv, Coherent, Solo
<1>10. AllCoherent'
  BY <1>1, <1>2, <1>6, <1>8, <1>9 DEF AllCoherent, CoherentRow
<1>11. \A p, l : l \in LocationsOf(p)' <=> l \in DOMAIN location /\ location'[l].owner = p
  BY <1>6 DEF LocationsOf
<1>12. /\ LocationsOf(job[s].end) \subseteq LocationsOf(job[s].end)'
       /\ LocationsOf(job[s].pub) \ {here} \subseteq LocationsOf(job[s].pub)'
  BY <1>3, <1>6, <1>7, <1>11 DEF LocationsOf
<1> HIDE DEF here, end
<1>13. SoloHeld(s)'
  BY <1>1, <1>2, <1>4, <1>7, <1>12 DEF SoloHeld, MergeHeld, MergeLabels, OnePerLocation, end
<1> QED BY <1>10, <1>13

\* The publishings at a location are given another; none is left there.
LEMMA Emptied ==
  ASSUME TablesOK, AllCoherent, NEW p, NEW l \in LocationsOf(p), NEW q,
         NEW m \in LocationsOf(q) \cup {None}, m # l, UpdateRows(RowsOf(p, l), q, m)
  PROVE  /\ AllCoherent' /\ UNCHANGED <<publisher, location, gone>>
         /\ \A r \in DOMAIN publishing' : publishing'[r].at # l
<1>1. RowsOf(p, l) = {r \in DOMAIN publishing : publishing[r].at = l}
  BY RowsAt
<1>2. /\ DOMAIN publishing' = DOMAIN publishing /\ UNCHANGED <<publisher, location, gone>>
      /\ \A r \in DOMAIN publishing :
           IF r \in RowsOf(p, l) THEN publishing'[r].by = q /\ publishing'[r].at = m
                                 ELSE publishing'[r] = publishing[r]
  BY UpdatedRows
<1>3. \A r \in DOMAIN publishing' : publishing'[r].at # l
  BY <1>1, <1>2
<1>4. m \in DOMAIN location => location[m].owner = q
  BY PublishingAssumption DEF TablesOK, LocationsOf
<1>5. AllCoherent'
  BY <1>4, UpdateRowsCoherent
<1> QED BY <1>2, <1>3, <1>5

\* A location that goes leaves the others where they are.
LEMMA LocationGone ==
  ASSUME TablesOK, NEW l \in Location, DeleteLocation(l)
  PROVE  (\A p : LocationsOf(p)' = LocationsOf(p) \ {l}) /\ UNCHANGED publisher
<1>1. location' = [x \in DOMAIN location \ {l} |-> location[x]] /\ UNCHANGED publisher
  BY WithoutRows DEF DeleteLocation
<1> QED BY <1>1 DEF LocationsOf

\* A location to be merged: its publishings go first ...
LEMMA MergeRowsSolo ==
  ASSUME TablesOK, LocalsOK, Solo, SoloInv, NEW s \in Session, MergeRows(s)
  PROVE  AllCoherent' /\ SoloHeld(s)'
<1>1. PICK t \in job[s].todo :
        /\ UpdateRows(RowsOf(job[s].pub, t[1]), job[s].end, job[s].into)
        /\ Goto(s, "dropLocation", Take(job[s], t))
  BY DEF MergeRows
<1> DEFINE j == Take(job[s], t)
           l == t[1]
<1>2. pc[s] \in {"mergePage", "merge"} /\ AllCoherent /\ MergeHeld(job[s], job[s].todo, None)
  BY SoloCoherent, HeldAtMerge DEF MergeRows, SoloInv, MergeLabels
<1>3. /\ job[s] \in Job /\ job[s].todo \subseteq Location \X {"move", "merge"} /\ OnePerLocation(job[s].todo)
      /\ job[s].end # job[s].pub
  BY <1>2, JobOK DEF Hand, MergeLabels, MergeHeld
<1>4. /\ j.here = l /\ j.pub = job[s].pub /\ j.end = job[s].end /\ j.into = job[s].into
      /\ l \in Firsts(job[s].todo) /\ l \notin Firsts(j.todo)
      /\ Firsts(j.todo) \subseteq Firsts(job[s].todo) /\ OnePerLocation(j.todo)
  BY <1>3, TakeFirsts
<1>5. pc'[s] = "dropLocation" /\ job'[s] = j
  BY <1>1, GotoAt
<1>6. UpdateRows(RowsOf(job[s].pub, l), job[s].end, job[s].into)
  BY <1>1
<1> HIDE DEF j, l
<1>7. l \in LocationsOf(job[s].pub) /\ job[s].into \in LocationsOf(job[s].end) \cup {None}
  BY <1>2, <1>4 DEF MergeHeld
<1>8. job[s].into # l
  BY <1>3, <1>7, Owners
<1>9. /\ AllCoherent' /\ UNCHANGED <<publisher, location, gone>>
      /\ \A r \in DOMAIN publishing' : publishing'[r].at # l
  BY <1>2, <1>6, <1>7, <1>8, Emptied
<1>10. SoloHeld(s)'
  <2>1. /\ j.end \in DOMAIN publisher /\ j.into \in LocationsOf(j.end) \cup {None}
        /\ Firsts(j.todo) \subseteq LocationsOf(j.pub) /\ l \in LocationsOf(j.pub) \ Firsts(j.todo)
    BY <1>2, <1>4, <1>7 DEF MergeHeld
  <2>2. \A p : LocationsOf(p)' = LocationsOf(p)
    BY <1>9 DEF LocationsOf
  <2> QED BY <1>4, <1>5, <1>9, <2>1, <2>2 DEF SoloHeld, MergeLabels, OnePerLocation
<1> QED BY <1>9, <1>10

\* ... then the location.
LEMMA DropLocationSolo ==
  ASSUME TablesOK, LocalsOK, Solo, SoloInv, NEW s \in Session, DropLocation(s)
  PROVE  AllCoherent' /\ SoloHeld(s)'
<1> DEFINE here == job[s].here
<1>1. pc[s] = "dropLocation" /\ DeleteLocation(here) /\ pc'[s] = "merge" /\ job'[s] = job[s]
  BY GotoAt DEF DropLocation
<1>2. AllCoherent /\ MergeHeld(job[s], job[s].todo, here)
  BY <1>1, SoloCoherent, HeldAtMerge DEF SoloInv, MergeLabels
<1>3. here \in Location /\ job[s].end # job[s].pub /\ here # None
  BY <1>1, JobOK, PublishingAssumption DEF Hand, MergeLabels
<1> HIDE DEF here
<1>4. (\A p : LocationsOf(p)' = LocationsOf(p) \ {here}) /\ UNCHANGED publisher
  BY <1>1, <1>3, LocationGone
<1>5. AllCoherent'
  BY <1>1, <1>2, <1>3, DeleteLocationCoherent
<1>6. here \notin LocationsOf(job[s].end)
  BY <1>2, <1>3, Owners DEF MergeHeld
<1>7. SoloHeld(s)'
  BY <1>1, <1>2, <1>3, <1>4, <1>6 DEF SoloHeld, MergeHeld, MergeLabels, OnePerLocation
<1> QED BY <1>5, <1>7

\* A page of a merge, between two locations or at its end.
LEMMA CountRowsSolo ==
  ASSUME TablesOK, LocalsOK, Solo, SoloInv, NEW s \in Session, CountRows(s)
  PROVE  AllCoherent' /\ SoloHeld(s)'
<1>1. /\ pc[s] \in {"mergePage", "merge"} /\ job[s].todo = {} /\ UNCHANGED tables
      /\ Finish(s) \/ Goto(s, "removeSource", job[s])
  BY DEF CountRows
<1>2. AllCoherent /\ AllCoherent'
  BY <1>1, SoloCoherent, SameTables DEF SoloInv
<1>3. CASE Goto(s, "removeSource", job[s])
  <2>1. pc'[s] = "removeSource" /\ job'[s] = job[s]
    BY <1>3, GotoAt
  <2>2. MergeHeld(job[s], {}, None)
    BY <1>1, HeldAtMerge DEF SoloInv, MergeLabels
  <2> QED BY <1>1, <1>2, <2>1, <2>2 DEF SoloHeld, MergeHeld, MergeLabels, OnePerLocation, LocationsOf, tables
<1> QED BY <1>1, <1>2, <1>3, FinishSolo

LEMMA RemoveSourceSolo ==
  ASSUME TablesOK, LocalsOK, Solo, SoloInv, NEW s \in Session, RemoveSource(s)
  PROVE  AllCoherent' /\ SoloHeld(s)'
<1>1. pc[s] = "removeSource" /\ DeletePublisher(job[s].pub) /\ Finish(s)
  BY DEF RemoveSource
<1>2. job[s].pub \in Publisher /\ AllCoherent
  BY <1>1, JobOK, SoloCoherent DEF Hand, MergeLabels, SoloInv
<1> QED BY <1>1, <1>2, DeletePublisherCoherent, FinishSolo

\* Merging locations of one publisher: the page, then for each location its
\* publishings and itself.
LEMMA PlacesSolo ==
  ASSUME TablesOK, LocalsOK, Solo, SoloInv, NEW s \in Session, OpenPlaces(s) \/ ReplaceRows(s) \/ DropPlace(s)
  PROVE  AllCoherent' /\ SoloHeld(s)'
<1>1. CASE OpenPlaces(s)
  <2>1. PICK p \in DOMAIN publisher : \E m \in LocationsOf(p) : \E ids \in SUBSET LocationsOf(p) :
          Open(s, "places", "placesPage",
               [NoJob EXCEPT !.pub = p, !.into = m, !.todo = (ids \ {m}) \X {"merge"}])
    BY <1>1 DEF OpenPlaces
  <2>2. PICK m \in LocationsOf(p), ids \in SUBSET LocationsOf(p) :
          Open(s, "places", "placesPage",
               [NoJob EXCEPT !.pub = p, !.into = m, !.todo = (ids \ {m}) \X {"merge"}])
    BY <2>1
  <2> DEFINE todo == (ids \ {m}) \X {"merge"}
             j == [NoJob EXCEPT !.pub = p, !.into = m, !.todo = todo]
  <2>3. j.pub = p /\ j.into = m /\ j.todo = todo
    <3> HIDE DEF todo
    <3> QED BY DEF NoJob
  <2>4. Firsts(todo) \subseteq LocationsOf(p) \ {m} /\ OnePerLocation(todo)
    BY DEF Firsts, OnePerLocation
  <2>5. pc[s] = "idle" /\ Goto(s, "placesPage", j) /\ UNCHANGED tables
    BY <2>2 DEF Open
  <2> HIDE DEF todo, j
  <2>6. pc'[s] = "placesPage" /\ job'[s] = j
    BY <2>5, GotoAt
  <2>7. AllCoherent'
    BY <2>5, SoloCoherent, SameTables DEF SoloInv
  <2>8. \A q : LocationsOf(q)' = LocationsOf(q)
    BY <2>5 DEF LocationsOf, tables
  <2>9. SoloHeld(s)'
    BY <2>3, <2>4, <2>6, <2>8 DEF SoloHeld, MergeLabels, OnePerLocation
  <2> QED BY <2>7, <2>9
<1>2. CASE ReplaceRows(s)
  <2>1. PICK t \in job[s].todo :
          /\ UpdateRows(RowsOf(job[s].pub, t[1]), job[s].pub, job[s].into)
          /\ Goto(s, "dropPlace", Take(job[s], t))
    BY <1>2 DEF ReplaceRows
  <2> DEFINE j == Take(job[s], t)
             l == t[1]
  <2>2. pc[s] \in {"placesPage", "places"} /\ AllCoherent
    BY <1>2, SoloCoherent DEF ReplaceRows, SoloInv
  <2>3. /\ job[s].into \in LocationsOf(job[s].pub) \ Firsts(job[s].todo)
        /\ Firsts(job[s].todo) \subseteq LocationsOf(job[s].pub) /\ OnePerLocation(job[s].todo)
    BY <2>2 DEF SoloInv, SoloHeld, OnePerLocation
  <2>4. job[s] \in Job /\ job[s].todo \subseteq Location \X {"move", "merge"}
    BY <2>2, JobOK DEF Hand
  <2>5. /\ j.here = l /\ j.pub = job[s].pub /\ j.into = job[s].into
        /\ l \in Firsts(job[s].todo) /\ l \notin Firsts(j.todo)
        /\ Firsts(j.todo) \subseteq Firsts(job[s].todo) /\ OnePerLocation(j.todo)
    BY <2>3, <2>4, TakeFirsts
  <2>6. pc'[s] = "dropPlace" /\ job'[s] = j
    BY <2>1, GotoAt
  <2>7. UpdateRows(RowsOf(job[s].pub, l), job[s].pub, job[s].into)
    BY <2>1
  <2> HIDE DEF j, l
  <2>8. l \in LocationsOf(job[s].pub) /\ job[s].into # l
    BY <2>3, <2>5
  <2>9. /\ AllCoherent' /\ UNCHANGED <<publisher, location, gone>>
        /\ \A r \in DOMAIN publishing' : publishing'[r].at # l
    BY <2>2, <2>3, <2>7, <2>8, Emptied
  <2>10. \A q : LocationsOf(q)' = LocationsOf(q)
    BY <2>9 DEF LocationsOf
  <2>11. SoloHeld(s)'
    BY <2>3, <2>5, <2>6, <2>8, <2>9, <2>10 DEF SoloHeld, MergeLabels, OnePerLocation
  <2> QED BY <2>9, <2>11
<1>3. CASE DropPlace(s)
  <2> DEFINE here == job[s].here
  <2>1. pc[s] = "dropPlace" /\ DeleteLocation(here) /\ pc'[s] = "places" /\ job'[s] = job[s]
    BY <1>3, GotoAt DEF DropPlace
  <2>2. AllCoherent /\ here \in Location
    BY <2>1, SoloCoherent, JobOK DEF SoloInv, Hand
  <2>3. /\ job[s].into \in LocationsOf(job[s].pub) \ Firsts(job[s].todo)
        /\ Firsts(job[s].todo) \subseteq LocationsOf(job[s].pub) /\ OnePerLocation(job[s].todo)
        /\ here \in LocationsOf(job[s].pub) \ Firsts(job[s].todo)
    BY <2>1 DEF SoloInv, SoloHeld, OnePerLocation
  <2> HIDE DEF here
  <2>4. (\A p : LocationsOf(p)' = LocationsOf(p) \ {here}) /\ UNCHANGED publisher
    BY <2>1, <2>2, LocationGone
  <2>5. AllCoherent'
    BY <2>1, <2>2, DeleteLocationCoherent
  <2> QED
    <3>1. job[s].into # here
      BY <2>1 DEF SoloInv, SoloHeld, here
    <3>2. SoloHeld(s)'
      BY <2>1, <2>3, <2>4, <3>1 DEF SoloHeld, MergeLabels, OnePerLocation
    <3> QED BY <2>5, <3>2
<1> QED BY <1>1, <1>2, <1>3

\* Outside of a merge of publishers a single editor is like any other.
LEMMA SoloPages ==
  ASSUME TablesOK, Solo, SoloInv, NEW s \in Session, pc[s] \notin {"mergePage"} \cup MergeLabels
  PROVE  PagesInv
<1>1. AllCoherent
  BY SoloCoherent DEF SoloInv, MergeLabels
<1>2. PageHeld(s)
  BY PublishingAssumption DEF SoloInv, SoloHeld, PageHeld, Belongs, LocationsOf, TablesOK
<1> QED BY <1>1, <1>2 DEF PagesInv, AllCoherent, Solo

LEMMA MaintainSolo ==
  ASSUME TablesOK, LocalsOK, Solo, SoloInv, NEW s \in Session, Maintain(s)
  PROVE  AllCoherent' /\ SoloHeld(s)'
<1>1. pc[s] \notin {"mergePage"} \cup MergeLabels
  BY DEF Maintain, OpenPlaces, ReplaceRows, DropPlace, OpenDelete, DeleteNext, EndLoop, NewName, OpenPlace,
     SavePlace, Open, MergeLabels
<1>2. AllCoherent'
  <2>1. PagesInv'
    BY <1>1, SoloPages, MaintainPages
  <2> QED BY <2>1 DEF PagesInv, AllCoherent
<1>3. CASE OpenPlaces(s) \/ ReplaceRows(s) \/ DropPlace(s)
  BY <1>3, PlacesSolo
<1>4. CASE OpenDelete(s)
  <2>1. PICK j : Goto(s, "dropPage", j)
    BY <1>4 DEF OpenDelete, Open
  <2>2. pc'[s] = "dropPage"
    BY <2>1, GotoAt
  <2> QED BY <1>2, <2>2, FreeSolo DEF HoldsNothing
<1>5. CASE DeleteNext(s)
  <2>1. PICK t \in job[s].todo : Goto(s, "drop", [job[s] EXCEPT !.todo = @ \ {t}])
    BY <1>5 DEF DeleteNext
  <2>2. pc'[s] = "drop"
    BY <2>1, GotoAt
  <2> QED BY <1>2, <2>2, FreeSolo DEF HoldsNothing
<1>6. CASE EndLoop(s) \/ SavePlace(s)
  BY <1>2, <1>6, FinishSolo DEF EndLoop, SavePlace
<1>7. CASE NewName(s)
  BY <1>2, <1>7, FreeSolo DEF NewName, HoldsNothing
<1>8. CASE OpenPlace(s)
  <2>1. PICK p \in DOMAIN publisher : \E l \in LocationsOf(p) \cup {None} :
          Open(s, "place", "placePage", [NoJob EXCEPT !.pub = p, !.here = l])
    BY <1>8 DEF OpenPlace
  <2>2. PICK l \in LocationsOf(p) \cup {None} :
          Open(s, "place", "placePage", [NoJob EXCEPT !.pub = p, !.here = l])
    BY <2>1
  <2> DEFINE j == [NoJob EXCEPT !.pub = p, !.here = l]
  <2>3. j.pub = p /\ j.here = l
    BY DEF NoJob
  <2>4. Goto(s, "placePage", j) /\ UNCHANGED tables
    BY <2>2 DEF Open
  <2> HIDE DEF j
  <2>5. pc'[s] = "placePage" /\ job'[s] = j
    BY <2>4, GotoAt
  <2>6. SoloHeld(s)'
    BY <2>2, <2>3, <2>4, <2>5 DEF SoloHeld, MergeLabels, LocationsOf, tables
  <2> QED BY <1>2, <2>6
<1> QED BY <1>3, <1>4, <1>5, <1>6, <1>7, <1>8 DEF Maintain

\* A line of the form goes on with a publisher and without a location.
LEMMA WithPublisherAt ==
  ASSUME LocalsOK, NEW s \in Session, NEW p, WithPublisher(s, p)
  PROVE  /\ pc'[s] = IF LineOf(s).name = None \/ LineOf(s).town = None THEN "setPublisher" ELSE "findLocation"
         /\ job'[s].pub = p /\ job'[s].into = None
         /\ job'[s].work = job[s].work /\ job'[s].lines = job[s].lines /\ job'[s].i = job[s].i
<1> DEFINE j == [job[s] EXCEPT !.pub = p, !.into = None]
<1>1. /\ j.pub = p /\ j.into = None
      /\ j.work = job[s].work /\ j.lines = job[s].lines /\ j.i = job[s].i
  BY JobOK DEF Job
<1>2. Goto(s, IF LineOf(s).name = None \/ LineOf(s).town = None THEN "setPublisher" ELSE "findLocation", j)
  BY DEF WithPublisher
<1> HIDE DEF j
<1> QED BY <1>1, <1>2, GotoAt

\* And with the location.
LEMMA WithLocationAt ==
  ASSUME LocalsOK, NEW s \in Session, NEW l, Goto(s, "setPublisher", [job[s] EXCEPT !.into = l])
  PROVE  /\ pc'[s] = "setPublisher" /\ job'[s].pub = job[s].pub /\ job'[s].into = l
         /\ job'[s].work = job[s].work /\ job'[s].lines = job[s].lines /\ job'[s].i = job[s].i
<1> DEFINE j == [job[s] EXCEPT !.into = l]
<1>1. /\ j.pub = job[s].pub /\ j.into = l
      /\ j.work = job[s].work /\ j.lines = job[s].lines /\ j.i = job[s].i
  BY JobOK DEF Job
<1>2. Goto(s, "setPublisher", j)
  OBVIOUS
<1> HIDE DEF j
<1> QED BY <1>1, <1>2, GotoAt

\* A location inserted for the publisher at hand.
LEMMA LocationPut ==
  ASSUME NEW l, NEW p, NEW t, location' = Put(location, l, [owner |-> p, town |-> t])
  PROVE  /\ DOMAIN location' = DOMAIN location \cup {l} /\ location'[l].owner = p /\ location'[l].town = t
         /\ \A m \in DOMAIN location \ {l} : location'[m] = location[m]
<1> DEFINE row == [owner |-> p, town |-> t]
<1>1. row.owner = p /\ row.town = t
  OBVIOUS
<1>2. location' = Put(location, l, row)
  OBVIOUS
<1> HIDE DEF row
<1> QED BY <1>1, <1>2 DEF Put

LEMMA TabSolo ==
  ASSUME TablesOK, LocalsOK, Solo, SoloInv, NEW s \in Session, Tab(s)
  PROVE  AllCoherent' /\ SoloHeld(s)'
<1>1. pc[s] \notin {"mergePage"} \cup MergeLabels
  BY DEF Tab, OpenTab, DropPublishers, FindPublisher, NewPublisher, FindLocation, AtFound, NewLocation,
     SetPublisher, EndTab, Open, MergeLabels
<1>2. AllCoherent'
  <2>1. PagesInv'
    BY <1>1, SoloPages, TabPages
  <2> QED BY <2>1 DEF PagesInv, AllCoherent
<1>3. ASSUME NEW p, WithPublisher(s, p) PROVE SoloHeld(s)'
  BY <1>3, WithPublisherAt DEF SoloHeld, MergeLabels
<1>4. ASSUME NEW label \in HoldsNothing, NEW j, Goto(s, label, j) PROVE SoloHeld(s)'
  <2>1. pc'[s] = label
    BY <1>4, GotoAt
  <2> QED BY <2>1, FreeSolo
<1>5. CASE OpenTab(s)
  <2>1. PICK j : Goto(s, "tabPage", j)
    BY <1>5 DEF OpenTab, Open
  <2> QED BY <1>2, <1>4, <2>1 DEF HoldsNothing
<1>6. CASE DropPublishers(s)
  BY <1>2, <1>4, <1>6 DEF DropPublishers, HoldsNothing
<1>7. CASE FindPublisher(s) \/ NewPublisher(s)
  <2>1. (\E p : WithPublisher(s, p)) \/ Goto(s, "newPublisher", job[s])
    BY <1>7 DEF FindPublisher, NewPublisher
  <2> QED BY <1>2, <1>3, <1>4, <2>1 DEF HoldsNothing
<1>8. CASE FindLocation(s)
  <2>1. CASE Goto(s, "newLocation", job[s])
    BY <1>2, <1>4, <2>1 DEF HoldsNothing
  <2>2. CASE ~Goto(s, "newLocation", job[s])
    <3>1. PICK l \in LocationsOf(job[s].pub) : Goto(s, "setPublisher", [job[s] EXCEPT !.into = l])
      BY <1>8, <2>2 DEF FindLocation, AtFound
    <3>2. UNCHANGED tables
      BY <1>8 DEF FindLocation, AtFound
    <3>3. pc'[s] = "setPublisher" /\ job'[s].pub = job[s].pub /\ job'[s].into = l
      BY <3>1, WithLocationAt
    <3>4. SoloHeld(s)'
      BY <3>1, <3>2, <3>3 DEF SoloHeld, MergeLabels, LocationsOf, tables
    <3> QED BY <1>2, <3>4
  <2> QED BY <2>1, <2>2
<1>9. CASE NewLocation(s)
  <2>1. PICK l \in Location \ (DOMAIN location \cup gone) :
          /\ location' = Put(location, l, [owner |-> job[s].pub, town |-> LineOf(s).town])
          /\ Goto(s, "setPublisher", [job[s] EXCEPT !.into = l])
    BY <1>9 DEF NewLocation
  <2>2. pc'[s] = "setPublisher" /\ job'[s].pub = job[s].pub /\ job'[s].into = l
    BY <2>1, WithLocationAt
  <2>3. l \in DOMAIN location' /\ location'[l].owner = job[s].pub
    <3> DEFINE p == job[s].pub
               t == LineOf(s).town
    <3>1. location' = Put(location, l, [owner |-> p, town |-> t])
      BY <2>1
    <3> HIDE DEF p, t
    <3>2. DOMAIN location' = DOMAIN location \cup {l} /\ location'[l].owner = p
      BY <3>1, LocationPut
    <3> QED BY <3>2 DEF p
  <2>4. SoloHeld(s)'
    BY <2>2, <2>3 DEF SoloHeld, MergeLabels, LocationsOf
  <2> QED BY <1>2, <2>4
<1>10. CASE SetPublisher(s)
  BY <1>2, <1>4, <1>10 DEF SetPublisher, HoldsNothing
<1>11. CASE EndTab(s)
  BY <1>2, <1>11, FinishSolo DEF EndTab
<1> QED BY <1>5, <1>6, <1>7, <1>8, <1>9, <1>10, <1>11 DEF Tab

\* A request that is not cut off does not end between the two UPDATEs of a
\* location that is moved: the destination is still there.
LEMMA EndSolo ==
  ASSUME TablesOK, LocalsOK, Solo, ~MayCrash, SoloInv, NEW s \in Session,
         HandleError(s) \/ Abandon(s) \/ Crash(s)
  PROVE  AllCoherent' /\ SoloHeld(s)'
<1>1. Finish(s) /\ UNCHANGED tables
  BY DEF HandleError, Abandon, Crash
<1>2. pc[s] # "moveLocation"
  <2> SUFFICES ASSUME pc[s] = "moveLocation" PROVE FALSE
    OBVIOUS
  <2>1. job[s].end \in DOMAIN publisher
    BY DEF SoloInv, SoloHeld, MergeLabels
  <2>2. ~Fails(s) /\ ~Abandon(s) /\ ~Crash(s)
    BY <2>1 DEF Fails, Abandon, Crash, Pages
  <2> QED BY <2>2 DEF HandleError
<1> QED BY <1>1, <1>2, SoloCoherent, SameTables, FinishSolo DEF SoloInv

LEMMA NextSolo ==
  ASSUME TypeOK, Solo, ~MayCrash, SoloInv, [Next]_vars
  PROVE  SoloInv'
<1>0. TablesOK /\ LocalsOK
  BY DEF TypeOK, LocalsOK
<1>1. CASE UNCHANGED vars
  BY <1>1 DEF vars, SoloInv, SoloHeld, Coherent, CoherentRow, LocationsOf
<1>2. ASSUME NEW s \in Session, Coherent' /\ SoloHeld(s)' PROVE SoloInv'
  BY <1>2 DEF SoloInv, Solo
<1>3. ASSUME NEW s \in Session, Merge(s) PROVE Coherent' /\ SoloHeld(s)'
  BY <1>0, <1>3, OpenMergeSolo, MoveRowsSolo, MoveLocationSolo, MergeRowsSolo, DropLocationSolo,
     CountRowsSolo, RemoveSourceSolo, CoherentAgain DEF Merge
<1>4. ASSUME NEW s \in Session,
             Maintain(s) \/ Tab(s) \/ HandleError(s) \/ Abandon(s) \/ Crash(s)
      PROVE  Coherent' /\ SoloHeld(s)'
  BY <1>0, <1>4, MaintainSolo, TabSolo, EndSolo, CoherentAgain
<1> QED BY <1>1, <1>2, <1>3, <1>4 DEF Next

\* Why a single editor's publishings stay coherent, merges of publishers and
\* of locations included: the inductive invariant.  (It does not hold when a
\* request may be cut off: between the two UPDATEs of a location that is
\* moved its publishings are at a location of another publisher.)
THEOREM SoloInvariant == Solo /\ ~MayCrash => (Spec => []SoloInv)
<1> SUFFICES ASSUME Solo, ~MayCrash PROVE Spec => []SoloInv
  OBVIOUS
<1>1. Init => SoloInv
  BY DEF Init, SoloInv, SoloHeld, Coherent, CoherentRow, MergeLabels
<1>2. TypeOK /\ SoloInv /\ [Next]_vars => SoloInv'
  BY NextSolo
<1> QED BY <1>1, <1>2, PublishingTyping, PTL DEF Spec

-----------------------------------------------------------------------------
\* What merges keep.

\* An UPDATE of publishings of one publisher leaves those of the others.
LEMMA UpdateKeeps ==
  ASSUME TablesOK, NEW s \in Session, NEW l, NEW p, NEW m, UpdateRows(RowsOf(job[s].pub, l), p, m)
  PROVE  RowsKept(s)
BY UpdatedRows DEF RowsKept, RowsOf

LEMMA SameKept ==
  ASSUME NEW s \in Session, UNCHANGED publishing
  PROVE  RowsKept(s)
BY DEF RowsKept

LEMMA NoneDeleted ==
  ASSUME NEW s \in Session, publishing' = Without(publishing, {})
  PROVE  RowsKept(s)
<1>1. /\ DOMAIN Without(publishing, {}) = DOMAIN publishing \ {}
      /\ \A r \in DOMAIN publishing \ {} : Without(publishing, {})[r] = publishing[r]
  BY WithoutRows
<1> QED BY <1>1 DEF RowsKept

\* A location where no publishing is goes without a cascade.
LEMMA EmptyLocationKept ==
  ASSUME NEW s \in Session, NEW l, \A r \in DOMAIN publishing : publishing[r].at # l, DeleteLocation(l)
  PROVE  RowsKept(s)
<1>1. publishing' = Without(publishing, {})
  BY DEF DeleteLocation
<1> QED BY <1>1, NoneDeleted

\* So does a publisher all of whose locations have been dealt with.
LEMMA EmptyPublisherKept ==
  ASSUME NEW s \in Session, AllCoherent, job[s].todo = {}, pc[s] # "dropLocation", AllHandled(s),
         job[s].pub # None, None \notin LocationsOf(job[s].pub), DeletePublisher(job[s].pub)
  PROVE  RowsKept(s)
<1>1. \A r \in DOMAIN publishing : publishing[r].by # job[s].pub
  BY DEF AllHandled, Ahead
<1>2. \A r \in DOMAIN publishing : publishing[r].at \notin LocationsOf(job[s].pub)
  BY <1>1 DEF AllCoherent, CoherentRow, LocationsOf
<1>3. publishing' = Without(publishing, {})
  BY <1>1, <1>2 DEF DeletePublisher
<1> QED BY <1>3, NoneDeleted

LEMMA MergeStepKeeps ==
  ASSUME TypeOK, Solo, SoloInv, [Next]_vars, NEW s \in Session, AtMerge(s)
  PROVE  RowsKept(s)
<1>0. TablesOK /\ LocalsOK
  BY DEF TypeOK, LocalsOK
<1>1. /\ pc[s] \in {"mergePage"} \cup MergeLabels \cup {"placesPage", "places", "dropPlace"}
      /\ (pc[s] \in {"mergePage"} \cup MergeLabels => AllHandled(s))
      /\ pc'[s] # pc[s]
  BY DEF AtMerge
<1>2. Merge(s) \/ Maintain(s) \/ Tab(s) \/ HandleError(s) \/ Abandon(s) \/ Crash(s)
  BY <1>1 DEF Next, Solo, vars
<1>3. CASE MoveRows(s) \/ MergeRows(s) \/ ReplaceRows(s)
  BY <1>0, <1>3, UpdateKeeps DEF MoveRows, MergeRows, ReplaceRows
<1>4. CASE DropLocation(s) \/ DropPlace(s)
  <2>1. pc[s] \in {"dropLocation", "dropPlace"} /\ DeleteLocation(job[s].here)
    BY <1>4 DEF DropLocation, DropPlace
  <2>2. \A r \in DOMAIN publishing : publishing[r].at # job[s].here
    BY <2>1 DEF SoloInv, SoloHeld
  <2> QED BY <2>1, <2>2, EmptyLocationKept
<1>5. CASE RemoveSource(s)
  <2>1. pc[s] = "removeSource" /\ DeletePublisher(job[s].pub)
    BY <1>5 DEF RemoveSource
  <2>2. AllCoherent /\ job[s].todo = {} /\ AllHandled(s)
    BY <1>1, <2>1, SoloCoherent DEF SoloInv, SoloHeld, MergeLabels
  <2>3. job[s].pub # None
    BY <1>0, <2>1, JobOK, PublishingAssumption DEF Hand, MergeLabels
  <2>4. None \notin LocationsOf(job[s].pub)
    BY <1>0, Owners
  <2> QED BY <2>1, <2>2, <2>3, <2>4, EmptyPublisherKept
<1>6. CASE MoveLocation(s) \/ CountRows(s) \/ EndLoop(s) \/ HandleError(s) \/ Abandon(s) \/ Crash(s)
  BY <1>6, SameKept DEF MoveLocation, CountRows, EndLoop, HandleError, Abandon, Crash, tables
<1>7. ~(OpenMerge(s) \/ OpenPlaces(s) \/ OpenDelete(s) \/ DeleteNext(s) \/ NewName(s) \/ OpenPlace(s) \/ SavePlace(s))
  BY <1>1 DEF OpenMerge, OpenPlaces, OpenDelete, DeleteNext, NewName, OpenPlace, SavePlace, Open, MergeLabels
<1>8. ~Tab(s)
  BY <1>1 DEF Tab, OpenTab, DropPublishers, FindPublisher, NewPublisher, FindLocation, AtFound, NewLocation,
     SetPublisher, EndTab, Open, MergeLabels
<1> QED BY <1>2, <1>3, <1>4, <1>5, <1>6, <1>7, <1>8 DEF Merge, Maintain

\* Whatever publishers and locations there are, however many of them a merge
\* moves and merges: processMerge and handleLocationMerge lose no publishing
\* to a cascade and change none of another publisher, for a single editor
\* whose requests are not cut off and who has said of each location with
\* publishings what becomes of it.
THEOREM MergesKeep == Solo /\ ~MayCrash => (Spec => MergesKeepPublishings)
<1> SUFFICES ASSUME Solo, ~MayCrash PROVE Spec => MergesKeepPublishings
  OBVIOUS
<1>1. TypeOK /\ SoloInv /\ [Next]_vars => [\A s \in Session : AtMerge(s) => RowsKept(s)]_vars
  BY MergeStepKeeps
<1>2. Spec => []SoloInv
  BY SoloInvariant
<1> QED BY <1>1, <1>2, PublishingTyping, PTL DEF Spec, MergesKeepPublishings

-----------------------------------------------------------------------------
\* The publisher tab.

\* The publishings of the work on the form.
WorkRows(s) == {r \in DOMAIN publishing : publishing[r].work = job[s].work}

\* The lines before the current one have been written, and nothing else.
Written(s) ==
  /\ IsFiniteSet(WorkRows(s)) /\ Cardinality(WorkRows(s)) = job[s].i - 1
  /\ job[s].i <= Len(job[s].lines) + 1
  /\ \A k \in 1 .. (job[s].i - 1) : \E r \in WorkRows(s) : Shows(publishing[r], job[s].lines[k])

\* The publisher at hand is that of the line, and so is the location.
NameFound(p, line) ==
  IF line.name = None THEN p = None ELSE p \in DOMAIN publisher /\ publisher[p] = line.name
TownFound(p, l, line) ==
  IF line.name = None \/ line.town = None
  THEN l = None
  ELSE l \in LocationsOf(p) /\ location[l].town = line.town

\* What a single editor's request has done of the form, and what it has found.
TabHeld(s) ==
  /\ pc[s] = "tabPage" => job[s].i = 1
  /\ pc[s] \in TabLabels => Written(s)
  /\ pc[s] \in {"findLocation", "newLocation", "setPublisher"} => NameFound(job[s].pub, LineOf(s))
  /\ pc[s] = "setPublisher" => TownFound(job[s].pub, job[s].into, LineOf(s))

TabInv == \A s \in Session : TabHeld(s)

\* Publishers and locations are only added.
Grown ==
  /\ DOMAIN publisher \subseteq DOMAIN publisher'
  /\ \A p \in DOMAIN publisher : publisher'[p] = publisher[p]
  /\ DOMAIN location \subseteq DOMAIN location'
  /\ \A l \in DOMAIN location : location'[l] = location[l]

\* The form and the place on it stay.
SameLine(s) == job'[s].work = job[s].work /\ job'[s].lines = job[s].lines /\ job'[s].i = job[s].i

\* What has been written shows what it did.
LEMMA ShownStill ==
  ASSUME Grown, NEW r \in DOMAIN publishing, publishing'[r] = publishing[r], NEW line, Shows(publishing[r], line)
  PROVE  Shows(publishing[r], line)'
<1>1. CASE line.name = None
  BY <1>1 DEF Shows
<1>2. CASE line.name # None
  <2>1. publishing[r].by \in DOMAIN publisher' /\ publisher'[publishing[r].by] = line.name
    BY <1>2 DEF Shows, Grown
  <2>2. line.town = None => publishing[r].at = None
    BY <1>2 DEF Shows
  <2>3. line.town # None => /\ publishing[r].at \in DOMAIN location'
                            /\ location'[publishing[r].at].owner = publishing[r].by
                            /\ location'[publishing[r].at].town = line.town
    BY <1>2 DEF Shows, Grown, LocationsOf
  <2> QED BY <1>2, <2>1, <2>2, <2>3 DEF Shows, LocationsOf
<1> QED BY <1>1, <1>2

LEMMA WrittenStill ==
  ASSUME NEW s \in Session, Written(s), UNCHANGED publishing, Grown, SameLine(s)
  PROVE  Written(s)'
<1>1. WorkRows(s)' = WorkRows(s)
  BY DEF WorkRows, SameLine
<1>2. ASSUME NEW k \in 1 .. (job'[s].i - 1)
      PROVE  \E r \in WorkRows(s) : Shows(publishing[r], job[s].lines[k])'
  <2>1. PICK r \in WorkRows(s) : Shows(publishing[r], job[s].lines[k])
    BY DEF Written, SameLine
  <2>2. r \in DOMAIN publishing
    BY DEF WorkRows
  <2> DEFINE line == job[s].lines[k]
  <2> QED BY <2>1, <2>2, ShownStill DEF SameLine
<1> QED BY <1>1, <1>2 DEF Written, SameLine

\* Between the statements of a line.
LEMMA LineHeld ==
  ASSUME LocalsOK, TabInv, NEW s \in Session, pc[s] \in TabLabels
  PROVE  Written(s) /\ (pc[s] # "line" => job[s].i \in 1 .. Len(job[s].lines) /\ LineOf(s) \in Line)
<1>1. Written(s)
  BY DEF TabInv, TabHeld
<1>2. pc[s] # "line" => job[s].i \in 1 .. Len(job[s].lines)
  BY JobOK DEF Hand, TabLabels
<1> QED BY <1>1, <1>2, LineOK

\* At a label of no form there is nothing to show.
LEMMA NoForm ==
  ASSUME NEW s \in Session, pc'[s] \notin {"tabPage"} \cup TabLabels
  PROVE  TabHeld(s)'
BY DEF TabHeld, TabLabels

LEMMA PublisherHeld ==
  ASSUME LocalsOK, NEW s \in Session, NEW p, WithPublisher(s, p), Written(s), UNCHANGED publishing, Grown,
         IF LineOf(s).name = None THEN p = None ELSE p \in DOMAIN publisher' /\ publisher'[p] = LineOf(s).name
  PROVE  TabHeld(s)'
<1>1. /\ pc'[s] = IF LineOf(s).name = None \/ LineOf(s).town = None THEN "setPublisher" ELSE "findLocation"
      /\ job'[s].pub = p /\ job'[s].into = None /\ SameLine(s)
  BY WithPublisherAt DEF SameLine
<1>2. Written(s)'
  BY <1>1, WrittenStill
<1>3. LineOf(s)' = LineOf(s)
  BY <1>1 DEF SameLine, LineOf
<1>4. NameFound(job[s].pub, LineOf(s))'
  BY <1>1, <1>3 DEF NameFound
<1>5. pc'[s] = "setPublisher" => TownFound(job[s].pub, job[s].into, LineOf(s))'
  BY <1>1, <1>3 DEF TownFound
<1> QED BY <1>1, <1>2, <1>4, <1>5 DEF TabHeld, TabLabels

\* No publisher has no name.
LEMMA NamedNone ==
  ASSUME TablesOK, NEW s \in Session, LineOf(s).name = None
  PROVE  Named(s) = {}
BY PublishingAssumption DEF TablesOK, Named

LEMMA FindPublisherHeld ==
  ASSUME TablesOK, LocalsOK, TabInv, NEW s \in Session, FindPublisher(s)
  PROVE  TabHeld(s)'
<1>1. pc[s] = "line" /\ UNCHANGED tables
  BY DEF FindPublisher
<1>2. Written(s) /\ UNCHANGED publishing /\ Grown /\ publisher' = publisher
  BY <1>1, LineHeld DEF TabLabels, tables, Grown
<1>3. CASE LineOf(s).name = None /\ WithPublisher(s, None)
  BY <1>2, <1>3, PublisherHeld
<1>4. CASE LineOf(s).name # None /\ \E p \in Named(s) : WithPublisher(s, p)
  <2>1. PICK p \in Named(s) : WithPublisher(s, p)
    BY <1>4
  <2>2. p \in DOMAIN publisher' /\ publisher'[p] = LineOf(s).name
    BY <1>2 DEF Named
  <2> QED BY <1>2, <1>4, <2>1, <2>2, PublisherHeld
<1>5. CASE LineOf(s).name # None /\ Named(s) = {} /\ Goto(s, "newPublisher", job[s])
  <2>1. pc'[s] = "newPublisher" /\ SameLine(s)
    BY <1>5, GotoAt DEF SameLine
  <2>2. Written(s)'
    BY <1>2, <2>1, WrittenStill
  <2> QED BY <2>1, <2>2 DEF TabHeld, TabLabels
<1> QED BY <1>3, <1>4, <1>5, NamedNone DEF FindPublisher

LEMMA NewPublisherHeld ==
  ASSUME TablesOK, LocalsOK, TabInv, NEW s \in Session, NewPublisher(s)
  PROVE  TabHeld(s)'
<1>1. PICK p \in Publisher \ (DOMAIN publisher \cup gone) :
        publisher' = Put(publisher, p, LineOf(s).name) /\ WithPublisher(s, p)
  BY DEF NewPublisher
<1>2. pc[s] = "newPublisher" /\ UNCHANGED <<location, publishing>>
  BY DEF NewPublisher
<1>3. Written(s) /\ LineOf(s).name # None
  BY <1>2, LineHeld, JobOK DEF Hand, TabLabels, LineOf
<1>4. DOMAIN publisher' = DOMAIN publisher \cup {p} /\ publisher'[p] = LineOf(s).name
      /\ \A q \in DOMAIN publisher : publisher'[q] = publisher[q]
  BY <1>1 DEF Put
<1>5. Grown
  BY <1>2, <1>4 DEF Grown
<1>6. p \in DOMAIN publisher' /\ publisher'[p] = LineOf(s).name
  BY <1>4
<1> QED BY <1>1, <1>2, <1>3, <1>5, <1>6, PublisherHeld

\* With the location, found or inserted, the line is ready to be written.
LEMMA LocationHeld ==
  ASSUME LocalsOK, TabInv, NEW s \in Session, pc[s] \in {"findLocation", "newLocation"}, NEW l,
         Goto(s, "setPublisher", [job[s] EXCEPT !.into = l]),
         UNCHANGED publishing, Grown, LineOf(s).name # None, LineOf(s).town # None,
         l \in LocationsOf(job[s].pub)', location'[l].town = LineOf(s).town, job'[s].pub = job[s].pub
  PROVE  TabHeld(s)'
<1>1. pc'[s] = "setPublisher" /\ job'[s].pub = job[s].pub /\ job'[s].into = l /\ SameLine(s)
  BY WithLocationAt DEF SameLine
<1>2. Written(s)'
  BY <1>1, LineHeld, WrittenStill DEF TabLabels
<1>3. LineOf(s)' = LineOf(s)
  BY <1>1 DEF SameLine, LineOf
<1>4. NameFound(job[s].pub, LineOf(s))
  BY DEF TabInv, TabHeld
<1>5. NameFound(job[s].pub, LineOf(s))'
  BY <1>1, <1>3, <1>4 DEF NameFound, Grown
<1>6. TownFound(job[s].pub, job[s].into, LineOf(s))'
  BY <1>1, <1>3 DEF TownFound
<1> QED BY <1>1, <1>2, <1>5, <1>6 DEF TabHeld, TabLabels

LEMMA FindLocationHeld ==
  ASSUME LocalsOK, TabInv, NEW s \in Session, FindLocation(s)
  PROVE  TabHeld(s)'
<1> DEFINE found == {l \in LocationsOf(job[s].pub) : location[l].town = LineOf(s).town}
<1>1. /\ pc[s] = "findLocation" /\ UNCHANGED tables
      /\ \/ \E l \in found : Goto(s, "setPublisher", [job[s] EXCEPT !.into = l])
         \/ found = {} /\ Goto(s, "newLocation", job[s])
  BY DEF FindLocation, AtFound
<1>2. Written(s) /\ LineOf(s).name # None /\ LineOf(s).town # None
  BY <1>1, LineHeld, JobOK DEF Hand, TabLabels, LineOf
<1>3. UNCHANGED publishing /\ Grown /\ location' = location
  BY <1>1 DEF tables, Grown
<1>4. CASE Goto(s, "newLocation", job[s])
  <2>1. pc'[s] = "newLocation" /\ job'[s] = job[s] /\ SameLine(s)
    BY <1>4, GotoAt DEF SameLine
  <2>2. Written(s)'
    BY <1>2, <1>3, <2>1, WrittenStill
  <2>3. NameFound(job[s].pub, LineOf(s))
    BY <1>1 DEF TabInv, TabHeld
  <2>4. NameFound(job[s].pub, LineOf(s))'
    BY <1>3, <2>1, <2>3 DEF NameFound, Grown, LineOf
  <2> QED BY <2>1, <2>2, <2>4 DEF TabHeld, TabLabels
<1>5. CASE \E l \in found : Goto(s, "setPublisher", [job[s] EXCEPT !.into = l])
  <2>1. PICK l \in found : Goto(s, "setPublisher", [job[s] EXCEPT !.into = l])
    BY <1>5
  <2>2. job'[s].pub = job[s].pub
    BY <2>1, WithLocationAt
  <2>3. l \in LocationsOf(job[s].pub)' /\ location'[l].town = LineOf(s).town
    BY <1>3, <2>2 DEF LocationsOf
  <2> HIDE DEF found
  <2> QED BY <1>1, <1>2, <1>3, <2>1, <2>2, <2>3, LocationHeld
<1> QED BY <1>1, <1>4, <1>5

LEMMA NewLocationHeld ==
  ASSUME LocalsOK, TabInv, NEW s \in Session, NewLocation(s)
  PROVE  TabHeld(s)'
<1> DEFINE p == job[s].pub
           t == LineOf(s).town
<1>1. PICK l \in Location \ (DOMAIN location \cup gone) :
        /\ location' = Put(location, l, [owner |-> p, town |-> t])
        /\ Goto(s, "setPublisher", [job[s] EXCEPT !.into = l])
  BY DEF NewLocation
<1>2. pc[s] = "newLocation" /\ UNCHANGED <<publisher, publishing>>
  BY DEF NewLocation
<1>3. LineOf(s).name # None /\ LineOf(s).town # None
  BY <1>2, JobOK DEF Hand, LineOf
<1>4. job'[s].pub = job[s].pub
  BY <1>1, WithLocationAt
<1> HIDE DEF p, t
<1>5. /\ DOMAIN location' = DOMAIN location \cup {l} /\ location'[l].owner = p /\ location'[l].town = t
      /\ \A m \in DOMAIN location \ {l} : location'[m] = location[m]
  BY <1>1, LocationPut
<1>6. Grown
  BY <1>1, <1>2, <1>5 DEF Grown
<1>7. l \in LocationsOf(job[s].pub)' /\ location'[l].town = LineOf(s).town
  BY <1>4, <1>5 DEF LocationsOf, p, t
<1> QED BY <1>1, <1>2, <1>3, <1>4, <1>6, <1>7, LocationHeld

\* A line written is one row more, which shows it.
LEMMA SetPublisherHeld ==
  ASSUME LocalsOK, TabInv, NEW s \in Session, SetPublisher(s)
  PROVE  TabHeld(s)'
<1> DEFINE row == [work |-> job[s].work, by |-> job[s].pub, at |-> job[s].into]
           j == [job[s] EXCEPT !.i = @ + 1]
<1>1. PICK r \in Row \ DOMAIN publishing : publishing' = Put(publishing, r, row)
  BY DEF SetPublisher
<1>2. pc[s] = "setPublisher" /\ Goto(s, "line", j) /\ UNCHANGED <<publisher, location>>
  BY DEF SetPublisher
<1>3. row.work = job[s].work /\ row.by = job[s].pub /\ row.at = job[s].into
  OBVIOUS
<1>4. /\ Written(s) /\ job[s].i \in 1 .. Len(job[s].lines)
      /\ NameFound(job[s].pub, LineOf(s)) /\ TownFound(job[s].pub, job[s].into, LineOf(s))
  BY <1>2, LineHeld DEF TabLabels, TabInv, TabHeld
<1>5. job[s] \in Job /\ j.work = job[s].work /\ j.lines = job[s].lines /\ j.i = job[s].i + 1
  BY JobOK DEF Job
<1>6. Shows(row, LineOf(s))
  <2> HIDE DEF row
  <2> QED BY <1>3, <1>4 DEF NameFound, TownFound, Shows
<1> HIDE DEF row, j
<1>7. pc'[s] = "line" /\ job'[s] = j
  BY <1>2, GotoAt
<1>8. /\ DOMAIN publishing' = DOMAIN publishing \cup {r} /\ publishing'[r] = row
      /\ \A q \in DOMAIN publishing : publishing'[q] = publishing[q]
  BY <1>1 DEF Put
<1>9. WorkRows(s)' = WorkRows(s) \cup {r} /\ r \notin WorkRows(s)
  BY <1>3, <1>5, <1>7, <1>8 DEF WorkRows
<1>10. IsFiniteSet(WorkRows(s)') /\ Cardinality(WorkRows(s)') = job'[s].i - 1
  <2>1. /\ IsFiniteSet(WorkRows(s)) /\ Cardinality(WorkRows(s)) = job[s].i - 1
        /\ job[s].i \in Nat
    BY <1>4 DEF Written
  <2>2. IsFiniteSet(WorkRows(s) \cup {r}) /\ Cardinality(WorkRows(s) \cup {r}) = job[s].i - 1 + 1
    BY <1>9, <2>1, FS_AddElement
  <2> QED BY <1>5, <1>7, <1>9, <2>1, <2>2
<1>11. Len(job[s].lines) \in Nat /\ job[s].i \in Nat
  BY <1>4, <1>5 DEF Job
<1>12. ASSUME NEW k \in 1 .. (job'[s].i - 1)
       PROVE  \E q \in WorkRows(s)' : Shows(publishing[q], job[s].lines[k])'
  <2>1. k \in 1 .. job[s].i
    BY <1>5, <1>7, <1>11
  <2>2. CASE k = job[s].i
    <3>1. Shows(publishing[r], job[s].lines[k])'
      BY <1>2, <1>5, <1>6, <1>7, <1>8, <2>2 DEF Shows, LineOf, LocationsOf
    <3> QED BY <1>9, <3>1
  <2>3. CASE k # job[s].i
    <3>1. k \in 1 .. (job[s].i - 1)
      BY <1>11, <2>1, <2>3
    <3>2. PICK q \in WorkRows(s) : Shows(publishing[q], job[s].lines[k])
      BY <1>4, <3>1 DEF Written
    <3>3. q \in DOMAIN publishing /\ publishing'[q] = publishing[q]
      BY <1>8 DEF WorkRows
    <3>4. Grown
      BY <1>2 DEF Grown
    <3>5. Shows(publishing[q], job[s].lines[k])'
      BY <1>5, <1>7, <3>2, <3>3, <3>4, ShownStill
    <3> QED BY <1>9, <3>5
  <2> QED BY <2>2, <2>3
<1>13. job'[s].i <= Len(job'[s].lines) + 1
  BY <1>4, <1>5, <1>7, <1>11
<1>14. Written(s)'
  BY <1>10, <1>12, <1>13 DEF Written
<1> QED BY <1>7, <1>14 DEF TabHeld, TabLabels

\* The form starts with the work's publishings gone.
LEMMA DropPublishersHeld ==
  ASSUME LocalsOK, TabInv, NEW s \in Session, DropPublishers(s)
  PROVE  TabHeld(s)'
<1> DEFINE mine == {r \in DOMAIN publishing : publishing[r].work = job[s].work}
<1>1. pc[s] = "tabPage" /\ publishing' = Without(publishing, mine) /\ pc'[s] = "line" /\ job'[s] = job[s]
  BY GotoAt DEF DropPublishers
<1>2. job[s].i = 1 /\ Len(job[s].lines) \in Nat
  BY <1>1, JobOK DEF TabInv, TabHeld, Job
<1>3. WorkRows(s)' = {}
  <2>1. /\ DOMAIN Without(publishing, mine) = DOMAIN publishing \ mine
        /\ \A r \in DOMAIN publishing \ mine : Without(publishing, mine)[r] = publishing[r]
    <3> HIDE DEF mine
    <3> QED BY WithoutRows
  <2>2. DOMAIN publishing' = DOMAIN publishing \ mine
        /\ \A r \in DOMAIN publishing' : publishing'[r] = publishing[r]
    BY <1>1, <2>1
  <2> QED BY <1>1, <2>2 DEF WorkRows
<1>4. Written(s)'
  BY <1>1, <1>2, <1>3, FS_EmptySet DEF Written
<1> QED BY <1>1, <1>4 DEF TabHeld, TabLabels

\* No other statement brings a session to the form.
LEMMA ElsewhereHeld ==
  ASSUME LocalsOK, NEW s \in Session,
         Merge(s) \/ Maintain(s) \/ EndTab(s) \/ HandleError(s) \/ Abandon(s) \/ Crash(s)
  PROVE  TabHeld(s)'
<1>1. ASSUME NEW label, NEW j, label \notin {"tabPage"} \cup TabLabels, Goto(s, label, j)
      PROVE  TabHeld(s)'
  BY <1>1, GotoAt, NoForm
<1>2. CASE NewName(s)
  BY <1>2, NoForm DEF NewName, TabLabels
<1>3. CASE OpenMerge(s) \/ OpenPlaces(s) \/ OpenDelete(s) \/ OpenPlace(s)
  <2>1. \E label \in {"mergePage", "placesPage", "dropPage", "placePage"} : \E j : Goto(s, label, j)
    BY <1>3 DEF OpenMerge, OpenPlaces, OpenDelete, OpenPlace, Open
  <2> QED BY <1>1, <2>1 DEF TabLabels
<1>4. CASE MoveRows(s) \/ MoveLocation(s) \/ MergeRows(s) \/ DropLocation(s) \/ CountRows(s) \/ RemoveSource(s)
  <2>1. \E label \in {"moveLocation", "merge", "dropLocation", "removeSource", "idle"} : \E j : Goto(s, label, j)
    BY <1>4 DEF MoveRows, MoveLocation, MergeRows, DropLocation, CountRows, RemoveSource, Finish
  <2> QED BY <1>1, <2>1 DEF TabLabels
<1>5. CASE ReplaceRows(s) \/ DropPlace(s) \/ DeleteNext(s) \/ EndLoop(s) \/ SavePlace(s)
  <2>1. \E label \in {"dropPlace", "places", "drop", "idle"} : \E j : Goto(s, label, j)
    BY <1>5 DEF ReplaceRows, DropPlace, DeleteNext, EndLoop, SavePlace, Finish
  <2> QED BY <1>1, <2>1 DEF TabLabels
<1>6. CASE EndTab(s) \/ HandleError(s) \/ Abandon(s) \/ Crash(s)
  <2>1. Goto(s, "idle", NoJob)
    BY <1>6 DEF EndTab, HandleError, Abandon, Crash, Finish
  <2> QED BY <1>1, <2>1 DEF TabLabels
<1> QED BY <1>2, <1>3, <1>4, <1>5, <1>6 DEF Merge, Maintain

\* Every step of a single editor keeps it, a request cut off included.
LEMMA NextTab ==
  ASSUME TypeOK, Solo, TabInv, [Next]_vars
  PROVE  TabInv'
<1>0. TablesOK /\ LocalsOK
  BY DEF TypeOK, LocalsOK
<1>1. CASE UNCHANGED vars
  <2> SUFFICES ASSUME NEW s \in Session, TabHeld(s) PROVE TabHeld(s)'
    BY DEF TabInv
  <2>1. Written(s) => Written(s)'
    BY <1>1, WrittenStill DEF vars, Grown, SameLine
  <2>2. /\ NameFound(job[s].pub, LineOf(s)) => NameFound(job[s].pub, LineOf(s))'
        /\ TownFound(job[s].pub, job[s].into, LineOf(s)) => TownFound(job[s].pub, job[s].into, LineOf(s))'
    BY <1>1 DEF vars, NameFound, TownFound, LineOf, LocationsOf
  <2> QED BY <1>1, <2>1, <2>2 DEF vars, TabHeld
<1>2. ASSUME NEW s \in Session, TabHeld(s)' PROVE TabInv'
  BY <1>2 DEF TabInv, Solo
<1>3. ASSUME NEW s \in Session, OpenTab(s) PROVE TabHeld(s)'
  <2>1. PICK w \in Work, n \in 0 .. MaxLines : \E lines \in [1 .. n -> Line] :
          Open(s, "tab", "tabPage", [NoJob EXCEPT !.work = w, !.lines = lines])
    BY <1>3 DEF OpenTab
  <2>2. PICK lines \in [1 .. n -> Line] :
          Open(s, "tab", "tabPage", [NoJob EXCEPT !.work = w, !.lines = lines])
    BY <2>1
  <2> DEFINE j == [NoJob EXCEPT !.work = w, !.lines = lines]
  <2>3. j.i = 1
    BY DEF NoJob
  <2>4. Goto(s, "tabPage", j)
    BY <2>2 DEF Open
  <2> HIDE DEF j
  <2>5. pc'[s] = "tabPage" /\ job'[s].i = 1
    BY <1>0, <2>3, <2>4, GotoAt
  <2> QED BY <2>5 DEF TabHeld, TabLabels
<1>4. ASSUME NEW s \in Session, Tab(s) PROVE TabHeld(s)'
  BY <1>0, <1>3, <1>4, DropPublishersHeld, FindPublisherHeld, NewPublisherHeld, FindLocationHeld,
     NewLocationHeld, SetPublisherHeld, ElsewhereHeld DEF Tab
<1>5. ASSUME NEW s \in Session,
             Merge(s) \/ Maintain(s) \/ HandleError(s) \/ Abandon(s) \/ Crash(s)
      PROVE  TabHeld(s)'
  BY <1>0, <1>5, ElsewhereHeld
<1> QED BY <1>1, <1>2, <1>4, <1>5 DEF Next

\* However long the form of a work is, however many of its lines name the
\* same new publisher or location: when a single editor's request has gone
\* through it, the work has as many publishings as the form has lines, and
\* each line is shown by one.  A request cut off on the way has not gone
\* through the form, so nothing is assumed about that.
THEOREM TabSaves == Solo => (Spec => []TabSavesForm)
<1> SUFFICES ASSUME Solo PROVE Spec => []TabSavesForm
  OBVIOUS
<1>1. Init => TabInv
  BY DEF Init, TabInv, TabHeld, TabLabels
<1>2. TypeOK /\ TabInv /\ [Next]_vars => TabInv'
  BY NextTab
<1>3. TypeOK /\ TabInv => TabSavesForm
  <2> SUFFICES ASSUME TypeOK, TabInv, NEW s \in Session, pc[s] = "line", job[s].i > Len(job[s].lines)
               PROVE  FormSaved(s)
    BY DEF TabSavesForm
  <2>1. Written(s) /\ job[s].i \in Nat /\ Len(job[s].lines) \in Nat /\ job[s].lines \in Seq(Line)
    BY JobOK DEF TypeOK, LocalsOK, TabInv, TabHeld, TabLabels, Job
  <2>2. job[s].i - 1 = Len(job[s].lines) /\ DOMAIN job[s].lines = 1 .. (job[s].i - 1)
    BY <2>1 DEF Written
  <2> QED BY <2>1, <2>2 DEF Written, WorkRows, FormSaved
<1> QED BY <1>1, <1>2, <1>3, PublishingTyping, PTL DEF Spec
=============================================================================
