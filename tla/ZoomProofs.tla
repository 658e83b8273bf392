----------------------------- MODULE ZoomProofs -----------------------------
(***************************************************************************)
(* Theorems about a ZOOM connection, for any number of result sets, tasks  *)
(* and calls, whatever the server answers and wherever the connection      *)
(* breaks.                                                                 *)
(***************************************************************************)
EXTENDS ZoomProperties, FiniteSetTheorems, WellFoundedInduction, TLAPS

\* Every set of natural numbers that is not empty has a least element.
LEMMA LeastElement ==
  ASSUME NEW T \in SUBSET Nat, T # {}
  PROVE  \E x \in T : \A y \in T : x <= y
<1> DEFINE Shorter == StrictSubsetOrdering(Nat)
           Initials == {0 .. n : n \in T}
<1>1. IsWellFoundedOn(Shorter, FiniteSubsetsOf(Nat))
  BY FS_StrictSubsetOrderingWellFounded
<1>2. Initials \subseteq FiniteSubsetsOf(Nat) /\ Initials # {}
  <2>1. \A n \in T : IsFiniteSet(0 .. n) /\ 0 .. n \in SUBSET Nat
    BY FS_Interval
  <2> QED BY <2>1 DEF FiniteSubsetsOf
<1>3. PICK i \in Initials : \A j \in Initials : ~(<<j, i>> \in Shorter)
  <2> HIDE DEF Shorter, Initials
  <2> QED BY <1>1, <1>2, WFMin
<1>4. PICK x \in T : i = 0 .. x
  OBVIOUS
<1>5. ASSUME NEW y \in T, y < x PROVE FALSE
  <2>1. 0 .. y \subseteq 0 .. x /\ 0 .. y # 0 .. x /\ 0 .. y \in SUBSET Nat /\ 0 .. x \in SUBSET Nat
    BY <1>5
  <2>2. <<0 .. y, 0 .. x>> \in Shorter
    BY <2>1 DEF StrictSubsetOrdering
  <2> QED BY <1>3, <1>4, <2>2
<1> QED BY <1>5

-----------------------------------------------------------------------------
(* Types of the pieces.                                                    *)

TaskKinds == {"connect", "search", "sort", "scan", "package"}
Tasks == {t \in [which : TaskKinds, running : BOOLEAN, rs : ResultSet \cup {NoSet},
                 start : Nat, count : Nat, asked : SUBSET Int] :
            t.which \in {"search", "sort"} <=> t.rs \in ResultSet}
Requests == [kind : {"none", "init", "search", "present", "sort", "scan", "package"},
             rs : ResultSet \cup {NoSet}, q : Nat, name : Name \cup {Unset}, start : Nat, num : Int]
Versions == [q : Int, sorted : BOOLEAN]
Sets == [ref : Nat, app : BOOLEAN, q : Nat, live : BOOLEAN, size : 0 .. MaxHits,
         name : Name \cup {Unset}, sort : BOOLEAN, crossed : BOOLEAN, cache : [Position -> Versions]]
Errors == {"none", "connect", "decode", "lost", "init", "query", "diag", "http", "timeout"}
EventKinds == {"connect", "send_data", "send_apdu", "recv_data", "recv_apdu", "search", "record",
               "timeout", "end"}
Conns == [proto : {"z3950", "http"}, cs : {"none", "connecting", "data", "failed"}, error : Errors,
          mask : SUBSET {"read", "write", "except"}, reconnect : BOOLEAN,
          state : {"idle", "connecting", "established"}, tasks : Seq(Tasks), events : Seq(EventKinds),
          named : BOOLEAN, redirects : Nat, location : Requests, out : Requests, aborted : BOOLEAN]
Nets == [proto : {"z3950", "http"}, named : BOOLEAN, wire : Seq(Requests), inited : BOOLEAN,
         sets : [Name -> Versions]]
Worlds == [conn : Conns, sets : [ResultSet -> Sets], net : Nets, ret : {"none", "pending", "complete"}]

-----------------------------------------------------------------------------
(* How many tasks name a result set.                                       *)

Places(tasks, r) == {i \in DOMAIN tasks : tasks[i].rs = r}
Once(b) == IF b THEN 1 ELSE 0

LEMMA PlacesFinite ==
  ASSUME NEW tasks \in Seq(Tasks), NEW r
  PROVE  /\ IsFiniteSet(Places(tasks, r)) /\ Naming(tasks, r) = Cardinality(Places(tasks, r))
         /\ Naming(tasks, r) \in Nat
         /\ Naming(tasks, r) = 0 <=> \A i \in DOMAIN tasks : tasks[i].rs # r
<1>1. Places(tasks, r) \subseteq 1 .. Len(tasks) /\ IsFiniteSet(1 .. Len(tasks))
  BY FS_Interval DEF Places
<1>2. IsFiniteSet(Places(tasks, r))
  BY <1>1, FS_Subset
<1>3. Naming(tasks, r) = Cardinality(Places(tasks, r))
  BY DEF Naming, Places
<1>4. Naming(tasks, r) \in Nat /\ (Naming(tasks, r) = 0 <=> Places(tasks, r) = {})
  BY <1>2, <1>3, FS_CardinalityType, FS_EmptySet
<1> QED BY <1>2, <1>3, <1>4 DEF Places

LEMMA NamingAppend ==
  ASSUME NEW tasks \in Seq(Tasks), NEW t \in Tasks, NEW r
  PROVE  Naming(Append(tasks, t), r) = Naming(tasks, r) + Once(t.rs = r)
<1> DEFINE n == Len(tasks) + 1
           more == Append(tasks, t)
<1>1. more \in Seq(Tasks) /\ DOMAIN more = DOMAIN tasks \cup {n} /\ n \notin DOMAIN tasks
      /\ more[n] = t /\ \A i \in DOMAIN tasks : more[i] = tasks[i]
  OBVIOUS
<1> HIDE DEF n, more
<1>2. CASE t.rs = r
  <2>1. Places(more, r) = Places(tasks, r) \cup {n} /\ n \notin Places(tasks, r)
    BY <1>1, <1>2 DEF Places
  <2>2. IsFiniteSet(Places(tasks, r)) /\ Naming(tasks, r) = Cardinality(Places(tasks, r))
    BY PlacesFinite
  <2>3. Naming(more, r) = Cardinality(Places(more, r))
    BY <1>1, PlacesFinite
  <2>4. Cardinality(Places(more, r)) = Cardinality(Places(tasks, r)) + 1
    BY <2>1, <2>2, FS_AddElement
  <2> QED BY <1>2, <2>2, <2>3, <2>4 DEF Once, more
<1>3. CASE t.rs # r
  <2>1. Places(more, r) = Places(tasks, r)
    BY <1>1, <1>3 DEF Places
  <2>2. Naming(tasks, r) = Cardinality(Places(tasks, r)) /\ Naming(tasks, r) \in Nat
    BY PlacesFinite
  <2>3. Naming(more, r) = Cardinality(Places(more, r))
    BY <1>1, PlacesFinite
  <2> QED BY <1>3, <2>1, <2>2, <2>3 DEF Once, more
<1> QED BY <1>2, <1>3

\* The same tasks with other ranges or flags.
LEMMA NamingSame ==
  ASSUME NEW tasks \in Seq(Tasks), NEW new \in Seq(Tasks), NEW r, DOMAIN new = DOMAIN tasks,
         \A i \in DOMAIN tasks : new[i].rs = tasks[i].rs
  PROVE  Naming(new, r) = Naming(tasks, r)
<1>1. Places(new, r) = Places(tasks, r)
  BY DEF Places
<1> QED BY <1>1, PlacesFinite

LEMMA NamingTail ==
  ASSUME NEW tasks \in Seq(Tasks), tasks # <<>>, NEW r
  PROVE  Naming(tasks, r) = Naming(Tail(tasks), r) + Once(Head(tasks).rs = r)
<1> DEFINE rest == Tail(tasks)
           P == Places(rest, r)
           S == {i \in Places(tasks, r) : i > 1}
           f == [i \in P |-> i + 1]
<1>1. rest \in Seq(Tasks) /\ Len(rest) = Len(tasks) - 1 /\ \A i \in 1 .. Len(rest) : rest[i] = tasks[i + 1]
  OBVIOUS
<1>2. IsFiniteSet(P) /\ Naming(rest, r) = Cardinality(P) /\ Naming(tasks, r) = Cardinality(Places(tasks, r))
  <2> HIDE DEF rest
  <2> QED BY <1>1, PlacesFinite
<1>3. P \subseteq Nat /\ f \in [P -> S]
  <2>1. ASSUME NEW i \in P PROVE i \in Nat /\ i + 1 \in S
    <3> HIDE DEF rest
    <3>1. i \in 1 .. Len(rest) /\ rest[i].rs = r
      BY <1>1 DEF Places
    <3>2. i + 1 \in 1 .. Len(tasks) /\ tasks[i + 1].rs = r /\ i + 1 > 1
      BY <1>1, <3>1
    <3> QED BY <3>1, <3>2 DEF Places
  <2> QED BY <2>1
<1>4. f \in Bijection(P, S)
  <2>1. \A a, b \in P : f[a] = f[b] => a = b
    BY <1>3
  <2>2. ASSUME NEW j \in S PROVE \E i \in P : f[i] = j
    <3> HIDE DEF rest
    <3>1. j \in 1 .. Len(tasks) /\ j > 1 /\ tasks[j].rs = r
      BY DEF Places
    <3>2. j - 1 \in 1 .. Len(rest) /\ rest[j - 1].rs = r /\ j - 1 + 1 = j
      BY <1>1, <3>1
    <3>3. j - 1 \in P
      BY <1>1, <3>2 DEF Places
    <3> QED BY <3>2, <3>3
  <2> HIDE DEF P, S, f
  <2> QED BY <1>3, <2>1, <2>2 DEF Bijection, Injection, IsInjective, Surjection
<1>5. IsFiniteSet(S) /\ Cardinality(S) = Cardinality(P)
  <2> HIDE DEF P, S, f
  <2> QED BY <1>2, <1>4, FS_Bijection DEF ExistsBijection
<1>6. Head(tasks) = tasks[1] /\ 1 \in DOMAIN tasks
  OBVIOUS
<1>7. CASE tasks[1].rs = r
  <2>1. Places(tasks, r) = S \cup {1} /\ 1 \notin S
    BY <1>6, <1>7 DEF Places
  <2> HIDE DEF P, S, f, rest
  <2>2. Cardinality(Places(tasks, r)) = Cardinality(S) + 1
    BY <1>5, <2>1, FS_AddElement
  <2> QED BY <1>2, <1>5, <1>6, <1>7, <2>2 DEF Once, rest
<1>8. CASE tasks[1].rs # r
  <2>1. Places(tasks, r) = S
    BY <1>6, <1>8 DEF Places
  <2> HIDE DEF P, S, f, rest
  <2>2. Cardinality(P) \in Nat
    BY <1>2, FS_CardinalityType
  <2> QED BY <1>2, <1>5, <1>6, <1>8, <2>1, <2>2 DEF Once, rest
<1> QED BY <1>7, <1>8

LEMMA NamingInsert ==
  ASSUME NEW tasks \in Seq(Tasks), NEW t \in Tasks, NEW r
  PROVE  Naming(<<t>> \o tasks, r) = Naming(tasks, r) + Once(t.rs = r)
<1> DEFINE more == <<t>> \o tasks
<1>1. more \in Seq(Tasks) /\ more # <<>> /\ Head(more) = t /\ Tail(more) = tasks
  OBVIOUS
<1> HIDE DEF more
<1>2. Naming(more, r) = Naming(Tail(more), r) + Once(Head(more).rs = r)
  BY <1>1, NamingTail
<1> QED BY <1>1, <1>2 DEF more

-----------------------------------------------------------------------------
(* What every operator of the client keeps: the types, the counted         *)
(* references, and an error that is there.                                 *)

RefsOK(w) == \A r \in ResultSet : w.sets[r].ref = Once(w.sets[r].app) + Naming(w.conn.tasks, r)

\* Packages and sorts are for Z39.50.
NoExtras(w) ==
  w.net.proto = "http" => \A i \in DOMAIN w.conn.tasks : w.conn.tasks[i].which \notin {"package", "sort"}

Good(w) == w \in Worlds /\ RefsOK(w) /\ NoExtras(w)

Leads(w, v) == Good(v) /\ (w.conn.error # "none" => v.conn.error # "none") /\ v.net.proto = w.net.proto

\* The same tasks with other ranges and flags, and as many references.
Alike(w, v) ==
  /\ v \in Worlds /\ (w.conn.error # "none" => v.conn.error # "none") /\ v.net.proto = w.net.proto
  /\ DOMAIN v.conn.tasks = DOMAIN w.conn.tasks
  /\ \A i \in DOMAIN w.conn.tasks : v.conn.tasks[i].which = w.conn.tasks[i].which /\ v.conn.tasks[i].rs = w.conn.tasks[i].rs
  /\ \A r \in ResultSet : v.sets[r].ref = w.sets[r].ref /\ v.sets[r].app = w.sets[r].app

LEMMA LeadsChain ==
  ASSUME NEW u, NEW v, NEW w, Leads(u, v), Leads(v, w)
  PROVE  Leads(u, w)
BY DEF Leads

LEMMA AlikeChain ==
  ASSUME NEW u, NEW v, NEW w, Alike(u, v), Alike(v, w)
  PROVE  Alike(u, w)
BY DEF Alike

LEMMA AlikeLeads ==
  ASSUME NEW w, NEW v, Good(w), Alike(w, v)
  PROVE  Leads(w, v)
<1>1. ASSUME NEW r \in ResultSet PROVE v.sets[r].ref = Once(v.sets[r].app) + Naming(v.conn.tasks, r)
  <2>1. w.conn.tasks \in Seq(Tasks) /\ v.conn.tasks \in Seq(Tasks)
    BY DEF Good, Alike, Worlds, Conns
  <2>2. Naming(v.conn.tasks, r) = Naming(w.conn.tasks, r)
    BY <2>1, NamingSame DEF Alike
  <2> QED BY <2>2 DEF Good, RefsOK, Alike
<1>2. NoExtras(v)
  BY DEF Good, Alike, NoExtras
<1> QED BY <1>1, <1>2 DEF Leads, Good, RefsOK, Alike

LEMMA GoodLeads ==
  ASSUME NEW w, Good(w)
  PROVE  Leads(w, w)
BY DEF Leads

-----------------------------------------------------------------------------
(* Small steps.                                                            *)

LEMMA ConnAlike ==
  ASSUME NEW w \in Worlds, NEW c \in Conns, c.tasks = w.conn.tasks,
         w.conn.error # "none" => c.error # "none"
  PROVE  LET v == [w EXCEPT !.conn = c]
         IN  /\ Alike(w, v) /\ v.conn = c /\ v.sets = w.sets /\ v.net = w.net /\ v.ret = w.ret
BY DEF Worlds, Alike

LEMMA AlikeType ==
  ASSUME NEW w, NEW v, Alike(w, v)
  PROVE  v \in Worlds
BY DEF Alike

LEMMA ErrorAlike ==
  ASSUME NEW w \in Worlds, NEW e \in Errors \ {"none"}
  PROVE  Alike(w, SetError(w, e))
<1> DEFINE d == [w.conn EXCEPT !.error = e]
<1>1. w.conn \in Conns
  BY DEF Worlds
<1>2. d \in Conns /\ d.tasks = w.conn.tasks /\ d.error = e
  BY <1>1 DEF Conns
<1> QED BY <1>2, ConnAlike DEF SetError

LEMMA EventsAlike ==
  ASSUME NEW w \in Worlds, NEW more \in Seq(EventKinds)
  PROVE  Alike(w, [w EXCEPT !.conn.events = @ \o more])
<1> DEFINE all == w.conn.events \o more
           d == [w.conn EXCEPT !.events = all]
<1>1. w.conn \in Conns /\ w.conn.events \in Seq(EventKinds)
  BY DEF Worlds, Conns
<1>2. all \in Seq(EventKinds)
  BY <1>1
<1>3. d \in Conns /\ d.tasks = w.conn.tasks /\ d.error = w.conn.error
  <2> HIDE DEF all
  <2> QED BY <1>1, <1>2 DEF Conns
<1> QED BY <1>3, ConnAlike

LEMMA EventAlike ==
  ASSUME NEW w \in Worlds, NEW kind \in EventKinds
  PROVE  Alike(w, PutEvent(w, kind))
<1> DEFINE all == Append(w.conn.events, kind)
           d == [w.conn EXCEPT !.events = all]
<1>1. w.conn \in Conns /\ w.conn.events \in Seq(EventKinds)
  BY DEF Worlds, Conns
<1>2. all \in Seq(EventKinds)
  BY <1>1
<1>3. d \in Conns /\ d.tasks = w.conn.tasks /\ d.error = w.conn.error
  <2> HIDE DEF all
  <2> QED BY <1>1, <1>2 DEF Conns
<1> QED BY <1>3, ConnAlike DEF PutEvent

LEMMA MaskAlike ==
  ASSUME NEW w \in Worlds, NEW mask \in SUBSET {"read", "write", "except"}
  PROVE  Alike(w, SetMask(w, mask))
<1> DEFINE d == [w.conn EXCEPT !.mask = mask]
<1>1. w.conn \in Conns
  BY DEF Worlds
<1>2. d \in Conns /\ d.tasks = w.conn.tasks /\ d.error = w.conn.error
  BY <1>1 DEF Conns
<1> QED BY <1>2, ConnAlike DEF SetMask

LEMMA ReturnAlike ==
  ASSUME NEW w \in Worlds, NEW ret \in {"none", "pending", "complete"}
  PROVE  Alike(w, Returns(w, ret))
BY DEF Worlds, Alike, Returns

LEMMA AbortAlike ==
  ASSUME NEW w \in Worlds
  PROVE  Alike(w, Abort(w))
<1> DEFINE d == [w.conn EXCEPT !.aborted = TRUE]
<1>1. w.conn \in Conns
  BY DEF Worlds
<1>2. d \in Conns /\ d.tasks = w.conn.tasks /\ d.error = w.conn.error
  BY <1>1 DEF Conns
<1> QED BY <1>2, ConnAlike DEF Abort

LEMMA NothingAsked == NoRequest \in Requests
BY DEF NoRequest, Request, Requests

\* Other fields of the connection.
LEMMA Fields ==
  ASSUME NEW w \in Worlds, NEW x
  PROVE  /\ x \in BOOLEAN => /\ Alike(w, [w EXCEPT !.conn.reconnect = x])
                             /\ Alike(w, [w EXCEPT !.conn.named = x])
         /\ x \in {"idle", "connecting", "established"} => Alike(w, [w EXCEPT !.conn.state = x])
         /\ x \in {"none", "connecting", "data", "failed"} => Alike(w, [w EXCEPT !.conn.cs = x])
         /\ x \in Nat => Alike(w, [w EXCEPT !.conn.redirects = x])
         /\ x \in Requests => /\ Alike(w, [w EXCEPT !.conn.location = x])
                              /\ Alike(w, [w EXCEPT !.conn.out = x])
         /\ x \in {"z3950", "http"} => Alike(w, [w EXCEPT !.conn.proto = x])
<1> DEFINE c == w.conn
<1>0. c \in Conns
  BY DEF Worlds
<1>1. ASSUME x \in BOOLEAN PROVE Alike(w, [w EXCEPT !.conn.reconnect = x])
  <2> DEFINE d == [c EXCEPT !.reconnect = x]
  <2>1. d \in Conns /\ d.tasks = c.tasks /\ d.error = c.error
    BY <1>0, <1>1 DEF Conns
  <2> QED BY <2>1, ConnAlike
<1>2. ASSUME x \in BOOLEAN PROVE Alike(w, [w EXCEPT !.conn.named = x])
  <2> DEFINE d == [c EXCEPT !.named = x]
  <2>1. d \in Conns /\ d.tasks = c.tasks /\ d.error = c.error
    BY <1>0, <1>2 DEF Conns
  <2> QED BY <2>1, ConnAlike
<1>3. ASSUME x \in {"idle", "connecting", "established"} PROVE Alike(w, [w EXCEPT !.conn.state = x])
  <2> DEFINE d == [c EXCEPT !.state = x]
  <2>1. d \in Conns /\ d.tasks = c.tasks /\ d.error = c.error
    BY <1>0, <1>3 DEF Conns
  <2> QED BY <2>1, ConnAlike
<1>4. ASSUME x \in {"none", "connecting", "data", "failed"} PROVE Alike(w, [w EXCEPT !.conn.cs = x])
  <2> DEFINE d == [c EXCEPT !.cs = x]
  <2>1. d \in Conns /\ d.tasks = c.tasks /\ d.error = c.error
    BY <1>0, <1>4 DEF Conns
  <2> QED BY <2>1, ConnAlike
<1>5. ASSUME x \in Nat PROVE Alike(w, [w EXCEPT !.conn.redirects = x])
  <2> DEFINE d == [c EXCEPT !.redirects = x]
  <2>1. d \in Conns /\ d.tasks = c.tasks /\ d.error = c.error
    BY <1>0, <1>5 DEF Conns
  <2> QED BY <2>1, ConnAlike
<1>6. ASSUME x \in Requests PROVE Alike(w, [w EXCEPT !.conn.location = x])
  <2> DEFINE d == [c EXCEPT !.location = x]
  <2>1. d \in Conns /\ d.tasks = c.tasks /\ d.error = c.error
    BY <1>0, <1>6 DEF Conns
  <2> QED BY <2>1, ConnAlike
<1>7. ASSUME x \in Requests PROVE Alike(w, [w EXCEPT !.conn.out = x])
  <2> DEFINE d == [c EXCEPT !.out = x]
  <2>1. d \in Conns /\ d.tasks = c.tasks /\ d.error = c.error
    BY <1>0, <1>7 DEF Conns
  <2> QED BY <2>1, ConnAlike
<1>8. ASSUME x \in {"z3950", "http"} PROVE Alike(w, [w EXCEPT !.conn.proto = x])
  <2> DEFINE d == [c EXCEPT !.proto = x]
  <2>1. d \in Conns /\ d.tasks = c.tasks /\ d.error = c.error
    BY <1>0, <1>8 DEF Conns
  <2> QED BY <2>1, ConnAlike
<1> QED BY <1>1, <1>2, <1>3, <1>4, <1>5, <1>6, <1>7, <1>8

LEMMA HangupAlike ==
  ASSUME NEW w \in Worlds
  PROVE  Alike(w, Hangup(w))
<1> DEFINE c == [w.conn EXCEPT !.cs = "none", !.out = NoRequest]
           none == [n \in Name |-> NoRecord]
           k == [w.net EXCEPT !.wire = <<>>, !.inited = FALSE, !.sets = none]
           v == Hangup(w)
<1>1. c \in Conns /\ c.tasks = w.conn.tasks /\ c.error = w.conn.error
  BY NothingAsked DEF Worlds, Conns
<1>2. none \in [Name -> Versions]
  BY DEF NoRecord, Versions
<1>3. k \in Nets /\ k.proto = w.net.proto
  <2>1. w.net \in Nets
    BY DEF Worlds
  <2>2. w.net.wire \in Seq(Requests) /\ <<>> \in Seq(Requests)
    BY <2>1 DEF Nets
  <2> HIDE DEF none
  <2> QED BY <1>2, <2>1, <2>2 DEF Nets
<1>4. v = [w EXCEPT !.conn = c, !.net = k]
  BY DEF Hangup, Worlds
<1>5. v \in Worlds /\ v.conn = c /\ v.net = k /\ v.sets = w.sets
  <2> HIDE DEF c, k, v
  <2> QED BY <1>1, <1>3, <1>4 DEF Worlds
<1>6. v = Hangup(w)
  OBVIOUS
<1> HIDE DEF c, k, v
<1>7. Alike(w, v)
  BY <1>1, <1>3, <1>5 DEF Alike
<1> QED BY <1>6, <1>7

LEMMA CloseAlike ==
  ASSUME NEW w \in Worlds
  PROVE  Alike(w, Close(w))
<1> DEFINE u == Hangup(w)
           v == SetMask(u, {})
<1>1. Alike(w, u)
  BY HangupAlike
<1>2. Alike(u, v)
  <2> HIDE DEF u
  <2>1. u \in Worlds
    BY <1>1, AlikeType
  <2> QED BY <2>1, MaskAlike
<1>3. Alike(v, [v EXCEPT !.conn.state = "idle"])
  <2> HIDE DEF v
  <2>1. v \in Worlds
    BY <1>2, AlikeType
  <2> QED BY <2>1, Fields
<1>4. Close(w) = [v EXCEPT !.conn.state = "idle"]
  BY DEF Close
<1> HIDE DEF u, v
<1> QED BY <1>1, <1>2, <1>3, <1>4, AlikeChain

-----------------------------------------------------------------------------
(* Tasks that come and go.                                                 *)

LEMMA PlainTask ==
  ASSUME NEW which \in {"connect", "scan", "package"}
  PROVE  Plain(which) \in Tasks /\ Plain(which).which = which /\ Plain(which).rs = NoSet /\ ~Plain(which).running
BY ZoomAssumption DEF Plain, Task, Tasks, TaskKinds

LEMMA FreeSetType == FreeSet \in Sets /\ FreeSet.ref = 0 /\ ~FreeSet.app
<1>1. FreeSet.cache \in [Position -> Versions]
  BY DEF FreeSet, NoRecord, Versions
<1>2. MaxHits \in Nat
  BY ZoomAssumption
<1> QED BY <1>1, <1>2 DEF FreeSet, Sets

\* Giving up n of the references that are counted leaves the others counted.
LEMMA UnrefCounts ==
  ASSUME NEW s \in Sets, NEW n \in Nat, NEW m \in Nat, s.ref = Once(s.app) + (m + n)
  PROVE  Unref(s, n) \in Sets /\ Unref(s, n).ref = Once(Unref(s, n).app) + m
<1>1. CASE n > 0 /\ s.ref <= n
  <2>1. Unref(s, n) = FreeSet
    BY <1>1 DEF Unref
  <2>2. m = 0
    BY <1>1 DEF Once
  <2> QED BY <2>1, <2>2, FreeSetType DEF Once
<1>2. CASE ~(n > 0 /\ s.ref <= n)
  <2> DEFINE k == s.ref - n
  <2>1. Unref(s, n) = [s EXCEPT !.ref = k]
    BY <1>2 DEF Unref
  <2>2. k \in Nat /\ k = Once(s.app) + m
    BY <1>2 DEF Once, Sets
  <2> HIDE DEF k
  <2>3. [s EXCEPT !.ref = k] \in Sets /\ [s EXCEPT !.ref = k].ref = k /\ [s EXCEPT !.ref = k].app = s.app
    BY <2>2 DEF Sets
  <2> QED BY <2>1, <2>2, <2>3
<1> QED BY <1>1, <1>2

\* Other tasks and other sets in a world.
Holding(w, new, hold) == [w EXCEPT !.conn.tasks = new, !.sets = hold]

LEMMA TasksType ==
  ASSUME NEW w \in Worlds, NEW new \in Seq(Tasks), NEW hold \in [ResultSet -> Sets],
         NEW v, v = Holding(w, new, hold)
  PROVE  /\ v \in Worlds /\ v.conn.tasks = new /\ v.sets = hold /\ v.conn.error = w.conn.error
         /\ v.net = w.net /\ v.ret = w.ret
<1> DEFINE c == [w.conn EXCEPT !.tasks = new]
<1>1. c \in Conns /\ c.tasks = new /\ c.error = w.conn.error
  BY DEF Worlds, Conns
<1> HIDE DEF c
<1>2. v = [w EXCEPT !.conn = c, !.sets = hold]
  BY DEF c, Worlds, Holding
<1>3. v \in Worlds /\ v.conn = c /\ v.sets = hold /\ v.net = w.net /\ v.ret = w.ret
  BY <1>1, <1>2 DEF Worlds
<1> QED BY <1>1, <1>2, <1>3

LEMMA TasksAlike ==
  ASSUME NEW w \in Worlds, NEW new \in Seq(Tasks), DOMAIN new = DOMAIN w.conn.tasks,
         \A i \in DOMAIN new : new[i].which = w.conn.tasks[i].which /\ new[i].rs = w.conn.tasks[i].rs
  PROVE  Alike(w, [w EXCEPT !.conn.tasks = new])
<1> DEFINE d == [w.conn EXCEPT !.tasks = new]
           v == [w EXCEPT !.conn = d]
<1>1. d \in Conns /\ d.tasks = new /\ d.error = w.conn.error
  BY DEF Worlds, Conns
<1>2. v \in Worlds /\ v.conn = d /\ v.sets = w.sets /\ v.net = w.net
  <2> HIDE DEF d
  <2> QED BY <1>1 DEF Worlds
<1>3. v = [w EXCEPT !.conn.tasks = new]
  OBVIOUS
<1>4. Alike(w, v)
  <2> HIDE DEF d, v
  <2> QED BY <1>1, <1>2 DEF Alike
<1> QED BY <1>3, <1>4

\* The head of the list with another range or flag.
LEMMA HeadAlike ==
  ASSUME NEW w \in Worlds, w.conn.tasks # <<>>, NEW t \in Tasks,
         t.which = Head(w.conn.tasks).which, t.rs = Head(w.conn.tasks).rs
  PROVE  Alike(w, [w EXCEPT !.conn.tasks = [@ EXCEPT ![1] = t]])
<1> DEFINE tasks == w.conn.tasks
           new == [tasks EXCEPT ![1] = t]
<1>1. tasks \in Seq(Tasks)
  BY DEF Worlds, Conns
<1>2. new \in Seq(Tasks) /\ DOMAIN new = DOMAIN tasks
      /\ \A i \in DOMAIN new : new[i].which = tasks[i].which /\ new[i].rs = tasks[i].rs
  <2> HIDE DEF tasks
  <2> QED BY <1>1 DEF tasks
<1> HIDE DEF new
<1>3. Alike(w, [w EXCEPT !.conn.tasks = new])
  BY <1>2, TasksAlike
<1> QED BY <1>3 DEF new

LEMMA InsertLeads ==
  ASSUME NEW w, Good(w)
  PROVE  Leads(w, InsertTask(w, Plain("connect")))
<1> DEFINE t == Plain("connect")
           tasks == w.conn.tasks
           new == <<t>> \o tasks
           v == InsertTask(w, t)
<1>1. w \in Worlds /\ tasks \in Seq(Tasks)
  BY DEF Good, Worlds, Conns
<1>2. t \in Tasks /\ t.rs = NoSet /\ t.which = "connect"
  BY PlainTask
<1>3. new \in Seq(Tasks) /\ \A i \in DOMAIN new : new[i] = t \/ \E j \in DOMAIN tasks : new[i] = tasks[j]
  <2> HIDE DEF t, tasks
  <2>1. new \in Seq(Tasks) /\ Len(new) = Len(tasks) + 1 /\ new[1] = t
    BY <1>1, <1>2
  <2>2. \A i \in 2 .. Len(new) : i - 1 \in DOMAIN tasks /\ new[i] = tasks[i - 1]
    BY <1>1, <1>2, <2>1
  <2> QED BY <2>1, <2>2
<1>4. v \in Worlds /\ v.conn.tasks = new /\ v.sets = w.sets /\ v.conn.error = w.conn.error /\ v.net = w.net
  <2> DEFINE c == [w.conn EXCEPT !.tasks = new]
  <2>1. v = [w EXCEPT !.conn = c]
    BY DEF InsertTask
  <2>2. c \in Conns /\ c.tasks = new /\ c.error = w.conn.error
    <3> HIDE DEF new
    <3> QED BY <1>1, <1>3 DEF Worlds, Conns
  <2> HIDE DEF c, v
  <2> QED BY <1>1, <2>1, <2>2 DEF Worlds
<1>5. ASSUME NEW r \in ResultSet PROVE Naming(new, r) = Naming(tasks, r)
  <2>1. Naming(new, r) = Naming(tasks, r) + Once(t.rs = r)
    <3> HIDE DEF t, tasks
    <3> QED BY <1>1, <1>2, NamingInsert
  <2>2. t.rs # r
    BY <1>2, ZoomAssumption
  <2>3. Naming(tasks, r) \in Nat
    <3> HIDE DEF tasks
    <3> QED BY <1>1, PlacesFinite
  <2> QED BY <2>1, <2>2, <2>3 DEF Once
<1> HIDE DEF v, new, t
<1>6. RefsOK(v)
  BY <1>4, <1>5 DEF Good, RefsOK
<1>7. NoExtras(v)
  BY <1>2, <1>3, <1>4 DEF Good, NoExtras
<1>8. Leads(w, v)
  BY <1>4, <1>6, <1>7 DEF Leads, Good
<1> QED BY <1>8 DEF v, t

LEMMA RemoveTaskLeads ==
  ASSUME NEW w, Good(w)
  PROVE  Leads(w, RemoveTask(w))
<1>1. CASE w.conn.tasks = <<>>
  BY <1>1, GoodLeads DEF RemoveTask
<1>2. CASE w.conn.tasks # <<>>
  <2> DEFINE tasks == w.conn.tasks
             t == Head(tasks)
             rest == Tail(tasks)
             hold == [r \in ResultSet |-> Unref(w.sets[r], IF r = t.rs THEN 1 ELSE 0)]
             v == Holding(w, rest, hold)
  <2>1. w \in Worlds /\ tasks \in Seq(Tasks) /\ tasks # <<>>
    BY <1>2 DEF Good, Worlds, Conns
  <2>2. rest \in Seq(Tasks) /\ \A i \in DOMAIN rest : i + 1 \in DOMAIN tasks /\ rest[i] = tasks[i + 1]
    <3> HIDE DEF tasks
    <3> QED BY <2>1
  <2>3. ASSUME NEW r \in ResultSet
        PROVE  hold[r] \in Sets /\ hold[r].ref = Once(hold[r].app) + Naming(rest, r)
    <3> DEFINE s == w.sets[r]
               n == IF r = t.rs THEN 1 ELSE 0
               m == Naming(rest, r)
    <3>1. s \in Sets /\ n \in Nat /\ hold[r] = Unref(s, n)
      BY <2>1 DEF Worlds
    <3>2. m \in Nat
      <4> HIDE DEF rest
      <4> QED BY <2>2, PlacesFinite
    <3>3. Naming(tasks, r) = m + n
      <4>1. Naming(tasks, r) = m + Once(t.rs = r)
        <5> HIDE DEF tasks
        <5> QED BY <2>1, NamingTail
      <4> QED BY <4>1 DEF Once
    <3>4. s.ref = Once(s.app) + (m + n)
      <4>1. s.ref = Once(s.app) + Naming(tasks, r)
        BY DEF Good, RefsOK
      <4> QED BY <3>3, <4>1
    <3> HIDE DEF s, n, m, hold
    <3>5. Unref(s, n) \in Sets /\ Unref(s, n).ref = Once(Unref(s, n).app) + m
      BY <3>1, <3>2, <3>4, UnrefCounts
    <3> QED BY <3>1, <3>5 DEF m
  <2>4. hold \in [ResultSet -> Sets]
    BY <2>3
  <2>5. v = Holding(w, rest, hold)
    OBVIOUS
  <2> HIDE DEF rest, hold, v
  <2>6. v \in Worlds /\ v.conn.tasks = rest /\ v.sets = hold /\ v.conn.error = w.conn.error /\ v.net = w.net
    BY <2>1, <2>2, <2>4, <2>5, TasksType
  <2>7. RefsOK(v)
    BY <2>3, <2>6 DEF RefsOK
  <2>8. NoExtras(v)
    BY <2>2, <2>6 DEF Good, NoExtras
  <2>9. Leads(w, v)
    BY <2>6, <2>7, <2>8 DEF Leads, Good
  <2>10. Leads(v, PutEvent(v, "end"))
    <3>1. Good(v) /\ v \in Worlds /\ "end" \in EventKinds
      BY <2>9 DEF Leads, Good, EventKinds
    <3>2. Alike(v, PutEvent(v, "end"))
      BY <3>1, EventAlike
    <3> QED BY <3>1, <3>2, AlikeLeads
  <2>11. RemoveTask(w) = v \/ RemoveTask(w) = PutEvent(v, "end")
    BY <1>2 DEF RemoveTask, Holding, v, rest, hold
  <2> QED BY <2>9, <2>10, <2>11, LeadsChain
<1> QED BY <1>1, <1>2

LEMMA RemoveTasksLeads ==
  ASSUME NEW w, Good(w)
  PROVE  Leads(w, RemoveTasks(w)) /\ (w.conn.tasks = <<>> \/ RemoveTasks(w).conn.tasks = <<>>)
<1>1. CASE w.conn.tasks = <<>>
  BY <1>1, GoodLeads DEF RemoveTasks
<1>2. CASE w.conn.tasks # <<>>
  <2> DEFINE tasks == w.conn.tasks
             rest == <<>>
             hold == [r \in ResultSet |-> Unref(w.sets[r], Naming(tasks, r))]
             v == Holding(w, rest, hold)
  <2>1. w \in Worlds /\ tasks \in Seq(Tasks) /\ rest \in Seq(Tasks)
    BY DEF Good, Worlds, Conns
  <2>2. ASSUME NEW r \in ResultSet PROVE Naming(rest, r) = 0 /\ Naming(tasks, r) \in Nat
    <3> HIDE DEF rest, tasks
    <3>1. DOMAIN rest = {}
      BY DEF rest
    <3> QED BY <2>1, <3>1, PlacesFinite
  <2>3. ASSUME NEW r \in ResultSet
        PROVE  hold[r] \in Sets /\ hold[r].ref = Once(hold[r].app) + Naming(rest, r)
    <3> DEFINE s == w.sets[r]
               n == Naming(tasks, r)
    <3>1. s \in Sets /\ n \in Nat /\ hold[r] = Unref(s, n)
      BY <2>1, <2>2 DEF Worlds
    <3>2. s.ref = Once(s.app) + (0 + n)
      <4>1. s.ref = Once(s.app) + Naming(tasks, r)
        BY DEF Good, RefsOK
      <4> QED BY <3>1, <4>1
    <3> HIDE DEF s, n, hold
    <3>3. Unref(s, n) \in Sets /\ Unref(s, n).ref = Once(Unref(s, n).app) + 0
      BY <3>1, <3>2, UnrefCounts
    <3> QED BY <2>2, <3>1, <3>3
  <2>4. hold \in [ResultSet -> Sets]
    BY <2>3
  <2>5. v = Holding(w, rest, hold)
    OBVIOUS
  <2> HIDE DEF rest, hold, v
  <2>6. v \in Worlds /\ v.conn.tasks = rest /\ v.sets = hold /\ v.conn.error = w.conn.error /\ v.net = w.net
    BY <2>1, <2>4, <2>5, TasksType
  <2>7. RefsOK(v)
    BY <2>3, <2>6 DEF RefsOK
  <2>8. NoExtras(v)
    BY <2>6 DEF NoExtras, rest
  <2>9. Leads(w, v)
    BY <2>6, <2>7, <2>8 DEF Leads, Good
  <2>10. Alike(v, PutEvent(v, "end"))
    <3>1. v \in Worlds /\ "end" \in EventKinds
      BY <2>6 DEF EventKinds
    <3> QED BY <3>1, EventAlike
  <2>11. Leads(v, PutEvent(v, "end"))
    <3>1. Good(v)
      BY <2>9 DEF Leads
    <3> QED BY <2>10, <3>1, AlikeLeads
  <2>12. RemoveTasks(w) = PutEvent(v, "end")
    BY <1>2 DEF RemoveTasks, Holding, v, rest, hold
  <2>13. PutEvent(v, "end").conn.tasks = <<>>
    BY <2>6 DEF PutEvent, rest, Worlds, Conns
  <2> QED BY <2>9, <2>11, <2>12, <2>13, LeadsChain
<1> QED BY <1>1, <1>2

LEMMA ResumeLeads ==
  ASSUME NEW w, Good(w), w.conn.tasks # <<>>
  PROVE  Leads(w, Resume(w))
<1> DEFINE u == [w EXCEPT !.conn.reconnect = FALSE]
           t == [Head(u.conn.tasks) EXCEPT !.running = FALSE]
           v == [u EXCEPT !.conn.tasks = [@ EXCEPT ![1] = t]]
<1>1. w \in Worlds /\ w.conn.tasks \in Seq(Tasks)
  BY DEF Good, Worlds, Conns
<1>2. Alike(w, u) /\ u.conn.tasks = w.conn.tasks
  BY <1>1, Fields DEF Worlds, Conns
<1>3. u \in Worlds /\ Head(u.conn.tasks) \in Tasks
  BY <1>1, <1>2, AlikeType
<1> HIDE DEF u
<1>4. t \in Tasks /\ t.which = Head(u.conn.tasks).which /\ t.rs = Head(u.conn.tasks).rs
  BY <1>3 DEF Tasks
<1> HIDE DEF t
<1>5. Alike(u, v)
  BY <1>1, <1>2, <1>3, <1>4, HeadAlike
<1>6. Leads(w, v)
  BY <1>2, <1>5, AlikeChain, AlikeLeads
<1>7. Leads(v, InsertTask(v, Plain("connect")))
  <2>1. Good(v)
    BY <1>6 DEF Leads
  <2> HIDE DEF v
  <2> QED BY <2>1, InsertLeads
<1>8. Resume(w) = InsertTask(v, Plain("connect"))
  <2>1. v = [w EXCEPT !.conn.reconnect = FALSE, !.conn.tasks[1].running = FALSE]
    BY <1>1 DEF u, t, Worlds, Conns
  <2> HIDE DEF v
  <2> QED BY <2>1 DEF Resume
<1> HIDE DEF v
<1> QED BY <1>6, <1>7, <1>8, LeadsChain

-----------------------------------------------------------------------------
(* A connection that breaks, and requests that are sent.                   *)

LEMMA AlikeEmpty ==
  ASSUME NEW w \in Worlds, NEW v, Alike(w, v)
  PROVE  v.conn.tasks = <<>> <=> w.conn.tasks = <<>>
<1>1. w.conn.tasks \in Seq(Tasks) /\ v.conn.tasks \in Seq(Tasks) /\ DOMAIN v.conn.tasks = DOMAIN w.conn.tasks
  BY DEF Alike, Worlds, Conns
<1> QED BY <1>1

\* A small step after others.
LEMMA LeadsAlike ==
  ASSUME NEW u, NEW w, NEW v, Leads(u, w), Alike(w, v)
  PROVE  Leads(u, v)
BY AlikeLeads, LeadsChain DEF Leads

LEMMA LeadsType ==
  ASSUME NEW w, NEW v, Leads(w, v)
  PROVE  Good(v) /\ v \in Worlds
BY DEF Leads, Good

LEMMA GoodType ==
  ASSUME NEW w, Good(w)
  PROVE  w \in Worlds
BY DEF Good

LEMMA ReconnectLeads ==
  ASSUME NEW w, Good(w)
  PROVE  Leads(w, Reconnect(w))
<1> DEFINE u == Close(w)
<1>1. w \in Worlds
  BY GoodType
<1>2. Alike(w, u)
  BY <1>1, CloseAlike
<1> HIDE DEF u
<1>3. Leads(w, u) /\ Good(u) /\ u \in Worlds
  BY <1>2, AlikeLeads, LeadsType
<1>4. CASE w.conn.tasks = <<>>
  <2>1. Alike(u, Abort(u))
    BY <1>3, AbortAlike
  <2> QED BY <1>3, <1>4, <2>1, LeadsAlike DEF Reconnect, u
<1>5. CASE w.conn.tasks # <<>>
  <2> DEFINE v == Resume(u)
  <2>1. u.conn.tasks # <<>>
    BY <1>1, <1>2, <1>5, AlikeEmpty
  <2>2. Leads(u, v)
    BY <1>3, <2>1, ResumeLeads
  <2> HIDE DEF v
  <2>3. Leads(w, v) /\ v \in Worlds /\ "connect" \in EventKinds
    BY <1>3, <2>2, LeadsChain, LeadsType DEF EventKinds
  <2>4. Alike(v, PutEvent(v, "connect"))
    BY <2>3, EventAlike
  <2>5. Reconnect(w) = PutEvent(v, "connect")
    BY <1>5 DEF Reconnect, u, v
  <2> QED BY <2>3, <2>4, <2>5, LeadsAlike
<1> QED BY <1>4, <1>5

LEMMA BrokenLeads ==
  ASSUME NEW w, Good(w), NEW e \in Errors \ {"none"}
  PROVE  Leads(w, Broken(w, e))
<1>1. CASE w.conn.reconnect
  BY <1>1, ReconnectLeads DEF Broken
<1>2. CASE ~w.conn.reconnect
  <2> DEFINE u == SetError(w, e)
  <2>1. Alike(w, u)
    BY GoodType, ErrorAlike
  <2> HIDE DEF u
  <2>2. Alike(u, Close(u))
    BY <2>1, AlikeType, CloseAlike
  <2>3. Alike(w, Close(u))
    BY <2>1, <2>2, AlikeChain
  <2> QED BY <1>2, <2>3, AlikeLeads DEF Broken, u
<1> QED BY <1>1, <1>2

LEMMA SendBufLeads ==
  ASSUME NEW w, Good(w), NEW ch \in Choices
  PROVE  Leads(w, SendBuf(w, ch))
<1> DEFINE w1 == PutEvent(w, "send_data")
<1>1. w \in Worlds /\ "send_data" \in EventKinds
  BY GoodType DEF EventKinds
<1>2. Alike(w, w1)
  BY <1>1, EventAlike
<1> HIDE DEF w1
<1>3. Leads(w, w1) /\ Good(w1) /\ w1 \in Worlds
  BY <1>2, AlikeLeads, LeadsType
<1>4. CASE (ch.write = "fail" \/ w.conn.cs = "failed") /\ w.conn.reconnect
  <2> DEFINE v == Reconnect(w1)
  <2>1. SendBuf(w, ch) = Returns(v, "pending")
    BY <1>4 DEF SendBuf, w1, Choices
  <2>2. Leads(w1, v)
    BY <1>3, ReconnectLeads
  <2> HIDE DEF v
  <2>3. Leads(w, v) /\ v \in Worlds
    BY <1>3, <2>2, LeadsChain, LeadsType
  <2>4. Alike(v, Returns(v, "pending"))
    BY <2>3, ReturnAlike
  <2> QED BY <2>1, <2>3, <2>4, LeadsAlike
<1>5. CASE (ch.write = "fail" \/ w.conn.cs = "failed") /\ ~w.conn.reconnect
  <2> DEFINE e == IF w.conn.state = "connecting" THEN "connect" ELSE "lost"
             u == SetError(w1, e)
             v == Close(u)
  <2>1. SendBuf(w, ch) = Returns(v, "complete")
    BY <1>5 DEF SendBuf, w1, Choices
  <2>2. e \in Errors \ {"none"}
    BY DEF Errors
  <2> HIDE DEF e
  <2>3. Alike(w1, u)
    BY <1>3, <2>2, ErrorAlike
  <2> HIDE DEF u
  <2>4. Alike(u, v)
    BY <2>3, AlikeType, CloseAlike
  <2> HIDE DEF v
  <2>5. Alike(v, Returns(v, "complete"))
    BY <2>4, AlikeType, ReturnAlike
  <2> QED BY <1>3, <2>1, <2>3, <2>4, <2>5, LeadsAlike
<1>6. CASE ch.write = "partial" /\ w.conn.cs # "failed"
  <2> DEFINE v == SetMask(w1, {"write", "except"})
  <2>1. SendBuf(w, ch) = Returns(v, "pending")
    BY <1>6 DEF SendBuf, w1, Choices
  <2>2. Alike(w1, v)
    BY <1>3, MaskAlike
  <2> HIDE DEF v
  <2>3. Alike(v, Returns(v, "pending"))
    BY <2>2, AlikeType, ReturnAlike
  <2> QED BY <1>3, <2>1, <2>2, <2>3, LeadsAlike
<1>7. CASE ch.write = "done" /\ w.conn.cs # "failed"
  <2> DEFINE u == SetMask(w1, {"read", "except"})
             req == w.conn.out
             wire == Append(u.net.wire, req)
             k == [u.net EXCEPT !.wire = wire]
             v == [u EXCEPT !.net = k]
             x == [v EXCEPT !.conn.out = NoRequest]
  <2>1. Alike(w1, u)
    BY <1>3, MaskAlike
  <2>2. u \in Worlds /\ req \in Requests
    BY <1>1, <2>1, AlikeType DEF Worlds, Conns
  <2>3. SendBuf(w, ch) = Returns(x, "pending")
    BY <1>7, <2>2 DEF SendBuf, w1, Choices, Worlds
  <2> HIDE DEF u, req
  <2>4. u.net \in Nets /\ u.net.wire \in Seq(Requests)
    BY <2>2 DEF Worlds, Nets
  <2>5. wire \in Seq(Requests)
    BY <2>2, <2>4
  <2> HIDE DEF wire
  <2>6. k \in Nets /\ k.proto = u.net.proto
    BY <2>4, <2>5 DEF Nets
  <2> HIDE DEF k
  <2>7. Alike(u, v)
    BY <2>2, <2>6 DEF Worlds, Alike
  <2> HIDE DEF v
  <2>8. Alike(v, x)
    BY <2>7, AlikeType, Fields, NothingAsked
  <2> HIDE DEF x
  <2>9. Alike(x, Returns(x, "pending"))
    BY <2>8, AlikeType, ReturnAlike
  <2> QED BY <1>3, <2>1, <2>3, <2>7, <2>8, <2>9, LeadsAlike
<1> QED BY <1>4, <1>5, <1>6, <1>7 DEF Choices

LEMMA SendLeads ==
  ASSUME NEW w, Good(w), NEW ch \in Choices, NEW req \in Requests
  PROVE  Leads(w, Send(w, req, ch))
<1> DEFINE u == [w EXCEPT !.conn.out = req]
           v == PutEvent(u, "send_apdu")
<1>1. Alike(w, u)
  BY GoodType, Fields
<1> HIDE DEF u
<1>2. u \in Worlds /\ "send_apdu" \in EventKinds
  BY <1>1, AlikeType DEF EventKinds
<1>3. Alike(u, v)
  BY <1>2, EventAlike
<1>4. Send(w, req, ch) = SendBuf(v, ch)
  BY DEF Send, u
<1> HIDE DEF v
<1>5. Leads(w, v) /\ Good(v)
  BY <1>1, <1>3, AlikeLeads, LeadsAlike, LeadsType
<1>6. Leads(v, SendBuf(v, ch))
  BY <1>5, SendBufLeads
<1> QED BY <1>4, <1>5, <1>6, LeadsChain

LEMMA SendInitLeads ==
  ASSUME NEW w, Good(w), NEW ch \in Choices
  PROVE  Leads(w, SendInit(w, ch))
<1>1. Request("init", NoSet, 0, Unset, 0, 0) \in Requests
  BY DEF Request, Requests
<1> QED BY <1>1, SendLeads DEF SendInit

-----------------------------------------------------------------------------
(* Names of sets, ranges of tasks.                                         *)

LEMMA NameCount == Cardinality(ResultSet) \in Nat /\ Default \in Name
<1>1. Cardinality(ResultSet) \in Nat
  BY ZoomAssumption, FS_CardinalityType
<1> QED BY <1>1 DEF Default, Name

\* There is a name for a set that has none: the others cannot hold them all.
LEMMA NameLeft ==
  ASSUME NEW w \in Worlds, NEW r \in ResultSet, w.sets[r].name = Unset
  PROVE  \E n \in 1 .. Cardinality(ResultSet) : \A o \in ResultSet : w.sets[o].name # n
<1> DEFINE N == Cardinality(ResultSet)
           Others == ResultSet \ {r}
<1>1. IsFiniteSet(Others) /\ Cardinality(Others) = N - 1 /\ N \in Nat
  BY ZoomAssumption, NameCount, FS_RemoveElement
<1>2. IsFiniteSet(1 .. N) /\ Cardinality(1 .. N) = N
  <2> HIDE DEF N
  <2> QED BY <1>1, FS_Interval
<1>3. SUFFICES ASSUME \A n \in 1 .. N : \E o \in ResultSet : w.sets[o].name = n
               PROVE  FALSE
  OBVIOUS
<1> DEFINE f == [n \in 1 .. N |-> CHOOSE o \in ResultSet : w.sets[o].name = n]
<1>4. ASSUME NEW n \in 1 .. N PROVE f[n] \in Others /\ w.sets[f[n]].name = n
  <2>1. f[n] \in ResultSet /\ w.sets[f[n]].name = n
    BY <1>3
  <2>2. n # Unset
    BY DEF Unset
  <2> QED BY <2>1, <2>2
<1> HIDE DEF f
<1>5. f \in [1 .. N -> Others]
  <2>1. f = [n \in 1 .. N |-> f[n]]
    BY DEF f
  <2> QED BY <1>4, <2>1
<1> HIDE DEF N, Others
<1>6. \E x, y \in 1 .. N : x # y /\ f[x] = f[y]
  <2>1. Cardinality(Others) < Cardinality(1 .. N)
    BY <1>1, <1>2
  <2> QED BY <1>1, <1>2, <1>5, <2>1, FS_PigeonHole
<1> QED BY <1>4, <1>6

LEMMA FreeNameType ==
  ASSUME NEW w \in Worlds, NEW r \in ResultSet, w.sets[r].name = Unset
  PROVE  /\ FreeName(w) \in 1 .. Cardinality(ResultSet)
         /\ \A o \in ResultSet : w.sets[o].name # FreeName(w)
<1> DEFINE N == Cardinality(ResultSet)
           Untaken(n) == \A o \in ResultSet : w.sets[o].name # n
           T == {n \in 1 .. N : Untaken(n)}
<1>0. N \in Nat
  BY NameCount
<1>1. T \in SUBSET Nat /\ T # {}
  BY <1>0, NameLeft
<1>2. PICK x \in T : \A y \in T : x <= y
  <2> HIDE DEF T
  <2> QED BY <1>1, LeastElement
<1>3. ASSUME NEW k \in 1 .. x - 1 PROVE \E o \in ResultSet : w.sets[o].name = k
  <2>1. k \in 1 .. N /\ ~(x <= k)
    BY <1>0
  <2>2. k \notin T
    BY <1>2, <2>1
  <2> QED BY <2>1, <2>2
<1>4. \E n \in 1 .. N : /\ Untaken(n)
                        /\ \A k \in 1 .. n - 1 : \E o \in ResultSet : w.sets[o].name = k
  BY <1>3
<1> QED BY <1>4 DEF FreeName

LEMMA ClipType ==
  ASSUME NEW s \in Sets, NEW t \in Tasks
  PROVE  /\ Clip(s, t) \in 0 .. t.count
         /\ s.live /\ Clip(s, t) > 0 => Clip(s, t) <= s.size - t.start
BY ZoomAssumption DEF Clip, Smaller, Sets, Tasks

\* The records from the start on that are in the cache are counted.
LEMMA CachedType ==
  ASSUME NEW s, NEW t \in Tasks, NEW count \in Nat
  PROVE  Cached(s, t, count) \in 0 .. count
<1> DEFINE Gone(i) == t.start + i \notin Position \/ s.cache[t.start + i] = NoRecord
           T == {n \in 0 .. count : n = count \/ Gone(n)}
<1>1. T \in SUBSET Nat /\ T # {}
  <2>1. count \in T
    OBVIOUS
  <2> QED BY <2>1
<1>2. PICK x \in T : \A y \in T : x <= y
  <2> HIDE DEF T
  <2> QED BY <1>1, LeastElement
<1>3. ASSUME NEW i \in 0 .. x - 1 PROVE ~Gone(i)
  <2>1. i \in 0 .. count /\ ~(x <= i)
    OBVIOUS
  <2>2. i \notin T
    BY <1>2, <2>1
  <2> QED BY <2>1, <2>2
<1>4. \E n \in 0 .. count : /\ \A i \in 0 .. n - 1 : ~Gone(i)
                            /\ n = count \/ Gone(n)
  BY <1>3
<1>5. Cached(s, t, count) = CHOOSE n \in 0 .. count : /\ \A i \in 0 .. n - 1 : ~Gone(i)
                                                      /\ n = count \/ Gone(n)
  BY DEF Cached
<1> HIDE DEF Gone
<1> QED BY <1>4, <1>5

LEMMA EventsType ==
  ASSUME NEW n \in Nat
  PROVE  Events("record", n) \in Seq(EventKinds)
BY DEF Events, EventKinds

-----------------------------------------------------------------------------
(* What the task at the head sends.                                        *)

LEMMA SetAlike ==
  ASSUME NEW w \in Worlds, NEW r \in ResultSet, NEW s \in Sets,
         s.ref = w.sets[r].ref, s.app = w.sets[r].app
  PROVE  Alike(w, [w EXCEPT !.sets[r] = s])
<1> DEFINE hold == [w.sets EXCEPT ![r] = s]
           v == [w EXCEPT !.sets = hold]
<1>1. hold \in [ResultSet -> Sets] /\ \A o \in ResultSet : hold[o].ref = w.sets[o].ref /\ hold[o].app = w.sets[o].app
  BY DEF Worlds
<1>2. v \in Worlds /\ v.conn = w.conn /\ v.net = w.net /\ v.sets = hold
  <2> HIDE DEF hold
  <2> QED BY <1>1 DEF Worlds
<1>3. Alike(w, v)
  <2> HIDE DEF hold, v
  <2> QED BY <1>1, <1>2 DEF Alike
<1> QED BY <1>3

\* The head of the list of tasks, and its set.
LEMMA HeadType ==
  ASSUME NEW w \in Worlds, w.conn.tasks # <<>>
  PROVE  /\ Head(w.conn.tasks) \in Tasks /\ 1 \in DOMAIN w.conn.tasks /\ Head(w.conn.tasks) = w.conn.tasks[1]
         /\ Head(w.conn.tasks).which \in {"search", "sort"} =>
              Head(w.conn.tasks).rs \in ResultSet /\ w.sets[Head(w.conn.tasks).rs] \in Sets
<1>1. w.conn.tasks \in Seq(Tasks) /\ w.sets \in [ResultSet -> Sets]
  BY DEF Worlds, Conns
<1>2. Head(w.conn.tasks) \in Tasks /\ 1 \in DOMAIN w.conn.tasks /\ Head(w.conn.tasks) = w.conn.tasks[1]
  BY <1>1
<1> QED BY <1>1, <1>2 DEF Tasks

\* The task at the head once the cached records are passed.
Passed(s, t) ==
  [t EXCEPT !.start = @ + Cached(s, t, Clip(s, t)), !.count = Clip(s, t) - Cached(s, t, Clip(s, t))]

LEMMA PassedType ==
  ASSUME NEW s \in Sets, NEW t \in Tasks
  PROVE  /\ Passed(s, t) \in Tasks /\ Passed(s, t).which = t.which /\ Passed(s, t).rs = t.rs
         /\ Passed(s, t).running = t.running
         /\ s.live /\ Passed(s, t).count > 0 => Passed(s, t).start < s.size
<1> DEFINE count == Clip(s, t)
           n == Cached(s, t, count)
           a == t.start + n
           b == count - n
           v == [t EXCEPT !.start = a, !.count = b]
<1>1. count \in Nat /\ (s.live /\ count > 0 => count <= s.size - t.start)
  BY ClipType DEF Tasks
<1> HIDE DEF count
<1>2. n \in 0 .. count
  BY <1>1, CachedType
<1> HIDE DEF n
<1>3. t.start \in Nat /\ s.size \in Int
  BY DEF Tasks, Sets
<1>4. v \in Tasks /\ v.which = t.which /\ v.rs = t.rs /\ v.running = t.running
      /\ v.start = a /\ v.count = b
  <2>1. a \in Nat /\ b \in Nat
    BY <1>1, <1>2, <1>3
  <2> HIDE DEF a, b
  <2> QED BY <2>1 DEF Tasks
<1>5. Passed(s, t) = v /\ a = t.start + n /\ b = count - n
  BY DEF Passed, n, count
<1> HIDE DEF v, a, b
<1>6. s.live /\ v.count > 0 => v.start < s.size
  BY <1>1, <1>2, <1>3, <1>4, <1>5
<1> QED BY <1>4, <1>5, <1>6

LEMMA AdvanceAlike ==
  ASSUME NEW w \in Worlds, w.conn.tasks # <<>>, Head(w.conn.tasks).which = "search"
  PROVE  Alike(w, Advance(w))
<1> DEFINE t == Head(w.conn.tasks)
           s == w.sets[t.rs]
           n == Cached(s, t, Clip(s, t))
           more == Events("record", n)
           p == Passed(s, t)
           u == [w EXCEPT !.conn.tasks = [@ EXCEPT ![1] = p]]
           v == [u EXCEPT !.conn.events = @ \o more]
<1>1. t \in Tasks /\ t.rs \in ResultSet /\ s \in Sets
  BY HeadType
<1>2. v = Advance(w)
  BY DEF Advance, Passed
<1>3. Clip(s, t) \in Nat
  <2> HIDE DEF s, t
  <2> QED BY <1>1, ClipType DEF Tasks
<1>4. n \in Nat
  <2> DEFINE m == Clip(s, t)
  <2>0. m \in Nat
    BY <1>3
  <2> HIDE DEF m, t, s
  <2>1. Cached(s, t, m) \in 0 .. m
    BY <1>1, <2>0, CachedType
  <2> QED BY <2>0, <2>1 DEF m
<1>5. more \in Seq(EventKinds)
  <2> HIDE DEF n
  <2> QED BY <1>4, EventsType
<1>6. p \in Tasks /\ p.which = t.which /\ p.rs = t.rs
  <2> HIDE DEF t, s
  <2> QED BY <1>1, PassedType
<1>7. Alike(w, u)
  <2> HIDE DEF p
  <2> QED BY <1>6, HeadAlike
<1> HIDE DEF u, more
<1>8. Alike(u, v)
  BY <1>5, <1>7, AlikeType, EventsAlike
<1> HIDE DEF v
<1> QED BY <1>2, <1>7, <1>8, AlikeChain

LEMMA SendSearchLeads ==
  ASSUME NEW w, Good(w), NEW ch \in Choices, w.conn.tasks # <<>>, Head(w.conn.tasks).which = "search"
  PROVE  Leads(w, SendSearch(w, ch))
<1> DEFINE t == Head(w.conn.tasks)
           s == w.sets[t.rs]
           name == IF s.name # Unset THEN s.name ELSE IF w.conn.named THEN FreeName(w) ELSE Default
           req == Request("search", t.rs, s.q, name, 0, Piggyback(s, t))
           d == [s EXCEPT !.name = name]
           v == [w EXCEPT !.sets[t.rs] = d]
<1>1. w \in Worlds
  BY GoodType
<1>2. t \in Tasks /\ t.rs \in ResultSet /\ s \in Sets
  BY <1>1, HeadType
<1>3. name \in Name
  <2>1. CASE s.name # Unset
    BY <1>2, <2>1 DEF Sets
  <2>2. CASE s.name = Unset /\ w.conn.named
    <3>1. FreeName(w) \in 1 .. Cardinality(ResultSet)
      <4> HIDE DEF t
      <4> QED BY <1>1, <1>2, <2>2, FreeNameType
    <3> QED BY <2>2, <3>1, NameCount DEF Name
  <2>3. CASE s.name = Unset /\ ~w.conn.named
    BY <2>3, NameCount
  <2> QED BY <2>1, <2>2, <2>3
<1>4. Piggyback(s, t) \in Int
  BY <1>2, ZoomAssumption DEF Piggyback, Tasks
<1> HIDE DEF name
<1>5. req \in Requests
  <2> HIDE DEF t
  <2> QED BY <1>2, <1>3, <1>4, Zenon DEF Request, Requests, Sets
<1>6. d \in Sets /\ d.ref = s.ref /\ d.app = s.app
  BY <1>2, <1>3 DEF Sets
<1> HIDE DEF d
<1>7. Alike(w, v)
  <2> HIDE DEF t
  <2> QED BY <1>1, <1>2, <1>6, SetAlike DEF s
<1>8. v = [w EXCEPT !.sets[t.rs].name = name]
  BY <1>1, <1>2 DEF d
<1> HIDE DEF v, req
<1>9. Leads(w, v) /\ Good(v)
  BY <1>7, AlikeLeads, LeadsType
<1>10. Leads(v, Send(v, req, ch))
  BY <1>5, <1>9, SendLeads
<1>11. CASE ch.fit
  <2>1. SendSearch(w, ch) = Send(v, req, ch)
    BY <1>8, <1>11 DEF SendSearch, name, req
  <2> QED BY <1>9, <1>10, <2>1, LeadsChain
<1>12. CASE ~ch.fit
  <2> DEFINE u == SetError(w, "query")
  <2>1. Alike(w, u)
    BY <1>1, ErrorAlike DEF Errors
  <2>2. SendSearch(w, ch) = Returns(u, "complete")
    BY <1>12 DEF SendSearch
  <2> HIDE DEF u
  <2>3. Alike(u, Returns(u, "complete"))
    BY <2>1, AlikeType, ReturnAlike
  <2> QED BY <2>1, <2>2, <2>3, AlikeChain, AlikeLeads
<1> QED BY <1>11, <1>12

LEMMA AlikeHead ==
  ASSUME NEW w \in Worlds, w.conn.tasks # <<>>, NEW v, Alike(w, v)
  PROVE  /\ v.conn.tasks # <<>> /\ Head(v.conn.tasks) \in Tasks
         /\ Head(v.conn.tasks).which = Head(w.conn.tasks).which /\ Head(v.conn.tasks).rs = Head(w.conn.tasks).rs
<1>1. v.conn.tasks # <<>> /\ v \in Worlds
  BY AlikeEmpty, AlikeType
<1>2. Head(v.conn.tasks) \in Tasks /\ Head(v.conn.tasks) = v.conn.tasks[1]
  BY <1>1, HeadType
<1>3. 1 \in DOMAIN w.conn.tasks /\ w.conn.tasks[1] = Head(w.conn.tasks)
  BY HeadType
<1>4. v.conn.tasks[1].which = w.conn.tasks[1].which /\ v.conn.tasks[1].rs = w.conn.tasks[1].rs
  BY <1>3 DEF Alike
<1> QED BY <1>1, <1>2, <1>3, <1>4

\* What is left to present of a task that is passed.
LEMMA SendPresentLeads ==
  ASSUME NEW w, Good(w), NEW ch \in Choices, w.conn.tasks # <<>>, Head(w.conn.tasks).which = "search"
  PROVE  Leads(w, SendPresent(w, ch))
<1> DEFINE t == Head(w.conn.tasks)
           s == w.sets[t.rs]
           chunk == IF Step > 0 /\ Step < t.count THEN Step ELSE t.count
           num == Smaller(chunk, s.size - t.start)
           req == Request("present", t.rs, s.q, s.name, t.start, num)
<1>1. w \in Worlds
  BY GoodType
<1>2. t \in Tasks /\ t.rs \in ResultSet /\ s \in Sets
  BY <1>1, HeadType
<1>3. num \in Int
  <2> HIDE DEF t, s
  <2> QED BY <1>2, ZoomAssumption DEF Smaller, Tasks, Sets
<1>4. req \in Requests
  <2> HIDE DEF t, s, num
  <2> QED BY <1>2, <1>3 DEF Request, Requests, Tasks, Sets
<1>5. Alike(w, Abort(w))
  BY <1>1, AbortAlike
<1>6. SendPresent(w, ch) = Abort(w) \/ SendPresent(w, ch) = Send(w, req, ch)
  BY DEF SendPresent
<1> HIDE DEF req
<1> QED BY <1>4, <1>5, <1>6, AlikeLeads, SendLeads

LEMMA SendSortLeads ==
  ASSUME NEW w, Good(w), NEW ch \in Choices, NEW r \in ResultSet
  PROVE  Leads(w, SendSort(w, r, ch))
<1> DEFINE s == w.sets[r]
           d == [s EXCEPT !.sort = FALSE]
           v == [w EXCEPT !.sets[r] = d]
           req == Request("sort", r, s.q, s.name, 0, 0)
<1>1. w \in Worlds
  BY GoodType
<1>2. s \in Sets
  BY <1>1 DEF Worlds
<1>3. d \in Sets /\ d.ref = s.ref /\ d.app = s.app
  BY <1>2 DEF Sets
<1>4. v = [w EXCEPT !.sets[r].sort = FALSE]
  OBVIOUS
<1> HIDE DEF d
<1>5. Alike(w, v)
  BY <1>1, <1>3, SetAlike
<1>6. req \in Requests
  BY <1>2 DEF Request, Requests, Sets
<1> HIDE DEF v, req
<1>7. Leads(w, v) /\ Good(v) /\ v \in Worlds
  BY <1>5, AlikeLeads, LeadsType
<1>8. Alike(v, Returns(v, "complete")) /\ Alike(w, Returns(w, "complete")) /\ Alike(w, Abort(w))
  BY <1>1, <1>7, ReturnAlike, AbortAlike
<1>9. Leads(v, Send(v, req, ch))
  BY <1>6, <1>7, SendLeads
<1>10. \/ SendSort(w, r, ch) = Returns(v, "complete")
       \/ SendSort(w, r, ch) = Returns(w, "complete")
       \/ SendSort(w, r, ch) = Abort(w)
       \/ SendSort(w, r, ch) = Send(v, req, ch)
  <2>1. CASE w.conn.error # "none"
    BY <1>4, <2>1 DEF SendSort
  <2>2. CASE w.conn.error = "none" /\ ~s.sort
    BY <2>2 DEF SendSort
  <2>3. CASE w.conn.error = "none" /\ s.sort /\ s.name = Unset
    BY <2>3 DEF SendSort
  <2>4. CASE w.conn.error = "none" /\ s.sort /\ s.name # Unset
    BY <1>4, <2>4 DEF SendSort, req
  <2> QED BY <1>2, <2>1, <2>2, <2>3, <2>4
<1>11. Leads(w, Returns(v, "complete"))
  BY <1>7, <1>8, LeadsAlike
<1>12. Leads(w, Send(v, req, ch))
  BY <1>7, <1>9, LeadsChain
<1> QED BY <1>8, <1>10, <1>11, <1>12, AlikeLeads

\* The task at the head asked for more than there is.
LEMMA ClippedAlike ==
  ASSUME NEW w \in Worlds, w.conn.tasks # <<>>, Head(w.conn.tasks).which = "search"
  PROVE  LET t == Head(w.conn.tasks)
         IN  Alike(w, [w EXCEPT !.conn.tasks[1].count = Clip(w.sets[t.rs], t)])
<1> DEFINE t == Head(w.conn.tasks)
           s == w.sets[t.rs]
           n == Clip(s, t)
           p == [w.conn.tasks[1] EXCEPT !.count = n]
<1>1. t \in Tasks /\ t.rs \in ResultSet /\ s \in Sets /\ t = w.conn.tasks[1]
  BY HeadType
<1>2. n \in Nat
  <2> HIDE DEF t, s
  <2>1. n \in 0 .. t.count /\ t.count \in Nat
    BY <1>1, ClipType DEF Tasks
  <2> QED BY <2>1
<1> HIDE DEF n
<1>3. p \in Tasks /\ p.which = t.which /\ p.rs = t.rs
  <2> HIDE DEF t
  <2> QED BY <1>1, <1>2 DEF Tasks
<1>4. Alike(w, [w EXCEPT !.conn.tasks = [@ EXCEPT ![1] = p]])
  <2> HIDE DEF p
  <2> QED BY <1>3, HeadAlike
<1> QED BY <1>4 DEF n

LEMMA Z3950SearchLeads ==
  ASSUME NEW w, Good(w), NEW ch \in Choices
  PROVE  Leads(w, Z3950Search(w, ch))
<1> DEFINE t == Head(w.conn.tasks)
           s == w.sets[t.rs]
           w1 == Advance(w)
<1>1. w \in Worlds
  BY GoodType
<1>2. Leads(w, Returns(w, "complete")) /\ Leads(w, Abort(w))
  BY <1>1, ReturnAlike, AbortAlike, AlikeLeads
<1>3. CASE w.conn.tasks = <<>>
  BY <1>2, <1>3 DEF Z3950Search
<1>4. CASE w.conn.tasks # <<>> /\ t.which = "sort"
  BY <1>2, <1>4 DEF Z3950Search
<1>5. CASE w.conn.tasks # <<>> /\ t.which \notin {"sort", "search"}
  BY <1>2, <1>5 DEF Z3950Search
<1>6. CASE w.conn.tasks # <<>> /\ t.which = "search" /\ w.conn.error # "none"
  <2> DEFINE v == [w EXCEPT !.conn.tasks[1].count = Clip(s, t)]
  <2>1. Alike(w, v)
    BY <1>1, <1>6, ClippedAlike
  <2>2. Z3950Search(w, ch) = Returns(v, "complete")
    BY <1>6 DEF Z3950Search
  <2> HIDE DEF v
  <2>3. Alike(v, Returns(v, "complete"))
    BY <2>1, AlikeType, ReturnAlike
  <2> QED BY <2>1, <2>2, <2>3, AlikeChain, AlikeLeads
<1>7. CASE w.conn.tasks # <<>> /\ t.which = "search" /\ w.conn.error = "none"
  <2>1. Alike(w, w1)
    BY <1>1, <1>7, AdvanceAlike
  <2>2. t \in Tasks /\ s \in Sets /\ s.live \in BOOLEAN
    BY <1>1, <1>7, HeadType DEF Sets
  <2> HIDE DEF w1
  <2>3. Leads(w, w1) /\ Good(w1) /\ w1 \in Worlds
    BY <2>1, AlikeLeads, LeadsType
  <2>4. w1.conn.tasks # <<>> /\ Head(w1.conn.tasks).which = "search" /\ Head(w1.conn.tasks).count \in Nat
    BY <1>1, <1>7, <2>1, AlikeHead DEF Tasks
  <2>5. Leads(w1, Returns(w1, "complete")) /\ Leads(w1, SendPresent(w1, ch)) /\ Leads(w1, SendSearch(w1, ch))
    <3>1. Leads(w1, Returns(w1, "complete"))
      BY <2>3, ReturnAlike, AlikeLeads
    <3> QED BY <2>3, <2>4, <3>1, SendPresentLeads, SendSearchLeads
  <2>6. \/ Z3950Search(w, ch) = Returns(w1, "complete")
        \/ Z3950Search(w, ch) = SendPresent(w1, ch)
        \/ Z3950Search(w, ch) = SendSearch(w1, ch)
    <3> DEFINE left == Head(w1.conn.tasks).count
    <3>1. left = 0 \/ left > 0
      BY <2>4
    <3>2. CASE left = 0 /\ s.live
      BY <1>7, <3>2 DEF Z3950Search, w1
    <3>3. CASE left > 0 /\ s.live
      BY <1>7, <3>3 DEF Z3950Search, w1
    <3>4. CASE ~s.live
      BY <1>7, <3>4 DEF Z3950Search, w1
    <3> QED BY <2>2, <3>1, <3>2, <3>3, <3>4
  <2> QED BY <2>3, <2>5, <2>6, LeadsChain
<1> QED BY <1>3, <1>4, <1>5, <1>6, <1>7

LEMMA DefaultNameAlike ==
  ASSUME NEW w \in Worlds, NEW r \in ResultSet
  PROVE  Alike(w, DefaultName(w, r))
<1> DEFINE d == [w.sets[r] EXCEPT !.name = IF @ = Unset THEN Default ELSE @]
<1>1. w.sets[r] \in Sets
  BY DEF Worlds
<1>2. d \in Sets /\ d.ref = w.sets[r].ref /\ d.app = w.sets[r].app
  BY <1>1, NameCount DEF Sets
<1>3. DefaultName(w, r) = [w EXCEPT !.sets[r] = d]
  BY DEF DefaultName
<1> HIDE DEF d
<1> QED BY <1>2, <1>3, SetAlike

LEMMA SrwSendSearchLeads ==
  ASSUME NEW w, Good(w), NEW ch \in Choices, w.conn.tasks # <<>>
  PROVE  Leads(w, SrwSendSearch(w, ch))
<1> DEFINE t == Head(w.conn.tasks)
           u == Advance(w)
           w1 == DefaultName(u, t.rs)
           t1 == Head(w1.conn.tasks)
           s == w.sets[t.rs]
           num == IF Step > 0 /\ Step < t1.count THEN Step ELSE t1.count
           req == Request("search", t.rs, s.q, Default, t1.start, num)
<1>1. w \in Worlds
  BY GoodType, Zenon
<1>2. CASE w.conn.error # "none" \/ t.which # "search"
  BY <1>1, <1>2, ReturnAlike, AlikeLeads, Zenon DEF SrwSendSearch
<1>3. CASE w.conn.error = "none" /\ t.which = "search"
  <2>1. Alike(w, u)
    BY <1>1, <1>3, AdvanceAlike
  <2>2. t.rs \in ResultSet /\ s \in Sets
    BY <1>1, <1>3, HeadType, Zenon
  <2>3. SrwSendSearch(w, ch) \in {Returns(w1, "complete"), Returns(SetError(w1, "query"), "complete"),
                                  Send(w1, req, ch)}
    <3>1. CASE t1.count = 0 /\ s.live
      BY <1>3, <3>1, Zenon DEF SrwSendSearch
    <3>2. CASE ~(t1.count = 0 /\ s.live) /\ ~ch.fit
      BY <1>3, <3>2, Zenon DEF SrwSendSearch
    <3>3. CASE ~(t1.count = 0 /\ s.live) /\ ch.fit
      BY <1>3, <3>3 DEF SrwSendSearch
    <3> QED BY <3>1, <3>2, <3>3, Zenon
  <2> HIDE DEF u, t
  <2>4. u \in Worlds /\ u.sets[t.rs] \in Sets
    BY <2>1, <2>2, AlikeType DEF Worlds
  <2>6. Alike(u, w1)
    BY <2>2, <2>4, DefaultNameAlike
  <2> HIDE DEF w1, s
  <2>7. Alike(w, w1)
    BY <2>1, <2>6, AlikeChain
  <2>8. Leads(w, w1) /\ Good(w1) /\ w1 \in Worlds
    BY <2>7, AlikeLeads, LeadsType
  <2>9. t1 \in Tasks
    BY <1>1, <2>7, AlikeHead
  <2> HIDE DEF t1
  <2>10. num \in Int
    BY <2>9, ZoomAssumption DEF Tasks
  <2> HIDE DEF num
  <2>11. req \in Requests
    BY <2>2, <2>9, <2>10, NameCount DEF Request, Requests, Sets, Tasks
  <2> HIDE DEF req
  <2>12. Leads(w1, Returns(w1, "complete"))
    BY <2>8, ReturnAlike, AlikeLeads
  <2>13. Leads(w1, Returns(SetError(w1, "query"), "complete"))
    <3> DEFINE x == SetError(w1, "query")
    <3>1. Alike(w1, x)
      BY <2>8, ErrorAlike DEF Errors
    <3> HIDE DEF x
    <3>2. Alike(x, Returns(x, "complete"))
      BY <3>1, AlikeType, ReturnAlike
    <3>3. Leads(w1, Returns(x, "complete"))
      BY <2>8, <3>1, <3>2, AlikeChain, AlikeLeads
    <3> QED BY <3>3 DEF x
  <2>14. Leads(w1, Send(w1, req, ch))
    BY <2>8, <2>11, SendLeads
  <2> QED BY <2>3, <2>8, <2>12, <2>13, <2>14, LeadsChain
<1> QED BY <1>2, <1>3

LEMMA OpeningAlike ==
  ASSUME NEW w \in Worlds, NEW cs \in {"none", "connecting", "data", "failed"},
         NEW mask \in SUBSET {"read", "write", "except"}, NEW state \in {"idle", "connecting", "established"}
  PROVE  Alike(w, Opening(w, cs, mask, state))
<1> DEFINE d == [w.conn EXCEPT !.mask = mask, !.cs = cs, !.state = state]
<1>1. d \in Conns /\ d.tasks = w.conn.tasks /\ d.error = w.conn.error
  BY DEF Worlds, Conns
<1>2. Opening(w, cs, mask, state) = [w EXCEPT !.conn = d]
  BY DEF Opening, SetMask, Worlds
<1> HIDE DEF d
<1> QED BY <1>1, <1>2, ConnAlike

LEMMA DoConnectLeads ==
  ASSUME NEW w, Good(w), NEW ch \in Choices
  PROVE  Leads(w, DoConnect(w, ch))
<1> DEFINE u == Hangup(w)
           w1 == [u EXCEPT !.conn.proto = w.net.proto]
<1>1. w \in Worlds /\ w.net.proto \in {"z3950", "http"} /\ w.conn.mask \in SUBSET {"read", "write", "except"}
  BY GoodType DEF Worlds, Nets, Conns
<1>2. Alike(w, u)
  BY <1>1, HangupAlike
<1> HIDE DEF u
<1>3. Alike(u, w1)
  BY <1>1, <1>2, AlikeType, Fields
<1>4. CASE ch.connect = "later"
  <2> DEFINE v == Opening(w1, "connecting", {"read", "write", "except"}, "connecting")
  <2>1. DoConnect(w, ch) = Returns(v, "pending")
    BY <1>4 DEF DoConnect, u
  <2> HIDE DEF w1
  <2>2. Alike(w1, v)
    BY <1>3, AlikeType, OpeningAlike
  <2> HIDE DEF v
  <2>3. Alike(v, Returns(v, "pending"))
    BY <2>2, AlikeType, ReturnAlike
  <2> QED BY <1>2, <1>3, <2>1, <2>2, <2>3, AlikeChain, AlikeLeads
<1>5. CASE ch.connect = "now"
  <2> DEFINE x == [w1 EXCEPT !.conn.cs = "data"]
             y == PutEvent(x, "connect")
             z == SendInit(y, ch)
             v == [z EXCEPT !.conn.state = "established"]
  <2>1. DoConnect(w, ch) = Returns(v, "pending")
    BY <1>5 DEF DoConnect, u
  <2> HIDE DEF w1
  <2>2. Alike(w1, x)
    BY <1>3, AlikeType, Fields
  <2> HIDE DEF x
  <2>3. Alike(x, y)
    BY <2>2, AlikeType, EventAlike DEF EventKinds
  <2> HIDE DEF y
  <2>4. Leads(w, y) /\ Good(y)
    BY <1>2, <1>3, <2>2, <2>3, AlikeChain, AlikeLeads, LeadsType
  <2>5. Leads(y, z) /\ z \in Worlds
    BY <2>4, SendInitLeads, LeadsType
  <2> HIDE DEF z
  <2>6. Alike(z, v)
    BY <2>5, Fields
  <2> HIDE DEF v
  <2>7. Alike(v, Returns(v, "pending"))
    BY <2>6, AlikeType, ReturnAlike
  <2> QED BY <2>1, <2>4, <2>5, <2>6, <2>7, LeadsChain, LeadsAlike
<1>6. CASE ch.connect \in {"none", "failed"}
  <2> DEFINE x == Opening(w1, ch.connect, w.conn.mask, "idle")
             v == SetError(x, "connect")
  <2>1. DoConnect(w, ch) = Returns(v, "complete")
    BY <1>6 DEF DoConnect, u
  <2> HIDE DEF w1
  <2>2. Alike(w1, x)
    BY <1>1, <1>3, <1>6, AlikeType, OpeningAlike
  <2> HIDE DEF x
  <2>3. Alike(x, v)
    BY <2>2, AlikeType, ErrorAlike DEF Errors
  <2> HIDE DEF v
  <2>4. Alike(v, Returns(v, "complete"))
    BY <2>3, AlikeType, ReturnAlike
  <2> QED BY <1>2, <1>3, <2>1, <2>2, <2>3, <2>4, AlikeChain, AlikeLeads
<1> QED BY <1>4, <1>5, <1>6 DEF Choices

LEMMA DispatchLeads ==
  ASSUME NEW w, Good(w), NEW ch \in Choices, w.conn.tasks # <<>>
  PROVE  Leads(w, Dispatch(w, ch))
<1> DEFINE t == Head(w.conn.tasks)
<1>1. w \in Worlds
  BY GoodType
<1>2. t \in Tasks /\ (t.which \in {"search", "sort"} => t.rs \in ResultSet /\ w.sets[t.rs] \in Sets)
  BY <1>1, HeadType
<1>3. CASE t.which = "connect"
  BY <1>3, DoConnectLeads DEF Dispatch
<1>4. CASE t.which = "search"
  <2>1. Leads(w, SrwSendSearch(w, ch)) /\ Leads(w, Z3950Search(w, ch))
    BY SrwSendSearchLeads, Z3950SearchLeads
  <2> QED BY <1>4, <2>1 DEF Dispatch
<1>5. CASE t.which = "sort"
  <2> DEFINE d == [w.sets[t.rs] EXCEPT !.sort = TRUE]
             v == [w EXCEPT !.sets[t.rs] = d]
  <2>1. Dispatch(w, ch) = SendSort(v, t.rs, ch)
    BY <1>5 DEF Dispatch
  <2>2. t.rs \in ResultSet
    BY <1>2, <1>5
  <2> HIDE DEF t
  <2>3. d \in Sets /\ d.ref = w.sets[t.rs].ref /\ d.app = w.sets[t.rs].app
    BY <1>2, <1>5 DEF Sets
  <2> HIDE DEF d
  <2>4. Alike(w, v)
    BY <1>1, <2>2, <2>3, SetAlike
  <2> HIDE DEF v
  <2>5. Leads(w, v) /\ Good(v)
    BY <2>4, AlikeLeads, LeadsType
  <2>6. Leads(v, SendSort(v, t.rs, ch))
    BY <2>2, <2>5, SendSortLeads
  <2> QED BY <2>1, <2>5, <2>6, LeadsChain
<1>6. CASE t.which \in {"scan", "package"}
  <2> DEFINE req == Request(t.which, NoSet, 0, Unset, 0, 0)
             v == SetError(w, "query")
  <2>1. req \in Requests
    <3> HIDE DEF t
    <3> QED BY <1>6 DEF Request, Requests
  <2>2. Dispatch(w, ch) = Returns(v, "complete") \/ Dispatch(w, ch) = Send(w, req, ch)
    BY <1>6 DEF Dispatch
  <2> HIDE DEF req, v
  <2>3. Leads(w, Send(w, req, ch))
    BY <2>1, SendLeads
  <2>4. Alike(w, v)
    BY <1>1, ErrorAlike DEF Errors, v
  <2>5. Alike(v, Returns(v, "complete"))
    BY <2>4, AlikeType, ReturnAlike
  <2>6. Leads(w, Returns(v, "complete"))
    BY <2>4, <2>5, AlikeChain, AlikeLeads
  <2> QED BY <2>2, <2>3, <2>6
<1> HIDE DEF t
<1> QED BY <1>2, <1>3, <1>4, <1>5, <1>6 DEF Tasks, TaskKinds

LEMMA ExecTaskLeads ==
  ASSUME NEW w, Good(w), NEW ch \in Choices
  PROVE  Leads(w, ExecTask(w, ch))
<1>1. CASE w.conn.tasks = <<>>
  BY <1>1, GoodLeads DEF ExecTask
<1>2. CASE w.conn.tasks # <<>> /\ w.conn.error # "none"
  BY <1>2, RemoveTasksLeads DEF ExecTask
<1>3. CASE w.conn.tasks # <<>> /\ w.conn.error = "none" /\ Head(w.conn.tasks).running
  BY <1>3, GoodLeads DEF ExecTask
<1>4. CASE w.conn.tasks # <<>> /\ w.conn.error = "none" /\ ~Head(w.conn.tasks).running
  <2> DEFINE p == [w.conn.tasks[1] EXCEPT !.running = TRUE]
             w1 == [w EXCEPT !.conn.tasks = [@ EXCEPT ![1] = p]]
             goes == w.conn.cs # "none" \/ Head(w.conn.tasks).which = "connect"
             w2 == IF goes THEN Dispatch(w1, ch) ELSE Returns(RemoveTasks(w1), "complete")
             w3 == IF w2.ret = "complete" THEN RemoveTask(w2) ELSE w2
  <2>1. w3 = ExecTask(w, ch)
    BY <1>4 DEF ExecTask
  <2> HIDE DEF w3, w2, goes
  <2>2. w \in Worlds /\ Head(w.conn.tasks) \in Tasks /\ Head(w.conn.tasks) = w.conn.tasks[1]
    BY <1>4, GoodType, HeadType
  <2>3. p \in Tasks /\ p.which = Head(w.conn.tasks).which /\ p.rs = Head(w.conn.tasks).rs
    BY <2>2 DEF Tasks
  <2> HIDE DEF p
  <2>4. Alike(w, w1)
    BY <1>4, <2>2, <2>3, HeadAlike
  <2> HIDE DEF w1
  <2>5. Leads(w, w1) /\ Good(w1) /\ w1.conn.tasks # <<>>
    BY <1>4, <2>2, <2>4, AlikeLeads, LeadsType, AlikeEmpty
  <2>6. Leads(w1, Returns(RemoveTasks(w1), "complete"))
    <3> DEFINE x == RemoveTasks(w1)
    <3>1. Leads(w1, x)
      BY <2>5, RemoveTasksLeads
    <3> HIDE DEF x
    <3>2. Alike(x, Returns(x, "complete"))
      BY <3>1, LeadsType, ReturnAlike
    <3>3. Leads(w1, Returns(x, "complete"))
      BY <3>1, <3>2, LeadsAlike
    <3> QED BY <3>3 DEF x
  <2>7. Leads(w1, Dispatch(w1, ch))
    BY <2>5, DispatchLeads
  <2>8. Leads(w1, w2) /\ Good(w2)
    BY <2>6, <2>7, LeadsType DEF w2
  <2>9. Leads(w2, w3)
    BY <2>8, RemoveTaskLeads, GoodLeads DEF w3
  <2> QED BY <2>1, <2>5, <2>8, <2>9, LeadsChain
<1> QED BY <1>1, <1>2, <1>3, <1>4

-----------------------------------------------------------------------------
(* Answers.                                                                *)

Answers == [is : {"ok", "diag", "refused", "http", "decode", "redirect"}, hits : 0 .. MaxHits,
            n : Nat, close : BOOLEAN]

LEMMA FillType ==
  ASSUME NEW cache \in [Position -> Versions], NEW start, NEW n, NEW version \in Versions
  PROVE  Fill(cache, start, n, version) \in [Position -> Versions]
BY DEF Fill

LEMMA LeftType ==
  ASSUME NEW s \in Sets, NEW t \in Tasks, NEW n \in Nat
  PROVE  Left(s, t, n) \in Nat
BY ZoomAssumption DEF Left, Smaller, Sets, Tasks

LEMMA AddRecordsAlike ==
  ASSUME NEW w \in Worlds, w.conn.tasks # <<>>, Head(w.conn.tasks).which = "search",
         NEW n \in Nat, NEW version \in Versions, NEW empty \in BOOLEAN
  PROVE  Alike(w, AddRecords(w, n, version, empty))
<1> DEFINE t == Head(w.conn.tasks)
           s == w.sets[t.rs]
           cache == IF empty THEN Fill(s.cache, t.start, 1, MadeUp) ELSE Fill(s.cache, t.start, n, version)
           d == [s EXCEPT !.cache = cache]
           start == t.start + n
           count == IF empty THEN 0 ELSE Left(s, t, n)
           p == [t EXCEPT !.start = start, !.count = count]
           more == Events("record", IF empty THEN 1 ELSE n)
           u == [w EXCEPT !.sets[t.rs] = d]
           v == [u EXCEPT !.conn.tasks = [@ EXCEPT ![1] = p]]
           x == [v EXCEPT !.conn.events = w.conn.events \o more]
<1>1. t \in Tasks /\ t.rs \in ResultSet /\ s \in Sets /\ t.start \in Nat /\ s.cache \in [Position -> Versions]
  BY HeadType DEF Tasks, Sets
<1>2. x = AddRecords(w, n, version, empty)
  <2>1. AddRecords(w, n, version, empty) = [w EXCEPT !.sets[t.rs].cache = cache, !.conn.tasks[1] = p,
                                                     !.conn.events = @ \o more]
    BY DEF AddRecords
  <2> HIDE DEF cache, p, more, t
  <2> QED BY <2>1
<1> HIDE DEF x, v, u, p, d, t, s
<1>3. cache \in [Position -> Versions]
  <2>1. MadeUp \in Versions
    BY DEF MadeUp, Versions
  <2> QED BY <1>1, <2>1, FillType
<1> HIDE DEF cache
<1>4. d \in Sets /\ d.ref = s.ref /\ d.app = s.app
  BY <1>1, <1>3 DEF d, Sets
<1>5. Alike(w, u)
  BY <1>1, <1>4, SetAlike DEF s, u
<1>6. start \in Nat /\ count \in Nat
  <2>1. Left(s, t, n) \in Nat
    BY <1>1, LeftType
  <2>2. t.start + n \in Nat
    BY <1>1
  <2> QED BY <2>1, <2>2
<1> HIDE DEF start, count
<1>7. p \in Tasks /\ p.which = t.which /\ p.rs = t.rs
  BY <1>1, <1>6 DEF p, Tasks
<1>8. u \in Worlds /\ u.conn.tasks # <<>> /\ Head(u.conn.tasks).which = t.which /\ Head(u.conn.tasks).rs = t.rs
  BY <1>5, AlikeType, AlikeHead DEF t
<1>9. Alike(u, v)
  BY <1>7, <1>8, HeadAlike DEF v
<1>10. more \in Seq(EventKinds)
  BY EventsType
<1> HIDE DEF more
<1>11. Alike(v, x)
  <2>1. v.conn.events = w.conn.events
    <3>1. u.conn = w.conn
      BY DEF u, Worlds
    <3> QED BY <1>8, <3>1 DEF v, Worlds, Conns
  <2>2. x = [v EXCEPT !.conn.events = v.conn.events \o more]
    BY <2>1 DEF x
  <2> QED BY <1>9, <1>10, <2>2, AlikeType, EventsAlike
<1> QED BY <1>2, <1>5, <1>9, <1>11, AlikeChain

LEMMA HandleRecordsLeads ==
  ASSUME NEW w, Good(w), NEW a \in Answers, NEW version \in Versions, NEW present \in BOOLEAN
  PROVE  Leads(w, HandleRecords(w, a, version, present))
<1> DEFINE none == w.conn.tasks = <<>> \/ Head(w.conn.tasks).which # "search"
           e == SetError(w, "diag")
           empty == present /\ a.n = 0
<1>1. w \in Worlds /\ a.n \in Nat
  BY GoodType DEF Answers
<1>2. CASE none
  BY <1>2, GoodLeads DEF HandleRecords
<1>3. CASE ~none /\ a.is = "diag"
  <2>1. HandleRecords(w, a, version, present) = RemoveTasks(e)
    BY <1>3 DEF HandleRecords
  <2>2. Alike(w, e)
    BY <1>1, ErrorAlike DEF Errors
  <2> HIDE DEF e
  <2>3. Leads(w, e) /\ Good(e)
    BY <2>2, AlikeLeads, LeadsType
  <2>4. Leads(e, RemoveTasks(e))
    BY <2>3, RemoveTasksLeads
  <2> QED BY <2>1, <2>3, <2>4, LeadsChain
<1>4. CASE ~none /\ a.is # "diag"
  <2>1. HandleRecords(w, a, version, present) = AddRecords(w, a.n, version, empty)
    BY <1>4 DEF HandleRecords
  <2> HIDE DEF empty
  <2>2. empty \in BOOLEAN
    BY DEF empty
  <2>3. Alike(w, AddRecords(w, a.n, version, empty))
    BY <1>1, <1>4, <2>2, AddRecordsAlike
  <2> QED BY <2>1, <2>3, AlikeLeads
<1> QED BY <1>2, <1>3, <1>4

LEMMA FoundAlike ==
  ASSUME NEW w \in Worlds, NEW r \in ResultSet, NEW hits \in 0 .. MaxHits
  PROVE  Alike(w, Found(w, r, hits))
<1> DEFINE d == [w.sets[r] EXCEPT !.size = hits, !.live = TRUE]
<1>1. w.sets[r] \in Sets
  BY DEF Worlds
<1>2. d \in Sets /\ d.ref = w.sets[r].ref /\ d.app = w.sets[r].app
  BY <1>1 DEF Sets
<1>3. Found(w, r, hits) = [w EXCEPT !.sets[r] = d]
  BY DEF Found
<1> HIDE DEF d
<1> QED BY <1>2, <1>3, SetAlike

LEMMA HandleSearchResponseLeads ==
  ASSUME NEW w, Good(w), NEW a \in Answers, NEW version \in Versions
  PROVE  Leads(w, HandleSearchResponse(w, a, version))
<1> DEFINE none == w.conn.tasks = <<>> \/ Head(w.conn.tasks).which # "search"
           r == Head(w.conn.tasks).rs
           w1 == IF w.sets[r].live THEN w ELSE PutEvent(w, "search")
           v == Found(w1, r, a.hits)
<1>1. w \in Worlds /\ a.hits \in 0 .. MaxHits
  BY GoodType DEF Answers
<1>2. CASE none
  BY <1>2, GoodLeads DEF HandleSearchResponse
<1>3. CASE ~none
  <2>1. HandleSearchResponse(w, a, version) = HandleRecords(v, a, version, FALSE)
    BY <1>3 DEF HandleSearchResponse
  <2>2. r \in ResultSet
    BY <1>1, <1>3, HeadType
  <2>3. Alike(w, w1)
    <3>1. Alike(w, w) /\ Alike(w, PutEvent(w, "search"))
      BY <1>1, EventAlike DEF EventKinds, Alike
    <3> QED BY <3>1
  <2> HIDE DEF w1
  <2>4. Alike(w1, v)
    BY <1>1, <2>2, <2>3, AlikeType, FoundAlike
  <2> HIDE DEF v
  <2>5. Leads(w, v) /\ Good(v)
    BY <2>3, <2>4, AlikeChain, AlikeLeads, LeadsType
  <2>6. Leads(v, HandleRecords(v, a, version, FALSE))
    BY <2>5, HandleRecordsLeads
  <2> QED BY <2>1, <2>5, <2>6, LeadsChain
<1> QED BY <1>2, <1>3

LEMMA FinishLeads ==
  ASSUME NEW w, Good(w)
  PROVE  Leads(w, Finish(w))
BY RemoveTaskLeads, GoodLeads DEF Finish

LEMMA SortPresentLeads ==
  ASSUME NEW w, Good(w), NEW ch \in Choices
  PROVE  Leads(w, SortPresent(w, ch))
<1> DEFINE isSearch == w.conn.tasks # <<>> /\ Head(w.conn.tasks).which = "search"
           w1 == IF isSearch THEN SendSort(w, Head(w.conn.tasks).rs, ch) ELSE Returns(w, "complete")
<1>1. w \in Worlds
  BY GoodType
<1>2. ASSUME isSearch PROVE Leads(w, SendSort(w, Head(w.conn.tasks).rs, ch))
  <2>1. Head(w.conn.tasks).rs \in ResultSet
    BY <1>1, <1>2, HeadType
  <2> QED BY <2>1, SendSortLeads
<1>3. Leads(w, Returns(w, "complete"))
  BY <1>1, ReturnAlike, AlikeLeads
<1>4. Leads(w, w1) /\ Good(w1)
  <2>1. Leads(w, w1)
    BY <1>2, <1>3
  <2> HIDE DEF w1
  <2> QED BY <2>1, LeadsType
<1>5. SortPresent(w, ch) = w1 \/ SortPresent(w, ch) = Z3950Search(w1, ch)
  BY DEF SortPresent
<1> HIDE DEF w1
<1>6. Leads(w1, Z3950Search(w1, ch))
  BY <1>4, Z3950SearchLeads
<1> QED BY <1>4, <1>5, <1>6, LeadsChain

LEMMA NetAlike ==
  ASSUME NEW w \in Worlds, NEW k \in Nets, k.proto = w.net.proto
  PROVE  Alike(w, [w EXCEPT !.net = k])
BY DEF Worlds, Alike

LEMMA HandleInitLeads ==
  ASSUME NEW w, Good(w), NEW a \in Answers, NEW ch \in Choices
  PROVE  Leads(w, HandleInit(w, a, ch))
<1> DEFINE e == IF a.is = "diag" THEN "diag" ELSE "init"
           named == w.conn.named \/ w.net.named
           u == [w EXCEPT !.conn.named = named]
           k == [w.net EXCEPT !.inited = TRUE]
           w1 == [u EXCEPT !.net = k]
<1>1. w \in Worlds /\ e \in Errors \ {"none"} /\ named \in BOOLEAN
  BY GoodType DEF Errors, Worlds, Conns, Nets
<1>2. CASE a.is # "ok"
  <2>1. HandleInit(w, a, ch) = SetError(w, e)
    BY <1>2 DEF HandleInit
  <2> HIDE DEF e
  <2> QED BY <1>1, <2>1, ErrorAlike, AlikeLeads
<1>3. CASE a.is = "ok"
  <2>1. w1 = [w EXCEPT !.conn.named = @ \/ w.net.named, !.net.inited = TRUE]
    BY <1>1 DEF Worlds
  <2>2. HandleInit(w, a, ch) = Abort(w1) \/ HandleInit(w, a, ch) = ExecTask(RemoveTask(w1), ch)
    <3> HIDE DEF w1
    <3> QED BY <1>3, <2>1 DEF HandleInit
  <2> HIDE DEF named
  <2>3. Alike(w, u) /\ u.net = w.net
    BY <1>1, Fields DEF Worlds
  <2>4. k \in Nets /\ k.proto = w.net.proto
    BY <1>1 DEF Worlds, Nets
  <2> HIDE DEF u, k
  <2>5. Alike(u, w1)
    BY <2>3, <2>4, AlikeType, NetAlike
  <2> HIDE DEF w1
  <2>6. Leads(w, w1) /\ Good(w1) /\ w1 \in Worlds
    BY <2>3, <2>5, AlikeChain, AlikeLeads, LeadsType
  <2>7. Leads(w1, RemoveTask(w1)) /\ Good(RemoveTask(w1))
    BY <2>6, RemoveTaskLeads, LeadsType
  <2>8. Leads(w1, ExecTask(RemoveTask(w1), ch))
    BY <2>7, ExecTaskLeads, LeadsChain
  <2>9. Leads(w1, Abort(w1))
    BY <2>6, AbortAlike, AlikeLeads
  <2> QED BY <2>2, <2>6, <2>8, <2>9, LeadsChain
<1> QED BY <1>2, <1>3

LEMMA HandleApduLeads ==
  ASSUME NEW w, Good(w), NEW req \in Requests, NEW a \in Answers, NEW ch \in Choices
  PROVE  Leads(w, HandleApdu(w, req, a, ch))
<1> DEFINE w1 == Received(w)
           version == w.net.sets[IF req.name \in Name THEN req.name ELSE Default]
           served == [q |-> req.q, sorted |-> FALSE]
<1>1. w \in Worlds
  BY GoodType
<1>2. Alike(w, w1)
  BY <1>1, MaskAlike DEF Received
<1>3. version \in Versions /\ served \in Versions
  <2>1. w.net.sets \in [Name -> Versions] /\ req.q \in Int
    BY <1>1 DEF Worlds, Nets, Requests
  <2> QED BY <2>1, NameCount DEF Versions
<1> HIDE DEF w1
<1>4. Leads(w, w1) /\ Good(w1) /\ w1 \in Worlds
  BY <1>2, AlikeLeads, LeadsType
<1>5. CASE req.kind = "init"
  <2>1. HandleApdu(w, req, a, ch) = HandleInit(w1, a, ch)
    BY <1>5 DEF HandleApdu, w1
  <2> QED BY <1>4, <2>1, HandleInitLeads, LeadsChain
<1>6. CASE req.kind = "search"
  <2> DEFINE new == IF a.is = "ok" THEN served ELSE NoRecord
             k == [w1.net EXCEPT !.sets[req.name] = new]
             w2 == [w1 EXCEPT !.net = k]
             x == HandleSearchResponse(w2, a, served)
             y == SortPresent(x, ch)
  <2>1. HandleApdu(w, req, a, ch) = Finish(y)
    BY <1>6 DEF HandleApdu, w1
  <2>2. new \in Versions
    BY <1>3 DEF NoRecord, Versions
  <2> HIDE DEF new
  <2>3. k \in Nets /\ k.proto = w1.net.proto
    BY <1>4, <2>2 DEF Worlds, Nets
  <2> HIDE DEF k
  <2>4. Alike(w1, w2)
    BY <1>4, <2>3, NetAlike
  <2> HIDE DEF w2, served
  <2>5. Leads(w, w2) /\ Good(w2)
    BY <1>4, <2>4, LeadsAlike, LeadsType
  <2>6. Leads(w2, x) /\ Good(x)
    BY <1>3, <2>5, HandleSearchResponseLeads, LeadsType
  <2> HIDE DEF x
  <2>7. Leads(x, y) /\ Good(y)
    BY <2>6, SortPresentLeads, LeadsType
  <2> HIDE DEF y
  <2>8. Leads(y, Finish(y))
    BY <2>7, FinishLeads
  <2> QED BY <2>1, <2>5, <2>6, <2>7, <2>8, LeadsChain
<1>7. CASE req.kind = "present"
  <2> DEFINE x == HandleRecords(w1, a, version, TRUE)
             y == Z3950Search(x, ch)
  <2>1. HandleApdu(w, req, a, ch) = Finish(y)
    BY <1>7 DEF HandleApdu, w1
  <2> HIDE DEF version
  <2>2. Leads(w1, x) /\ Good(x)
    BY <1>3, <1>4, HandleRecordsLeads, LeadsType
  <2> HIDE DEF x
  <2>3. Leads(x, y) /\ Good(y)
    BY <2>2, Z3950SearchLeads, LeadsType
  <2> HIDE DEF y
  <2>4. Leads(y, Finish(y))
    BY <2>3, FinishLeads
  <2> QED BY <1>4, <2>1, <2>2, <2>3, <2>4, LeadsChain
<1>8. CASE req.kind = "sort"
  <2> DEFINE k == [w1.net EXCEPT !.sets[req.name].sorted = TRUE]
             good == [w1 EXCEPT !.net = k]
             e == SetError(w1, "diag")
             x == IF a.is = "ok" THEN good ELSE RemoveTasks(e)
             y == Z3950Search(x, ch)
  <2>1. HandleApdu(w, req, a, ch) = Finish(y)
    BY <1>8 DEF HandleApdu, w1
  <2>2. k \in Nets /\ k.proto = w1.net.proto
    <3>1. w1.net \in Nets
      BY <1>4 DEF Worlds
    <3>2. [w1.net.sets EXCEPT ![req.name].sorted = TRUE] \in [Name -> Versions]
      BY <3>1 DEF Nets, Versions
    <3> QED BY <3>1, <3>2 DEF Nets
  <2> HIDE DEF k
  <2>3. Alike(w1, good)
    BY <1>4, <2>2, NetAlike
  <2> HIDE DEF good
  <2>4. Alike(w1, e)
    BY <1>4, ErrorAlike DEF Errors
  <2> HIDE DEF e
  <2>5. Leads(w1, e) /\ Good(e)
    BY <1>4, <2>4, AlikeLeads, LeadsType
  <2>6. Leads(w1, RemoveTasks(e))
    BY <2>5, RemoveTasksLeads, LeadsChain
  <2>7. Leads(w1, x)
    BY <1>4, <2>3, <2>6, AlikeLeads
  <2> HIDE DEF x
  <2>8. Leads(x, y) /\ Good(y)
    BY <2>7, LeadsType, Z3950SearchLeads
  <2> HIDE DEF y
  <2>9. Leads(y, Finish(y))
    BY <2>8, FinishLeads
  <2> QED BY <1>4, <2>1, <2>7, <2>8, <2>9, LeadsChain
<1>9. CASE req.kind \in {"scan", "package", "none"}
  <2> DEFINE e == SetError(w1, "diag")
             x == IF a.is = "ok" THEN w1 ELSE e
  <2>1. HandleApdu(w, req, a, ch) = RemoveTask(x) \/ HandleApdu(w, req, a, ch) = Abort(w1)
    BY <1>9 DEF HandleApdu, w1
  <2>2. Leads(w1, e) /\ Leads(w1, w1) /\ Leads(w1, Abort(w1))
    BY <1>4, ErrorAlike, AbortAlike, AlikeLeads, GoodLeads DEF Errors
  <2> HIDE DEF e
  <2>3. Leads(w1, x)
    BY <2>2
  <2> HIDE DEF x
  <2>4. Leads(x, RemoveTask(x))
    BY <2>3, LeadsType, RemoveTaskLeads
  <2> QED BY <1>4, <2>1, <2>2, <2>3, <2>4, LeadsChain
<1> QED BY <1>5, <1>6, <1>7, <1>8, <1>9 DEF Requests

LEMMA AddSrwRecordsAlike ==
  ASSUME NEW w \in Worlds, w.conn.tasks # <<>>, Head(w.conn.tasks).rs \in ResultSet,
         NEW n \in Nat, NEW q \in Int
  PROVE  Alike(w, AddSrwRecords(w, n, q))
<1> DEFINE t == Head(w.conn.tasks)
           s == w.sets[t.rs]
           fresh == {p \in t.start .. t.start + n - 1 : p \in Position /\ s.cache[p] = NoRecord}
           cache == [p \in Position |-> IF p \in fresh THEN [q |-> q, sorted |-> FALSE] ELSE s.cache[p]]
           d == [s EXCEPT !.cache = cache]
           start == t.start + n
           count == IF t.count < n THEN 0 ELSE t.count - n
           z == [t EXCEPT !.start = start, !.count = count]
           more == Events("record", n)
           u == [w EXCEPT !.sets[t.rs] = d]
           v == [u EXCEPT !.conn.tasks = [@ EXCEPT ![1] = z]]
           x == [v EXCEPT !.conn.events = w.conn.events \o more]
<1>1. t \in Tasks /\ t.start \in Nat /\ t.count \in Nat
  BY HeadType DEF Tasks
<1>2. s \in Sets /\ s.cache \in [Position -> Versions]
  BY DEF Worlds, Sets
<1>3. x = AddSrwRecords(w, n, q)
  <2>1. z = [t EXCEPT !.start = @ + n, !.count = IF @ < n THEN 0 ELSE @ - n]
    BY <1>1 DEF Tasks
  <2> HIDE DEF z
  <2> QED BY <2>1 DEF AddSrwRecords
<1> HIDE DEF x, v, u, z, d, t, s
<1>4. cache \in [Position -> Versions]
  <2>1. [q |-> q, sorted |-> FALSE] \in Versions
    BY DEF Versions
  <2> HIDE DEF fresh
  <2> QED BY <1>2, <2>1
<1> HIDE DEF cache
<1>5. d \in Sets /\ d.ref = s.ref /\ d.app = s.app
  BY <1>2, <1>4 DEF d, Sets
<1>6. Alike(w, u)
  BY <1>5, SetAlike DEF s, t, u
<1>7. start \in Nat /\ count \in Nat
  BY <1>1
<1> HIDE DEF start, count
<1>8. z \in Tasks /\ z.which = t.which /\ z.rs = t.rs
  BY <1>1, <1>7 DEF z, Tasks
<1>9. u \in Worlds /\ u.conn.tasks # <<>> /\ Head(u.conn.tasks).which = t.which /\ Head(u.conn.tasks).rs = t.rs
  BY <1>6, AlikeType, AlikeHead DEF t
<1>10. Alike(u, v)
  BY <1>8, <1>9, HeadAlike DEF v
<1>11. more \in Seq(EventKinds)
  BY EventsType
<1> HIDE DEF more
<1>12. Alike(v, x)
  <2>1. v.conn.events = w.conn.events
    <3>1. u.conn = w.conn
      BY DEF u, Worlds
    <3> QED BY <1>9, <3>1 DEF v, Worlds, Conns
  <2>2. x = [v EXCEPT !.conn.events = v.conn.events \o more]
    BY <2>1 DEF x
  <2> QED BY <1>10, <1>11, <2>2, AlikeType, EventsAlike
<1> QED BY <1>3, <1>6, <1>10, <1>12, AlikeChain

LEMMA HandleSrwLeads ==
  ASSUME NEW w, Good(w), NEW req \in Requests, NEW a \in Answers, NEW ch \in Choices,
         w.net.proto = "http"
  PROVE  Leads(w, HandleSrw(w, req, a, ch))
<1> DEFINE t == Head(w.conn.tasks)
           u == IF w.sets[t.rs].live THEN w ELSE PutEvent(w, "search")
           w1 == Found(u, t.rs, IF a.is = "ok" THEN a.hits ELSE 0)
           mine == w.conn.tasks # <<>> /\ t.which = req.kind
           e == SetError(w, "diag")
<1>1. w \in Worlds
  BY GoodType
<1>2. CASE ~mine
  <2>1. HandleSrw(w, req, a, ch) = Returns(w, "complete")
    BY <1>2 DEF HandleSrw
  <2> QED BY <1>1, <2>1, ReturnAlike, AlikeLeads
<1>3. CASE mine /\ req.kind = "scan"
  <2> DEFINE x == IF a.is = "ok" THEN w ELSE e
  <2>1. HandleSrw(w, req, a, ch) = Returns(x, "complete")
    BY <1>3 DEF HandleSrw
  <2>2. Leads(w, x)
    BY <1>1, ErrorAlike, AlikeLeads, GoodLeads DEF Errors
  <2> HIDE DEF x
  <2>3. Alike(x, Returns(x, "complete"))
    BY <2>2, LeadsType, ReturnAlike
  <2> QED BY <2>1, <2>2, <2>3, LeadsAlike
<1>4. CASE mine /\ req.kind # "scan"
  <2> DEFINE f == SetError(w1, "diag")
             v == AddSrwRecords(w1, a.n, req.q)
  <2>1. HandleSrw(w, req, a, ch) = Returns(f, "complete") \/ HandleSrw(w, req, a, ch) = SrwSendSearch(v, ch)
    BY <1>4 DEF HandleSrw
  <2>2. t.rs \in ResultSet
    <3>1. t \in Tasks /\ t = w.conn.tasks[1] /\ 1 \in DOMAIN w.conn.tasks
      BY <1>1, <1>4, HeadType
    <3>2. t.which # "package"
      BY <3>1 DEF Good, NoExtras
    <3>3. t.which \in {"search", "sort"}
      <4>1. t.which \in TaskKinds
        BY <3>1 DEF Tasks
      <4>2. req.kind \in {"none", "init", "search", "present", "sort", "scan", "package"}
        BY DEF Requests
      <4> QED BY <1>4, <3>2, <4>1, <4>2 DEF TaskKinds
    <3> QED BY <1>1, <1>4, <3>3, HeadType
  <2>3. Alike(w, u)
    <3>1. Alike(w, w) /\ Alike(w, PutEvent(w, "search"))
      BY <1>1, EventAlike DEF EventKinds, Alike
    <3> QED BY <3>1
  <2> HIDE DEF u
  <2>4. (IF a.is = "ok" THEN a.hits ELSE 0) \in 0 .. MaxHits /\ a.n \in Nat /\ req.q \in Int
    BY ZoomAssumption DEF Answers, Requests
  <2>5. Alike(u, w1)
    BY <2>2, <2>3, <2>4, AlikeType, FoundAlike
  <2> HIDE DEF w1
  <2>6. Alike(w, w1) /\ w1 \in Worlds
    BY <2>3, <2>5, AlikeChain, AlikeType
  <2>7. Leads(w, w1) /\ w1.conn.tasks # <<>> /\ Head(w1.conn.tasks).rs = t.rs
    BY <1>1, <1>4, <2>6, AlikeLeads, AlikeHead
  <2>8. Leads(w1, Returns(f, "complete"))
    <3>1. Alike(w1, f)
      BY <2>6, ErrorAlike DEF Errors
    <3> HIDE DEF f
    <3>2. Alike(f, Returns(f, "complete"))
      BY <3>1, AlikeType, ReturnAlike
    <3> QED BY <2>7, <3>1, <3>2, LeadsType, AlikeChain, AlikeLeads
  <2>9. Alike(w1, v)
    BY <2>2, <2>4, <2>6, <2>7, AddSrwRecordsAlike
  <2> HIDE DEF v
  <2>10. Leads(w1, v) /\ Good(v) /\ v.conn.tasks # <<>>
    BY <2>6, <2>7, <2>9, LeadsType, AlikeLeads, AlikeEmpty
  <2>11. Leads(v, SrwSendSearch(v, ch))
    BY <2>10, SrwSendSearchLeads
  <2> QED BY <2>1, <2>7, <2>8, <2>10, <2>11, LeadsChain
<1> QED BY <1>2, <1>3, <1>4

LEMMA EndHttpLeads ==
  ASSUME NEW w, Good(w), NEW e \in {"none", "http", "decode"}, NEW complete \in BOOLEAN, NEW mustClose \in BOOLEAN
  PROVE  Leads(w, EndHttp(w, e, complete, mustClose))
<1> DEFINE f == SetError(w, e)
           w1 == IF e = "none" THEN w ELSE Close(f)
           w2 == IF complete THEN RemoveTask(w1) ELSE w1
           w3 == Close(w2)
           x == [w2 EXCEPT !.conn.reconnect = TRUE]
<1>1. Leads(w, w1)
  <2>1. CASE e = "none"
    BY <2>1, GoodLeads
  <2>2. CASE e # "none"
    <3>1. Alike(w, f)
      BY <2>2, GoodType, ErrorAlike DEF Errors
    <3> HIDE DEF f
    <3>2. Alike(f, Close(f))
      BY <3>1, AlikeType, CloseAlike
    <3> QED BY <2>2, <3>1, <3>2, AlikeChain, AlikeLeads
  <2> QED BY <2>1, <2>2
<1> HIDE DEF w1
<1>2. Leads(w1, w2) /\ w2 \in Worlds
  <2>1. Leads(w1, w2)
    BY <1>1, LeadsType, RemoveTaskLeads, GoodLeads
  <2> HIDE DEF w2
  <2> QED BY <2>1, LeadsType
<1>3. EndHttp(w, e, complete, mustClose) \in {x, w3, Resume(w3)}
      /\ (EndHttp(w, e, complete, mustClose) = Resume(w3) => w3.conn.tasks # <<>> \/ Resume(w3) \in {x, w3})
  BY DEF EndHttp, w1
<1> HIDE DEF w2
<1>4. Leads(w, w2)
  BY <1>1, <1>2, LeadsChain
<1>5. Alike(w2, x) /\ Alike(w2, w3)
  BY <1>2, Fields, CloseAlike
<1> HIDE DEF x, w3
<1>6. Leads(w, x) /\ Leads(w, w3) /\ Good(w3)
  BY <1>4, <1>5, LeadsAlike, LeadsType
<1>7. CASE w3.conn.tasks # <<>>
  <2>1. Leads(w3, Resume(w3))
    BY <1>6, <1>7, ResumeLeads
  <2> QED BY <1>3, <1>6, <2>1, LeadsChain
<1>8. CASE w3.conn.tasks = <<>>
  BY <1>3, <1>6, <1>8
<1> QED BY <1>7, <1>8

LEMMA HandleHttpLeads ==
  ASSUME NEW w, Good(w), NEW req \in Requests, NEW a \in Answers, a.is # "refused", NEW ch \in Choices,
         w.net.proto = "http"
  PROVE  Leads(w, HandleHttp(w, req, a, ch))
<1> DEFINE v == Received(w)
           w1 == [v EXCEPT !.conn.redirects = 0]
           body == HandleSrw(w1, req, a, ch)
<1>1. w \in Worlds /\ w.conn.redirects \in Nat /\ a.close \in BOOLEAN
  BY GoodType DEF Worlds, Conns, Answers
<1>2. Alike(w, v)
  BY <1>1, MaskAlike DEF Received
<1> HIDE DEF v
<1>3. Alike(v, w1)
  BY <1>2, AlikeType, Fields
<1> HIDE DEF w1
<1>4. Leads(w, w1) /\ Good(w1) /\ w1.net.proto = "http"
  BY <1>2, <1>3, AlikeChain, AlikeLeads, LeadsType DEF Leads
<1>5. CASE a.is = "redirect" /\ w.conn.redirects < MaxRedirects
  <2> DEFINE k == w.conn.redirects + 1
             x == [w1 EXCEPT !.conn.redirects = k]
             y == [x EXCEPT !.conn.location = req]
  <2>1. HandleHttp(w, req, a, ch) = DoConnect(y, ch)
    <3>1. ~(w.conn.redirects >= MaxRedirects)
      BY <1>1, <1>5, ZoomAssumption
    <3> QED BY <1>5, <3>1 DEF HandleHttp, w1, v
  <2>2. k \in Nat
    BY <1>1
  <2> HIDE DEF k
  <2>3. Alike(w1, x)
    BY <1>4, <2>2, GoodType, Fields
  <2> HIDE DEF x
  <2>4. Alike(x, y)
    BY <2>3, AlikeType, Fields
  <2> HIDE DEF y
  <2>5. Leads(w1, y) /\ Good(y)
    BY <1>4, <2>3, <2>4, AlikeChain, AlikeLeads, LeadsType
  <2>6. Leads(y, DoConnect(y, ch))
    BY <2>5, DoConnectLeads
  <2> QED BY <1>4, <2>1, <2>5, <2>6, LeadsChain
<1>6. CASE a.is = "redirect" /\ ~(w.conn.redirects < MaxRedirects)
  <2>1. HandleHttp(w, req, a, ch) = EndHttp(w1, "http", TRUE, a.close)
    <3>1. w.conn.redirects >= MaxRedirects
      BY <1>1, <1>6, ZoomAssumption
    <3> QED BY <1>6, <3>1 DEF HandleHttp, w1, v
  <2> QED BY <1>1, <1>4, <2>1, EndHttpLeads, LeadsChain
<1>7. CASE a.is \in {"http", "decode"}
  <2>1. HandleHttp(w, req, a, ch) = EndHttp(w1, a.is, TRUE, a.close)
    BY <1>7 DEF HandleHttp, w1, v
  <2> QED BY <1>1, <1>4, <1>7, <2>1, EndHttpLeads, LeadsChain
<1>8. CASE a.is \in {"ok", "diag"}
  <2> DEFINE x == IF w.conn.redirects > 0 THEN Close(body) ELSE body
             complete == body.ret = "complete"
  <2>1. HandleHttp(w, req, a, ch) = EndHttp(x, "none", complete, a.close)
    BY <1>8 DEF HandleHttp, w1, v
  <2>2. complete \in BOOLEAN
    OBVIOUS
  <2> HIDE DEF complete
  <2>3. Leads(w1, body) /\ Good(body) /\ body \in Worlds
    BY <1>4, HandleSrwLeads, LeadsType
  <2> HIDE DEF body
  <2>4. Leads(w1, x)
    BY <2>3, CloseAlike, LeadsAlike
  <2> HIDE DEF x
  <2>5. Leads(x, EndHttp(x, "none", complete, a.close))
    BY <1>1, <2>2, <2>4, LeadsType, EndHttpLeads
  <2> QED BY <1>4, <2>1, <2>4, <2>5, LeadsChain
<1> QED BY <1>5, <1>6, <1>7, <1>8 DEF Answers

-----------------------------------------------------------------------------
(* Calls of the application.                                               *)

\* What a call may do: the references are counted, and an error that is
\* sticky stays.
Calls(w, v) ==
  Good(v) /\ (w.conn.error \in Sticky => v.conn.error = w.conn.error) /\ v.net.proto = w.net.proto

ClearedAlike(w, v) ==
  /\ v \in Worlds /\ (w.conn.error \in Sticky => v.conn.error = w.conn.error) /\ v.net = w.net
  /\ v.conn.tasks = w.conn.tasks /\ v.sets = w.sets

LEMMA ClearErrorType ==
  ASSUME NEW w \in Worlds
  PROVE  ClearedAlike(w, ClearError(w))
<1> DEFINE e == IF w.conn.error \in Sticky THEN w.conn.error ELSE "none"
           d == [w.conn EXCEPT !.events = <<>>, !.error = e]
           v == [w EXCEPT !.conn = d]
<1>1. e \in Errors /\ <<>> \in Seq(EventKinds) /\ w.conn \in Conns
  BY DEF Errors, Sticky, Worlds
<1>2. ClearError(w) = v
  BY <1>1 DEF ClearError, Worlds, Conns
<1>3. w.conn.error \in Sticky => e = w.conn.error
  OBVIOUS
<1> HIDE DEF e
<1>4. d \in Conns /\ d.tasks = w.conn.tasks /\ d.error = e
  BY <1>1 DEF Conns
<1> HIDE DEF d
<1>5. ClearedAlike(w, v)
  BY <1>3, <1>4 DEF Worlds, ClearedAlike
<1> HIDE DEF v
<1> QED BY <1>2, <1>5

\* A task is added; the set it names gets one reference more.
LEMMA AddTaskType ==
  ASSUME NEW w, Good(w), NEW t \in Tasks, t.which \in {"package", "sort"} => w.net.proto = "z3950"
  PROVE  LET v == AddTask(w, t)
         IN  /\ v \in Worlds /\ NoExtras(v) /\ v.net = w.net /\ v.sets = w.sets
             /\ w.conn.error \in Sticky => v.conn.error = w.conn.error
             /\ \A r \in ResultSet :
                  v.sets[r].ref + Once(t.rs = r) = Once(v.sets[r].app) + Naming(v.conn.tasks, r)
<1> DEFINE new == Append(w.conn.tasks, t)
           c == [w.conn EXCEPT !.tasks = new]
           u == [w EXCEPT !.conn = c]
           v == AddTask(w, t)
<1>1. w \in Worlds /\ w.conn.tasks \in Seq(Tasks)
  BY GoodType DEF Worlds, Conns
<1>2. new \in Seq(Tasks) /\ \A i \in DOMAIN new : new[i] = t \/ \E j \in DOMAIN w.conn.tasks : new[i] = w.conn.tasks[j]
  BY <1>1
<1>3. \A r \in ResultSet : Naming(new, r) = Naming(w.conn.tasks, r) + Once(t.rs = r)
  BY <1>1, NamingAppend
<1>4. v = ClearError(u)
  BY DEF AddTask
<1> HIDE DEF new
<1>5. c \in Conns /\ c.tasks = new /\ c.error = w.conn.error
  BY <1>1, <1>2 DEF Worlds, Conns
<1> HIDE DEF c
<1>6. u \in Worlds /\ u.conn = c /\ u.sets = w.sets /\ u.net = w.net
  BY <1>1, <1>5 DEF Worlds
<1> HIDE DEF u, v
<1>7. ClearedAlike(u, v)
  BY <1>4, <1>6, ClearErrorType
<1>8. v \in Worlds /\ v.net = w.net /\ v.sets = w.sets /\ v.conn.tasks = new
      /\ (w.conn.error \in Sticky => v.conn.error = w.conn.error)
  BY <1>5, <1>6, <1>7 DEF ClearedAlike
<1>9. NoExtras(v)
  BY <1>2, <1>8 DEF Good, NoExtras
<1>10. ASSUME NEW r \in ResultSet
       PROVE  v.sets[r].ref + Once(t.rs = r) = Once(v.sets[r].app) + Naming(v.conn.tasks, r)
  <2>1. w.sets[r].ref = Once(w.sets[r].app) + Naming(w.conn.tasks, r) /\ Naming(w.conn.tasks, r) \in Nat
    BY <1>1, PlacesFinite DEF Good, RefsOK
  <2> QED BY <1>3, <1>8, <2>1 DEF Once
<1> QED BY <1>8, <1>9, <1>10 DEF v

LEMMA AddPlain ==
  ASSUME NEW w, Good(w), NEW which \in {"connect", "scan", "package"}, which = "package" => w.net.proto = "z3950"
  PROVE  Calls(w, AddTask(w, Plain(which)))
<1> DEFINE t == Plain(which)
           v == AddTask(w, t)
<1>1. t \in Tasks /\ t.which = which /\ t.rs = NoSet
  BY PlainTask
<1> HIDE DEF t
<1>2. v \in Worlds /\ NoExtras(v) /\ v.net = w.net /\ (w.conn.error \in Sticky => v.conn.error = w.conn.error)
      /\ \A r \in ResultSet : v.sets[r].ref + Once(t.rs = r) = Once(v.sets[r].app) + Naming(v.conn.tasks, r)
  BY <1>1, AddTaskType
<1> HIDE DEF v
<1>3. ASSUME NEW r \in ResultSet PROVE v.sets[r].ref = Once(v.sets[r].app) + Naming(v.conn.tasks, r)
  <2>1. Once(t.rs = r) = 0 /\ v.sets[r].ref \in Nat
    BY <1>1, <1>2, ZoomAssumption DEF Once, Worlds, Sets
  <2> QED BY <1>2, <2>1
<1>4. Calls(w, v)
  BY <1>2, <1>3 DEF Calls, Good, RefsOK
<1> QED BY <1>4 DEF v, t

LEMMA AddNaming ==
  ASSUME NEW w, Good(w), NEW o \in ResultSet, NEW which \in {"search", "sort"}, NEW start \in Nat, NEW count \in Nat,
         which = "sort" => w.net.proto = "z3950"
  PROVE  Calls(w, Addref(AddTask(w, Task(which, o, start, count)), o))
<1> DEFINE t == Task(which, o, start, count)
           u == AddTask(w, t)
           n == u.sets[o].ref + 1
           d == [u.sets[o] EXCEPT !.ref = n]
           v == [u EXCEPT !.sets[o] = d]
<1>1. t \in Tasks /\ t.which = which /\ t.rs = o
  BY DEF Task, Tasks, TaskKinds
<1> HIDE DEF t
<1>2. u \in Worlds /\ NoExtras(u) /\ u.net = w.net /\ (w.conn.error \in Sticky => u.conn.error = w.conn.error)
      /\ \A r \in ResultSet : u.sets[r].ref + Once(t.rs = r) = Once(u.sets[r].app) + Naming(u.conn.tasks, r)
  BY <1>1, AddTaskType
<1>3. v = Addref(u, o)
  BY DEF Addref
<1> HIDE DEF u
<1>4. u.sets[o] \in Sets /\ n \in Nat
  BY <1>2 DEF Worlds, Sets
<1>5. d \in Sets /\ d.ref = n /\ d.app = u.sets[o].app
  <2> HIDE DEF n
  <2> QED BY <1>4 DEF Sets
<1> HIDE DEF d
<1>6. v \in Worlds /\ v.conn = u.conn /\ v.net = u.net
      /\ \A r \in ResultSet : v.sets[r] = IF r = o THEN d ELSE u.sets[r]
  BY <1>2, <1>5 DEF Worlds
<1> HIDE DEF v
<1>7. ASSUME NEW r \in ResultSet PROVE v.sets[r].ref = Once(v.sets[r].app) + Naming(v.conn.tasks, r)
  <2>1. u.sets[r].ref \in Nat /\ u.conn.tasks \in Seq(Tasks)
    BY <1>2 DEF Worlds, Sets, Conns
  <2>2. Naming(u.conn.tasks, r) \in Nat
    BY <2>1, PlacesFinite
  <2>3. u.sets[r].ref + Once(t.rs = r) = Once(u.sets[r].app) + Naming(u.conn.tasks, r)
    BY <1>2
  <2>4. CASE r = o
    BY <1>1, <1>5, <1>6, <2>1, <2>2, <2>3, <2>4 DEF Once
  <2>5. CASE r # o
    BY <1>1, <1>6, <2>1, <2>2, <2>3, <2>5 DEF Once
  <2> QED BY <2>4, <2>5
<1>8. NoExtras(v)
  BY <1>2, <1>6 DEF NoExtras
<1>9. Calls(w, v)
  BY <1>2, <1>6, <1>7, <1>8 DEF Calls, Good, RefsOK
<1> QED BY <1>3, <1>9 DEF u, t

-----------------------------------------------------------------------------
(* The steps.                                                              *)

\* What the server may answer.
LEMMA AnswersType ==
  ASSUME NEW req \in Requests
  PROVE  /\ Z3950Answers(req) \subseteq Answers
         /\ \A a \in HttpAnswers(req) : a \in Answers /\ a.is # "refused"
<1>1. MaxHits \in Nat
  BY ZoomAssumption
<1>2. \A is \in {"ok", "diag", "refused", "http", "decode", "redirect"}, h \in 0 .. MaxHits, n \in Nat :
         Answer(is, h, n) \in Answers /\ Answer(is, h, n).is = is
  BY DEF Answer, Answers
<1>3. ASSUME NEW a \in Z3950Answers(req) PROVE a \in Answers
  <2>1. a = Answer("diag", 0, 0) \/ a = Answer("refused", 0, 0) \/ a = Answer("ok", 0, 0)
        \/ (\E h \in 0 .. MaxHits, n \in 0 .. req.num : a = Answer("ok", h, n))
        \/ (\E n \in 0 .. req.num : a = Answer("ok", 0, n))
    BY <1>3 DEF Z3950Answers, Requests
  <2>2. req.num \in Int /\ 0 \in 0 .. MaxHits
    BY <1>1 DEF Requests
  <2>3. 0 .. req.num \subseteq Nat
    BY <2>2
  <2> QED BY <1>2, <2>1, <2>2, <2>3
<1>4. ASSUME NEW a \in HttpAnswers(req) PROVE a \in Answers /\ a.is # "refused"
  <2>1. PICK b, c :
          /\ b \in BOOLEAN
          /\ a = [c EXCEPT !.close = b]
          /\ \/ \E h \in 0 .. MaxHits, n \in 0 .. MaxHits : c = Answer("ok", h, n)
             \/ \E is \in {"diag", "http", "decode", "redirect"} : c = Answer(is, 0, 0)
    BY <1>4 DEF HttpAnswers
  <2>2. c \in Answers /\ c.is # "refused"
    BY <1>1, <1>2, <2>1
  <2> QED BY <2>1, <2>2 DEF Answers
<1> QED BY <1>3, <1>4

LEMMA BecomeLeads ==
  ASSUME NEW w, Leads(W, w), Become(w)
  PROVE  Leads(W, W')
<1>1. w \in Worlds
  BY LeadsType
<1>2. W' = Returns(w, "none")
  BY <1>1 DEF W, Become, Returns, Worlds
<1>3. Alike(w, Returns(w, "none"))
  BY <1>1, ReturnAlike
<1> QED BY <1>2, <1>3, LeadsAlike

LEMMA ChoiceType == Choice \subseteq Choices
BY DEF Choice

LEMMA RunTaskLeads ==
  ASSUME Good(W), RunTask
  PROVE  Leads(W, W')
<1>1. PICK ch \in Choices : Become(ExecTask(W, ch))
  BY ChoiceType DEF RunTask
<1>2. Leads(W, ExecTask(W, ch))
  BY ExecTaskLeads
<1> QED BY <1>1, <1>2, BecomeLeads

LEMMA GetEventLeads ==
  ASSUME Good(W), GetEvent
  PROVE  Leads(W, W')
<1> DEFINE rest == Tail(conn.events)
           d == [W.conn EXCEPT !.events = rest]
           v == [W EXCEPT !.conn = d]
<1>1. W \in Worlds /\ W.conn \in Conns /\ conn.events \in Seq(EventKinds) /\ conn.events # <<>>
  BY GoodType DEF GetEvent, W, Worlds, Conns
<1>2. rest \in Seq(EventKinds)
  BY <1>1
<1>3. Become(v)
  BY DEF GetEvent, W
<1> HIDE DEF rest
<1>4. d \in Conns /\ d.tasks = W.conn.tasks /\ d.error = W.conn.error
  BY <1>1, <1>2 DEF Conns
<1> HIDE DEF d
<1>5. Alike(W, v)
  BY <1>1, <1>4, ConnAlike
<1> HIDE DEF v
<1> QED BY <1>3, <1>5, AlikeLeads, BecomeLeads

LEMMA ConnectedLeads ==
  ASSUME Good(W), Connected
  PROVE  Leads(W, W')
<1> DEFINE u == [W EXCEPT !.conn.cs = "data"]
           w == PutEvent(u, "connect")
           isConnect == conn.tasks # <<>> /\ Head(conn.tasks).which = "connect"
           w1 == IF isConnect THEN SetMask(RemoveTask(w), {}) ELSE w
<1>1. Alike(W, u)
  BY GoodType, Fields
<1>2. Alike(u, w)
  BY <1>1, AlikeType, EventAlike DEF EventKinds
<1>3. Leads(W, w) /\ Good(w)
  BY <1>1, <1>2, AlikeLeads, LeadsAlike, LeadsType
<1>4. PICK ch \in Choices :
        LET w2 == CASE conn.proto = "z3950" -> SendInit(w, ch)
                    [] conn.proto = "http" /\ conn.tasks = <<>> -> Abort(w)
                    [] conn.proto = "http" /\ conn.tasks # <<>>
                         /\ conn.location # NoRequest ->
                         Send([w1 EXCEPT !.conn.location = NoRequest],
                              conn.location, ch)
                    [] conn.proto = "http" /\ conn.tasks # <<>>
                         /\ conn.location = NoRequest -> ExecTask(w1, ch)
        IN  Become(IF w2.conn.cs # "data" THEN w2
                   ELSE [w2 EXCEPT !.conn.state = "established"])
  BY ChoiceType, Zenon DEF Connected
<1> HIDE DEF w
<1>5. Leads(W, w1)
  <2>1. Leads(w, RemoveTask(w)) /\ RemoveTask(w) \in Worlds
    BY <1>3, RemoveTaskLeads, LeadsType
  <2>2. Alike(RemoveTask(w), SetMask(RemoveTask(w), {}))
    BY <2>1, MaskAlike
  <2> QED BY <1>3, <2>1, <2>2, LeadsAlike, LeadsChain
<1> HIDE DEF w1
<1>6. Good(w1) /\ w1 \in Worlds
  BY <1>5, LeadsType
<1>7. conn.proto \in {"z3950", "http"} /\ conn.location \in Requests
  BY GoodType DEF W, Worlds, Conns
<1>8. PICK w2 : /\ Become(IF w2.conn.cs # "data" THEN w2 ELSE [w2 EXCEPT !.conn.state = "established"])
                /\ \/ w2 = SendInit(w, ch)
                   \/ w2 = Abort(w)
                   \/ w2 = Send([w1 EXCEPT !.conn.location = NoRequest], conn.location, ch)
                   \/ w2 = ExecTask(w1, ch)
  BY <1>4, <1>7
<1>9. Leads(W, w2)
  <2>1. Leads(W, SendInit(w, ch))
    BY <1>3, SendInitLeads, LeadsChain
  <2>2. Leads(W, Abort(w))
    BY <1>3, GoodType, AbortAlike, LeadsAlike
  <2>3. Leads(W, ExecTask(w1, ch))
    BY <1>5, <1>6, ExecTaskLeads, LeadsChain
  <2>4. Leads(W, Send([w1 EXCEPT !.conn.location = NoRequest], conn.location, ch))
    <3> DEFINE x == [w1 EXCEPT !.conn.location = NoRequest]
    <3>1. Alike(w1, x)
      BY <1>6, NothingAsked, Fields
    <3> HIDE DEF x
    <3>2. Leads(W, x) /\ Good(x)
      BY <1>5, <3>1, LeadsAlike, LeadsType
    <3>3. Leads(x, Send(x, conn.location, ch))
      BY <1>7, <3>2, SendLeads
    <3> QED BY <3>2, <3>3, LeadsChain DEF x
  <2> QED BY <1>8, <2>1, <2>2, <2>3, <2>4
<1>10. Alike(w2, [w2 EXCEPT !.conn.state = "established"])
  BY <1>9, LeadsType, Fields
<1>11. Leads(W, [w2 EXCEPT !.conn.state = "established"])
  BY <1>9, <1>10, LeadsAlike
<1> QED BY <1>8, <1>9, <1>11, BecomeLeads

LEMMA AnsweredLeads ==
  ASSUME Good(W), Answered
  PROVE  Leads(W, W')
<1> DEFINE req == Head(net.wire)
           rest == Tail(net.wire)
           more == <<"recv_data", "recv_apdu">>
           k == [W.net EXCEPT !.wire = rest]
           u == [W EXCEPT !.net = k]
           w == [u EXCEPT !.conn.events = @ \o more]
<1>1. W \in Worlds /\ W.net = net /\ net \in Nets /\ net.wire \in Seq(Requests) /\ net.wire # <<>>
  BY GoodType DEF Answered, W, Worlds, Nets
<1>2. req \in Requests /\ rest \in Seq(Requests)
  BY <1>1
<1>3. more \in Seq(EventKinds)
  BY DEF EventKinds
<1>4. w = [W EXCEPT !.net.wire = Tail(@), !.conn.events = @ \o <<"recv_data", "recv_apdu">>]
  BY <1>1 DEF W
<1>5. \E ch \in Choices :
        IF net.proto = "z3950"
        THEN \E a \in Z3950Answers(req) : Become(HandleApdu(w, req, a, ch))
        ELSE \E a \in HttpAnswers(req) : Become(HandleHttp(w, req, a, ch))
  <2> HIDE DEF u
  <2> QED BY <1>4, ChoiceType DEF Answered
<1> HIDE DEF rest, more, req
<1>6. k \in Nets /\ k.proto = W.net.proto
  BY <1>1, <1>2 DEF Nets
<1> HIDE DEF k
<1>7. Alike(W, u) /\ u.net.proto = net.proto
  BY <1>1, <1>6, NetAlike DEF Worlds
<1> HIDE DEF u
<1>8. Alike(u, w)
  BY <1>3, <1>7, AlikeType, EventsAlike
<1>9. w.net.proto = net.proto
  BY <1>7, <1>8 DEF Alike
<1> HIDE DEF w
<1>10. Leads(W, w) /\ Good(w)
  BY <1>7, <1>8, AlikeChain, AlikeLeads, LeadsType
<1>11. CASE net.proto = "z3950"
  <2>1. PICK ch \in Choices, a \in Answers : Become(HandleApdu(w, req, a, ch))
    BY <1>2, <1>5, <1>11, AnswersType
  <2>2. Leads(w, HandleApdu(w, req, a, ch))
    BY <1>2, <1>10, HandleApduLeads
  <2> QED BY <1>10, <2>1, <2>2, LeadsChain, BecomeLeads
<1>12. CASE net.proto = "http"
  <2>1. PICK ch \in Choices, a \in Answers : a.is # "refused" /\ Become(HandleHttp(w, req, a, ch))
    BY <1>2, <1>5, <1>12, AnswersType
  <2>2. Leads(w, HandleHttp(w, req, a, ch))
    BY <1>2, <1>9, <1>10, <1>12, <2>1, HandleHttpLeads
  <2> QED BY <1>10, <2>1, <2>2, LeadsChain, BecomeLeads
<1> QED BY <1>1, <1>11, <1>12 DEF Nets

\* The connection is closed with an error.
LEMMA CloseErrorLeads ==
  ASSUME NEW w, Good(w), NEW e \in Errors \ {"none"}
  PROVE  Leads(w, Close(SetError(w, e)))
<1> DEFINE u == SetError(w, e)
<1>1. Alike(w, u)
  BY GoodType, ErrorAlike
<1> HIDE DEF u
<1>2. Alike(u, Close(u))
  BY <1>1, AlikeType, CloseAlike
<1> QED BY <1>1, <1>2, AlikeChain, AlikeLeads DEF u

LEMMA ReadFailsLeads ==
  ASSUME Good(W), ReadFails
  PROVE  Leads(W, W')
<1> DEFINE w == PutEvent(W, "recv_data")
           w1 == PutEvent(w, "recv_apdu")
<1>1. \/ Become(Broken(w, "lost"))
      \/ Become(Broken(w1, "decode"))
      \/ Become(Broken(w1, "lost"))
      \/ Become(Close(SetError(w1, "decode")))
  BY DEF ReadFails
<1>2. Alike(W, w)
  BY GoodType, EventAlike DEF EventKinds
<1> HIDE DEF w
<1>3. Alike(w, w1)
  BY <1>2, AlikeType, EventAlike DEF EventKinds
<1> HIDE DEF w1
<1>4. Leads(W, w) /\ Leads(W, w1) /\ Good(w) /\ Good(w1)
  BY <1>2, <1>3, AlikeLeads, LeadsAlike, LeadsType
<1>5. Leads(w, Broken(w, "lost")) /\ Leads(w1, Broken(w1, "decode")) /\ Leads(w1, Broken(w1, "lost"))
      /\ Leads(w1, Close(SetError(w1, "decode")))
  BY <1>4, BrokenLeads, CloseErrorLeads DEF Errors
<1>6. Leads(W, Broken(w, "lost")) /\ Leads(W, Broken(w1, "decode")) /\ Leads(W, Broken(w1, "lost"))
      /\ Leads(W, Close(SetError(w1, "decode")))
  BY <1>4, <1>5, LeadsChain
<1> QED BY <1>1, <1>6, BecomeLeads

LEMMA PollLeads ==
  ASSUME Good(W), Poll
  PROVE  Leads(W, W')
<1>1. ASSUME NEW kind \in EventKinds, Become(PutEvent(W, kind)) PROVE Leads(W, W')
  BY <1>1, GoodType, EventAlike, AlikeLeads, BecomeLeads
<1>2. CASE StillConnecting \/ ReadSome
  BY <1>1, <1>2 DEF StillConnecting, ReadSome, EventKinds
<1>3. ASSUME NEW e \in {"connect", "timeout"}, NEW kind \in EventKinds,
             Become(Close(SetError(W, e))) \/ Become(PutEvent(Close(SetError(W, e)), kind))
      PROVE  Leads(W, W')
  <2> DEFINE u == Close(SetError(W, e))
  <2>1. Leads(W, u)
    BY CloseErrorLeads DEF Errors
  <2> HIDE DEF u
  <2>2. Alike(u, PutEvent(u, kind))
    BY <2>1, LeadsType, EventAlike
  <2>3. Leads(W, PutEvent(u, kind))
    BY <2>1, <2>2, LeadsAlike
  <2>4. Become(u) \/ Become(PutEvent(u, kind))
    BY <1>3 DEF u
  <2> QED BY <2>1, <2>3, <2>4, BecomeLeads
<1>4. CASE ConnectFails \/ Timeout
  BY <1>3, <1>4 DEF ConnectFails, Timeout, EventKinds
<1>5. CASE WriteMore
  <2>1. PICK ch \in Choices : Become(SendBuf(W, ch))
    BY <1>5, ChoiceType DEF WriteMore
  <2> QED BY <2>1, SendBufLeads, BecomeLeads
<1>6. CASE Exception
  <2>1. Leads(W, Broken(W, "lost")) /\ Become(Broken(W, "lost"))
    BY <1>6, BrokenLeads DEF Exception, Errors
  <2> QED BY <2>1, BecomeLeads
<1> QED BY <1>2, <1>4, <1>5, <1>6, ConnectedLeads, AnsweredLeads, ReadFailsLeads DEF Poll

LEMMA CallsChain ==
  ASSUME NEW u, NEW v, NEW w, Calls(u, v), Calls(v, w)
  PROVE  Calls(u, w)
BY DEF Calls

LEMMA CallsType ==
  ASSUME NEW w, NEW v, Calls(w, v)
  PROVE  Good(v) /\ v \in Worlds /\ v.net.proto = w.net.proto
BY DEF Calls, Good

LEMMA BecomeCalls ==
  ASSUME NEW w, Calls(W, w), Become(w)
  PROVE  Calls(W, W')
<1>1. w \in Worlds
  BY CallsType
<1>2. W' = Returns(w, "none") /\ W'.conn = w.conn /\ W'.net = w.net /\ W'.sets = w.sets
  BY <1>1 DEF W, Become, Returns, Worlds
<1>3. W' \in Worlds
  BY <1>1, <1>2, ReturnAlike DEF Alike
<1>4. Good(W')
  BY <1>2, <1>3 DEF Good, RefsOK, NoExtras, Calls
<1> QED BY <1>2, <1>4 DEF Calls

\* A set with another description, whose references are counted.
LEMMA SetCalls ==
  ASSUME NEW w, Good(w), NEW r \in ResultSet, NEW s \in Sets, s.ref = Once(s.app) + Naming(w.conn.tasks, r)
  PROVE  Calls(w, [w EXCEPT !.sets[r] = s])
<1> DEFINE hold == [w.sets EXCEPT ![r] = s]
           v == [w EXCEPT !.sets = hold]
<1>1. hold \in [ResultSet -> Sets] /\ \A o \in ResultSet : hold[o] = IF o = r THEN s ELSE w.sets[o]
  BY GoodType DEF Worlds
<1> HIDE DEF hold
<1>2. v \in Worlds /\ v.conn = w.conn /\ v.net = w.net /\ v.sets = hold
  BY <1>1, GoodType DEF Worlds
<1> HIDE DEF v
<1>3. RefsOK(v)
  BY <1>1, <1>2 DEF Good, RefsOK
<1>4. NoExtras(v)
  BY <1>2 DEF Good, NoExtras
<1> QED BY <1>2, <1>3, <1>4 DEF Calls, Good, v, hold

LEMMA PrepareHttpCalls ==
  ASSUME NEW w, Good(w)
  PROVE  Calls(w, PrepareHttp(w))
<1> DEFINE d == [w.conn EXCEPT !.reconnect = TRUE]
           v == [w EXCEPT !.conn = d]
<1>1. w \in Worlds
  BY GoodType
<1>2. d \in Conns /\ d.tasks = w.conn.tasks /\ d.error = w.conn.error
  BY <1>1 DEF Worlds, Conns
<1> HIDE DEF d
<1>3. Alike(w, v) /\ v.conn = d
  BY <1>1, <1>2, ConnAlike
<1>4. Calls(w, v)
  BY <1>2, <1>3, AlikeLeads DEF Calls, Leads
<1>5. Calls(w, w)
  BY DEF Calls
<1>6. Calls(w, AddTask(w, Plain("connect")))
  BY AddPlain
<1> QED BY <1>4, <1>5, <1>6 DEF PrepareHttp, d, v

LEMMA ConnectGood ==
  ASSUME Good(W), Connect
  PROVE  Good(W') /\ W'.net.proto = W.net.proto
<1> DEFINE d == [W.conn EXCEPT !.error = "none"]
           u == [W EXCEPT !.conn = d]
           w == RemoveTasks(u)
           v == IF conn.cs # "none" THEN [w EXCEPT !.conn.reconnect = TRUE]
                ELSE AddTask(w, Plain("connect"))
<1>1. W \in Worlds
  BY GoodType
<1>2. d \in Conns /\ d.tasks = W.conn.tasks
  BY <1>1 DEF Worlds, Conns, Errors
<1>3. Become(v)
  BY DEF Connect, SetError
<1> HIDE DEF d
<1>4. u \in Worlds /\ u.conn = d /\ u.net = W.net /\ u.sets = W.sets
  BY <1>1, <1>2 DEF Worlds
<1> HIDE DEF u
<1>5. Good(u)
  BY <1>2, <1>4 DEF Good, RefsOK, NoExtras
<1>6. Leads(u, w)
  BY <1>5, RemoveTasksLeads
<1> HIDE DEF w
<1>7. Alike(w, [w EXCEPT !.conn.reconnect = TRUE])
  BY <1>6, LeadsType, Fields
<1>8. Leads(u, [w EXCEPT !.conn.reconnect = TRUE])
  BY <1>6, <1>7, LeadsAlike
<1>9. Calls(w, AddTask(w, Plain("connect")))
  BY <1>6, LeadsType, AddPlain
<1>10. Good(v) /\ v.net.proto = W.net.proto
  BY <1>4, <1>6, <1>8, <1>9 DEF Leads, Calls
<1> HIDE DEF v
<1>11. v \in Worlds
  BY <1>10, GoodType
<1>12. Calls(v, v)
  BY <1>10 DEF Calls
<1>13. W' = Returns(v, "none")
  BY <1>3, <1>11 DEF W, Become, Returns, Worlds
<1>14. Leads(v, Returns(v, "none"))
  BY <1>10, <1>11, ReturnAlike, AlikeLeads
<1> QED BY <1>10, <1>13, <1>14 DEF Leads

LEMMA SearchCalls ==
  ASSUME Good(W), calls \in Nat, NEW r \in ResultSet, NEW start \in Nat, NEW count \in Nat,
         NEW sort \in BOOLEAN, Search(r, start, count, sort)
  PROVE  Calls(W, W')
<1> DEFINE n == calls + 1
           s == [FreeSet EXCEPT !.ref = 1, !.app = TRUE, !.q = n, !.sort = sort]
           w == [W EXCEPT !.sets[r] = s]
           u == PrepareHttp(w)
           v == Addref(AddTask(u, Task("search", r, start, count)), r)
<1>1. W.sets[r].ref = 0 /\ Become(v)
  BY DEF Search, W
<1>2. n \in Nat
  OBVIOUS
<1> HIDE DEF n
<1>3. s \in Sets /\ s.ref = 1 /\ s.app
  BY <1>2, FreeSetType DEF Sets
<1> HIDE DEF s
<1>4. Naming(W.conn.tasks, r) = 0
  <2>1. Naming(W.conn.tasks, r) \in Nat
    BY GoodType, PlacesFinite DEF Worlds, Conns
  <2> QED BY <1>1, <2>1 DEF Good, RefsOK, Once
<1>5. Calls(W, w) /\ Good(w)
  BY <1>3, <1>4, SetCalls, CallsType DEF Once
<1> HIDE DEF w
<1>6. Calls(w, u) /\ Good(u)
  BY <1>5, PrepareHttpCalls, CallsType
<1> HIDE DEF u
<1>7. Calls(u, v)
  BY <1>6, AddNaming
<1> HIDE DEF v
<1>8. Calls(W, v)
  BY <1>5, <1>6, <1>7, CallsChain
<1> QED BY <1>1, <1>8, BecomeCalls

LEMMA RecordsCalls ==
  ASSUME Good(W), NEW r \in ResultSet, NEW start \in Nat, NEW count \in Nat, Records(r, start, count)
  PROVE  Calls(W, W')
<1> DEFINE u == PrepareHttp(W)
           v == Addref(AddTask(u, Task("search", r, start, count)), r)
<1>1. Become(v)
  BY DEF Records
<1>2. Calls(W, u) /\ Good(u)
  BY PrepareHttpCalls, CallsType
<1> HIDE DEF u
<1>3. Calls(u, v)
  BY <1>2, AddNaming
<1> HIDE DEF v
<1> QED BY <1>1, <1>2, <1>3, CallsChain, BecomeCalls

LEMMA SortCalls ==
  ASSUME Good(W), NEW r \in ResultSet, Sort(r)
  PROVE  Calls(W, W')
<1> DEFINE c == FreeSet.cache
           x == Naming(conn.tasks, r) > 0
           s == [W.sets[r] EXCEPT !.cache = c, !.crossed = x]
           u == [W EXCEPT !.sets[r] = s]
           v == Addref(AddTask(u, Task("sort", r, 0, 0)), r)
<1>1. W.sets[r] \in Sets /\ W \in Worlds /\ c \in [Position -> Versions] /\ x \in BOOLEAN
  <2>1. W \in Worlds /\ W.conn.tasks \in Seq(Tasks) /\ W.conn.tasks = conn.tasks
    BY GoodType DEF Worlds, Conns, W
  <2>2. Naming(conn.tasks, r) \in Nat
    BY <2>1, PlacesFinite
  <2> QED BY <2>1, <2>2, FreeSetType DEF Worlds, Sets
<1>2. Become(v) /\ W.net.proto = "z3950"
  <2>1. Become(Addref(AddTask([W EXCEPT !.sets[r].cache = c, !.sets[r].crossed = x], Task("sort", r, 0, 0)), r))
        /\ W.net.proto = "z3950"
    BY DEF Sort, W
  <2> HIDE DEF c, x
  <2>2. [W EXCEPT !.sets[r].cache = c, !.sets[r].crossed = x] = u
    BY <1>1 DEF Worlds, Sets
  <2> QED BY <2>1, <2>2
<1> HIDE DEF c
<1>3. s \in Sets /\ s.ref = W.sets[r].ref /\ s.app = W.sets[r].app
  BY <1>1 DEF Sets
<1> HIDE DEF s
<1>4. s.ref = Once(s.app) + Naming(W.conn.tasks, r)
  BY <1>3 DEF Good, RefsOK
<1>5. Calls(W, u) /\ Good(u)
  BY <1>3, <1>4, SetCalls, CallsType
<1>6. u.net = W.net
  BY <1>1 DEF Worlds
<1> HIDE DEF u
<1>7. Calls(u, v)
  BY <1>2, <1>5, <1>6, AddNaming
<1> HIDE DEF v
<1> QED BY <1>2, <1>5, <1>7, CallsChain, BecomeCalls

LEMMA DestroyCalls ==
  ASSUME Good(W), NEW r \in ResultSet, Destroy(r)
  PROVE  Calls(W, W')
<1> DEFINE o == W.sets[r]
           s == [o EXCEPT !.app = FALSE]
           new == Unref(s, 1)
           v == [W EXCEPT !.sets[r] = new]
           m == Naming(W.conn.tasks, r)
<1>1. Become(v) /\ o.app
  BY DEF Destroy, W
<1>2. o \in Sets /\ o.ref = Once(o.app) + m /\ m \in Nat
  BY GoodType, PlacesFinite DEF Good, RefsOK, Worlds, Conns
<1> HIDE DEF o
<1>3. s \in Sets /\ s.ref = o.ref /\ ~s.app
  BY <1>2 DEF Sets
<1> HIDE DEF s
<1>4. s.ref = Once(s.app) + (m + 1)
  BY <1>1, <1>2, <1>3 DEF Once
<1>5. new \in Sets /\ new.ref = Once(new.app) + m
  BY <1>2, <1>3, <1>4, UnrefCounts
<1> HIDE DEF new
<1>6. Calls(W, v)
  BY <1>5, SetCalls
<1> QED BY <1>1, <1>6, BecomeCalls DEF o

LEMMA ApiCalls ==
  ASSUME Good(W), calls \in Nat, Api, ~Connect
  PROVE  Calls(W, W')
<1>1. 0 .. MaxHits \subseteq Nat /\ 0 \in Nat
  BY ZoomAssumption
<1>2. CASE Scan
  <2>1. Calls(W, AddTask(W, Plain("scan"))) /\ Become(AddTask(W, Plain("scan")))
    BY <1>2, AddPlain DEF Scan
  <2> QED BY <2>1, BecomeCalls
<1>3. CASE Package
  <2>1. W.net.proto = "z3950" /\ Become(AddTask(W, Plain("package")))
    BY <1>3 DEF Package, W
  <2>2. Calls(W, AddTask(W, Plain("package")))
    BY <2>1, AddPlain
  <2> QED BY <2>1, <2>2, BecomeCalls
<1>4. ASSUME NEW r \in ResultSet, Sort(r) \/ Destroy(r) PROVE Calls(W, W')
  BY <1>4, SortCalls, DestroyCalls
<1>5. ASSUME NEW r \in ResultSet, NEW start \in 0 .. MaxHits, NEW count \in 0 .. MaxHits,
             Records(r, start, count) \/ Search(r, start, count, FALSE)
      PROVE  Calls(W, W')
  BY <1>1, <1>5, RecordsCalls, SearchCalls
<1>6. ASSUME NEW r \in ResultSet, NEW count \in 0 .. MaxHits, Search(r, 0, count, TRUE)
      PROVE  Calls(W, W')
  BY <1>1, <1>6, SearchCalls
<1> QED BY <1>2, <1>3, <1>4, <1>5, <1>6 DEF Api

-----------------------------------------------------------------------------
(* Every reachable state.                                                  *)

ZoomInv == Good(W) /\ calls \in Nat

LEMMA InitGood ==
  ASSUME Init
  PROVE  ZoomInv
<1>1. conn \in Conns /\ conn.tasks = <<>>
  <2>1. NoRequest \in Requests
    BY NothingAsked
  <2> HIDE DEF NoRequest
  <2> QED BY <2>1 DEF Init, Conns, Errors
<1>2. sets \in [ResultSet -> Sets] /\ \A r \in ResultSet : sets[r].ref = 0 /\ ~sets[r].app
  BY FreeSetType DEF Init
<1>3. net \in Nets
  <2>1. [n \in Name |-> NoRecord] \in [Name -> Versions]
    BY DEF NoRecord, Versions
  <2>2. <<>> \in Seq(Requests)
    OBVIOUS
  <2> DEFINE none == [n \in Name |-> NoRecord]
  <2> HIDE DEF none
  <2>3. PICK p \in Protocols, b \in BOOLEAN :
          net = [proto |-> p, named |-> b, wire |-> <<>>, inited |-> FALSE, sets |-> none]
    BY DEF Init, none
  <2>4. p \in {"z3950", "http"} /\ none \in [Name -> Versions]
    BY <2>1, ZoomAssumption DEF none
  <2> QED BY <2>2, <2>3, <2>4 DEF Nets
<1>4. W \in Worlds /\ W.conn = conn /\ W.sets = sets /\ W.net = net
  BY <1>1, <1>2, <1>3 DEF W, Worlds
<1>5. ASSUME NEW r \in ResultSet PROVE W.sets[r].ref = Once(W.sets[r].app) + Naming(W.conn.tasks, r)
  <2>1. Places(<<>>, r) = {}
    BY DEF Places
  <2>2. <<>> \in Seq(Tasks)
    OBVIOUS
  <2>3. Naming(<<>>, r) = 0
    BY <2>1, <2>2, PlacesFinite, FS_EmptySet
  <2> QED BY <1>1, <1>2, <1>4, <2>3 DEF Once
<1>6. NoExtras(W)
  BY <1>1, <1>4 DEF NoExtras
<1>7. calls \in Nat
  BY DEF Init
<1> QED BY <1>4, <1>5, <1>6, <1>7 DEF ZoomInv, Good, RefsOK

\* A step of ZOOM_event leads on; a call of the application may only mend an
\* error that is not sticky, unless it connects anew.
LEMMA NextGood ==
  ASSUME ZoomInv, Next
  PROVE  ZoomInv' /\ (conn.error \in Sticky /\ ~Connect => conn'.error # "none")
<1>1. W.conn = conn /\ W'.conn = conn' /\ W.net = net /\ "none" \notin Sticky
  BY DEF W, Sticky
<1>2. CASE GetEvent \/ RunTask \/ Poll
  <2>1. Leads(W, W')
    BY <1>2, GetEventLeads, RunTaskLeads, PollLeads, Zenon DEF ZoomInv
  <2>2. calls' = calls
    BY <1>2, Zenon DEF GetEvent, RunTask, Poll, Connected, StillConnecting, ConnectFails, Answered, ReadSome,
       ReadFails, WriteMore, Exception, Timeout
  <2> QED BY <1>1, <2>1, <2>2 DEF ZoomInv, Leads
<1>3. CASE Api
  <2>1. calls' = calls + 1
    BY <1>3 DEF Api, Connect, Scan, Package, Sort, Destroy, Records, Search, Call
  <2>2. CASE Connect
    BY <2>1, <2>2, ConnectGood DEF ZoomInv
  <2>3. CASE ~Connect
    <3>1. Calls(W, W')
      BY <1>3, <2>3, ApiCalls DEF ZoomInv
    <3> QED BY <1>1, <2>1, <3>1 DEF ZoomInv, Calls
  <2> QED BY <2>2, <2>3
<1> QED BY <1>2, <1>3 DEF Next

THEOREM ZoomInvariant == Spec => []ZoomInv
<1>1. ASSUME ZoomInv, UNCHANGED vars PROVE ZoomInv'
  BY <1>1 DEF ZoomInv, vars, W, Good, RefsOK, NoExtras, Worlds
<1>2. ZoomInv /\ [Next]_vars => ZoomInv'
  BY <1>1, NextGood
<1> QED BY InitGood, <1>2, PTL DEF Spec

\* A result set is freed exactly when neither the application nor a task that
\* is still queued refers to it (ZOOM_resultset_addref and
\* ZOOM_resultset_destroy; ZOOM_connection_remove_task and _remove_tasks), for
\* any number of sets and tasks, careless applications and redirects included.
THEOREM ReferencesCounted == Spec => []RefCounts
<1>1. ZoomInv => RefCounts
  BY DEF ZoomInv, Good, RefsOK, RefCounts, Once, W
<1> QED BY <1>1, ZoomInvariant, PTL

\* The error of a lost connection stays until the application connects anew,
\* whatever it calls in between and however the events come (clear_error).
THEOREM LossIsSticky == Spec => ErrorStays
<1>1. ZoomInv /\ [Next]_vars => [conn.error \in Sticky /\ ~Connect => conn'.error # "none"]_vars
  BY NextGood
<1> QED BY <1>1, ZoomInvariant, PTL DEF Spec, ErrorStays

-----------------------------------------------------------------------------
(* What is under way.  From here on the application is careful, and a      *)
(* server neither redirects nor explains why it refuses an Init.           *)

\* Nothing is under way.
AtRest(w) ==
  /\ w.conn.out = NoRequest /\ w.net.wire = <<>> /\ w.conn.mask = {}
  /\ w.conn.cs \in {"none", "failed", "data"}

\* Without an Init that was accepted there is an error that stays.
Covered(w) ==
  w.net.proto = "z3950" /\ w.conn.cs = "data" /\ ~w.net.inited => w.conn.error \in Sticky

\* The request fits the task at the head, which is running.
Fits(w, req) ==
  /\ w.conn.tasks # <<>>
  /\ LET t == Head(w.conn.tasks)
     IN  /\ t.running /\ req.kind \in Sends(t)
         /\ t.rs # NoSet => req.rs = t.rs /\ req.q = w.sets[t.rs].q /\ w.sets[t.rs].name # Unset
  /\ w.net.proto = "z3950" => (req.kind = "init" <=> ~w.net.inited)

\* A request is being written, or is with the server.
UnderWay(w) ==
  /\ w.conn.cs = "data" /\ w.conn.error = "none"
  /\ \/ /\ w.conn.out # NoRequest /\ w.net.wire = <<>> /\ Fits(w, w.conn.out)
        /\ w.conn.mask = {"write", "except"}
     \/ /\ w.conn.out = NoRequest /\ Len(w.net.wire) = 1 /\ Fits(w, w.net.wire[1])
        /\ w.conn.mask = {"read", "except"}

\* A comstack is being connected for the task at the head.
Dialing(w) ==
  /\ w.conn.cs = "connecting" /\ w.conn.mask = {"read", "write", "except"}
  /\ w.conn.error = "none"
  /\ w.conn.out = NoRequest /\ w.net.wire = <<>> /\ ~w.net.inited
  /\ w.conn.tasks # <<>> /\ Head(w.conn.tasks).running /\ Head(w.conn.tasks).which = "connect"

\* The size of the set of a task is known, or will be when its turn comes.
Prepared(w, i) ==
  LET r == w.conn.tasks[i].rs
  IN  \/ w.sets[r].live
      \/ w.conn.error # "none"
      \/ \E j \in DOMAIN w.conn.tasks : j < i /\ w.conn.tasks[j].which = "search" /\ w.conn.tasks[j].rs = r

Queue(w) ==
  /\ \A i \in DOMAIN w.conn.tasks : i > 1 => ~w.conn.tasks[i].running
  /\ \A i \in DOMAIN w.conn.tasks : w.conn.tasks[i].which = "sort" => Prepared(w, i)
  /\ \A r \in ResultSet : w.sets[r].live => w.sets[r].name # Unset

Session(w) ==
  /\ ~w.conn.aborted /\ w.conn.location = NoRequest /\ w.conn.redirects = 0
  /\ w.conn.cs # "none" => w.conn.proto = w.net.proto
  /\ w.conn.cs = "failed" => w.conn.error = "connect"
  /\ w.net.inited => w.conn.cs = "data"

Rested(w) ==
  /\ AtRest(w) /\ Covered(w)
  /\ w.conn.tasks # <<>> /\ Head(w.conn.tasks).running => w.conn.error # "none"
\* What holds between any two steps of the handlers, and between two steps of
\* the program.
Base(w) == Good(w) /\ Queue(w) /\ Session(w)
Steady(w) == Base(w) /\ (Rested(w) \/ UnderWay(w) \/ Dialing(w))

\* Nothing is under way any more, or not yet, for the task at the head.
Over(w) == Base(w) /\ AtRest(w) /\ Covered(w)
\* The task at the head may send, unless there is an error.
Serving(w) ==
  Over(w) /\ w.conn.tasks # <<>> /\ Head(w.conn.tasks).running /\ (w.conn.error = "none" => w.conn.cs = "data")

\* A search that ends without an error knows the size of its set.
Told(w) ==
  w.net.proto = "z3950" /\ w.conn.error = "none" /\ w.conn.tasks # <<>> /\ Head(w.conn.tasks).which = "search"
    => w.sets[Head(w.conn.tasks).rs].live

\* What the handlers that send or give up leave behind.
Post(w) == IF w.ret = "complete" THEN Over(w) /\ Told(w) ELSE Steady(w)

\* A step that moves nothing on the line.
OnLine(w, v) ==
  /\ v.conn.cs = w.conn.cs /\ v.conn.proto = w.conn.proto /\ v.conn.error = w.conn.error
  /\ v.conn.mask = w.conn.mask /\ v.conn.location = w.conn.location /\ v.conn.redirects = w.conn.redirects
  /\ v.conn.out = w.conn.out /\ v.conn.aborted = w.conn.aborted
  /\ v.net.wire = w.net.wire /\ v.net.inited = w.net.inited /\ v.net.proto = w.net.proto

\* Besides, the same tasks run, and sets keep their queries, and their names
\* once they have one.
Firm(w, v) ==
  /\ OnLine(w, v)
  /\ \A i \in DOMAIN w.conn.tasks : v.conn.tasks[i].running = w.conn.tasks[i].running
  /\ \A r \in ResultSet :
       /\ v.sets[r].q = w.sets[r].q /\ (w.sets[r].live => v.sets[r].live)
       /\ w.sets[r].name # Unset => v.sets[r].name # Unset
       /\ v.sets[r].live => w.sets[r].live \/ v.sets[r].name # Unset

Keeps(w, v) == Alike(w, v) /\ Firm(w, v)

LEMMA KeepsChain ==
  ASSUME NEW u, NEW v, NEW w, Keeps(u, v), Keeps(v, w)
  PROVE  Keeps(u, w)
<1>1. Alike(u, w)
  BY AlikeChain DEF Keeps
<1>2. Firm(u, w)
  BY DEF Keeps, Firm, OnLine, Alike
<1> QED BY <1>1, <1>2 DEF Keeps

LEMMA KeepsSelf ==
  ASSUME NEW w \in Worlds
  PROVE  Keeps(w, w)
BY DEF Keeps, Alike, Firm, OnLine

LEMMA KeepsHead ==
  ASSUME NEW w \in Worlds, NEW v, Keeps(w, v)
  PROVE  /\ v \in Worlds /\ (v.conn.tasks = <<>>) = (w.conn.tasks = <<>>)
         /\ w.conn.tasks # <<>> =>
              /\ Head(v.conn.tasks).which = Head(w.conn.tasks).which
              /\ Head(v.conn.tasks).rs = Head(w.conn.tasks).rs
              /\ Head(v.conn.tasks).running = Head(w.conn.tasks).running
<1>1. v \in Worlds
  BY DEF Keeps, Alike
<1>2. (v.conn.tasks = <<>>) = (w.conn.tasks = <<>>)
  BY <1>1, AlikeEmpty DEF Keeps
<1>3. ASSUME w.conn.tasks # <<>>
      PROVE  /\ Head(v.conn.tasks).which = Head(w.conn.tasks).which
             /\ Head(v.conn.tasks).rs = Head(w.conn.tasks).rs
             /\ Head(v.conn.tasks).running = Head(w.conn.tasks).running
  <2>1. 1 \in DOMAIN w.conn.tasks /\ Head(w.conn.tasks) = w.conn.tasks[1]
    BY <1>3, HeadType
  <2>2. Head(v.conn.tasks) = v.conn.tasks[1]
    BY <1>1, <1>2, <1>3, HeadType
  <2> QED BY <2>1, <2>2 DEF Keeps, Alike, Firm, OnLine
<1> QED BY <1>1, <1>2, <1>3

LEMMA KeepsBase ==
  ASSUME NEW w, NEW v, Base(w), Keeps(w, v)
  PROVE  Base(v)
<1>1. Good(v) /\ w \in Worlds
  BY AlikeLeads, LeadsType, GoodType DEF Base, Keeps
<1>2. w.conn.tasks \in Seq(Tasks)
  BY <1>1 DEF Worlds, Conns
<1>3. Queue(v)
  <2>1. \A i \in DOMAIN v.conn.tasks : i > 1 => ~v.conn.tasks[i].running
    BY DEF Keeps, Alike, Firm, OnLine, Base, Queue
  <2>2. ASSUME NEW i \in DOMAIN v.conn.tasks, v.conn.tasks[i].which = "sort"
        PROVE  Prepared(v, i)
    <3>1. i \in DOMAIN w.conn.tasks /\ w.conn.tasks[i].which = "sort" /\ v.conn.tasks[i].rs = w.conn.tasks[i].rs
      BY <2>2 DEF Keeps, Alike
    <3>2. w.conn.tasks[i].rs \in ResultSet
      BY <1>2, <3>1 DEF Tasks
    <3>3. Prepared(w, i)
      BY <3>1 DEF Base, Queue
    <3>4. v.conn.error = w.conn.error /\ (w.sets[w.conn.tasks[i].rs].live => v.sets[w.conn.tasks[i].rs].live)
      BY <3>2 DEF Keeps, Firm, OnLine
    <3>5. \A j \in DOMAIN w.conn.tasks : j \in DOMAIN v.conn.tasks
             /\ v.conn.tasks[j].which = w.conn.tasks[j].which /\ v.conn.tasks[j].rs = w.conn.tasks[j].rs
      BY DEF Keeps, Alike
    <3> QED BY <3>1, <3>3, <3>4, <3>5 DEF Prepared
  <2>3. \A r \in ResultSet : v.sets[r].live => v.sets[r].name # Unset
    BY DEF Keeps, Firm, OnLine, Base, Queue
  <2> QED BY <2>1, <2>2, <2>3 DEF Queue
<1>4. Session(v)
  BY DEF Session, Base, Keeps, Firm, OnLine, Alike
<1> QED BY <1>1, <1>3, <1>4 DEF Base

LEMMA KeepsFits ==
  ASSUME NEW w \in Worlds, NEW v, Keeps(w, v), NEW req, Fits(w, req)
  PROVE  Fits(v, req)
<1> DEFINE t == Head(w.conn.tasks)
           s == Head(v.conn.tasks)
<1>1. v.conn.tasks # <<>> /\ s.which = t.which /\ s.rs = t.rs /\ s.running = t.running
  BY KeepsHead DEF Fits
<1>2. t.rs # NoSet => t.rs \in ResultSet
  BY HeadType DEF Fits, Tasks
<1> HIDE DEF t, s
<1>3. t.running /\ req.kind \in Sends(t) /\ (t.rs # NoSet => req.rs = t.rs /\ req.q = w.sets[t.rs].q /\ w.sets[t.rs].name # Unset)
      /\ (w.net.proto = "z3950" => (req.kind = "init" <=> ~w.net.inited))
  BY DEF Fits, t
<1>4. Sends(s) = Sends(t)
  BY <1>1 DEF Sends
<1>5. s.rs # NoSet => req.rs = s.rs /\ req.q = v.sets[s.rs].q /\ v.sets[s.rs].name # Unset
  BY <1>1, <1>2, <1>3 DEF Keeps, Firm, OnLine
<1>6. v.net.proto = "z3950" => (req.kind = "init" <=> ~v.net.inited)
  BY <1>3 DEF Keeps, Firm, OnLine, Alike
<1> QED BY <1>1, <1>3, <1>4, <1>5, <1>6 DEF Fits, s

LEMMA KeepsOver ==
  ASSUME NEW w, NEW v, Keeps(w, v)
  PROVE  (Over(w) => Over(v)) /\ (Serving(w) => Serving(v))
<1>1. ASSUME Over(w) PROVE Over(v)
  BY <1>1, KeepsBase DEF Over, AtRest, Covered, Keeps, Firm, OnLine, Alike
<1>2. ASSUME Serving(w) PROVE Serving(v)
  <2>1. w \in Worlds
    BY <1>2, GoodType DEF Serving, Over, Base
  <2> QED BY <1>1, <1>2, <2>1, KeepsHead DEF Serving, Keeps, Firm, OnLine
<1> QED BY <1>1, <1>2

LEMMA KeepsSteady ==
  ASSUME NEW w, NEW v, Keeps(w, v), Steady(w)
  PROVE  Steady(v)
<1>1. Base(v) /\ w \in Worlds
  BY KeepsBase, GoodType DEF Steady, Base
<1>2. CASE Rested(w)
  <2>0. v.conn.tasks # <<>> => w.conn.tasks # <<>> /\ Head(v.conn.tasks).running = Head(w.conn.tasks).running
    BY <1>1, KeepsHead
  <2>1. v.conn.tasks # <<>> /\ Head(v.conn.tasks).running => v.conn.error # "none"
    BY <1>2, <2>0 DEF Rested, Keeps, Firm, OnLine
  <2>2. AtRest(v) /\ Covered(v)
    BY <1>2 DEF Rested, AtRest, Covered, Keeps, Firm, OnLine, Alike
  <2> QED BY <1>1, <2>1, <2>2 DEF Steady, Rested
<1>3. CASE UnderWay(w)
  <2>1. v.conn.cs = w.conn.cs /\ v.conn.error = w.conn.error /\ v.conn.out = w.conn.out /\ v.conn.mask = w.conn.mask
        /\ v.net.wire = w.net.wire
    BY DEF Keeps, Firm, OnLine
  <2>2. \A req : Fits(w, req) => Fits(v, req)
    BY <1>1, KeepsFits
  <2>3. UnderWay(v)
    BY <1>3, <2>1, <2>2 DEF UnderWay
  <2> QED BY <1>1, <2>3 DEF Steady
<1>4. CASE Dialing(w)
  <2>0. w.conn.tasks # <<>> =>
          v.conn.tasks # <<>> /\ Head(v.conn.tasks).which = Head(w.conn.tasks).which
          /\ Head(v.conn.tasks).running = Head(w.conn.tasks).running
    BY <1>1, KeepsHead
  <2>1. Dialing(v)
    BY <1>4, <2>0 DEF Dialing, Keeps, Firm, OnLine
  <2> QED BY <1>1, <2>1 DEF Steady
<1> QED BY <1>2, <1>3, <1>4 DEF Steady

-----------------------------------------------------------------------------
(* Steps that keep the line.                                               *)

\* Another connection, with the same tasks and the same state of the line.
LEMMA ConnKeeps ==
  ASSUME NEW w \in Worlds, NEW c \in Conns, c.tasks = w.conn.tasks,
         c.cs = w.conn.cs, c.proto = w.conn.proto, c.error = w.conn.error, c.mask = w.conn.mask,
         c.location = w.conn.location, c.redirects = w.conn.redirects, c.out = w.conn.out, c.aborted = w.conn.aborted
  PROVE  Keeps(w, [w EXCEPT !.conn = c])
<1> DEFINE v == [w EXCEPT !.conn = c]
<1>1. Alike(w, v) /\ v.conn = c /\ v.sets = w.sets /\ v.net = w.net
  BY ConnAlike
<1> HIDE DEF v
<1>2. Firm(w, v)
  BY <1>1 DEF Firm, OnLine
<1>3. Keeps(w, v)
  BY <1>1, <1>2 DEF Keeps
<1> QED BY <1>3 DEF v

LEMMA EventsKeeps ==
  ASSUME NEW w \in Worlds, NEW all \in Seq(EventKinds)
  PROVE  Keeps(w, [w EXCEPT !.conn.events = all])
<1> DEFINE d == [w.conn EXCEPT !.events = all]
<1>1. /\ d \in Conns /\ d.tasks = w.conn.tasks /\ d.error = w.conn.error /\ d.cs = w.conn.cs /\ d.proto = w.conn.proto
      /\ d.mask = w.conn.mask /\ d.location = w.conn.location /\ d.redirects = w.conn.redirects
      /\ d.out = w.conn.out /\ d.aborted = w.conn.aborted
  BY DEF Worlds, Conns
<1> HIDE DEF d
<1>2. Keeps(w, [w EXCEPT !.conn = d])
  BY <1>1, ConnKeeps
<1> QED BY <1>2 DEF d

LEMMA EventKeeps ==
  ASSUME NEW w \in Worlds, NEW kind \in EventKinds
  PROVE  Keeps(w, PutEvent(w, kind))
<1> DEFINE all == Append(w.conn.events, kind)
<1>1. all \in Seq(EventKinds)
  BY DEF Worlds, Conns
<1>2. PutEvent(w, kind) = [w EXCEPT !.conn.events = all]
  BY DEF PutEvent
<1> HIDE DEF all
<1> QED BY <1>1, <1>2, EventsKeeps

LEMMA StateKeeps ==
  ASSUME NEW w \in Worlds, NEW x \in {"idle", "connecting", "established"}
  PROVE  Keeps(w, [w EXCEPT !.conn.state = x])
<1> DEFINE d == [w.conn EXCEPT !.state = x]
<1>1. /\ d \in Conns /\ d.tasks = w.conn.tasks /\ d.error = w.conn.error /\ d.cs = w.conn.cs /\ d.proto = w.conn.proto
      /\ d.mask = w.conn.mask /\ d.location = w.conn.location /\ d.redirects = w.conn.redirects
      /\ d.out = w.conn.out /\ d.aborted = w.conn.aborted
  BY DEF Worlds, Conns
<1> HIDE DEF d
<1>2. Keeps(w, [w EXCEPT !.conn = d])
  BY <1>1, ConnKeeps
<1> QED BY <1>2 DEF d

LEMMA FlagsKeep ==
  ASSUME NEW w \in Worlds, NEW x \in BOOLEAN
  PROVE  Keeps(w, [w EXCEPT !.conn.reconnect = x]) /\ Keeps(w, [w EXCEPT !.conn.named = x])
<1> DEFINE d == [w.conn EXCEPT !.reconnect = x]
           e == [w.conn EXCEPT !.named = x]
<1>1. /\ d \in Conns /\ d.tasks = w.conn.tasks /\ d.error = w.conn.error /\ d.cs = w.conn.cs /\ d.proto = w.conn.proto
      /\ d.mask = w.conn.mask /\ d.location = w.conn.location /\ d.redirects = w.conn.redirects
      /\ d.out = w.conn.out /\ d.aborted = w.conn.aborted
  BY DEF Worlds, Conns
<1>2. /\ e \in Conns /\ e.tasks = w.conn.tasks /\ e.error = w.conn.error /\ e.cs = w.conn.cs /\ e.proto = w.conn.proto
      /\ e.mask = w.conn.mask /\ e.location = w.conn.location /\ e.redirects = w.conn.redirects
      /\ e.out = w.conn.out /\ e.aborted = w.conn.aborted
  BY DEF Worlds, Conns
<1> HIDE DEF d, e
<1>3. Keeps(w, [w EXCEPT !.conn = d]) /\ Keeps(w, [w EXCEPT !.conn = e])
  BY <1>1, <1>2, ConnKeeps
<1> QED BY <1>3 DEF d, e

LEMMA ReturnKeeps ==
  ASSUME NEW w \in Worlds, NEW ret \in {"none", "pending", "complete"}
  PROVE  Keeps(w, Returns(w, ret)) /\ Returns(w, ret).ret = ret
<1> DEFINE v == Returns(w, ret)
<1>1. v.conn = w.conn /\ v.net = w.net /\ v.sets = w.sets /\ v.ret = ret
  BY DEF Returns, Worlds
<1>2. Alike(w, v)
  BY ReturnAlike
<1> HIDE DEF v
<1>3. Firm(w, v)
  BY <1>1 DEF Firm, OnLine
<1> QED BY <1>1, <1>2, <1>3 DEF Keeps, v

\* The sets the server holds.
LEMMA NetKeeps ==
  ASSUME NEW w \in Worlds, NEW k \in Nets, k.proto = w.net.proto, k.wire = w.net.wire, k.inited = w.net.inited
  PROVE  Keeps(w, [w EXCEPT !.net = k])
<1> DEFINE v == [w EXCEPT !.net = k]
<1>1. v.conn = w.conn /\ v.net = k /\ v.sets = w.sets
  BY DEF Worlds
<1>2. Alike(w, v)
  BY NetAlike
<1> HIDE DEF v
<1>3. Firm(w, v)
  BY <1>1 DEF Firm, OnLine
<1> QED BY <1>2, <1>3 DEF Keeps, v

\* A result set that keeps its query and its name.
LEMMA SetKeeps ==
  ASSUME NEW w \in Worlds, NEW r \in ResultSet, NEW s \in Sets,
         s.ref = w.sets[r].ref, s.app = w.sets[r].app, s.q = w.sets[r].q, w.sets[r].live => s.live,
         w.sets[r].name # Unset => s.name # Unset, s.live => w.sets[r].live \/ s.name # Unset
  PROVE  Keeps(w, [w EXCEPT !.sets[r] = s])
<1> DEFINE v == [w EXCEPT !.sets[r] = s]
<1>1. v.conn = w.conn /\ v.net = w.net /\ \A o \in ResultSet : v.sets[o] = IF o = r THEN s ELSE w.sets[o]
  BY DEF Worlds
<1>2. Alike(w, v)
  BY SetAlike
<1> HIDE DEF v
<1>3. Firm(w, v)
  BY <1>1 DEF Firm, OnLine
<1> QED BY <1>2, <1>3 DEF Keeps, v

\* The head of the list, its events and the cache of a set.
LEMMA HeadFirm ==
  ASSUME NEW w \in Worlds, w.conn.tasks # <<>>, NEW t, t.running = Head(w.conn.tasks).running, NEW all, NEW r, NEW cache
  PROVE  /\ Firm(w, [w EXCEPT !.conn.tasks[1] = t])
         /\ Firm(w, [w EXCEPT !.conn.tasks[1] = t, !.conn.events = all])
         /\ Firm(w, [w EXCEPT !.sets[r].cache = cache, !.conn.tasks[1] = t, !.conn.events = all])
<1>1. w.conn.tasks \in Seq(Tasks) /\ Head(w.conn.tasks) = w.conn.tasks[1] /\ w.sets \in [ResultSet -> Sets]
  BY HeadType DEF Worlds, Conns
<1> DEFINE new == [w.conn.tasks EXCEPT ![1] = t]
<1>2. \A i \in DOMAIN w.conn.tasks : new[i].running = w.conn.tasks[i].running
  BY <1>1
<1> DEFINE hold == [w.sets EXCEPT ![r].cache = cache]
<1>3. \A o \in ResultSet : hold[o].q = w.sets[o].q /\ hold[o].live = w.sets[o].live /\ hold[o].name = w.sets[o].name
  <2> SUFFICES ASSUME NEW o \in ResultSet
               PROVE  hold[o].q = w.sets[o].q /\ hold[o].live = w.sets[o].live /\ hold[o].name = w.sets[o].name
    OBVIOUS
  <2>1. hold[o] = IF o = r THEN [w.sets[o] EXCEPT !.cache = cache] ELSE w.sets[o]
    BY <1>1
  <2>2. w.sets[o] \in Sets
    BY <1>1
  <2> QED BY <2>1, <2>2 DEF Sets
<1> HIDE DEF new, hold
<1> DEFINE a == [w EXCEPT !.conn.tasks = new]
           b == [w EXCEPT !.conn.tasks = new, !.conn.events = all]
           c == [w EXCEPT !.sets = hold, !.conn.tasks = new, !.conn.events = all]
<1>4. Firm(w, a) /\ Firm(w, b)
  BY <1>2 DEF Firm, OnLine, Worlds, Conns
<1>5. Firm(w, c)
  BY <1>2, <1>3 DEF Firm, OnLine, Worlds, Conns
<1> QED BY <1>4, <1>5 DEF new, hold

LEMMA AdvanceKeeps ==
  ASSUME NEW w \in Worlds, w.conn.tasks # <<>>, Head(w.conn.tasks).which = "search"
  PROVE  Keeps(w, Advance(w))
<1> DEFINE t == Head(w.conn.tasks)
           s == w.sets[t.rs]
           n == Cached(s, t, Clip(s, t))
           p == Passed(s, t)
           all == w.conn.events \o Events("record", n)
<1>1. t \in Tasks /\ s \in Sets
  BY HeadType
<1>2. Advance(w) = [w EXCEPT !.conn.tasks[1] = p, !.conn.events = all]
  BY DEF Advance, Passed
<1>3. p.running = t.running
  <2> HIDE DEF t, s
  <2> QED BY <1>1, PassedType
<1>4. Firm(w, [w EXCEPT !.conn.tasks[1] = p, !.conn.events = all])
  <2> HIDE DEF p, all
  <2> QED BY <1>3, HeadFirm
<1> QED BY <1>2, <1>4, AdvanceAlike, Zenon DEF Keeps

LEMMA ClippedKeeps ==
  ASSUME NEW w \in Worlds, w.conn.tasks # <<>>, Head(w.conn.tasks).which = "search"
  PROVE  LET t == Head(w.conn.tasks)
         IN  Keeps(w, [w EXCEPT !.conn.tasks[1].count = Clip(w.sets[t.rs], t)])
<1> DEFINE t == Head(w.conn.tasks)
           n == Clip(w.sets[t.rs], t)
           p == [w.conn.tasks[1] EXCEPT !.count = n]
           v == [w EXCEPT !.conn.tasks[1].count = n]
<1>1. t \in Tasks /\ t = w.conn.tasks[1]
  BY HeadType
<1>2. v = [w EXCEPT !.conn.tasks[1] = p]
  BY DEF Worlds
<1>3. p.running = t.running
  <2> HIDE DEF t, n
  <2> QED BY <1>1 DEF Tasks
<1>4. Firm(w, [w EXCEPT !.conn.tasks[1] = p])
  <2> HIDE DEF p
  <2> QED BY <1>3, HeadFirm
<1>5. Alike(w, v)
  BY ClippedAlike
<1> HIDE DEF v, p
<1>6. Keeps(w, v)
  BY <1>2, <1>4, <1>5 DEF Keeps
<1> QED BY <1>6 DEF v

LEMMA DefaultNameKeeps ==
  ASSUME NEW w \in Worlds, NEW r \in ResultSet
  PROVE  Keeps(w, DefaultName(w, r)) /\ DefaultName(w, r).sets[r].name # Unset
<1> DEFINE d == [w.sets[r] EXCEPT !.name = IF @ = Unset THEN Default ELSE @]
<1>1. w.sets[r] \in Sets
  BY DEF Worlds
<1>2. /\ d \in Sets /\ d.ref = w.sets[r].ref /\ d.app = w.sets[r].app /\ d.q = w.sets[r].q
      /\ d.live = w.sets[r].live /\ d.name # Unset
  BY <1>1, NameCount DEF Sets, Default, Unset
<1>3. DefaultName(w, r) = [w EXCEPT !.sets[r] = d]
  BY DEF DefaultName
<1> HIDE DEF d
<1>4. DefaultName(w, r).sets[r] = d
  BY <1>3 DEF Worlds
<1>5. Keeps(w, [w EXCEPT !.sets[r] = d])
  BY <1>2, SetKeeps
<1> QED BY <1>2, <1>3, <1>4, <1>5

\* The size of a set is only told of a set that was sent.
LEMMA FoundKeeps ==
  ASSUME NEW w \in Worlds, NEW r \in ResultSet, NEW hits \in 0 .. MaxHits, w.sets[r].name # Unset
  PROVE  Keeps(w, Found(w, r, hits))
<1> DEFINE d == [w.sets[r] EXCEPT !.size = hits, !.live = TRUE]
<1>1. w.sets[r] \in Sets
  BY DEF Worlds
<1>2. d \in Sets /\ d.ref = w.sets[r].ref /\ d.app = w.sets[r].app /\ d.q = w.sets[r].q /\ d.live /\ d.name # Unset
  BY <1>1 DEF Sets
<1>3. Found(w, r, hits) = [w EXCEPT !.sets[r] = d]
  BY DEF Found
<1> HIDE DEF d
<1> QED BY <1>2, <1>3, SetKeeps

LEMMA AddRecordsKeeps ==
  ASSUME NEW w \in Worlds, w.conn.tasks # <<>>, Head(w.conn.tasks).which = "search",
         NEW n \in Nat, NEW version \in Versions, NEW empty \in BOOLEAN
  PROVE  Keeps(w, AddRecords(w, n, version, empty))
<1> DEFINE t == Head(w.conn.tasks)
           s == w.sets[t.rs]
           cache == IF empty THEN Fill(s.cache, t.start, 1, MadeUp) ELSE Fill(s.cache, t.start, n, version)
           p == [t EXCEPT !.start = @ + n, !.count = IF empty THEN 0 ELSE Left(s, t, n)]
           all == w.conn.events \o Events("record", IF empty THEN 1 ELSE n)
           r == t.rs
<1>1. AddRecords(w, n, version, empty) = [w EXCEPT !.sets[r].cache = cache, !.conn.tasks[1] = p, !.conn.events = all]
  <2> DEFINE more == Events("record", IF empty THEN 1 ELSE n)
  <2>1. AddRecords(w, n, version, empty) = [w EXCEPT !.sets[r].cache = cache, !.conn.tasks[1] = p,
                                                     !.conn.events = @ \o more]
    BY DEF AddRecords
  <2> HIDE DEF cache, p, r, more
  <2>2. w.conn.events \o more = all
    BY DEF more
  <2> HIDE DEF all
  <2> QED BY <2>1, <2>2
<1>2. t \in Tasks
  BY HeadType
<1>3. p.running = t.running
  <2> HIDE DEF t, s
  <2> QED BY <1>2 DEF Tasks
<1>4. Firm(w, [w EXCEPT !.sets[r].cache = cache, !.conn.tasks[1] = p, !.conn.events = all])
  <2> HIDE DEF p, all, cache, r
  <2> QED BY <1>3, HeadFirm
<1> HIDE DEF p, all, cache, r
<1> QED BY <1>1, <1>4, AddRecordsAlike DEF Keeps

LEMMA AddSrwRecordsKeeps ==
  ASSUME NEW w \in Worlds, w.conn.tasks # <<>>, Head(w.conn.tasks).rs \in ResultSet,
         NEW n \in Nat, NEW q \in Int
  PROVE  Keeps(w, AddSrwRecords(w, n, q))
<1> DEFINE t == Head(w.conn.tasks)
           r == t.rs
           s == w.sets[r]
           fresh == {p \in t.start .. t.start + n - 1 : p \in Position /\ s.cache[p] = NoRecord}
           cache == [p \in Position |-> IF p \in fresh THEN [q |-> q, sorted |-> FALSE] ELSE s.cache[p]]
           z == [t EXCEPT !.start = @ + n, !.count = IF @ < n THEN 0 ELSE @ - n]
           more == Events("record", n)
           all == w.conn.events \o more
<1>1. AddSrwRecords(w, n, q) = [w EXCEPT !.sets[r].cache = cache, !.conn.tasks[1] = z, !.conn.events = all]
  <2>1. w.sets \in [ResultSet -> Sets] /\ r \in ResultSet
    BY DEF Worlds
  <2>2. AddSrwRecords(w, n, q) = [w EXCEPT !.sets[r].cache = cache, !.conn.tasks[1] = z, !.conn.events = @ \o more]
    BY <2>1 DEF AddSrwRecords
  <2> HIDE DEF cache, z, r, more
  <2>3. w.conn.events \o more = all
    BY DEF more
  <2> HIDE DEF all
  <2> QED BY <2>2, <2>3
<1>2. t \in Tasks
  BY HeadType
<1>3. z.running = t.running
  <2> HIDE DEF t
  <2> QED BY <1>2 DEF Tasks
<1>4. Firm(w, [w EXCEPT !.sets[r].cache = cache, !.conn.tasks[1] = z, !.conn.events = all])
  <2> HIDE DEF z, all, cache, r
  <2> QED BY <1>3, HeadFirm
<1> HIDE DEF z, all, cache, r
<1> QED BY <1>1, <1>4, AddSrwRecordsAlike DEF Keeps

-----------------------------------------------------------------------------
(* Tasks that are removed, connections that are closed.                    *)

LEMMA NamingPositive ==
  ASSUME NEW tasks \in Seq(Tasks), NEW i \in DOMAIN tasks
  PROVE  Naming(tasks, tasks[i].rs) > 0
<1> DEFINE P == Places(tasks, tasks[i].rs)
<1>1. IsFiniteSet(P) /\ Naming(tasks, tasks[i].rs) = Cardinality(P)
  BY PlacesFinite
<1>2. i \in P
  BY DEF Places
<1> HIDE DEF P
<1>3. Cardinality(P) # 0 /\ Cardinality(P) \in Nat
  BY <1>1, <1>2, FS_EmptySet, FS_CardinalityType
<1> QED BY <1>1, <1>3

\* A set stays what it is, but for its references, or is freed.
Freed(o, s) == s = FreeSet \/ (s.q = o.q /\ s.live = o.live /\ s.name = o.name)

LEMMA UnrefFrees ==
  ASSUME NEW o \in Sets, NEW n
  PROVE  Freed(o, Unref(o, n))
BY DEF Freed, Unref, Sets

\* Tasks or references are given up.
Drops(w, v) == Good(v) /\ OnLine(w, v) /\ \A r \in ResultSet : Freed(w.sets[r], v.sets[r])

LEMMA DropsEvent ==
  ASSUME NEW w, NEW v, Drops(w, v), NEW kind \in EventKinds
  PROVE  Drops(w, PutEvent(v, kind)) /\ PutEvent(v, kind).conn.tasks = v.conn.tasks
<1> DEFINE u == PutEvent(v, kind)
<1>1. v \in Worlds /\ Good(v)
  BY GoodType DEF Drops
<1>2. u.sets = v.sets /\ u.conn.tasks = v.conn.tasks
  BY <1>1 DEF PutEvent, Worlds, Conns
<1>3. Keeps(v, u) /\ Alike(v, u)
  BY <1>1, EventKeeps DEF Keeps
<1> HIDE DEF u
<1>4. OnLine(w, u)
  BY <1>3 DEF Drops, Keeps, Firm, OnLine
<1>5. Good(u)
  BY <1>1, <1>3, AlikeLeads, LeadsType
<1> QED BY <1>2, <1>4, <1>5 DEF Drops, u

LEMMA DropsSelf ==
  ASSUME NEW w, Good(w)
  PROVE  Drops(w, w)
BY DEF Drops, OnLine, Freed

LEMMA HoldingLine ==
  ASSUME NEW w \in Worlds, NEW new, NEW hold
  PROVE  OnLine(w, Holding(w, new, hold)) /\ Holding(w, new, hold).conn.tasks = new /\ Holding(w, new, hold).sets = hold
BY DEF Holding, OnLine, Worlds, Conns

LEMMA DropTask ==
  ASSUME NEW w, Good(w), w.conn.tasks # <<>>
  PROVE  Drops(w, RemoveTask(w)) /\ RemoveTask(w).conn.tasks = Tail(w.conn.tasks)
<1> DEFINE t == Head(w.conn.tasks)
           rest == Tail(w.conn.tasks)
           hold == [r \in ResultSet |-> Unref(w.sets[r], IF r = t.rs THEN 1 ELSE 0)]
           v == Holding(w, rest, hold)
           u == PutEvent(v, "end")
<1>1. w \in Worlds
  BY GoodType
<1>2. RemoveTask(w) = IF rest = <<>> THEN u ELSE v
  BY DEF RemoveTask, Holding
<1>3. Good(RemoveTask(w))
  BY RemoveTaskLeads, LeadsType
<1>4. \A r \in ResultSet : Freed(w.sets[r], hold[r])
  <2> SUFFICES ASSUME NEW r \in ResultSet PROVE Freed(w.sets[r], hold[r])
    OBVIOUS
  <2> DEFINE n == IF r = t.rs THEN 1 ELSE 0
  <2>1. hold[r] = Unref(w.sets[r], n) /\ w.sets[r] \in Sets
    BY <1>1 DEF Worlds
  <2> HIDE DEF n, hold
  <2> QED BY <2>1, UnrefFrees
<1> HIDE DEF rest, hold
<1>5. OnLine(w, v) /\ v.conn.tasks = rest /\ v.sets = hold
  BY <1>1, HoldingLine
<1>6. OnLine(v, u) /\ u.conn.tasks = v.conn.tasks /\ u.sets = v.sets
  BY <1>1 DEF PutEvent, OnLine, Holding, Worlds, Conns
<1> HIDE DEF u, v
<1>7. OnLine(w, u)
  BY <1>5, <1>6 DEF OnLine
<1> QED BY <1>2, <1>3, <1>4, <1>5, <1>6, <1>7 DEF Drops, rest

LEMMA DropTasks ==
  ASSUME NEW w, Good(w)
  PROVE  Drops(w, RemoveTasks(w)) /\ RemoveTasks(w).conn.tasks = <<>>
<1>1. CASE w.conn.tasks = <<>>
  BY <1>1, DropsSelf DEF RemoveTasks
<1>2. CASE w.conn.tasks # <<>>
  <2> DEFINE hold == [r \in ResultSet |-> Unref(w.sets[r], Naming(w.conn.tasks, r))]
             v == Holding(w, <<>>, hold)
             u == PutEvent(v, "end")
  <2>1. w \in Worlds
    BY GoodType
  <2>2. RemoveTasks(w) = u
    BY <1>2 DEF RemoveTasks, Holding
  <2>3. Good(RemoveTasks(w))
    BY RemoveTasksLeads, LeadsType
  <2>4. \A r \in ResultSet : Freed(w.sets[r], hold[r])
    <3> SUFFICES ASSUME NEW r \in ResultSet PROVE Freed(w.sets[r], hold[r])
      OBVIOUS
    <3> DEFINE n == Naming(w.conn.tasks, r)
    <3>1. hold[r] = Unref(w.sets[r], n) /\ w.sets[r] \in Sets
      BY <2>1 DEF Worlds
    <3> HIDE DEF n, hold
    <3> QED BY <3>1, UnrefFrees
  <2> HIDE DEF hold
  <2>5. OnLine(w, v) /\ v.conn.tasks = <<>> /\ v.sets = hold
    BY <2>1, HoldingLine
  <2>6. OnLine(v, u) /\ u.conn.tasks = v.conn.tasks /\ u.sets = v.sets
    BY <2>1 DEF PutEvent, OnLine, Holding, Worlds, Conns
  <2> HIDE DEF u, v
  <2>7. OnLine(w, u)
    BY <2>5, <2>6 DEF OnLine
  <2> QED BY <2>2, <2>3, <2>4, <2>5, <2>6, <2>7 DEF Drops
<1> QED BY <1>1, <1>2

\* A set that a task names has not been freed.
LEMMA DropsNamed ==
  ASSUME NEW w, NEW v, Drops(w, v), NEW i \in DOMAIN v.conn.tasks,
         NEW r \in ResultSet, v.conn.tasks[i].rs = r
  PROVE  v.sets[r].q = w.sets[r].q /\ v.sets[r].live = w.sets[r].live /\ v.sets[r].name = w.sets[r].name
<1>1. v.conn.tasks \in Seq(Tasks)
  BY GoodType DEF Drops, Worlds, Conns
<1>2. Naming(v.conn.tasks, r) > 0 /\ Naming(v.conn.tasks, r) \in Nat
  BY <1>1, NamingPositive, PlacesFinite
<1>3. v.sets[r].ref = Once(v.sets[r].app) + Naming(v.conn.tasks, r)
  BY DEF Drops, Good, RefsOK
<1>4. v.sets[r] # FreeSet
  BY <1>2, <1>3, FreeSetType DEF Once
<1> QED BY <1>4 DEF Drops, Freed

\* No task is left, or the one at the head is not running.
Idle(w) == w.conn.tasks = <<>> \/ ~Head(w.conn.tasks).running

LEMMA OverIdle ==
  ASSUME NEW w, Over(w), Idle(w)
  PROVE  Steady(w)
BY DEF Over, Idle, Steady, Rested

LEMMA DropsOver ==
  ASSUME NEW w, NEW v, Over(w), Drops(w, v),
         v.conn.tasks = <<>> \/ (w.conn.tasks # <<>> /\ v.conn.tasks = Tail(w.conn.tasks) /\ Told(w))
  PROVE  Over(v) /\ Idle(v) /\ Steady(v) /\ v.conn.error = w.conn.error /\ v.conn.cs = w.conn.cs
<1>1. w \in Worlds /\ v \in Worlds /\ w.conn.tasks \in Seq(Tasks) /\ v.conn.tasks \in Seq(Tasks)
  BY GoodType DEF Over, Base, Drops, Worlds, Conns
<1>2. ASSUME NEW i \in DOMAIN v.conn.tasks
      PROVE  /\ i + 1 \in DOMAIN w.conn.tasks /\ i + 1 > 1 /\ v.conn.tasks[i] = w.conn.tasks[i + 1] /\ v.conn.tasks[i] \in Tasks
             /\ i \in Nat /\ Told(w) /\ w.conn.tasks # <<>> /\ Head(w.conn.tasks) = w.conn.tasks[1]
             /\ \A j \in DOMAIN w.conn.tasks : j = 1 \/ (j \in Nat /\ j - 1 \in DOMAIN v.conn.tasks)
  <2> DEFINE a == w.conn.tasks
             b == v.conn.tasks
  <2>1. b = <<>> \/ (a # <<>> /\ b = Tail(a) /\ Told(w))
    OBVIOUS
  <2>2. a \in Seq(Tasks) /\ b \in Seq(Tasks) /\ i \in DOMAIN b
    BY <1>1
  <2> HIDE DEF a, b
  <2>3. a # <<>> /\ b = Tail(a) /\ Told(w)
    BY <2>1, <2>2
  <2>4. i \in 1 .. Len(a) - 1 /\ b[i] = a[i + 1]
    BY <2>2, <2>3
  <2>5. i + 1 \in DOMAIN a /\ i + 1 > 1
    BY <2>2, <2>4
  <2>6. b[i] \in Tasks /\ Head(a) = a[1]
    BY <2>2, <2>3
  <2>7. \A j \in DOMAIN a : j = 1 \/ (j \in Nat /\ j - 1 \in DOMAIN b)
    BY <2>2, <2>3
  <2> QED BY <2>3, <2>4, <2>5, <2>6, <2>7 DEF a, b
<1>3. \A i \in DOMAIN v.conn.tasks : ~v.conn.tasks[i].running
  BY <1>2 DEF Over, Base, Queue
<1>4. ASSUME NEW i \in DOMAIN v.conn.tasks, v.conn.tasks[i].which = "sort"
      PROVE  Prepared(v, i)
  <2> DEFINE r == v.conn.tasks[i].rs
             k == i + 1
  <2>1. r \in ResultSet
    BY <1>2, <1>4 DEF Tasks
  <2>2. k \in DOMAIN w.conn.tasks /\ w.conn.tasks[k].rs = r /\ Prepared(w, k)
    BY <1>2, <1>4 DEF Over, Base, Queue
  <2>3. v.sets[r].live = w.sets[r].live /\ v.conn.error = w.conn.error
    BY <1>4, <2>1, DropsNamed DEF Drops, OnLine
  <2>4. ASSUME NEW j \in DOMAIN w.conn.tasks, j < k, w.conn.tasks[j].which = "search", w.conn.tasks[j].rs = r
        PROVE  Prepared(v, i)
    <3>1. CASE j = 1
      <4>1. w.net.proto = "z3950"
        BY <1>2, <1>4 DEF Over, Base, Good, NoExtras, Worlds, Nets
      <4>2. w.sets[r].live \/ w.conn.error # "none"
        BY <1>2, <1>4, <2>4, <3>1, <4>1 DEF Told
      <4> QED BY <2>3, <4>2 DEF Prepared
    <3>2. CASE j # 1
      <4> DEFINE m == j - 1
      <4>1. m \in DOMAIN v.conn.tasks /\ j \in Nat /\ j = m + 1
        BY <1>2, <1>4, <3>2
      <4>2. v.conn.tasks[m] = w.conn.tasks[j] /\ m < i
        BY <1>2, <1>4, <2>4, <4>1
      <4> HIDE DEF m
      <4> QED BY <2>4, <4>1, <4>2 DEF Prepared
    <3> QED BY <3>1, <3>2
  <2> QED BY <2>2, <2>3, <2>4 DEF Prepared
<1>5. ASSUME NEW r \in ResultSet, v.sets[r].live PROVE v.sets[r].name # Unset
  <2>1. v.sets[r] # FreeSet
    BY <1>5 DEF FreeSet
  <2> QED BY <1>5, <2>1 DEF Drops, Freed, Over, Base, Queue
<1>6. Queue(v)
  BY <1>3, <1>4, <1>5 DEF Queue
<1>7. Session(v) /\ AtRest(v) /\ Covered(v)
  BY DEF Drops, OnLine, Over, Base, Session, AtRest, Covered
<1>8. Over(v)
  BY <1>6, <1>7 DEF Over, Base, Drops
<1>9. Idle(v)
  <2>1. v.conn.tasks # <<>> => 1 \in DOMAIN v.conn.tasks /\ Head(v.conn.tasks) = v.conn.tasks[1]
    BY <1>1, HeadType
  <2> QED BY <1>3, <2>1 DEF Idle
<1> QED BY <1>8, <1>9, OverIdle DEF Drops, OnLine

LEMMA RemoveTaskOver ==
  ASSUME NEW w, Over(w), Told(w)
  PROVE  LET v == RemoveTask(w)
         IN  Over(v) /\ Idle(v) /\ Steady(v) /\ v.conn.error = w.conn.error /\ v.conn.cs = w.conn.cs
<1>1. CASE w.conn.tasks = <<>>
  BY <1>1, OverIdle DEF RemoveTask, Idle
<1>2. CASE w.conn.tasks # <<>>
  <2>1. Drops(w, RemoveTask(w)) /\ RemoveTask(w).conn.tasks = Tail(w.conn.tasks)
    BY <1>2, DropTask DEF Over, Base
  <2> QED BY <1>2, <2>1, DropsOver
<1> QED BY <1>1, <1>2

LEMMA RemoveTasksOver ==
  ASSUME NEW w, Over(w)
  PROVE  LET v == RemoveTasks(w)
         IN  /\ Over(v) /\ Idle(v) /\ Steady(v) /\ v.conn.error = w.conn.error /\ v.conn.cs = w.conn.cs
             /\ v.conn.tasks = <<>>
<1>1. Drops(w, RemoveTasks(w)) /\ RemoveTasks(w).conn.tasks = <<>>
  BY DropTasks DEF Over, Base
<1> QED BY <1>1, DropsOver

\* Nothing is left of what was under way when the connection is closed.
LEMMA CloseLine ==
  ASSUME NEW w \in Worlds
  PROVE  LET v == Close(w)
         IN  /\ v.conn.tasks = w.conn.tasks /\ v.sets = w.sets /\ v.conn.error = w.conn.error
             /\ v.conn.cs = "none" /\ v.conn.out = NoRequest /\ v.conn.mask = {} /\ v.net.wire = <<>>
             /\ ~v.net.inited /\ v.net.proto = w.net.proto /\ v.conn.aborted = w.conn.aborted
             /\ v.conn.location = w.conn.location /\ v.conn.redirects = w.conn.redirects
<1> DEFINE none == [n \in Name |-> NoRecord]
           c == [w.conn EXCEPT !.cs = "none", !.out = NoRequest]
           k == [w.net EXCEPT !.wire = <<>>, !.inited = FALSE, !.sets = none]
           d == [c EXCEPT !.mask = {}, !.state = "idle"]
           v == [w EXCEPT !.conn = d, !.net = k]
<1>1. Close(w) = v
  <2>1. Hangup(w) = [w EXCEPT !.conn = c, !.net = k]
    BY DEF Hangup, Worlds
  <2> HIDE DEF c, k
  <2> QED BY <2>1 DEF Close, SetMask, Worlds
<1>2. /\ d.tasks = w.conn.tasks /\ d.error = w.conn.error /\ d.cs = "none" /\ d.out = NoRequest /\ d.mask = {}
      /\ d.aborted = w.conn.aborted /\ d.location = w.conn.location /\ d.redirects = w.conn.redirects
  BY DEF Worlds, Conns
<1>3. k.wire = <<>> /\ ~k.inited /\ k.proto = w.net.proto
  <2> HIDE DEF none
  <2> QED BY DEF Worlds, Nets
<1> HIDE DEF d, k
<1>4. v.conn = d /\ v.net = k /\ v.sets = w.sets
  BY DEF Worlds
<1> HIDE DEF v
<1> QED BY <1>1, <1>2, <1>3, <1>4

\* The same tasks and sets, and no error less.
LEMMA QueueSame ==
  ASSUME NEW w, NEW v, Queue(w), v.conn.tasks = w.conn.tasks, v.sets = w.sets,
         w.conn.error # "none" => v.conn.error # "none"
  PROVE  Queue(v)
<1>1. ASSUME NEW i, Prepared(w, i) PROVE Prepared(v, i)
  BY <1>1 DEF Prepared
<1> QED BY <1>1 DEF Queue

LEMMA FitsSame ==
  ASSUME NEW w, NEW v, NEW req, Fits(w, req), v.conn.tasks = w.conn.tasks, v.sets = w.sets,
         v.net.proto = w.net.proto, v.net.inited = w.net.inited
  PROVE  Fits(v, req)
BY DEF Fits

LEMMA CloseOver ==
  ASSUME NEW w, Base(w)
  PROVE  LET v == Close(w)
         IN  Over(v) /\ v.conn.tasks = w.conn.tasks /\ v.sets = w.sets /\ v.conn.error = w.conn.error /\ v.conn.cs = "none"
<1> DEFINE v == Close(w)
<1>1. w \in Worlds
  BY GoodType DEF Base
<1>2. /\ v.conn.tasks = w.conn.tasks /\ v.sets = w.sets /\ v.conn.error = w.conn.error
      /\ v.conn.cs = "none" /\ v.conn.out = NoRequest /\ v.conn.mask = {} /\ v.net.wire = <<>>
      /\ ~v.net.inited /\ v.net.proto = w.net.proto /\ v.conn.aborted = w.conn.aborted
      /\ v.conn.location = w.conn.location /\ v.conn.redirects = w.conn.redirects
  BY <1>1, CloseLine
<1>3. Good(v)
  BY <1>1, CloseAlike, AlikeLeads, LeadsType DEF Base
<1> HIDE DEF v
<1>4. Queue(v) /\ Session(v)
  BY <1>2, QueueSame DEF Base, Session
<1> QED BY <1>2, <1>3, <1>4 DEF Over, Base, AtRest, Covered, v

LEMMA ErrorLine ==
  ASSUME NEW w \in Worlds, NEW e
  PROVE  LET v == SetError(w, e)
         IN  /\ v.conn.tasks = w.conn.tasks /\ v.sets = w.sets /\ v.net = w.net /\ v.ret = w.ret
             /\ v.conn.error = e /\ v.conn.cs = w.conn.cs /\ v.conn.out = w.conn.out /\ v.conn.mask = w.conn.mask
             /\ v.conn.aborted = w.conn.aborted /\ v.conn.proto = w.conn.proto
             /\ v.conn.location = w.conn.location /\ v.conn.redirects = w.conn.redirects
BY DEF SetError, Worlds, Conns

\* An error where there was none.  Without an Init that was accepted it has to
\* be one that stays.
LEMMA ErrorOver ==
  ASSUME NEW w, Base(w), AtRest(w), w.conn.error = "none", NEW e \in Errors \ {"none"}, Covered(w) \/ e \in Sticky
  PROVE  LET v == SetError(w, e)
         IN  /\ Over(v) /\ Steady(v) /\ v.conn.tasks = w.conn.tasks /\ v.sets = w.sets /\ v.conn.cs = w.conn.cs
             /\ v.conn.error = e
<1> DEFINE v == SetError(w, e)
<1>1. w \in Worlds
  BY GoodType DEF Base
<1>2. /\ v.conn.tasks = w.conn.tasks /\ v.sets = w.sets /\ v.net = w.net
      /\ v.conn.error = e /\ v.conn.cs = w.conn.cs /\ v.conn.out = w.conn.out /\ v.conn.mask = w.conn.mask
      /\ v.conn.aborted = w.conn.aborted /\ v.conn.proto = w.conn.proto
      /\ v.conn.location = w.conn.location /\ v.conn.redirects = w.conn.redirects
  BY <1>1, ErrorLine
<1>3. Good(v)
  BY <1>1, ErrorAlike, AlikeLeads, LeadsType DEF Base
<1> HIDE DEF v
<1>4. Queue(v) /\ Session(v)
  BY <1>2, QueueSame DEF Base, Session
<1>5. AtRest(v) /\ Covered(v)
  BY <1>2 DEF AtRest, Covered, Sticky
<1>6. Over(v)
  BY <1>3, <1>4, <1>5 DEF Over, Base
<1>7. Steady(v)
  BY <1>2, <1>6 DEF Over, Steady, Rested
<1> QED BY <1>2, <1>6, <1>7 DEF v

\* A connection is closed with an error.
LEMMA CloseErrorOver ==
  ASSUME NEW w, Base(w), NEW e \in Errors \ {"none"}
  PROVE  LET v == Close(SetError(w, e))
         IN  Over(v) /\ Steady(v) /\ v.conn.error = e /\ v.conn.cs = "none" /\ v.conn.tasks = w.conn.tasks
<1> DEFINE u == SetError(w, e)
           v == Close(u)
<1>1. w \in Worlds
  BY GoodType DEF Base
<1>2. /\ u.conn.tasks = w.conn.tasks /\ u.sets = w.sets /\ u.net = w.net /\ u.conn.error = e
      /\ u.conn.aborted = w.conn.aborted
      /\ u.conn.location = w.conn.location /\ u.conn.redirects = w.conn.redirects
  BY <1>1, ErrorLine
<1>3. u \in Worlds
  BY <1>1, ErrorAlike, AlikeType
<1>4. Good(v)
  BY CloseErrorLeads, LeadsType DEF Base
<1> HIDE DEF u
<1>5. /\ v.conn.tasks = u.conn.tasks /\ v.sets = u.sets /\ v.conn.error = u.conn.error
      /\ v.conn.cs = "none" /\ v.conn.out = NoRequest /\ v.conn.mask = {} /\ v.net.wire = <<>>
      /\ ~v.net.inited /\ v.net.proto = u.net.proto /\ v.conn.aborted = u.conn.aborted
      /\ v.conn.location = u.conn.location /\ v.conn.redirects = u.conn.redirects
  BY <1>3, CloseLine
<1> HIDE DEF v
<1>6. Queue(v) /\ Session(v)
  BY <1>2, <1>5, QueueSame DEF Base, Session
<1>7. Over(v)
  BY <1>4, <1>5, <1>6 DEF Over, Base, AtRest, Covered
<1>8. Steady(v)
  BY <1>2, <1>5, <1>7 DEF Over, Steady, Rested
<1> QED BY <1>2, <1>5, <1>7, <1>8 DEF v, u

\* The task at the head is to run again: nothing runs.
LEMMA ResumeOver ==
  ASSUME NEW w, Over(w), w.conn.tasks # <<>>
  PROVE  LET v == Resume(w)
         IN  Over(v) /\ Idle(v) /\ Steady(v) /\ v.conn.tasks # <<>>
<1> DEFINE t == Plain("connect")
           old == w.conn.tasks
           h == [old[1] EXCEPT !.running = FALSE]
           new == <<t>> \o [old EXCEPT ![1] = h]
           v == Resume(w)
<1>1. w \in Worlds /\ old \in Seq(Tasks) /\ 1 \in DOMAIN old /\ old[1] \in Tasks
  BY HeadType, GoodType DEF Over, Base, Worlds, Conns
<1>2. v.conn.tasks = new /\ v.sets = w.sets /\ OnLine(w, v)
  BY <1>1 DEF Resume, InsertTask, OnLine, Worlds, Conns
<1>3. Good(v) /\ v \in Worlds
  BY ResumeLeads, LeadsType DEF Over, Base
<1>4. t \in Tasks /\ ~t.running /\ t.which = "connect"
  BY PlainTask
<1>5. h.which = old[1].which /\ h.rs = old[1].rs /\ ~h.running /\ h \in Tasks
  BY <1>1 DEF Tasks
<1> HIDE DEF h, t, v
<1>6. /\ new # <<>> /\ Head(new) = t
      /\ \A i \in DOMAIN new : new[i] = t \/ new[i] = h \/ (i - 1 \in DOMAIN old /\ i - 1 > 1 /\ new[i] = old[i - 1])
      /\ \A i \in DOMAIN new : new[i] = t \/ (i - 1 \in DOMAIN old /\ new[i].which = old[i - 1].which /\ new[i].rs = old[i - 1].rs)
      /\ DOMAIN new \subseteq Int
      /\ \A j \in DOMAIN old : j + 1 \in DOMAIN new /\ new[j + 1].which = old[j].which /\ new[j + 1].rs = old[j].rs
  <2> HIDE DEF old
  <2> DEFINE b == [old EXCEPT ![1] = h]
  <2>1. b \in Seq(Tasks) /\ b[1] = h /\ DOMAIN b = DOMAIN old /\ \A i \in DOMAIN b : i > 1 => b[i] = old[i]
    BY <1>1, <1>5
  <2>2. new = <<t>> \o b
    OBVIOUS
  <2> HIDE DEF b, new
  <2>3. Head(new) = t /\ new # <<>> /\ \A i \in DOMAIN new : i = 1 \/ (i - 1 \in DOMAIN b /\ new[i] = b[i - 1])
    BY <1>4, <2>1, <2>2
  <2>4. new[1] = t
    BY <1>4, <2>1, <2>2
  <2>5. ASSUME NEW i \in DOMAIN new, i # 1
        PROVE  new[i] = h \/ (i - 1 \in DOMAIN old /\ i - 1 > 1 /\ new[i] = old[i - 1])
    <3> DEFINE j == i - 1
    <3>1. j \in DOMAIN b /\ new[i] = b[j] /\ j \in Nat \ {0}
      BY <2>1, <2>3, <2>5
    <3> HIDE DEF j
    <3>2. j = 1 \/ j > 1
      BY <3>1
    <3>3. new[i] = h \/ (j \in DOMAIN old /\ j > 1 /\ new[i] = old[j])
      BY <2>1, <3>1, <3>2
    <3> QED BY <3>3 DEF j
  <2>6. \A j \in DOMAIN b : b[j].which = old[j].which /\ b[j].rs = old[j].rs
    <3>1. \A j \in DOMAIN b : j = 1 \/ b[j] = old[j]
      BY <2>1
    <3> QED BY <1>5, <2>1, <3>1
  <2>7. \A i \in DOMAIN new : new[i] = t \/ (i - 1 \in DOMAIN old /\ new[i].which = old[i - 1].which /\ new[i].rs = old[i - 1].rs)
    BY <2>1, <2>3, <2>4, <2>6
  <2>8. ASSUME NEW j \in DOMAIN old
        PROVE  j + 1 \in DOMAIN new /\ new[j + 1].which = old[j].which /\ new[j + 1].rs = old[j].rs
    <3>1. j \in DOMAIN b
      BY <2>1, <2>8
    <3>2. j + 1 \in DOMAIN new /\ new[j + 1] = b[j]
      BY <1>4, <2>1, <2>2, <3>1
    <3> QED BY <2>6, <3>1, <3>2
  <2>9. DOMAIN new \subseteq Int
    BY <1>4, <2>1, <2>2
  <2> QED BY <2>3, <2>4, <2>5, <2>7, <2>8, <2>9
<1> HIDE DEF new
<1>7. \A i \in DOMAIN new : ~new[i].running
  BY <1>4, <1>5, <1>6 DEF Over, Base, Queue, old
<1>8. ASSUME NEW i \in DOMAIN new, new[i].which = "sort" PROVE Prepared(v, i)
  <2> DEFINE k == i - 1
  <2>1. k \in DOMAIN old /\ new[i].which = old[k].which /\ new[i].rs = old[k].rs /\ i = k + 1
    <3>1. new[i] # t
      BY <1>4, <1>8
    <3>2. i \in Int
      BY <1>6
    <3>3. i = k + 1
      BY <3>2
    <3> QED BY <1>6, <3>1, <3>3
  <2> HIDE DEF k
  <2>2. Prepared(w, k)
    BY <1>8, <2>1 DEF Over, Base, Queue, old
  <2>3. v.conn.error = w.conn.error
    BY <1>2 DEF OnLine
  <2>4. ASSUME NEW j \in DOMAIN old, j < k, old[j].which = "search", old[j].rs = old[k].rs
        PROVE  \E m \in DOMAIN new : m < i /\ new[m].which = "search" /\ new[m].rs = new[i].rs
    <3>1. j + 1 \in DOMAIN new /\ new[j + 1].which = "search" /\ new[j + 1].rs = new[i].rs
      BY <1>6, <2>1, <2>4
    <3>2. j \in Int /\ k \in Int
      BY <1>1, <2>1, <2>4
    <3>3. j + 1 < i
      BY <2>1, <2>4, <3>2
    <3> QED BY <3>1, <3>3
  <2> QED BY <1>2, <2>1, <2>2, <2>3, <2>4 DEF Prepared, old
<1>9. Queue(v)
  BY <1>2, <1>7, <1>8 DEF Queue, Over, Base
<1>10. Session(v) /\ AtRest(v) /\ Covered(v)
  BY <1>2 DEF OnLine, Over, Base, Session, AtRest, Covered
<1>11. Over(v) /\ Idle(v)
  BY <1>2, <1>3, <1>4, <1>6, <1>9, <1>10 DEF Over, Base, Idle
<1> QED BY <1>2, <1>6, <1>11, OverIdle DEF v

LEMMA ReconnectOver ==
  ASSUME NEW w, Base(w), w.conn.tasks # <<>>
  PROVE  Over(Reconnect(w)) /\ Steady(Reconnect(w))
<1> DEFINE u == Close(w)
           v == Resume(u)
<1>1. Over(u) /\ u.conn.tasks # <<>>
  BY CloseOver
<1>2. Reconnect(w) = PutEvent(v, "connect")
  BY DEF Reconnect
<1> HIDE DEF u
<1>3. Over(v) /\ Steady(v)
  BY <1>1, ResumeOver
<1>4. v \in Worlds
  BY <1>3, GoodType DEF Over, Base
<1> HIDE DEF v
<1>5. Keeps(v, PutEvent(v, "connect"))
  BY <1>4, EventKeeps DEF EventKinds
<1> QED BY <1>2, <1>3, <1>5, KeepsOver, KeepsSteady

LEMMA BrokenSteady ==
  ASSUME NEW w, Base(w), w.conn.tasks # <<>>, NEW e \in Errors \ {"none"}
  PROVE  Steady(Broken(w, e))
BY ReconnectOver, CloseErrorOver DEF Broken

\* A request is written, in part or whole, or the connection is lost.  The
\* task that sends is either waiting for the answer, or has an error, or is to
\* run again.
LEMMA SendBufSteady ==
  ASSUME NEW w, Base(w), NEW ch \in Choices, w.conn.cs = "data", w.conn.error = "none", w.net.wire = <<>>,
         w.conn.out # NoRequest, Fits(w, w.conn.out)
  PROVE  LET v == SendBuf(w, ch)
         IN  Steady(v) /\ (v.ret = "complete" => Over(v) /\ v.conn.error # "none" /\ v.conn.tasks = w.conn.tasks)
<1> DEFINE w1 == PutEvent(w, "send_data")
<1>1. w \in Worlds /\ w.conn.tasks # <<>>
  BY GoodType DEF Base, Fits
<1>2. Keeps(w, w1)
  BY <1>1, EventKeeps DEF EventKinds
<1>3. Base(w1) /\ w1 \in Worlds /\ w1.conn.tasks # <<>> /\ Fits(w1, w.conn.out) /\ w1.conn.tasks = w.conn.tasks
  <2>1. w1.conn.tasks = w.conn.tasks
    BY <1>1 DEF PutEvent, Worlds, Conns
  <2> HIDE DEF w1
  <2> QED BY <1>1, <1>2, <2>1, KeepsBase, KeepsFits DEF Keeps, Alike
<1>4. w1.conn.cs = "data" /\ w1.conn.error = "none" /\ w1.net.wire = <<>> /\ w1.conn.out = w.conn.out
  BY <1>2 DEF Keeps, Firm, OnLine
<1>5. CASE ch.write = "fail"
  <2>1. SendBuf(w, ch) = Returns(Reconnect(w1), "pending")
        \/ \E e \in {"connect", "lost"} : SendBuf(w, ch) = Returns(Close(SetError(w1, e)), "complete")
    BY <1>5 DEF SendBuf
  <2> HIDE DEF w1
  <2>2. ASSUME NEW u, Over(u), Steady(u), NEW ret \in {"pending", "complete"}
        PROVE  LET v == Returns(u, ret)
               IN  Over(v) /\ Steady(v) /\ v.ret = ret /\ v.conn.error = u.conn.error /\ v.conn.tasks = u.conn.tasks
    <3>1. u \in Worlds
      BY <2>2, GoodType DEF Over, Base
    <3>2. Keeps(u, Returns(u, ret)) /\ Returns(u, ret).ret = ret
      BY <3>1, ReturnKeeps
    <3>3. Returns(u, ret).conn.error = u.conn.error
      BY <3>2 DEF Keeps, Firm, OnLine
    <3>4. Returns(u, ret).conn.tasks = u.conn.tasks
      BY <3>1 DEF Returns, Worlds
    <3> QED BY <2>2, <3>2, <3>3, <3>4, KeepsOver, KeepsSteady
  <2>3. Over(Reconnect(w1)) /\ Steady(Reconnect(w1))
    BY <1>3, ReconnectOver
  <2>4. \A e \in {"connect", "lost"} :
           /\ Over(Close(SetError(w1, e))) /\ Steady(Close(SetError(w1, e))) /\ Close(SetError(w1, e)).conn.error = e
           /\ Close(SetError(w1, e)).conn.tasks = w1.conn.tasks
    BY <1>3, CloseErrorOver DEF Errors
  <2>5. CASE SendBuf(w, ch) = Returns(Reconnect(w1), "pending")
    BY <2>2, <2>3, <2>5
  <2>6. ASSUME NEW e \in {"connect", "lost"}, SendBuf(w, ch) = Returns(Close(SetError(w1, e)), "complete")
        PROVE  /\ Steady(SendBuf(w, ch)) /\ Over(SendBuf(w, ch)) /\ SendBuf(w, ch).conn.error # "none"
               /\ SendBuf(w, ch).conn.tasks = w.conn.tasks
    BY <1>3, <2>2, <2>4, <2>6
  <2> QED BY <2>1, <2>5, <2>6
<1>6. CASE ch.write = "partial"
  <2> DEFINE u == SetMask(w1, {"write", "except"})
             v == Returns(u, "pending")
  <2>1. SendBuf(w, ch) = v
    BY <1>6 DEF SendBuf
  <2> HIDE DEF w1
  <2>2. u.conn.tasks = w1.conn.tasks /\ u.sets = w1.sets /\ u.net = w1.net /\ u.conn.mask = {"write", "except"}
        /\ u.conn.cs = w1.conn.cs /\ u.conn.error = w1.conn.error /\ u.conn.out = w1.conn.out
        /\ u.conn.proto = w1.conn.proto /\ u.conn.location = w1.conn.location
        /\ u.conn.redirects = w1.conn.redirects /\ u.conn.aborted = w1.conn.aborted
    BY <1>3 DEF SetMask, Worlds, Conns
  <2>3. Good(u) /\ u \in Worlds
    <3>1. Alike(w1, u)
      BY <1>3, MaskAlike
    <3> QED BY <1>3, <3>1, AlikeLeads, LeadsType DEF Base
  <2> HIDE DEF u
  <2>4. Base(u)
    BY <1>3, <2>2, <2>3, QueueSame DEF Base, Session
  <2>5. UnderWay(u)
    <3>1. Fits(u, w.conn.out)
      BY <1>3, <2>2, FitsSame
    <3> QED BY <1>4, <2>2, <3>1 DEF UnderWay
  <2>6. Keeps(u, v) /\ v.ret = "pending"
    BY <2>3, ReturnKeeps
  <2>7. Steady(v)
    BY <2>4, <2>5, <2>6, KeepsSteady DEF Steady
  <2> HIDE DEF v
  <2> QED BY <2>1, <2>6, <2>7
<1>7. CASE ch.write = "done"
  <2> DEFINE wire == Append(w1.net.wire, w1.conn.out)
             u == [SetMask(w1, {"read", "except"}) EXCEPT !.net.wire = wire, !.conn.out = NoRequest]
             v == Returns(u, "pending")
  <2>1. SendBuf(w, ch) = v
    <3>1. SetMask(w1, {"read", "except"}).net = w1.net /\ SetMask(w1, {"read", "except"}).conn.out = w1.conn.out
      <4> HIDE DEF w1
      <4> QED BY <1>3 DEF SetMask, Worlds, Conns
    <3>2. SendBuf(w, ch) = Returns([SetMask(w1, {"read", "except"}) EXCEPT
              !.net.wire = Append(@, w.conn.out), !.conn.out = NoRequest], "pending")
      BY <1>4, <1>7 DEF SendBuf
    <3> HIDE DEF w1
    <3> QED BY <1>4, <3>1, <3>2
  <2>2. Leads(w, v)
    BY <2>1, SendBufLeads DEF Base
  <2> HIDE DEF w1
  <2>3. Len(wire) = 1 /\ wire[1] = w.conn.out
    BY <1>4
  <2> HIDE DEF wire
  <2>4. u.conn.tasks = w1.conn.tasks /\ u.sets = w1.sets /\ u.net.wire = wire /\ u.net.inited = w1.net.inited
        /\ u.net.proto = w1.net.proto /\ u.conn.mask = {"read", "except"}
        /\ u.conn.cs = w1.conn.cs /\ u.conn.error = w1.conn.error /\ u.conn.out = NoRequest
        /\ u.conn.proto = w1.conn.proto /\ u.conn.location = w1.conn.location
        /\ u.conn.redirects = w1.conn.redirects /\ u.conn.aborted = w1.conn.aborted
        /\ v.conn = u.conn /\ v.net = u.net /\ v.sets = u.sets /\ v.ret = "pending"
    BY <1>3 DEF SetMask, Returns, Worlds, Conns, Nets
  <2> HIDE DEF u, v
  <2>5. Good(v)
    BY <2>2, LeadsType
  <2>6. Base(v)
    <3>1. Queue(v)
      BY <1>3, <2>4, QueueSame DEF Base
    <3>2. Session(v)
      BY <1>3, <2>4 DEF Base, Session
    <3> QED BY <2>5, <3>1, <3>2 DEF Base
  <2>7. UnderWay(v)
    <3>1. Fits(v, w.conn.out)
      BY <1>3, <2>4, FitsSame
    <3> QED BY <1>4, <2>3, <2>4, <3>1 DEF UnderWay
  <2> QED BY <2>1, <2>4, <2>6, <2>7 DEF Steady
<1> QED BY <1>5, <1>6, <1>7 DEF Choices

-----------------------------------------------------------------------------
(* The requests of the task at the head.                                   *)

LEMMA SendSteady ==
  ASSUME NEW w, Base(w), NEW ch \in Choices, w.conn.cs = "data", w.conn.error = "none", w.net.wire = <<>>,
         NEW req \in Requests, req # NoRequest, Fits(w, req)
  PROVE  LET v == Send(w, req, ch)
         IN  Steady(v) /\ (v.ret = "complete" => Over(v) /\ v.conn.error # "none" /\ v.conn.tasks = w.conn.tasks)
<1> DEFINE u == [w EXCEPT !.conn.out = req]
           v == PutEvent(u, "send_apdu")
<1>1. w \in Worlds
  BY GoodType DEF Base
<1>2. Alike(w, u) /\ u \in Worlds
  BY <1>1, Fields, AlikeType
<1>3. /\ u.conn.tasks = w.conn.tasks /\ u.sets = w.sets /\ u.net = w.net /\ u.conn.out = req
      /\ u.conn.cs = w.conn.cs /\ u.conn.error = w.conn.error /\ u.conn.proto = w.conn.proto
      /\ u.conn.location = w.conn.location /\ u.conn.redirects = w.conn.redirects /\ u.conn.aborted = w.conn.aborted
  BY <1>1 DEF Worlds, Conns
<1>4. Send(w, req, ch) = SendBuf(v, ch)
  BY DEF Send
<1> HIDE DEF u
<1>5. Base(u)
  <2>1. Good(u)
    BY <1>2, AlikeLeads, LeadsType DEF Base
  <2>2. Queue(u)
    BY <1>3, QueueSame DEF Base
  <2>3. Session(u)
    BY <1>3 DEF Base, Session
  <2> QED BY <2>1, <2>2, <2>3 DEF Base
<1>6. Fits(u, req)
  BY <1>3, FitsSame
<1>7. Keeps(u, v) /\ v.conn.tasks = u.conn.tasks
  <2>1. v.conn.tasks = u.conn.tasks
    BY <1>2 DEF PutEvent, Worlds, Conns
  <2> QED BY <1>2, <2>1, EventKeeps DEF EventKinds
<1> HIDE DEF v
<1>8. Base(v) /\ Fits(v, req)
  BY <1>2, <1>5, <1>6, <1>7, KeepsBase, KeepsFits
<1>9. v.conn.cs = "data" /\ v.conn.error = "none" /\ v.net.wire = <<>> /\ v.conn.out = req
  BY <1>3, <1>7 DEF Keeps, Firm, OnLine
<1> HIDE DEF Steady, Over, Base, Fits
<1>10. LET z == SendBuf(v, ch) IN Steady(z) /\ (z.ret = "complete" => Over(z) /\ z.conn.error # "none" /\ z.conn.tasks = v.conn.tasks)
  BY <1>8, <1>9, SendBufSteady
<1> QED BY <1>3, <1>4, <1>7, <1>10

\* With an Init accepted, what the task at the head may send fits it.
LEMMA SendServing ==
  ASSUME NEW w, Serving(w), w.conn.error = "none", NEW ch \in Choices, NEW req \in Requests,
         req.kind \in Sends(Head(w.conn.tasks)), req.kind # "init",
         Head(w.conn.tasks).rs # NoSet =>
           /\ req.rs = Head(w.conn.tasks).rs
           /\ req.q = w.sets[req.rs].q
           /\ w.sets[req.rs].name # Unset
  PROVE  /\ Post(Send(w, req, ch))
         /\ Send(w, req, ch).ret = "complete" =>
              Send(w, req, ch).conn.error # "none" /\ Send(w, req, ch).conn.tasks = w.conn.tasks
<1>1. w \in Worlds /\ Base(w) /\ w.conn.cs = "data" /\ w.net.wire = <<>> /\ w.conn.tasks # <<>>
  BY GoodType DEF Serving, Over, Base, AtRest
<1>2. w.net.proto = "z3950" => w.net.inited
  BY DEF Serving, Over, Covered, Sticky
<1>3. Fits(w, req)
  BY <1>1, <1>2 DEF Fits, Serving
<1>4. req # NoRequest
  <2>1. Head(w.conn.tasks) \in Tasks
    BY <1>1, HeadType
  <2>2. "none" \notin Sends(Head(w.conn.tasks))
    BY <2>1 DEF Sends, Tasks, TaskKinds
  <2> QED BY <2>2 DEF NoRequest, Request
<1> DEFINE v == Send(w, req, ch)
<1>5. Steady(v) /\ (v.ret = "complete" => Over(v) /\ v.conn.error # "none" /\ v.conn.tasks = w.conn.tasks)
  BY <1>1, <1>3, <1>4, SendSteady
<1> QED BY <1>5 DEF Post, Told

\* A task gives up, or has nothing more to ask for.
LEMMA CompletePost ==
  ASSUME NEW w, Over(w), Told(w)
  PROVE  Post(Returns(w, "complete"))
<1> DEFINE v == Returns(w, "complete")
<1>1. Keeps(w, v) /\ v.ret = "complete"
  BY GoodType, ReturnKeeps DEF Over, Base
<1>2. v.conn = w.conn /\ v.sets = w.sets /\ v.net = w.net
  BY GoodType DEF Returns, Over, Base, Worlds
<1> HIDE DEF v
<1>3. Over(v) /\ Told(v)
  BY <1>1, <1>2, KeepsOver DEF Told
<1> QED BY <1>1, <1>3 DEF Post, v

LEMMA RefusePost ==
  ASSUME NEW w, Over(w), w.conn.error = "none", NEW e \in Errors \ {"none"}
  PROVE  Post(Returns(SetError(w, e), "complete"))
<1>1. Over(SetError(w, e)) /\ SetError(w, e).conn.error = e
  BY ErrorOver DEF Over
<1>2. Told(SetError(w, e))
  BY <1>1 DEF Told
<1> QED BY <1>1, <1>2, CompletePost

LEMMA SendSearchPost ==
  ASSUME NEW w, Serving(w), w.conn.error = "none", NEW ch \in Choices, Head(w.conn.tasks).which = "search"
  PROVE  Post(SendSearch(w, ch))
<1> DEFINE t == Head(w.conn.tasks)
           s == w.sets[t.rs]
           name == IF s.name # Unset THEN s.name ELSE IF w.conn.named THEN FreeName(w) ELSE Default
           req == Request("search", t.rs, s.q, name, 0, Piggyback(s, t))
           d == [s EXCEPT !.name = name]
           v == [w EXCEPT !.sets[t.rs] = d]
<1>1. w \in Worlds /\ w.conn.tasks # <<>>
  BY GoodType DEF Serving, Over, Base
<1>2. t \in Tasks /\ t.rs \in ResultSet /\ s \in Sets
  BY <1>1, HeadType
<1>3. name \in Name /\ name # Unset
  <2>1. CASE s.name # Unset
    BY <1>2, <2>1 DEF Sets
  <2>2. CASE s.name = Unset /\ w.conn.named
    <3>1. FreeName(w) \in 1 .. Cardinality(ResultSet)
      <4> HIDE DEF t
      <4> QED BY <1>1, <1>2, <2>2, FreeNameType
    <3>2. name = FreeName(w)
      BY <2>2
    <3> HIDE DEF name, s
    <3> QED BY <3>1, <3>2, NameCount DEF Name, Unset
  <2>3. CASE s.name = Unset /\ ~w.conn.named
    BY <2>3, NameCount DEF Default, Unset
  <2> QED BY <2>1, <2>2, <2>3
<1>4. Piggyback(s, t) \in Int
  BY <1>2, ZoomAssumption DEF Piggyback, Tasks
<1>5. CASE ~ch.fit
  <2>1. SendSearch(w, ch) = Returns(SetError(w, "query"), "complete")
    BY <1>5 DEF SendSearch
  <2>2. Over(w)
    BY Zenon DEF Serving
  <2> QED BY <2>1, <2>2, RefusePost DEF Errors
<1>6. CASE ch.fit
  <2>1. SendSearch(w, ch) = Send([w EXCEPT !.sets[t.rs].name = name], req, ch)
    BY <1>6 DEF SendSearch
  <2> HIDE DEF name
  <2>2. req \in Requests /\ req.kind = "search" /\ req.rs = t.rs /\ req.q = s.q
    <3> HIDE DEF t
    <3> QED BY <1>2, <1>3, <1>4, Zenon DEF Request, Requests, Sets
  <2>3. d \in Sets /\ d.ref = s.ref /\ d.app = s.app /\ d.q = s.q /\ d.live = s.live /\ d.name = name
    BY <1>2, <1>3 DEF Sets
  <2>4. v = [w EXCEPT !.sets[t.rs].name = name]
    BY <1>1, <1>2
  <2>5. v.sets[t.rs] = d
    BY <1>1, <1>2 DEF Worlds
  <2>6. t.which = "search"
    OBVIOUS
  <2> HIDE DEF d, req, s
  <2>7. Keeps(w, v)
    <3> HIDE DEF t
    <3> QED BY <1>1, <1>2, <1>3, <2>3, SetKeeps DEF s
  <2> HIDE DEF v
  <2>8. Serving(v)
    BY <2>7, KeepsOver
  <2>9. v.conn.error = "none" /\ Head(v.conn.tasks).which = "search" /\ Head(v.conn.tasks).rs = t.rs
    <3>1. v.conn.error = w.conn.error
      BY <2>7 DEF Keeps, Firm, OnLine
    <3> QED BY <1>1, <2>6, <2>7, <3>1, KeepsHead
  <2> DEFINE h == Head(v.conn.tasks)
  <2>10. req.kind \in Sends(h) /\ req.kind # "init"
    BY <2>2, <2>9 DEF Sends
  <2>11. req.rs = h.rs /\ req.q = v.sets[h.rs].q /\ v.sets[h.rs].name # Unset
    BY <1>3, <2>2, <2>3, <2>5, <2>9, Zenon
  <2>12. Post(Send(v, req, ch))
    BY <2>2, <2>8, <2>9, <2>10, <2>11, SendServing
  <2> QED BY <2>1, <2>4, <2>12
<1> QED BY <1>5, <1>6

\* Of a task that is passed something is left that the server has.
LEMMA SendPresentPost ==
  ASSUME NEW w, Serving(w), w.conn.error = "none", NEW ch \in Choices, Head(w.conn.tasks).which = "search",
         Head(w.conn.tasks).count > 0, w.sets[Head(w.conn.tasks).rs].live,
         Head(w.conn.tasks).start < w.sets[Head(w.conn.tasks).rs].size
  PROVE  Post(SendPresent(w, ch))
<1> DEFINE t == Head(w.conn.tasks)
           s == w.sets[t.rs]
           chunk == IF Step > 0 /\ Step < t.count THEN Step ELSE t.count
           num == Smaller(chunk, s.size - t.start)
           req == Request("present", t.rs, s.q, s.name, t.start, num)
<1>1. w \in Worlds /\ w.conn.tasks # <<>>
  BY GoodType DEF Serving, Over, Base
<1>2. t \in Tasks /\ t.rs \in ResultSet /\ s \in Sets
  BY <1>1, HeadType
<1>3. num \in Int /\ ~(num <= 0)
  <2>1. t.count > 0 /\ t.start < s.size
    OBVIOUS
  <2> HIDE DEF t, s
  <2> QED BY <1>2, <2>1, ZoomAssumption DEF Smaller, Tasks, Sets
<1>4. SendPresent(w, ch) = IF num <= 0 THEN Abort(w) ELSE Send(w, req, ch)
  BY DEF SendPresent
<1> HIDE DEF num
<1>5. s.live => s.name # Unset
  <2> HIDE DEF t
  <2> QED BY <1>2 DEF Serving, Over, Base, Queue
<1>6. s.live /\ t.which = "search"
  OBVIOUS
<1> HIDE DEF s, t
<1>7. req \in Requests /\ req.kind = "present" /\ req.rs = t.rs /\ req.q = s.q
  BY <1>2, <1>3 DEF Request, Requests, Tasks, Sets
<1> HIDE DEF req
<1>8. req.kind \in Sends(t) /\ req.kind # "init"
  BY <1>6, <1>7, Zenon DEF Sends
<1>9. Post(Send(w, req, ch))
  BY <1>5, <1>6, <1>7, <1>8, SendServing DEF s, t
<1> QED BY <1>3, <1>4, <1>9

\* A sort is asked for the set of the task at the head, when that set is known
\* to the server.
LEMMA SendSortPost ==
  ASSUME NEW w, Serving(w), NEW ch \in Choices, NEW r \in ResultSet, w.sets[r].live,
         Head(w.conn.tasks).which \in {"search", "sort"}, Head(w.conn.tasks).rs = r
  PROVE  LET v == SendSort(w, r, ch)
         IN  IF v.ret = "complete" THEN Serving(v) /\ Head(v.conn.tasks).which = Head(w.conn.tasks).which
             ELSE Steady(v)
<1> DEFINE s == w.sets[r]
           d == [s EXCEPT !.sort = FALSE]
           w1 == [w EXCEPT !.sets[r] = d]
           req == Request("sort", r, s.q, s.name, 0, 0)
           t == Head(w.conn.tasks)
<1>1. w \in Worlds /\ w.conn.tasks # <<>>
  BY GoodType DEF Serving, Over, Base
<1>2. s \in Sets /\ s.name # Unset
  BY <1>1 DEF Worlds, Serving, Over, Base, Queue
<1>3. d \in Sets /\ d.ref = s.ref /\ d.app = s.app /\ d.q = s.q /\ d.live = s.live /\ d.name = s.name
  BY <1>2 DEF Sets
<1>4. w1 = [w EXCEPT !.sets[r].sort = FALSE] /\ w1.sets[r] = d
  BY <1>1 DEF Worlds
<1>5. t.which \in {"search", "sort"} /\ t.rs = r
  OBVIOUS
<1> HIDE DEF d, t
<1>6. Keeps(w, w1)
  BY <1>1, <1>3, SetKeeps
<1>7. req \in Requests /\ req.kind = "sort" /\ req.rs = r /\ req.q = s.q
  BY <1>2 DEF Request, Requests, Sets
<1>8. \/ SendSort(w, r, ch) = Returns(w1, "complete")
      \/ SendSort(w, r, ch) = Returns(w, "complete")
      \/ SendSort(w, r, ch) = Send(w1, req, ch) /\ w.conn.error = "none"
  <2>1. CASE w.conn.error # "none"
    BY <1>4, <2>1 DEF SendSort
  <2>2. CASE w.conn.error = "none" /\ ~s.sort
    BY <2>2 DEF SendSort
  <2>3. CASE w.conn.error = "none" /\ s.sort
    BY <1>2, <1>4, <2>3 DEF SendSort, req
  <2> QED BY <1>2, <2>1, <2>2, <2>3
<1> HIDE DEF w1, req, s
<1>9. Serving(w1) /\ w1 \in Worlds /\ w1.conn.error = w.conn.error
      /\ w1.conn.tasks # <<>> /\ Head(w1.conn.tasks).which = t.which /\ Head(w1.conn.tasks).rs = r
  <2>1. Serving(w1) /\ w1 \in Worlds
    BY <1>6, KeepsOver DEF Keeps, Alike
  <2>2. w1.conn.tasks # <<>> /\ Head(w1.conn.tasks).which = t.which /\ Head(w1.conn.tasks).rs = r
    BY <1>1, <1>5, <1>6, KeepsHead DEF t
  <2>3. w1.conn.error = w.conn.error
    BY <1>6 DEF Keeps, Firm, OnLine
  <2> QED BY <2>1, <2>2, <2>3
<1>10. ASSUME NEW u, u \in Worlds, Serving(u), u.conn.tasks # <<>>
       PROVE  LET v == Returns(u, "complete")
              IN  v.ret = "complete" /\ Serving(v) /\ Head(v.conn.tasks).which = Head(u.conn.tasks).which
  <2> DEFINE v == Returns(u, "complete")
  <2>1. Keeps(u, v) /\ v.ret = "complete"
    BY <1>10, ReturnKeeps
  <2> HIDE DEF v
  <2>2. Serving(v)
    BY <1>10, <2>1, KeepsOver
  <2>3. Head(v.conn.tasks).which = Head(u.conn.tasks).which
    BY <1>10, <2>1, KeepsHead
  <2> QED BY <2>1, <2>2, <2>3 DEF v
<1>11. CASE SendSort(w, r, ch) = Returns(w1, "complete")
  BY <1>9, <1>10, <1>11 DEF t
<1>12. CASE SendSort(w, r, ch) = Returns(w, "complete")
  BY <1>1, <1>10, <1>12
<1>13. CASE SendSort(w, r, ch) = Send(w1, req, ch) /\ w.conn.error = "none"
  <2> DEFINE v == Send(w1, req, ch)
             h == Head(w1.conn.tasks)
  <2>1. req.kind \in Sends(h) /\ req.kind # "init"
    BY <1>5, <1>7, <1>9 DEF Sends
  <2>2. req.rs = h.rs /\ req.q = w1.sets[h.rs].q /\ w1.sets[h.rs].name # Unset
    BY <1>2, <1>3, <1>4, <1>7, <1>9, Zenon DEF s, w1
  <2>3. Post(v) /\ (v.ret = "complete" => v.conn.error # "none" /\ v.conn.tasks = w1.conn.tasks)
    <3>1. h.rs # NoSet => req.rs = h.rs /\ req.q = w1.sets[req.rs].q /\ w1.sets[req.rs].name # Unset
      BY <2>2
    <3> QED BY <1>7, <1>9, <1>13, <2>1, <3>1, SendServing
  <2> HIDE DEF v
  <2>4. v.ret = "complete" => Serving(v) /\ Head(v.conn.tasks).which = t.which
    BY <1>9, <2>3 DEF Post, Serving
  <2> QED BY <1>13, <2>3, <2>4 DEF Post, v, t
<1> QED BY <1>8, <1>11, <1>12, <1>13

\* The task at the head may go on.
Going(w) ==
  Over(w) /\ (w.conn.tasks # <<>> => Serving(w) /\ Head(w.conn.tasks).which \in {"search", "sort"})

LEMMA Z3950SearchPost ==
  ASSUME NEW w, Going(w), NEW ch \in Choices
  PROVE  Post(Z3950Search(w, ch))
<1> DEFINE t == Head(w.conn.tasks)
           s == w.sets[t.rs]
           w1 == Advance(w)
<1>1. w \in Worlds /\ Over(w)
  BY GoodType DEF Going, Over, Base
<1>2. CASE w.conn.tasks = <<>> \/ t.which = "sort"
  <2>1. Told(w)
    BY <1>2 DEF Told
  <2>2. Z3950Search(w, ch) = Returns(w, "complete")
    BY <1>2 DEF Z3950Search
  <2> QED BY <1>1, <2>1, <2>2, CompletePost
<1>3. CASE w.conn.tasks # <<>> /\ t.which = "search" /\ w.conn.error # "none"
  <2> DEFINE v == [w EXCEPT !.conn.tasks[1].count = Clip(s, t)]
  <2>1. Keeps(w, v)
    BY <1>1, <1>3, ClippedKeeps
  <2>2. Z3950Search(w, ch) = Returns(v, "complete")
    BY <1>3 DEF Z3950Search
  <2> HIDE DEF v
  <2>3. Over(v)
    BY <1>1, <2>1, KeepsOver
  <2>4. Told(v)
    BY <1>3, <2>1 DEF Told, Keeps, Alike
  <2> QED BY <2>2, <2>3, <2>4, CompletePost
<1>4. CASE w.conn.tasks # <<>> /\ t.which = "search" /\ w.conn.error = "none"
  <2>1. Keeps(w, w1)
    BY <1>1, <1>4, AdvanceKeeps
  <2>2. t \in Tasks /\ s \in Sets /\ s.live \in BOOLEAN
    BY <1>1, <1>4, HeadType DEF Sets
  <2>3. w1.sets = w.sets /\ Head(w1.conn.tasks) = Passed(s, t)
    <3> DEFINE n == Cached(s, t, Clip(s, t))
               all == w.conn.events \o Events("record", n)
               p == Passed(s, t)
    <3>1. w1 = [w EXCEPT !.conn.tasks[1] = p, !.conn.events = all]
      BY DEF Advance, Passed
    <3> HIDE DEF p, all, t, s, w1
    <3>2. w1.sets = w.sets /\ w1.conn.tasks = [w.conn.tasks EXCEPT ![1] = p]
      BY <1>1, <3>1 DEF Worlds, Conns
    <3>3. 1 \in DOMAIN w.conn.tasks /\ w.conn.tasks \in Seq(Tasks)
      BY <1>1, <1>4, HeadType DEF Worlds, Conns
    <3>4. Head(w1.conn.tasks) = w1.conn.tasks[1]
      <4>1. w1 \in Worlds /\ w1.conn.tasks # <<>>
        BY <1>1, <1>4, <2>1, KeepsHead
      <4> QED BY <4>1, HeadType
    <3> QED BY <3>2, <3>3, <3>4 DEF p
  <2>4. \/ Z3950Search(w, ch) = Returns(w1, "complete") /\ s.live
        \/ Z3950Search(w, ch) = SendPresent(w1, ch) /\ s.live /\ Head(w1.conn.tasks).count > 0
        \/ Z3950Search(w, ch) = SendSearch(w1, ch)
    <3> DEFINE left == Head(w1.conn.tasks).count
    <3>1. left = 0 \/ left > 0
      <4>1. left \in Nat
        <5> HIDE DEF t, s, w1
        <5> QED BY <2>2, <2>3, PassedType DEF Tasks
      <4> QED BY <4>1
    <3>2. CASE left = 0 /\ s.live
      BY <1>4, <3>2 DEF Z3950Search
    <3>3. CASE left > 0 /\ s.live
      BY <1>4, <3>3 DEF Z3950Search
    <3>4. CASE ~s.live
      BY <1>4, <3>4 DEF Z3950Search
    <3> QED BY <2>2, <3>1, <3>2, <3>3, <3>4
  <2> HIDE DEF w1, s, t
  <2>5. w1.conn.error = "none" /\ Head(w1.conn.tasks).which = "search" /\ Serving(w1)
    <3>1. w1.conn.error = w.conn.error
      BY <2>1 DEF Keeps, Firm, OnLine
    <3>2. Head(w1.conn.tasks).which = t.which
      BY <1>1, <1>4, <2>1, KeepsHead DEF t
    <3>3. Serving(w1)
      BY <1>4, <2>1, KeepsOver DEF Going
    <3> QED BY <1>4, <3>1, <3>2, <3>3
  <2>6. CASE Z3950Search(w, ch) = Returns(w1, "complete") /\ s.live
    <3>1. Head(w1.conn.tasks).rs = t.rs
      BY <1>1, <1>4, <2>1, KeepsHead DEF t
    <3>2. Told(w1)
      BY <2>3, <2>6, <3>1 DEF Told, s
    <3>3. Over(w1)
      BY <2>5 DEF Serving
    <3> QED BY <2>6, <3>2, <3>3, CompletePost
  <2>7. CASE Z3950Search(w, ch) = SendPresent(w1, ch) /\ s.live /\ Head(w1.conn.tasks).count > 0
    <3> DEFINE h == Head(w1.conn.tasks)
    <3>1. h.rs = t.rs /\ h.start < s.size
      BY <2>2, <2>3, <2>7, PassedType
    <3>2. w1.sets[h.rs] = s
      BY <2>3, <3>1 DEF s
    <3>3. Post(SendPresent(w1, ch))
      BY <2>5, <2>7, <3>1, <3>2, SendPresentPost
    <3> QED BY <2>7, <3>3
  <2>8. CASE Z3950Search(w, ch) = SendSearch(w1, ch)
    BY <2>5, <2>8, SendSearchPost
  <2> QED BY <2>4, <2>6, <2>7, <2>8
<1> QED BY <1>2, <1>3, <1>4 DEF Going

LEMMA SrwSendSearchPost ==
  ASSUME NEW w, Serving(w), NEW ch \in Choices
  PROVE  Post(SrwSendSearch(w, ch))
<1> DEFINE t == Head(w.conn.tasks)
           u == Advance(w)
           w1 == DefaultName(u, t.rs)
           t1 == Head(w1.conn.tasks)
           s == w.sets[t.rs]
           num == IF Step > 0 /\ Step < t1.count THEN Step ELSE t1.count
           req == Request("search", t.rs, s.q, Default, t1.start, num)
<1>1. w \in Worlds /\ w.conn.tasks # <<>> /\ Over(w)
  BY GoodType DEF Serving, Over, Base
<1>2. CASE w.conn.error # "none" \/ t.which # "search"
  <2>1. SrwSendSearch(w, ch) = Returns(w, "complete")
    BY <1>2, Zenon DEF SrwSendSearch
  <2>2. Told(w)
    BY <1>2 DEF Told
  <2> QED BY <1>1, <2>1, <2>2, CompletePost, Zenon
<1>3. CASE w.conn.error = "none" /\ t.which = "search"
  <2>1. Keeps(w, u)
    BY <1>1, <1>3, AdvanceKeeps
  <2>2. t.rs \in ResultSet /\ s \in Sets
    BY <1>1, <1>3, HeadType, Zenon
  <2>3. \/ SrwSendSearch(w, ch) = Returns(w1, "complete") /\ s.live
        \/ SrwSendSearch(w, ch) \in {Returns(SetError(w1, "query"), "complete"), Send(w1, req, ch)}
    <3>1. CASE t1.count = 0 /\ s.live
      BY <1>3, <3>1, Zenon DEF SrwSendSearch
    <3>2. CASE ~(t1.count = 0 /\ s.live) /\ ~ch.fit
      BY <1>3, <3>2, Zenon DEF SrwSendSearch
    <3>3. CASE ~(t1.count = 0 /\ s.live) /\ ch.fit
      BY <1>3, <3>3 DEF SrwSendSearch
    <3> QED BY <3>1, <3>2, <3>3, Zenon
  <2> HIDE DEF u, t
  <2>4. Keeps(u, w1) /\ w1.sets[t.rs].name # Unset
    BY <2>1, <2>2, DefaultNameKeeps DEF Keeps, Alike
  <2> HIDE DEF w1, s
  <2>5. Keeps(w, w1)
    BY <2>1, <2>4, KeepsChain
  <2>6. Serving(w1) /\ w1 \in Worlds /\ w1.conn.tasks # <<>>
    BY <2>5, KeepsOver DEF Keeps, Alike, Serving
  <2>7. w1.conn.error = "none" /\ t1.which = "search" /\ t1.rs = t.rs
    <3>1. w1.conn.error = w.conn.error
      BY <2>5 DEF Keeps, Firm, OnLine
    <3> QED BY <1>1, <1>3, <2>5, <3>1, KeepsHead DEF t
  <2>8. w1.sets[t.rs].q = s.q
    BY <2>2, <2>5 DEF Keeps, Firm, s
  <2>9. t1 \in Tasks
    BY <2>6, HeadType
  <2> HIDE DEF t1
  <2>10. num \in Int
    BY <2>9, ZoomAssumption DEF Tasks
  <2> HIDE DEF num
  <2>11. req \in Requests /\ req.kind = "search" /\ req.rs = t.rs /\ req.q = s.q
    BY <2>2, <2>9, <2>10, NameCount DEF Request, Requests, Sets, Tasks
  <2> HIDE DEF req
  <2>12. (s.live => Post(Returns(w1, "complete"))) /\ Post(Returns(SetError(w1, "query"), "complete"))
    <3>1. Over(w1) /\ "query" \in Errors \ {"none"}
      BY <2>6 DEF Serving, Errors
    <3>2. s.live => w1.sets[t.rs].live
      BY <2>2, <2>5 DEF Keeps, Firm, s
    <3>3. s.live => Told(w1)
      BY <2>7, <3>2 DEF Told, t1
    <3> QED BY <2>7, <3>1, <3>3, CompletePost, RefusePost
  <2>13. req.kind \in Sends(t1) /\ req.kind # "init"
    BY <2>7, <2>11 DEF Sends
  <2>14. Post(Send(w1, req, ch))
    BY <2>4, <2>6, <2>7, <2>8, <2>11, <2>13, SendServing DEF t1
  <2> QED BY <2>3, <2>12, <2>14
<1> QED BY <1>2, <1>3

-----------------------------------------------------------------------------
(* Running the task at the head.                                           *)

\* The comstack is new, and the protocol is that of the server.
Renewed(w) == [Hangup(w) EXCEPT !.conn.proto = w.net.proto]

LEMMA RenewedLine ==
  ASSUME NEW w \in Worlds
  PROVE  LET v == Renewed(w)
         IN  /\ Alike(w, v)
             /\ v.conn.tasks = w.conn.tasks /\ v.sets = w.sets /\ v.conn.error = w.conn.error
             /\ v.conn.cs = "none" /\ v.conn.out = NoRequest /\ v.conn.mask = w.conn.mask /\ v.net.wire = <<>>
             /\ ~v.net.inited /\ v.net.proto = w.net.proto /\ v.conn.aborted = w.conn.aborted
             /\ v.conn.location = w.conn.location /\ v.conn.redirects = w.conn.redirects
             /\ v.conn.proto = w.net.proto
<1> DEFINE none == [n \in Name |-> NoRecord]
           d == [w.conn EXCEPT !.cs = "none", !.out = NoRequest, !.proto = w.net.proto]
           k == [w.net EXCEPT !.wire = <<>>, !.inited = FALSE, !.sets = none]
           v == Renewed(w)
<1>1. v = [w EXCEPT !.conn = d, !.net = k]
  BY DEF Renewed, Hangup, Worlds
<1>2. /\ d.tasks = w.conn.tasks /\ d.error = w.conn.error /\ d.cs = "none" /\ d.out = NoRequest /\ d.mask = w.conn.mask
      /\ d.aborted = w.conn.aborted /\ d.location = w.conn.location /\ d.redirects = w.conn.redirects
      /\ d.proto = w.net.proto
  BY DEF Worlds, Conns
<1>3. k.wire = <<>> /\ ~k.inited /\ k.proto = w.net.proto
  <2> HIDE DEF none
  <2> QED BY DEF Worlds, Nets
<1>4. Alike(w, v)
  <2> DEFINE u == Hangup(w)
  <2>1. Alike(w, u)
    BY HangupAlike
  <2>2. v = [u EXCEPT !.conn.proto = w.net.proto]
    BY DEF Renewed
  <2>3. w.net.proto \in {"z3950", "http"}
    BY DEF Worlds, Nets
  <2> HIDE DEF u, v
  <2>4. Alike(u, v)
    BY <2>1, <2>2, <2>3, AlikeType, Fields
  <2> QED BY <2>1, <2>4, AlikeChain
<1> HIDE DEF d, k, v
<1>5. v.conn = d /\ v.net = k /\ v.sets = w.sets
  BY <1>1 DEF Worlds
<1> QED BY <1>2, <1>3, <1>4, <1>5 DEF v

LEMMA OpeningLine ==
  ASSUME NEW w \in Worlds, NEW cs, NEW mask, NEW state
  PROVE  LET v == Opening(w, cs, mask, state)
         IN  /\ v.conn.tasks = w.conn.tasks /\ v.sets = w.sets /\ v.net = w.net /\ v.conn.error = w.conn.error
             /\ v.conn.cs = cs /\ v.conn.out = w.conn.out /\ v.conn.mask = mask /\ v.conn.aborted = w.conn.aborted
             /\ v.conn.location = w.conn.location /\ v.conn.redirects = w.conn.redirects
             /\ v.conn.proto = w.conn.proto
<1> DEFINE d == [w.conn EXCEPT !.mask = mask, !.cs = cs, !.state = state]
           v == Opening(w, cs, mask, state)
<1>1. /\ d.tasks = w.conn.tasks /\ d.error = w.conn.error /\ d.cs = cs /\ d.out = w.conn.out /\ d.mask = mask
      /\ d.aborted = w.conn.aborted /\ d.location = w.conn.location /\ d.redirects = w.conn.redirects
      /\ d.proto = w.conn.proto
  BY DEF Worlds, Conns
<1>2. v = [w EXCEPT !.conn = d]
  BY DEF Opening, SetMask, Worlds
<1> HIDE DEF d, v
<1>3. v.conn = d /\ v.net = w.net /\ v.sets = w.sets
  BY <1>2 DEF Worlds
<1> QED BY <1>1, <1>3 DEF v

\* A connect task has no result set.
LEMMA FitsInit ==
  ASSUME NEW w \in Worlds, w.conn.tasks # <<>>, Head(w.conn.tasks).running, Head(w.conn.tasks).which = "connect",
         ~w.net.inited
  PROVE  LET req == Request("init", NoSet, 0, Unset, 0, 0)
         IN  Fits(w, req) /\ req \in Requests /\ req # NoRequest
<1> DEFINE req == Request("init", NoSet, 0, Unset, 0, 0)
           t == Head(w.conn.tasks)
<1>1. req \in Requests /\ req.kind = "init" /\ NoRequest.kind = "none"
  BY DEF Request, Requests, NoRequest
<1>2. t \in Tasks /\ t.which = "connect"
  BY HeadType
<1> HIDE DEF req, t
<1>3. t.rs = NoSet /\ "init" \in Sends(t)
  BY <1>2 DEF Tasks, Sends
<1>4. Fits(w, req)
  BY <1>1, <1>3 DEF Fits, t
<1> QED BY <1>1, <1>4 DEF req

LEMMA DoConnectPost ==
  ASSUME NEW w, Base(w), AtRest(w), w.conn.error = "none", NEW ch \in Choices, w.conn.tasks # <<>>,
         Head(w.conn.tasks).running, Head(w.conn.tasks).which = "connect",
         w.net.proto = "http" => ch.connect # "now"
  PROVE  Post(DoConnect(w, ch))
<1> DEFINE w1 == Renewed(w)
<1>1. w \in Worlds
  BY GoodType DEF Base
<1>2. /\ Alike(w, w1)
      /\ w1.conn.tasks = w.conn.tasks /\ w1.sets = w.sets /\ w1.conn.error = w.conn.error
      /\ w1.conn.cs = "none" /\ w1.conn.out = NoRequest /\ w1.conn.mask = w.conn.mask /\ w1.net.wire = <<>>
      /\ ~w1.net.inited /\ w1.net.proto = w.net.proto /\ w1.conn.aborted = w.conn.aborted
      /\ w1.conn.location = w.conn.location /\ w1.conn.redirects = w.conn.redirects
      /\ w1.conn.proto = w.net.proto
  BY <1>1, RenewedLine
<1>3. Good(w1) /\ w1 \in Worlds
  BY <1>2, AlikeLeads, LeadsType DEF Base
<1>4. CASE ch.connect = "later"
  <2> DEFINE mask == {"read", "write", "except"}
             u == Opening(w1, "connecting", mask, "connecting")
  <2>1. DoConnect(w, ch) = Returns(u, "pending")
    BY <1>4 DEF DoConnect, Renewed
  <2> HIDE DEF w1
  <2>2. /\ u.conn.tasks = w1.conn.tasks /\ u.sets = w1.sets /\ u.net = w1.net /\ u.conn.error = w1.conn.error
        /\ u.conn.cs = "connecting" /\ u.conn.out = w1.conn.out /\ u.conn.mask = mask /\ u.conn.aborted = w1.conn.aborted
        /\ u.conn.location = w1.conn.location /\ u.conn.redirects = w1.conn.redirects
        /\ u.conn.proto = w1.conn.proto
    BY <1>3, OpeningLine
  <2>3. Good(u) /\ u \in Worlds
    <3>1. Alike(w1, u)
      BY <1>3, OpeningAlike
    <3> QED BY <1>3, <3>1, AlikeLeads, LeadsType
  <2> HIDE DEF u
  <2>4. Base(u)
    <3>1. Queue(u)
      BY <1>2, <2>2, QueueSame DEF Base
    <3>2. Session(u)
      BY <1>2, <2>2 DEF Base, Session
    <3> QED BY <2>3, <3>1, <3>2 DEF Base
  <2>5. Dialing(u)
    BY <1>2, <2>2 DEF Dialing
  <2>6. Keeps(u, Returns(u, "pending")) /\ Returns(u, "pending").ret = "pending"
    BY <2>3, ReturnKeeps
  <2>7. Steady(Returns(u, "pending"))
    BY <2>4, <2>5, <2>6, KeepsSteady DEF Steady
  <2> QED BY <2>1, <2>6, <2>7 DEF Post
<1>5. CASE ch.connect = "now"
  <2> DEFINE req == Request("init", NoSet, 0, Unset, 0, 0)
             x == [w1 EXCEPT !.conn.cs = "data"]
             y == PutEvent(x, "connect")
             z == Send(y, req, ch)
             u == [z EXCEPT !.conn.state = "established"]
             v == Returns(u, "pending")
  <2>1. DoConnect(w, ch) = v
    BY <1>5 DEF DoConnect, Renewed, SendInit
  <2> HIDE DEF w1, v
  <2>2. /\ x.conn.tasks = w1.conn.tasks /\ x.sets = w1.sets /\ x.net = w1.net /\ x.conn.error = w1.conn.error
        /\ x.conn.cs = "data" /\ x.conn.out = w1.conn.out /\ x.conn.aborted = w1.conn.aborted
        /\ x.conn.location = w1.conn.location /\ x.conn.redirects = w1.conn.redirects
        /\ x.conn.proto = w1.conn.proto
    BY <1>3 DEF Worlds, Conns
  <2>3. Good(x) /\ x \in Worlds
    <3>1. Alike(w1, x)
      BY <1>3, Fields
    <3> QED BY <1>3, <3>1, AlikeLeads, LeadsType
  <2> HIDE DEF x
  <2>4. Base(x)
    <3>1. Queue(x)
      BY <1>2, <2>2, QueueSame DEF Base
    <3>2. Session(x)
      BY <1>2, <2>2 DEF Base, Session
    <3> QED BY <2>3, <3>1, <3>2 DEF Base
  <2>5. Fits(x, req) /\ req \in Requests /\ req # NoRequest
    BY <1>2, <2>2, <2>3, FitsInit
  <2> HIDE DEF req
  <2>6. Keeps(x, y)
    BY <2>3, EventKeeps DEF EventKinds
  <2> HIDE DEF y
  <2>7. Base(y) /\ Fits(y, req)
    BY <2>3, <2>4, <2>5, <2>6, KeepsBase, KeepsFits
  <2>8. y.conn.cs = "data" /\ y.conn.error = "none" /\ y.net.wire = <<>>
    BY <1>2, <2>2, <2>6 DEF Keeps, Firm, OnLine
  <2>9. Steady(z)
    BY <2>5, <2>7, <2>8, SendSteady
  <2> HIDE DEF z
  <2>10. z \in Worlds
    BY <2>9, GoodType DEF Steady, Base
  <2>11. Keeps(z, u)
    BY <2>10, StateKeeps
  <2> HIDE DEF u
  <2>12. Steady(u) /\ u \in Worlds
    BY <2>9, <2>11, KeepsSteady DEF Keeps, Alike
  <2>13. Keeps(u, v) /\ v.ret = "pending"
    BY <2>12, ReturnKeeps DEF v
  <2> QED BY <2>1, <2>12, <2>13, KeepsSteady DEF Post
<1>6. CASE ch.connect \in {"none", "failed"}
  <2> DEFINE x == Opening(w1, ch.connect, w.conn.mask, "idle")
             u == SetError(x, "connect")
  <2>1. DoConnect(w, ch) = Returns(u, "complete")
    BY <1>6 DEF DoConnect, Renewed
  <2> HIDE DEF w1
  <2>2. /\ x.conn.tasks = w1.conn.tasks /\ x.sets = w1.sets /\ x.net = w1.net /\ x.conn.error = w1.conn.error
        /\ x.conn.cs = ch.connect /\ x.conn.out = w1.conn.out /\ x.conn.mask = w.conn.mask
        /\ x.conn.aborted = w1.conn.aborted /\ x.conn.proto = w1.conn.proto
        /\ x.conn.location = w1.conn.location /\ x.conn.redirects = w1.conn.redirects
    BY <1>3, OpeningLine
  <2>3. Good(x) /\ x \in Worlds
    <3>1. w.conn.mask \in SUBSET {"read", "write", "except"}
      BY <1>1 DEF Worlds, Conns
    <3>2. Alike(w1, x)
      BY <1>3, <1>6, <3>1, OpeningAlike
    <3> QED BY <1>3, <3>2, AlikeLeads, LeadsType
  <2> HIDE DEF x
  <2>4. Good(u)
    <3>1. Alike(x, u)
      BY <2>3, ErrorAlike DEF Errors
    <3> QED BY <2>3, <3>1, AlikeLeads, LeadsType
  <2>5. /\ u.conn.tasks = x.conn.tasks /\ u.sets = x.sets /\ u.net = x.net
        /\ u.conn.error = "connect" /\ u.conn.cs = x.conn.cs /\ u.conn.out = x.conn.out /\ u.conn.mask = x.conn.mask
        /\ u.conn.aborted = x.conn.aborted /\ u.conn.proto = x.conn.proto
        /\ u.conn.location = x.conn.location /\ u.conn.redirects = x.conn.redirects
    BY <2>3, ErrorLine
  <2> HIDE DEF u
  <2>6. Queue(u)
    BY <1>2, <2>2, <2>5, QueueSame DEF Base
  <2>7. Session(u)
    BY <1>2, <2>2, <2>5 DEF Base, Session
  <2>8. AtRest(u) /\ Covered(u)
    BY <1>2, <1>6, <2>2, <2>5 DEF AtRest, Covered
  <2>9. Over(u)
    BY <2>4, <2>6, <2>7, <2>8 DEF Over, Base
  <2>10. Told(u)
    BY <2>5 DEF Told
  <2> QED BY <2>1, <2>9, <2>10, CompletePost
<1> QED BY <1>4, <1>5, <1>6 DEF Choices

LEMMA DispatchPost ==
  ASSUME NEW w, Over(w), w.conn.error = "none", NEW ch \in Choices, w.conn.tasks # <<>>, Head(w.conn.tasks).running,
         w.conn.cs # "none" \/ Head(w.conn.tasks).which = "connect",
         w.net.proto = "http" => ch.connect # "now"
  PROVE  Post(Dispatch(w, ch))
<1> DEFINE t == Head(w.conn.tasks)
<1>1. w \in Worlds
  BY GoodType DEF Over, Base
<1>2. t \in Tasks /\ 1 \in DOMAIN w.conn.tasks /\ t = w.conn.tasks[1]
      /\ (t.which \in {"search", "sort"} => t.rs \in ResultSet /\ w.sets[t.rs] \in Sets)
  BY <1>1, HeadType
<1>3. CASE t.which = "connect"
  <2>1. Post(DoConnect(w, ch))
    BY <1>3, DoConnectPost DEF Over
  <2> QED BY <1>3, <2>1 DEF Dispatch
<1>4. ASSUME t.which # "connect" PROVE Serving(w)
  BY <1>4 DEF Serving, Over, Base, Session, AtRest
<1>5. CASE t.which = "search"
  <2>1. Serving(w) /\ Going(w)
    BY <1>4, <1>5 DEF Going
  <2>2. Post(SrwSendSearch(w, ch)) /\ Post(Z3950Search(w, ch))
    BY <2>1, SrwSendSearchPost, Z3950SearchPost
  <2> QED BY <1>5, <2>2 DEF Dispatch
<1>6. CASE t.which = "sort"
  <2> DEFINE d == [w.sets[t.rs] EXCEPT !.sort = TRUE]
             v == [w EXCEPT !.sets[t.rs] = d]
  <2>1. Dispatch(w, ch) = SendSort(v, t.rs, ch)
    BY <1>6 DEF Dispatch
  <2>2. t.rs \in ResultSet /\ w.sets[t.rs] \in Sets /\ w.sets[t.rs].live
    <3>1. \A j \in DOMAIN w.conn.tasks : ~(j < 1)
      <4>1. w.conn.tasks \in Seq(Tasks)
        BY <1>1 DEF Worlds, Conns
      <4> QED BY <4>1
    <3>2. Prepared(w, 1)
      BY <1>2, <1>6 DEF Over, Base, Queue
    <3> QED BY <1>2, <1>6, <3>1, <3>2 DEF Prepared
  <2>3. Serving(w)
    BY <1>4, <1>6
  <2> HIDE DEF t
  <2>4. d \in Sets /\ d.ref = w.sets[t.rs].ref /\ d.app = w.sets[t.rs].app /\ d.q = w.sets[t.rs].q
        /\ d.live = w.sets[t.rs].live /\ d.name = w.sets[t.rs].name
    BY <2>2 DEF Sets
  <2> HIDE DEF d
  <2>5. Keeps(w, v)
    BY <1>1, <2>2, <2>4, SetKeeps
  <2>6. v.sets[t.rs].live
    BY <1>1, <2>2, <2>4 DEF Worlds
  <2> HIDE DEF v
  <2>7. Serving(v) /\ Head(v.conn.tasks).which = "sort" /\ Head(v.conn.tasks).rs = t.rs
    BY <1>1, <1>6, <2>3, <2>5, KeepsOver, KeepsHead DEF t
  <2> DEFINE u == SendSort(v, t.rs, ch)
  <2>8. IF u.ret = "complete" THEN Serving(u) /\ Head(u.conn.tasks).which = Head(v.conn.tasks).which ELSE Steady(u)
    BY <2>2, <2>6, <2>7, SendSortPost
  <2> HIDE DEF u
  <2>9. Post(u)
    BY <2>7, <2>8 DEF Post, Serving, Told
  <2> QED BY <2>1, <2>9 DEF u
<1>7. CASE t.which \in {"scan", "package"}
  <2> DEFINE req == Request(t.which, NoSet, 0, Unset, 0, 0)
  <2>1. Dispatch(w, ch) = Returns(SetError(w, "query"), "complete") \/ Dispatch(w, ch) = Send(w, req, ch)
    BY <1>7 DEF Dispatch
  <2>2. Serving(w)
    BY <1>4, <1>7
  <2> HIDE DEF t
  <2>3. req \in Requests /\ req.kind = t.which
    BY <1>7 DEF Request, Requests
  <2> HIDE DEF req
  <2>4. req.kind \in Sends(t) /\ req.kind # "init" /\ t.rs = NoSet
    BY <1>2, <1>7, <2>3 DEF Sends, Tasks
  <2>5. Post(Send(w, req, ch))
    BY <2>2, <2>3, <2>4, SendServing DEF t
  <2>6. Post(Returns(SetError(w, "query"), "complete"))
    BY RefusePost DEF Errors
  <2> QED BY <2>1, <2>5, <2>6
<1> HIDE DEF t
<1> QED BY <1>2, <1>3, <1>5, <1>6, <1>7 DEF Tasks, TaskKinds

\* The task at the head is started.
LEMMA StartOver ==
  ASSUME NEW w, Over(w), w.conn.tasks # <<>>
  PROVE  LET v == [w EXCEPT !.conn.tasks[1].running = TRUE]
         IN  /\ Over(v) /\ v.conn.tasks # <<>> /\ Head(v.conn.tasks).running
             /\ Head(v.conn.tasks).which = Head(w.conn.tasks).which
             /\ v.conn.error = w.conn.error /\ v.conn.cs = w.conn.cs /\ v.net = w.net
<1> DEFINE p == [w.conn.tasks[1] EXCEPT !.running = TRUE]
           new == [w.conn.tasks EXCEPT ![1] = p]
           v == [w EXCEPT !.conn.tasks = new]
<1>1. w \in Worlds /\ w.conn.tasks \in Seq(Tasks)
  BY GoodType DEF Over, Base, Worlds, Conns
<1>2. w.conn.tasks[1] \in Tasks /\ 1 \in DOMAIN w.conn.tasks /\ Head(w.conn.tasks) = w.conn.tasks[1]
  BY <1>1, HeadType
<1>3. p \in Tasks /\ p.which = w.conn.tasks[1].which /\ p.rs = w.conn.tasks[1].rs /\ p.running
  BY <1>2 DEF Tasks
<1>4. v = [w EXCEPT !.conn.tasks[1].running = TRUE]
  OBVIOUS
<1> HIDE DEF p
<1>5. Alike(w, v)
  BY <1>1, <1>2, <1>3, HeadAlike
<1>6. new \in Seq(Tasks) /\ DOMAIN new = DOMAIN w.conn.tasks /\ new[1] = p /\ Head(new) = p /\ new # <<>>
      /\ \A i \in DOMAIN new : i > 1 => new[i] = w.conn.tasks[i]
  BY <1>1, <1>2, <1>3
<1> HIDE DEF new
<1>7. v.conn.tasks = new /\ v.sets = w.sets /\ v.net = w.net /\ OnLine(w, v)
  BY <1>1 DEF OnLine, Worlds, Conns
<1> HIDE DEF v
<1>8. Good(v)
  BY <1>5, AlikeLeads, LeadsType DEF Over, Base
<1>9. Queue(v)
  <2>1. \A i \in DOMAIN new : i > 1 => ~new[i].running
    BY <1>6 DEF Over, Base, Queue
  <2>2. \A i \in DOMAIN new : new[i].which = w.conn.tasks[i].which /\ new[i].rs = w.conn.tasks[i].rs
    BY <1>5, <1>6, <1>7 DEF Alike
  <2>3. ASSUME NEW i \in DOMAIN new, new[i].which = "sort" PROVE Prepared(v, i)
    <3>1. Prepared(w, i)
      BY <1>6, <2>2, <2>3 DEF Over, Base, Queue
    <3>2. v.conn.error = w.conn.error
      BY <1>7 DEF OnLine
    <3> QED BY <1>6, <1>7, <2>2, <2>3, <3>1, <3>2 DEF Prepared
  <2> QED BY <1>7, <2>1, <2>3 DEF Over, Base, Queue
<1>10. Session(v) /\ AtRest(v) /\ Covered(v)
  BY <1>7 DEF OnLine, Over, Base, Session, AtRest, Covered
<1>11. Over(v)
  BY <1>8, <1>9, <1>10 DEF Over, Base
<1>12. Head(v.conn.tasks) = p /\ v.conn.tasks # <<>> /\ v.conn.error = w.conn.error /\ v.conn.cs = w.conn.cs
  BY <1>6, <1>7 DEF OnLine
<1> QED BY <1>2, <1>3, <1>4, <1>7, <1>11, <1>12

LEMMA ExecTaskSteady ==
  ASSUME NEW w, Base(w), Rested(w), NEW ch \in Choices, w.net.proto = "http" => ch.connect # "now"
  PROVE  Steady(ExecTask(w, ch))
<1>1. Over(w)
  BY DEF Over, Rested
<1>2. CASE w.conn.tasks = <<>>
  BY <1>2 DEF ExecTask, Steady
<1>3. CASE w.conn.tasks # <<>> /\ w.conn.error # "none"
  <2>1. Steady(RemoveTasks(w))
    BY <1>1, RemoveTasksOver
  <2> QED BY <1>3, <2>1 DEF ExecTask
<1>4. CASE w.conn.tasks # <<>> /\ w.conn.error = "none"
  <2> DEFINE w1 == [w EXCEPT !.conn.tasks[1].running = TRUE]
             goes == w.conn.cs # "none" \/ Head(w.conn.tasks).which = "connect"
             w2 == IF goes THEN Dispatch(w1, ch) ELSE Returns(RemoveTasks(w1), "complete")
             w3 == IF w2.ret = "complete" THEN RemoveTask(w2) ELSE w2
  <2>1. ~Head(w.conn.tasks).running
    BY <1>4 DEF Rested
  <2>2. ExecTask(w, ch) = w3
    BY <1>4, <2>1 DEF ExecTask
  <2>3. /\ Over(w1) /\ w1.conn.tasks # <<>> /\ Head(w1.conn.tasks).running
        /\ Head(w1.conn.tasks).which = Head(w.conn.tasks).which
        /\ w1.conn.error = w.conn.error /\ w1.conn.cs = w.conn.cs /\ w1.net = w.net
    BY <1>1, <1>4, StartOver
  <2> HIDE DEF w1
  <2>4. goes => Post(Dispatch(w1, ch))
    BY <1>4, <2>3, DispatchPost
  <2>5. Post(Returns(RemoveTasks(w1), "complete"))
    <3>1. Over(RemoveTasks(w1)) /\ RemoveTasks(w1).conn.tasks = <<>>
      BY <2>3, RemoveTasksOver
    <3>2. Told(RemoveTasks(w1))
      BY <3>1 DEF Told
    <3> QED BY <3>1, <3>2, CompletePost
  <2>6. Post(w2)
    <3> HIDE DEF goes
    <3> QED BY <2>4, <2>5
  <2> HIDE DEF w2
  <2>7. w2.ret = "complete" => Steady(RemoveTask(w2))
    BY <2>6, RemoveTaskOver DEF Post
  <2>8. Steady(w3)
    BY <2>6, <2>7 DEF Post
  <2> QED BY <2>2, <2>8
<1> QED BY <1>2, <1>3, <1>4

-----------------------------------------------------------------------------
(* Z39.50 responses to the task at the head.                               *)

\* The task at the head searches, and its set is known to the server.
Searching(w) ==
  Serving(w) /\ Head(w.conn.tasks).which = "search" /\ w.sets[Head(w.conn.tasks).rs].live

LEMMA KeepsSearching ==
  ASSUME NEW w, NEW v, Keeps(w, v), Searching(w)
  PROVE  Searching(v) /\ v.conn.error = w.conn.error
<1>1. w \in Worlds /\ w.conn.tasks # <<>>
  BY GoodType DEF Searching, Serving, Over, Base
<1> DEFINE t == Head(w.conn.tasks)
           h == Head(v.conn.tasks)
<1>2. h.which = t.which /\ h.rs = t.rs
  BY <1>1, KeepsHead
<1>3. t.rs \in ResultSet
  BY <1>1, HeadType DEF Searching
<1>4. Serving(v)
  BY KeepsOver DEF Searching
<1>5. v.conn.error = w.conn.error
  BY DEF Keeps, Firm, OnLine
<1>6. t.which = "search" /\ w.sets[t.rs].live
  BY DEF Searching
<1> HIDE DEF t, h
<1>7. h.which = "search" /\ v.sets[h.rs].live
  BY <1>2, <1>3, <1>6 DEF Keeps, Firm
<1> QED BY <1>4, <1>5, <1>7 DEF Searching, h

LEMMA HandleRecordsGoing ==
  ASSUME NEW w, Serving(w), Head(w.conn.tasks).which = "search", w.conn.error = "none",
         NEW a \in Answers, NEW version \in Versions, NEW present \in BOOLEAN
  PROVE  LET v == HandleRecords(w, a, version, present)
         IN  Going(v) /\ (Searching(w) /\ v.conn.tasks # <<>> => Searching(v))
<1> DEFINE e == SetError(w, "diag")
           empty == present /\ a.n = 0
           v == HandleRecords(w, a, version, present)
<1>1. w \in Worlds /\ a.n \in Nat /\ Over(w) /\ w.conn.tasks # <<>> /\ Head(w.conn.tasks).which = "search"
  BY GoodType DEF Answers, Serving, Over, Base
<1>2. CASE a.is = "diag"
  <2>1. v = RemoveTasks(e)
    BY <1>1, <1>2 DEF HandleRecords
  <2>2. Over(e)
    BY <1>1, ErrorOver DEF Errors, Over
  <2> HIDE DEF e, v
  <2>3. Over(v) /\ v.conn.tasks = <<>>
    BY <2>1, <2>2, RemoveTasksOver
  <2> QED BY <2>3 DEF Going, v
<1>3. CASE a.is # "diag"
  <2>1. v = AddRecords(w, a.n, version, empty)
    BY <1>1, <1>3 DEF HandleRecords
  <2>2. empty \in BOOLEAN
    OBVIOUS
  <2> HIDE DEF empty, v
  <2>3. Keeps(w, v)
    BY <1>1, <2>1, <2>2, AddRecordsKeeps
  <2>4. Searching(w) => Searching(v)
    BY <2>3, KeepsSearching
  <2>5. Serving(v) /\ Head(v.conn.tasks).which = "search"
    BY <1>1, <2>3, KeepsOver, KeepsHead
  <2> QED BY <2>4, <2>5 DEF Going, Serving, v
<1> QED BY <1>2, <1>3

LEMMA HandleSearchResponseGoing ==
  ASSUME NEW w, Serving(w), Head(w.conn.tasks).which = "search", w.conn.error = "none",
         w.sets[Head(w.conn.tasks).rs].name # Unset, NEW a \in Answers, NEW version \in Versions
  PROVE  LET v == HandleSearchResponse(w, a, version)
         IN  Going(v) /\ (v.conn.tasks # <<>> => Searching(v))
<1> DEFINE r == Head(w.conn.tasks).rs
           w1 == IF w.sets[r].live THEN w ELSE PutEvent(w, "search")
           u == Found(w1, r, a.hits)
<1>1. w \in Worlds /\ a.hits \in 0 .. MaxHits /\ w.conn.tasks # <<>>
  BY GoodType DEF Answers, Serving, Over, Base
<1>2. HandleSearchResponse(w, a, version) = HandleRecords(u, a, version, FALSE)
  BY <1>1 DEF HandleSearchResponse
<1>3. r \in ResultSet
  BY <1>1, HeadType
<1>4. Keeps(w, w1)
  <2>1. Keeps(w, w) /\ Keeps(w, PutEvent(w, "search"))
    BY <1>1, EventKeeps, KeepsSelf DEF EventKinds
  <2> QED BY <2>1
<1>5. w.sets[r].name # Unset /\ Head(w.conn.tasks).which = "search"
  OBVIOUS
<1> HIDE DEF w1, r
<1>6. w1 \in Worlds /\ w1.sets[r].name # Unset
  BY <1>3, <1>4, <1>5 DEF Keeps, Alike, Firm
<1>7. Keeps(w1, u)
  BY <1>1, <1>3, <1>6, FoundKeeps
<1>8. u.sets[r].live
  BY <1>3, <1>6 DEF Found, Worlds, Sets
<1> HIDE DEF u
<1>9. Keeps(w, u)
  BY <1>4, <1>7, KeepsChain
<1>10. Searching(u) /\ u.conn.error = "none"
  <2>1. Serving(u) /\ Head(u.conn.tasks).which = "search" /\ Head(u.conn.tasks).rs = r
    BY <1>1, <1>5, <1>9, KeepsOver, KeepsHead DEF r
  <2>2. u.conn.error = w.conn.error
    BY <1>9 DEF Keeps, Firm, OnLine
  <2> QED BY <1>8, <2>1, <2>2 DEF Searching
<1> DEFINE v == HandleRecords(u, a, version, FALSE)
<1>11. Serving(u) /\ Head(u.conn.tasks).which = "search"
  BY <1>10 DEF Searching
<1>12. Going(v) /\ (v.conn.tasks # <<>> => Searching(v))
  BY <1>10, <1>11, HandleRecordsGoing
<1> QED BY <1>2, <1>12

LEMMA FinishSteady ==
  ASSUME NEW w, Post(w)
  PROVE  Steady(Finish(w))
<1>1. CASE w.ret = "complete"
  <2>1. Steady(RemoveTask(w))
    BY <1>1, RemoveTaskOver DEF Post
  <2> QED BY <1>1, <2>1 DEF Finish
<1>2. CASE w.ret # "complete"
  BY <1>2 DEF Finish, Post
<1> QED BY <1>1, <1>2

LEMMA SortPresentPost ==
  ASSUME NEW w, Going(w), w.conn.tasks # <<>> => Searching(w), NEW ch \in Choices
  PROVE  Post(SortPresent(w, ch))
<1> DEFINE t == Head(w.conn.tasks)
           u == SendSort(w, t.rs, ch)
<1>1. w \in Worlds
  BY GoodType DEF Going, Over, Base
<1>2. CASE w.conn.tasks = <<>>
  <2> DEFINE v == Returns(w, "complete")
  <2>1. SortPresent(w, ch) = Z3950Search(v, ch)
    <3>1. v.ret = "complete"
      BY <1>1, ReturnKeeps
    <3> QED BY <1>2, <3>1 DEF SortPresent
  <2>2. Keeps(w, v)
    BY <1>1, ReturnKeeps
  <2> HIDE DEF v
  <2>3. Over(v) /\ v.conn.tasks = <<>>
    BY <1>1, <1>2, <2>2, KeepsOver, KeepsHead DEF Going
  <2>4. Going(v)
    BY <2>3 DEF Going
  <2> QED BY <2>1, <2>4, Z3950SearchPost
<1>3. CASE w.conn.tasks # <<>>
  <2>1. Serving(w) /\ t.which = "search" /\ w.sets[t.rs].live /\ t.rs \in ResultSet
    BY <1>1, <1>3, HeadType DEF Searching
  <2>2. SortPresent(w, ch) = IF u.ret = "complete" THEN Z3950Search(u, ch) ELSE u
    BY <1>3, <2>1 DEF SortPresent
  <2>3. IF u.ret = "complete" THEN Serving(u) /\ Head(u.conn.tasks).which = t.which ELSE Steady(u)
    BY <2>1, SendSortPost
  <2> HIDE DEF u
  <2>4. CASE u.ret = "complete"
    <3>1. Going(u)
      BY <2>1, <2>3, <2>4 DEF Going, Serving
    <3>2. Post(Z3950Search(u, ch))
      BY <3>1, Z3950SearchPost
    <3> QED BY <2>2, <2>4, <3>2
  <2>5. CASE u.ret # "complete"
    <3>1. Post(u)
      BY <2>3, <2>5 DEF Post
    <3> QED BY <2>2, <2>5, <3>1
  <2> QED BY <2>4, <2>5
<1> QED BY <1>2, <1>3

LEMMA HandleInitSteady ==
  ASSUME NEW w, Base(w), AtRest(w), w.conn.error = "none", w.conn.cs = "data", w.net.proto = "z3950",
         w.conn.tasks # <<>>, Head(w.conn.tasks).which = "connect",
         NEW a \in Answers, a.is # "diag", NEW ch \in Choices
  PROVE  Steady(HandleInit(w, a, ch))
<1> DEFINE named == w.conn.named \/ w.net.named
           u == [w EXCEPT !.conn.named = named]
           k == [w.net EXCEPT !.inited = TRUE]
           w1 == [u EXCEPT !.net = k]
<1>1. w \in Worlds /\ named \in BOOLEAN
  BY GoodType DEF Worlds, Conns, Nets, Base
<1>2. CASE a.is # "ok"
  <2>1. HandleInit(w, a, ch) = SetError(w, "init")
    BY <1>2 DEF HandleInit
  <2> QED BY <2>1, ErrorOver DEF Errors, Sticky
<1>3. CASE a.is = "ok"
  <2>1. w1 = [w EXCEPT !.conn.named = @ \/ w.net.named, !.net.inited = TRUE]
    BY <1>1 DEF Worlds
  <2>2. w1.conn.tasks = w.conn.tasks
    BY <1>1 DEF Worlds, Conns
  <2>3. HandleInit(w, a, ch) = ExecTask(RemoveTask(w1), ch)
    <3> HIDE DEF w1
    <3> QED BY <1>3, <2>1, <2>2 DEF HandleInit
  <2> HIDE DEF named
  <2>4. Keeps(w, u) /\ u.net = w.net /\ u \in Worlds
    <3>1. Keeps(w, u)
      BY <1>1, FlagsKeep
    <3>2. u.net = w.net
      BY <1>1 DEF Worlds
    <3> HIDE DEF u
    <3> QED BY <3>1, <3>2, KeepsHead, <1>1
  <2>5. k \in Nets /\ k.proto = w.net.proto /\ k.inited /\ k.wire = w.net.wire
    BY <1>1 DEF Worlds, Nets
  <2> HIDE DEF u, k
  <2>6. Alike(u, w1) /\ w1.conn = u.conn /\ w1.sets = u.sets /\ w1.net = k
    BY <2>4, <2>5, NetAlike DEF Worlds
  <2> HIDE DEF w1
  <2>7. Base(u)
    BY <2>4, KeepsBase
  <2>8. Over(w1)
    <3>1. Good(w1)
      BY <2>6, <2>7, AlikeLeads, LeadsType DEF Base
    <3>2. Queue(w1)
      BY <2>6, <2>7, QueueSame DEF Base
    <3>3. u.conn.cs = "data" /\ AtRest(u)
      BY <2>4 DEF Keeps, Firm, OnLine, AtRest
    <3>4. Session(w1)
      BY <2>4, <2>5, <2>6, <2>7, <3>3 DEF Base, Session
    <3>5. AtRest(w1) /\ Covered(w1)
      BY <2>4, <2>5, <2>6, <3>3 DEF AtRest, Covered
    <3> QED BY <3>1, <3>2, <3>4, <3>5 DEF Over, Base
  <2> DEFINE x == RemoveTask(w1)
  <2>9. Over(x) /\ Idle(x)
    <3>1. Head(w1.conn.tasks).which = "connect"
      BY <1>1, <2>4, <2>6, KeepsHead
    <3>2. Told(w1)
      BY <3>1 DEF Told
    <3> QED BY <2>8, <3>2, RemoveTaskOver
  <2>10. x.net.proto = "z3950"
    <3>1. Leads(w1, x)
      BY <2>8, RemoveTaskLeads DEF Over, Base
    <3> QED BY <2>5, <2>6, <3>1 DEF Leads
  <2> HIDE DEF x
  <2>11. Base(x) /\ Rested(x)
    BY <2>9 DEF Over, Rested, Idle
  <2>12. Steady(ExecTask(x, ch))
    BY <2>10, <2>11, ExecTaskSteady
  <2> QED BY <2>3, <2>12 DEF x
<1> QED BY <1>2, <1>3

\* A request of the task at the head is answered.
Answering(w, req) ==
  /\ Base(w) /\ w.conn.cs = "data" /\ w.conn.out = NoRequest /\ w.net.wire = <<>> /\ w.conn.error = "none"
  /\ Fits(w, req)

LEMMA ReceivedServing ==
  ASSUME NEW w, NEW req, Answering(w, req)
  PROVE  LET v == Received(w)
         IN  /\ v \in Worlds /\ Base(v) /\ AtRest(v) /\ v.conn.error = "none" /\ v.conn.cs = "data" /\ Fits(v, req)
             /\ v.conn.tasks = w.conn.tasks /\ v.sets = w.sets /\ v.net = w.net /\ v.conn.tasks # <<>>
             /\ w.net.proto = "http" \/ req.kind # "init" => Serving(v)
<1> DEFINE v == Received(w)
<1>1. w \in Worlds
  BY GoodType DEF Answering, Base
<1>2. Alike(w, v)
  BY <1>1, MaskAlike DEF Received
<1>3. /\ v.conn.tasks = w.conn.tasks /\ v.sets = w.sets /\ v.net = w.net /\ v.conn.mask = {}
      /\ v.conn.cs = w.conn.cs /\ v.conn.error = w.conn.error /\ v.conn.out = w.conn.out
      /\ v.conn.proto = w.conn.proto /\ v.conn.location = w.conn.location
      /\ v.conn.redirects = w.conn.redirects /\ v.conn.aborted = w.conn.aborted
  BY <1>1 DEF Received, SetMask, Worlds, Conns
<1> HIDE DEF v
<1>4. Good(v) /\ v \in Worlds
  BY <1>2, AlikeLeads, LeadsType DEF Answering, Base
<1>5. Queue(v)
  BY <1>3, QueueSame DEF Answering, Base
<1>6. Session(v)
  BY <1>3 DEF Session, Answering, Base
<1>7. AtRest(v)
  BY <1>3 DEF AtRest, Answering
<1>8. Fits(v, req)
  BY <1>3, FitsSame DEF Answering
<1>9. v.conn.tasks # <<>> /\ Head(v.conn.tasks).running
  BY <1>8 DEF Fits
<1>10. w.net.proto = "http" \/ req.kind # "init" => Covered(v)
  <2>1. v.net.proto = "z3950" => (req.kind = "init" <=> ~v.net.inited)
    BY <1>8 DEF Fits
  <2> QED BY <1>3, <2>1 DEF Covered
<1>11. w.net.proto = "http" \/ req.kind # "init" => Serving(v)
  BY <1>3, <1>4, <1>5, <1>6, <1>7, <1>9, <1>10 DEF Serving, Over, Base, Answering
<1> QED BY <1>3, <1>4, <1>5, <1>6, <1>7, <1>8, <1>9, <1>11 DEF Base, Answering, v

\* Only the sets of the server change.
LEMMA NetServing ==
  ASSUME NEW w, Serving(w), NEW r, NEW version \in Versions
  PROVE  /\ Keeps(w, [w EXCEPT !.net.sets[r] = version])
         /\ Keeps(w, [w EXCEPT !.net.sets[r].sorted = TRUE])
<1> DEFINE held == [w.net.sets EXCEPT ![r] = version]
           sorted == [w.net.sets EXCEPT ![r].sorted = TRUE]
           k == [w.net EXCEPT !.sets = held]
           l == [w.net EXCEPT !.sets = sorted]
<1>1. w \in Worlds /\ w.net \in Nets
  BY GoodType DEF Serving, Over, Base, Worlds
<1>2. held \in [Name -> Versions] /\ sorted \in [Name -> Versions]
  BY <1>1 DEF Nets, Versions
<1> HIDE DEF held, sorted
<1>3. k \in Nets /\ k.proto = w.net.proto /\ k.wire = w.net.wire /\ k.inited = w.net.inited
      /\ l \in Nets /\ l.proto = w.net.proto /\ l.wire = w.net.wire /\ l.inited = w.net.inited
  BY <1>1, <1>2 DEF Nets
<1> HIDE DEF k, l
<1>4. Keeps(w, [w EXCEPT !.net = k]) /\ Keeps(w, [w EXCEPT !.net = l])
  BY <1>1, <1>3, NetKeeps
<1> QED BY <1>4 DEF k, l, held, sorted

LEMMA HandleApduSteady ==
  ASSUME NEW w, NEW req \in Requests, Answering(w, req), w.net.proto = "z3950",
         NEW a \in Answers, req.kind = "init" => a.is # "diag", NEW ch \in Choices
  PROVE  Steady(HandleApdu(w, req, a, ch))
<1> DEFINE w1 == Received(w)
           t == Head(w1.conn.tasks)
           version == w.net.sets[IF req.name \in Name THEN req.name ELSE Default]
           served == [q |-> req.q, sorted |-> FALSE]
<1>0. w \in Worlds
  BY GoodType DEF Answering, Base
<1>1. /\ w1 \in Worlds /\ Base(w1) /\ AtRest(w1) /\ w1.conn.error = "none" /\ w1.conn.cs = "data" /\ Fits(w1, req)
      /\ w1.conn.tasks = w.conn.tasks /\ w1.sets = w.sets /\ w1.net = w.net /\ w1.conn.tasks # <<>>
      /\ req.kind # "init" => Serving(w1)
  BY ReceivedServing
<1>2. version \in Versions /\ served \in Versions
  <2>1. w.net.sets \in [Name -> Versions] /\ req.q \in Int
    BY <1>0 DEF Worlds, Nets, Requests
  <2> QED BY <2>1, NameCount DEF Versions
<1>3. t \in Tasks /\ req.kind \in Sends(t) /\ (t.rs # NoSet => w1.sets[t.rs].name # Unset)
  BY <1>1, HeadType DEF Fits
<1> HIDE DEF w1, version, served
<1>4. CASE req.kind = "init"
  <2>1. HandleApdu(w, req, a, ch) = HandleInit(w1, a, ch)
    BY <1>4 DEF HandleApdu, w1
  <2>2. t.which = "connect"
    <3> HIDE DEF t
    <3> QED BY <1>3, <1>4 DEF Sends, Tasks, TaskKinds
  <2> QED BY <1>1, <1>4, <2>1, <2>2, HandleInitSteady
<1>5. CASE req.kind = "search"
  <2> DEFINE new == IF a.is = "ok" THEN served ELSE NoRecord
             w2 == [w1 EXCEPT !.net.sets[req.name] = new]
             x == HandleSearchResponse(w2, a, served)
             y == SortPresent(x, ch)
  <2>1. HandleApdu(w, req, a, ch) = Finish(y)
    BY <1>5 DEF HandleApdu, w1, served
  <2>2. new \in Versions
    BY <1>2 DEF NoRecord, Versions
  <2>3. t.which = "search" /\ t.rs \in ResultSet /\ t.rs # NoSet
    <3> HIDE DEF t
    <3> QED BY <1>3, <1>5, ZoomAssumption DEF Sends, Tasks, TaskKinds
  <2> HIDE DEF new, t
  <2>4. Keeps(w1, w2)
    BY <1>1, <1>5, <2>2, NetServing
  <2> HIDE DEF w2
  <2>5. Serving(w2) /\ Head(w2.conn.tasks).which = "search" /\ Head(w2.conn.tasks).rs = t.rs
    BY <1>1, <1>5, <2>3, <2>4, KeepsOver, KeepsHead DEF t
  <2>6. w2.conn.error = "none" /\ w2.sets[t.rs].name # Unset
    BY <1>1, <1>3, <2>3, <2>4 DEF Keeps, Firm, OnLine
  <2>7. Going(x) /\ (x.conn.tasks # <<>> => Searching(x))
    BY <1>2, <2>5, <2>6, HandleSearchResponseGoing
  <2> HIDE DEF x
  <2>8. Post(y)
    BY <2>7, SortPresentPost
  <2> QED BY <2>1, <2>8, FinishSteady
<1>6. CASE req.kind = "present"
  <2> DEFINE x == HandleRecords(w1, a, version, TRUE)
             y == Z3950Search(x, ch)
  <2>1. HandleApdu(w, req, a, ch) = Finish(y)
    BY <1>6 DEF HandleApdu, w1, version
  <2>2. t.which = "search"
    <3> HIDE DEF t
    <3> QED BY <1>3, <1>6 DEF Sends, Tasks, TaskKinds
  <2>3. Going(x)
    BY <1>1, <1>2, <1>6, <2>2, HandleRecordsGoing
  <2> HIDE DEF x
  <2>4. Post(y)
    BY <2>3, Z3950SearchPost
  <2> QED BY <2>1, <2>4, FinishSteady
<1>7. CASE req.kind = "sort"
  <2> DEFINE good == [w1 EXCEPT !.net.sets[req.name].sorted = TRUE]
             e == SetError(w1, "diag")
             x == IF a.is = "ok" THEN good ELSE RemoveTasks(e)
             y == Z3950Search(x, ch)
  <2>1. HandleApdu(w, req, a, ch) = Finish(y)
    BY <1>7 DEF HandleApdu, w1
  <2>2. t.which \in {"search", "sort"}
    <3> HIDE DEF t
    <3> QED BY <1>3, <1>7 DEF Sends, Tasks, TaskKinds
  <2> HIDE DEF t
  <2>3. Keeps(w1, good)
    BY <1>1, <1>2, <1>7, NetServing
  <2> HIDE DEF good
  <2>4. Going(good)
    BY <1>1, <1>7, <2>2, <2>3, KeepsOver, KeepsHead DEF Going, Serving, t
  <2>5. Over(e)
    BY <1>1, <1>7, ErrorOver DEF Errors, Serving, Over
  <2> HIDE DEF e
  <2>6. Going(RemoveTasks(e))
    BY <2>5, RemoveTasksOver DEF Going
  <2>7. Going(x)
    BY <2>4, <2>6
  <2> HIDE DEF x
  <2>8. Post(y)
    BY <2>7, Z3950SearchPost
  <2> QED BY <2>1, <2>8, FinishSteady
<1>8. CASE req.kind \in {"scan", "package"}
  <2> DEFINE e == SetError(w1, "diag")
             x == IF a.is = "ok" THEN w1 ELSE e
  <2>1. t.which = req.kind
    <3> HIDE DEF t
    <3> QED BY <1>3, <1>8 DEF Sends, Tasks, TaskKinds
  <2>2. HandleApdu(w, req, a, ch) = RemoveTask(x)
    BY <1>1, <1>8, <2>1 DEF HandleApdu, w1
  <2> HIDE DEF t
  <2>3. Over(w1)
    BY <1>1, <1>8 DEF Serving
  <2>4. Over(e) /\ e.conn.error = "diag"
    BY <1>1, <2>3, ErrorOver DEF Errors, Over
  <2> HIDE DEF e
  <2>5. Over(x)
    BY <2>3, <2>4
  <2>6. Told(x)
    <3>1. Told(w1)
      BY <1>8, <2>1 DEF Told, t
    <3>2. Told(e)
      BY <2>4 DEF Told
    <3> QED BY <3>1, <3>2
  <2> HIDE DEF x
  <2>7. Steady(RemoveTask(x))
    BY <2>5, <2>6, RemoveTaskOver
  <2> QED BY <2>2, <2>7
<1>9. req.kind # "none"
  <2> HIDE DEF t
  <2> QED BY <1>3 DEF Sends, Tasks, TaskKinds
<1> QED BY <1>4, <1>5, <1>6, <1>7, <1>8, <1>9 DEF Requests

-----------------------------------------------------------------------------
(* SRU responses to the task at the head.                                  *)

LEMMA HandleSrwPost ==
  ASSUME NEW w, Serving(w), w.conn.error = "none", NEW req \in Requests, Fits(w, req), w.net.proto = "http",
         NEW a \in Answers, NEW ch \in Choices
  PROVE  Post(HandleSrw(w, req, a, ch))
<1> DEFINE t == Head(w.conn.tasks)
           r == t.rs
           u == IF w.sets[r].live THEN w ELSE PutEvent(w, "search")
           hits == IF a.is = "ok" THEN a.hits ELSE 0
           w1 == Found(u, r, hits)
           mine == w.conn.tasks # <<>> /\ t.which = req.kind
<1>1. w \in Worlds /\ Over(w) /\ w.conn.tasks # <<>>
  BY GoodType DEF Serving, Over, Base
<1>0. Told(w) /\ "diag" \in Errors \ {"none"}
  BY DEF Told, Errors
<1>2. CASE ~mine
  <2>1. HandleSrw(w, req, a, ch) = Returns(w, "complete")
    BY <1>2 DEF HandleSrw
  <2> QED BY <1>0, <1>1, <2>1, CompletePost
<1>3. CASE mine /\ req.kind = "scan"
  <2>1. HandleSrw(w, req, a, ch) = Returns(w, "complete") \/ HandleSrw(w, req, a, ch) = Returns(SetError(w, "diag"), "complete")
    BY <1>3 DEF HandleSrw
  <2> QED BY <1>0, <1>1, <2>1, CompletePost, RefusePost
<1>4. CASE mine /\ req.kind # "scan"
  <2> DEFINE v == AddSrwRecords(w1, a.n, req.q)
  <2>1. HandleSrw(w, req, a, ch) = Returns(SetError(w1, "diag"), "complete") \/ HandleSrw(w, req, a, ch) = SrwSendSearch(v, ch)
    BY <1>4 DEF HandleSrw
  <2>2. r \in ResultSet /\ w.sets[r].name # Unset
    <3>1. t \in Tasks /\ t = w.conn.tasks[1] /\ 1 \in DOMAIN w.conn.tasks
      BY <1>1, HeadType
    <3>2. t.which # "package"
      BY <3>1 DEF Serving, Over, Base, Good, NoExtras
    <3>3. t.which \in TaskKinds /\ t.which # "scan"
      BY <1>4, <3>1 DEF Tasks
    <3>4. t.which # "connect"
      BY <1>4 DEF Requests
    <3>5. t.which \in {"search", "sort"}
      BY <3>2, <3>3, <3>4 DEF TaskKinds
    <3>6. r \in ResultSet
      BY <1>1, <3>5, HeadType
    <3> QED BY <3>6, ZoomAssumption DEF Fits
  <2>3. Keeps(w, u)
    <3>1. Keeps(w, w) /\ Keeps(w, PutEvent(w, "search"))
      BY <1>1, EventKeeps, KeepsSelf DEF EventKinds
    <3> QED BY <3>1
  <2>4. hits \in 0 .. MaxHits /\ a.n \in Nat /\ req.q \in Int
    BY ZoomAssumption DEF Answers, Requests
  <2> HIDE DEF u, hits, r
  <2>5. u \in Worlds /\ u.sets[r].name # Unset
    BY <2>2, <2>3 DEF Keeps, Alike, Firm
  <2>6. Keeps(u, w1)
    BY <2>2, <2>4, <2>5, FoundKeeps
  <2> HIDE DEF w1
  <2>7. Keeps(w, w1) /\ w1 \in Worlds
    BY <2>3, <2>6, KeepsChain DEF Keeps, Alike
  <2>8. Serving(w1) /\ w1.conn.error = "none" /\ w1.conn.tasks # <<>> /\ Head(w1.conn.tasks).rs = r
    <3>1. Serving(w1)
      BY <2>7, KeepsOver
    <3>2. w1.conn.tasks # <<>> /\ Head(w1.conn.tasks).rs = r
      BY <1>1, <2>7, KeepsHead DEF r
    <3>3. w1.conn.error = w.conn.error
      BY <2>7 DEF Keeps, Firm, OnLine
    <3> QED BY <3>1, <3>2, <3>3
  <2>9. Post(Returns(SetError(w1, "diag"), "complete"))
    BY <2>8, RefusePost DEF Serving, Errors
  <2>10. Keeps(w1, v)
    BY <2>2, <2>4, <2>7, <2>8, AddSrwRecordsKeeps
  <2> HIDE DEF v
  <2>11. Serving(v)
    BY <2>8, <2>10, KeepsOver
  <2>12. Post(SrwSendSearch(v, ch))
    BY <2>11, SrwSendSearchPost
  <2> QED BY <2>1, <2>9, <2>12
<1> QED BY <1>2, <1>3, <1>4

LEMMA EndHttpSteady ==
  ASSUME NEW w, Base(w), NEW e \in {"none", "http", "decode"}, NEW complete \in BOOLEAN, NEW mustClose \in BOOLEAN,
         e # "none" => complete, e = "none" => IF complete THEN Over(w) /\ Told(w) ELSE Steady(w)
  PROVE  Steady(EndHttp(w, e, complete, mustClose))
<1> DEFINE w1 == IF e = "none" THEN w ELSE Close(SetError(w, e))
           w2 == IF complete THEN RemoveTask(w1) ELSE w1
           w3 == Close(w2)
           x == [w2 EXCEPT !.conn.reconnect = TRUE]
<1>1. EndHttp(w, e, complete, mustClose) =
        IF ~mustClose THEN x ELSE IF w3.conn.tasks = <<>> THEN w3 ELSE Resume(w3)
  BY DEF EndHttp
<1>2. complete => Over(w1) /\ Told(w1)
  <2>1. CASE e = "none"
    BY <2>1
  <2>2. CASE e # "none"
    <3>1. Over(Close(SetError(w, e))) /\ Close(SetError(w, e)).conn.error = e
      BY <2>2, CloseErrorOver DEF Errors
    <3>2. Told(Close(SetError(w, e)))
      BY <2>2, <3>1 DEF Told
    <3> QED BY <2>2, <3>1, <3>2
  <2> QED BY <2>1, <2>2
<1>3. ~complete => w1 = w /\ Steady(w)
  OBVIOUS
<1> HIDE DEF w1
<1>4. Steady(w2)
  BY <1>2, <1>3, RemoveTaskOver
<1> HIDE DEF w2
<1>5. Base(w2) /\ w2 \in Worlds
  BY <1>4, GoodType DEF Steady, Base
<1>6. Keeps(w2, x)
  BY <1>5, FlagsKeep
<1> HIDE DEF x
<1>7. Steady(x)
  BY <1>4, <1>6, KeepsSteady
<1>8. Over(w3)
  BY <1>5, CloseOver
<1> HIDE DEF w3
<1>9. w3.conn.tasks = <<>> => Steady(w3)
  BY <1>8, OverIdle DEF Idle
<1>10. w3.conn.tasks # <<>> => Steady(Resume(w3))
  BY <1>8, ResumeOver
<1> QED BY <1>1, <1>7, <1>9, <1>10

LEMMA HandleHttpSteady ==
  ASSUME NEW w, NEW req \in Requests, Answering(w, req), w.net.proto = "http",
         NEW a \in Answers, a.is \notin {"refused", "redirect"}, NEW ch \in Choices
  PROVE  Steady(HandleHttp(w, req, a, ch))
<1> DEFINE v == Received(w)
           d == [v.conn EXCEPT !.redirects = 0]
           w1 == [v EXCEPT !.conn = d]
           body == HandleSrw(w1, req, a, ch)
<1>1. w.conn.redirects = 0 /\ a.close \in BOOLEAN
  BY DEF Answering, Base, Session, Answers
<1>2. /\ v \in Worlds /\ v.conn.error = "none" /\ Fits(v, req) /\ v.net = w.net /\ Serving(v)
  BY ReceivedServing
<1>3. w1 = [v EXCEPT !.conn.redirects = 0]
  OBVIOUS
<1>4. HandleHttp(w, req, a, ch) =
        CASE a.is \in {"http", "decode"} -> EndHttp(w1, a.is, TRUE, a.close)
          [] a.is \in {"ok", "diag"} -> EndHttp(body, "none", body.ret = "complete", a.close)
  <2>1. CASE a.is \in {"http", "decode"}
    <3>1. HandleHttp(w, req, a, ch) = EndHttp(w1, a.is, TRUE, a.close)
      BY <1>3, <2>1 DEF HandleHttp
    <3> QED BY <2>1, <3>1
  <2>2. CASE a.is \in {"ok", "diag"}
    <3>1. HandleHttp(w, req, a, ch) = EndHttp(IF w.conn.redirects > 0 THEN Close(body) ELSE body,
                                             "none", body.ret = "complete", a.close)
      BY <1>3, <2>2 DEF HandleHttp
    <3>2. ~(w.conn.redirects > 0)
      BY <1>1
    <3>3. HandleHttp(w, req, a, ch) = EndHttp(body, "none", body.ret = "complete", a.close)
      BY <3>1, <3>2
    <3> QED BY <2>2, <3>3
  <2> QED BY <2>1, <2>2 DEF Answers
<1> HIDE DEF v
<1>5. Keeps(v, w1)
  <2>1. v.conn.redirects = 0
    BY <1>2 DEF Serving, Over, Base, Session
  <2>2. /\ d \in Conns /\ d.tasks = v.conn.tasks /\ d.error = v.conn.error /\ d.cs = v.conn.cs /\ d.proto = v.conn.proto
        /\ d.mask = v.conn.mask /\ d.location = v.conn.location /\ d.redirects = v.conn.redirects
        /\ d.out = v.conn.out /\ d.aborted = v.conn.aborted
    BY <1>2, <2>1 DEF Worlds, Conns
  <2> HIDE DEF d
  <2> QED BY <1>2, <2>2, ConnKeeps
<1> HIDE DEF w1, d
<1>6. Serving(w1) /\ Fits(w1, req) /\ w1.conn.error = "none" /\ w1.net.proto = "http"
  <2>1. Serving(w1) /\ Fits(w1, req)
    BY <1>2, <1>5, KeepsOver, KeepsFits
  <2>2. w1.conn.error = v.conn.error /\ w1.net.proto = v.net.proto
    BY <1>5 DEF Keeps, Firm, OnLine
  <2> QED BY <1>2, <2>1, <2>2
<1>7. CASE a.is \in {"http", "decode"}
  <2>1. HandleHttp(w, req, a, ch) = EndHttp(w1, a.is, TRUE, a.close)
    BY <1>4, <1>7
  <2>2. Base(w1)
    BY <1>6 DEF Serving, Over
  <2> QED BY <1>1, <1>7, <2>1, <2>2, EndHttpSteady
<1>8. CASE a.is \in {"ok", "diag"}
  <2> DEFINE complete == body.ret = "complete"
  <2>1. HandleHttp(w, req, a, ch) = EndHttp(body, "none", complete, a.close)
    BY <1>4, <1>8
  <2>2. Post(body)
    BY <1>6, HandleSrwPost
  <2> HIDE DEF body
  <2>3. Base(body) /\ complete \in BOOLEAN /\ IF complete THEN Over(body) /\ Told(body) ELSE Steady(body)
    BY <2>2 DEF Post, Over, Steady
  <2> HIDE DEF complete
  <2> QED BY <1>1, <2>1, <2>3, EndHttpSteady
<1> QED BY <1>7, <1>8 DEF Answers

-----------------------------------------------------------------------------
(* The steps, as what is under way goes.                                   *)

LEMMA BecomeSteady ==
  ASSUME NEW w, Steady(w), Become(w)
  PROVE  Steady(W')
<1>1. w \in Worlds
  BY GoodType DEF Steady, Base
<1>2. W' = Returns(w, "none")
  BY <1>1 DEF W, Become, Returns, Worlds
<1>3. Keeps(w, Returns(w, "none"))
  BY <1>1, ReturnKeeps
<1> QED BY <1>2, <1>3, KeepsSteady

LEMMA SteadyType ==
  ASSUME NEW w, Steady(w)
  PROVE  w \in Worlds /\ Good(w) /\ Base(w)
BY GoodType DEF Steady, Base

LEMMA ChoiceSteady ==
  ASSUME NEW ch \in Choice
  PROVE  ch \in Choices /\ (net.proto = "http" => ch.connect # "now")
BY DEF Choice

LEMMA RunTaskSteady ==
  ASSUME Steady(W), RunTask
  PROVE  Steady(W')
<1>1. Rested(W)
  BY DEF RunTask, Runnable, Steady, UnderWay, Dialing, Fits, W
<1>2. PICK ch \in Choice : Become(ExecTask(W, ch))
  BY DEF RunTask
<1>3. W.net = net
  BY DEF W
<1>4. Steady(ExecTask(W, ch))
  BY <1>1, <1>3, ChoiceSteady, SteadyType, ExecTaskSteady
<1> QED BY <1>2, <1>4, BecomeSteady

LEMMA GetEventSteady ==
  ASSUME Steady(W), GetEvent
  PROVE  Steady(W')
<1> DEFINE rest == Tail(conn.events)
           v == [W EXCEPT !.conn.events = rest]
<1>1. W \in Worlds /\ conn.events \in Seq(EventKinds) /\ conn.events # <<>>
  BY SteadyType DEF GetEvent, W, Worlds, Conns
<1>2. rest \in Seq(EventKinds)
  BY <1>1
<1>3. Become(v)
  BY DEF GetEvent, W
<1> HIDE DEF rest
<1>4. Keeps(W, v)
  BY <1>1, <1>2, EventsKeeps
<1> HIDE DEF v
<1>5. Steady(v)
  BY <1>4, KeepsSteady
<1> QED BY <1>3, <1>5, BecomeSteady

\* The comstack is connected.
LEMMA DataLine ==
  ASSUME NEW w \in Worlds
  PROVE  LET v == [w EXCEPT !.conn.cs = "data"]
         IN  /\ v.conn.tasks = w.conn.tasks /\ v.sets = w.sets /\ v.net = w.net /\ v.conn.error = w.conn.error
             /\ v.conn.cs = "data" /\ v.conn.out = w.conn.out /\ v.conn.mask = w.conn.mask
             /\ v.conn.aborted = w.conn.aborted /\ v.conn.location = w.conn.location
             /\ v.conn.redirects = w.conn.redirects /\ v.conn.proto = w.conn.proto
<1> DEFINE d == [w.conn EXCEPT !.cs = "data"]
           v == [w EXCEPT !.conn = d]
<1>1. /\ d.tasks = w.conn.tasks /\ d.error = w.conn.error /\ d.cs = "data" /\ d.out = w.conn.out
      /\ d.mask = w.conn.mask /\ d.aborted = w.conn.aborted /\ d.location = w.conn.location
      /\ d.redirects = w.conn.redirects /\ d.proto = w.conn.proto
  BY DEF Worlds, Conns
<1> HIDE DEF d
<1>2. v.conn = d /\ v.sets = w.sets /\ v.net = w.net
  BY DEF Worlds
<1> HIDE DEF v
<1> QED BY <1>1, <1>2 DEF d, v

LEMMA DataBase ==
  ASSUME NEW w, Base(w), w.conn.cs # "none"
  PROVE  Base([w EXCEPT !.conn.cs = "data"])
<1> DEFINE v == [w EXCEPT !.conn.cs = "data"]
<1>1. w \in Worlds /\ Good(w) /\ Queue(w) /\ Session(w)
  BY GoodType DEF Base
<1>2. /\ v.conn.tasks = w.conn.tasks /\ v.sets = w.sets /\ v.net = w.net
      /\ v.conn.cs = "data" /\ v.conn.aborted = w.conn.aborted /\ v.conn.location = w.conn.location
      /\ v.conn.redirects = w.conn.redirects /\ v.conn.proto = w.conn.proto
  BY <1>1, DataLine
<1>3. Alike(w, v)
  BY <1>1, Fields
<1> HIDE DEF v
<1>4. Good(v)
  BY <1>1, <1>3, AlikeLeads, LeadsType
<1>5. Queue(v)
  BY <1>1, <1>2, <1>3, QueueSame DEF Alike
<1>6. Session(v)
  BY <1>1, <1>2 DEF Session
<1>7. Base(v)
  BY <1>4, <1>5, <1>6 DEF Base
<1> QED BY <1>7 DEF v

LEMMA MaskLine ==
  ASSUME NEW w \in Worlds, NEW mask
  PROVE  LET v == SetMask(w, mask)
         IN  /\ v.conn.tasks = w.conn.tasks /\ v.sets = w.sets /\ v.net = w.net /\ v.conn.error = w.conn.error
             /\ v.conn.cs = w.conn.cs /\ v.conn.out = w.conn.out /\ v.conn.mask = mask
             /\ v.conn.aborted = w.conn.aborted /\ v.conn.location = w.conn.location
             /\ v.conn.redirects = w.conn.redirects /\ v.conn.proto = w.conn.proto
<1> DEFINE d == [w.conn EXCEPT !.mask = mask]
           v == [w EXCEPT !.conn = d]
<1>1. /\ d.tasks = w.conn.tasks /\ d.error = w.conn.error /\ d.cs = w.conn.cs /\ d.out = w.conn.out
      /\ d.mask = mask /\ d.aborted = w.conn.aborted /\ d.location = w.conn.location
      /\ d.redirects = w.conn.redirects /\ d.proto = w.conn.proto
  BY DEF Worlds, Conns
<1> HIDE DEF d
<1>2. v.conn = d /\ v.sets = w.sets /\ v.net = w.net
  BY DEF Worlds
<1>3. SetMask(w, mask) = v
  BY DEF SetMask, d
<1> HIDE DEF v
<1> QED BY <1>1, <1>2, <1>3

LEMMA MaskBase ==
  ASSUME NEW w, Base(w)
  PROVE  Base(SetMask(w, {}))
<1> DEFINE v == SetMask(w, {})
<1>1. w \in Worlds /\ Good(w) /\ Queue(w) /\ Session(w)
  BY GoodType DEF Base
<1>2. /\ v.conn.tasks = w.conn.tasks /\ v.sets = w.sets /\ v.net = w.net /\ v.conn.error = w.conn.error
      /\ v.conn.cs = w.conn.cs /\ v.conn.aborted = w.conn.aborted /\ v.conn.location = w.conn.location
      /\ v.conn.redirects = w.conn.redirects /\ v.conn.proto = w.conn.proto
  BY <1>1, MaskLine
<1>3. Alike(w, v)
  BY <1>1, MaskAlike
<1> HIDE DEF v
<1>4. Good(v)
  BY <1>1, <1>3, AlikeLeads, LeadsType
<1>5. Queue(v)
  BY <1>1, <1>2, QueueSame
<1>6. Session(v)
  BY <1>1, <1>2 DEF Session
<1>7. Base(v)
  BY <1>4, <1>5, <1>6 DEF Base
<1> QED BY <1>7 DEF v

\* For SRU the connect task is over at once.
LEMMA DialedOver ==
  ASSUME NEW w, Base(w), w.conn.out = NoRequest, w.net.wire = <<>>, w.conn.cs = "data", w.conn.tasks # <<>>,
         w.net.proto = "http"
  PROVE  LET v == SetMask(RemoveTask(w), {})
         IN  Over(v) /\ Idle(v)
<1> DEFINE u == RemoveTask(w)
           v == SetMask(u, {})
           x == SetMask(w, {})
<1>1. w \in Worlds /\ Good(w)
  BY GoodType DEF Base
<1>2. Drops(w, u) /\ u.conn.tasks = Tail(w.conn.tasks)
  BY <1>1, DropTask
<1> HIDE DEF u
<1>3. u \in Worlds /\ Good(u) /\ OnLine(w, u)
  BY <1>2, GoodType DEF Drops
<1>4. /\ v.conn.tasks = u.conn.tasks /\ v.sets = u.sets /\ v.net = u.net /\ v.conn.error = u.conn.error
      /\ v.conn.cs = u.conn.cs /\ v.conn.out = u.conn.out /\ v.conn.mask = {}
      /\ v.conn.aborted = u.conn.aborted /\ v.conn.location = u.conn.location
      /\ v.conn.redirects = u.conn.redirects /\ v.conn.proto = u.conn.proto
  BY <1>3, MaskLine
<1>5. /\ x.conn.tasks = w.conn.tasks /\ x.sets = w.sets /\ x.net = w.net /\ x.conn.error = w.conn.error
      /\ x.conn.cs = w.conn.cs /\ x.conn.out = w.conn.out /\ x.conn.mask = {}
      /\ x.conn.aborted = w.conn.aborted /\ x.conn.location = w.conn.location
      /\ x.conn.redirects = w.conn.redirects /\ x.conn.proto = w.conn.proto
  BY <1>1, MaskLine
<1>6. Alike(u, v)
  BY <1>3, MaskAlike
<1>7. Base(x)
  BY MaskBase
<1> HIDE DEF v, x
<1>8. Good(v)
  BY <1>3, <1>6, AlikeLeads, LeadsType
<1>9. OnLine(x, v)
  BY <1>3, <1>4, <1>5 DEF OnLine
<1>10. Drops(x, v)
  BY <1>2, <1>4, <1>5, <1>8, <1>9 DEF Drops
<1>11. Over(x)
  BY <1>5, <1>7 DEF Over, AtRest, Covered
<1>12. Told(x)
  BY <1>5 DEF Told
<1>13. Over(v) /\ Idle(v)
  BY <1>2, <1>4, <1>5, <1>10, <1>11, <1>12, DropsOver
<1> QED BY <1>13 DEF u, v

LEMMA EstablishedSteady ==
  ASSUME NEW w, Steady(w), Become(IF w.conn.cs # "data" THEN w ELSE [w EXCEPT !.conn.state = "established"])
  PROVE  Steady(W')
<1> DEFINE v == [w EXCEPT !.conn.state = "established"]
<1>1. Keeps(w, v)
  BY SteadyType, StateKeeps
<1> HIDE DEF v
<1>2. Steady(v)
  BY <1>1, KeepsSteady
<1>3. Become(w) \/ Become(v)
  BY DEF v
<1> QED BY <1>2, <1>3, BecomeSteady

LEMMA ConnectedSteady ==
  ASSUME Steady(W), Connected
  PROVE  Steady(W')
<1> DEFINE u == [W EXCEPT !.conn.cs = "data"]
           w == PutEvent(u, "connect")
           isConnect == conn.tasks # <<>> /\ Head(conn.tasks).which = "connect"
           w1 == IF isConnect THEN SetMask(RemoveTask(w), {}) ELSE w
           req == Request("init", NoSet, 0, Unset, 0, 0)
<1>1. W.conn = conn /\ W.net = net
  BY DEF W
<1>2. W \in Worlds /\ Base(W) /\ conn.cs = "connecting"
  BY SteadyType DEF Connected
<1>3. Dialing(W)
  BY <1>1, <1>2 DEF Steady, Rested, AtRest, UnderWay
<1>4. conn.tasks # <<>> /\ isConnect /\ conn.location = NoRequest /\ conn.proto = net.proto
  BY <1>1, <1>2, <1>3, Zenon DEF Dialing, Base, Session
<1>5. PICK ch \in Choice :
        LET w2 == CASE conn.proto = "z3950" -> SendInit(w, ch)
                    [] conn.proto = "http" /\ conn.tasks = <<>> -> Abort(w)
                    [] conn.proto = "http" /\ conn.tasks # <<>>
                         /\ conn.location # NoRequest ->
                         Send([w1 EXCEPT !.conn.location = NoRequest],
                              conn.location, ch)
                    [] conn.proto = "http" /\ conn.tasks # <<>>
                         /\ conn.location = NoRequest -> ExecTask(w1, ch)
        IN  Become(IF w2.conn.cs # "data" THEN w2
                   ELSE [w2 EXCEPT !.conn.state = "established"])
  BY Zenon DEF Connected
<1>6. ch \in Choices /\ (net.proto = "http" => ch.connect # "now")
  BY ChoiceSteady
<1>7. /\ u.conn.tasks = W.conn.tasks /\ u.sets = W.sets /\ u.net = W.net /\ u.conn.error = W.conn.error
      /\ u.conn.cs = "data" /\ u.conn.out = W.conn.out
  BY <1>2, DataLine
<1>8. Base(u)
  BY <1>1, <1>2, DataBase
<1> HIDE DEF u
<1>9. Keeps(u, w)
  BY <1>8, GoodType, EventKeeps DEF Base, EventKinds
<1> HIDE DEF w
<1>10. Base(w) /\ w \in Worlds
  BY <1>8, <1>9, KeepsBase, GoodType DEF Base
<1>11. /\ w.conn.tasks # <<>> /\ Head(w.conn.tasks).running /\ Head(w.conn.tasks).which = "connect"
  BY <1>3, <1>7, <1>8, <1>9, GoodType, KeepsHead DEF Base, Dialing
<1>12. w.conn.cs = "data" /\ w.conn.error = "none" /\ w.net.wire = <<>> /\ w.conn.out = NoRequest
       /\ ~w.net.inited /\ w.net.proto = net.proto
  BY <1>1, <1>3, <1>7, <1>9 DEF Keeps, Firm, OnLine, Dialing
<1>13. CASE net.proto = "z3950"
  <2> DEFINE w2 == SendInit(w, ch)
  <2>1. Fits(w, req) /\ req \in Requests /\ req # NoRequest
    BY <1>10, <1>11, <1>12, FitsInit
  <2> HIDE DEF req
  <2>2. Steady(Send(w, req, ch))
    BY <1>6, <1>10, <1>12, <2>1, SendSteady
  <2>3. w2 = Send(w, req, ch)
    BY DEF SendInit, req
  <2>4. Become(IF w2.conn.cs # "data" THEN w2 ELSE [w2 EXCEPT !.conn.state = "established"])
    BY <1>4, <1>5, <1>13
  <2> HIDE DEF w2
  <2> QED BY <2>2, <2>3, <2>4, EstablishedSteady
<1>14. CASE net.proto = "http"
  <2> DEFINE w2 == ExecTask(w1, ch)
  <2>1. w1 = SetMask(RemoveTask(w), {})
    BY <1>4
  <2>2. Become(IF w2.conn.cs # "data" THEN w2 ELSE [w2 EXCEPT !.conn.state = "established"])
    BY <1>4, <1>5, <1>14
  <2> HIDE DEF w1
  <2>3. Over(w1) /\ Idle(w1)
    BY <1>10, <1>11, <1>12, <1>14, <2>1, DialedOver
  <2>4. Rested(w1) /\ Base(w1)
    BY <2>3 DEF Over, Idle, Rested
  <2>5. ch.connect # "now"
    BY <1>6, <1>14
  <2>6. Steady(w2)
    BY <1>6, <2>4, <2>5, ExecTaskSteady
  <2> HIDE DEF w2
  <2> QED BY <2>2, <2>6, EstablishedSteady
<1>15. net.proto \in {"z3950", "http"}
  BY <1>1, <1>2 DEF Worlds, Nets
<1> QED BY <1>13, <1>14, <1>15

\* A response to the request under way.
LEMMA TakenLine ==
  ASSUME NEW w \in Worlds, NEW rest \in Seq(Requests)
  PROVE  LET v == [w EXCEPT !.net.wire = rest]
         IN  /\ v \in Worlds /\ v.conn = w.conn /\ v.sets = w.sets /\ v.net.wire = rest
             /\ v.net.inited = w.net.inited /\ v.net.proto = w.net.proto
<1> DEFINE k == [w.net EXCEPT !.wire = rest]
           v == [w EXCEPT !.net = k]
<1>1. k \in Nets /\ k.wire = rest /\ k.inited = w.net.inited /\ k.proto = w.net.proto
  BY DEF Worlds, Nets
<1> HIDE DEF k
<1>2. v \in Worlds /\ v.conn = w.conn /\ v.sets = w.sets /\ v.net = k
  BY <1>1 DEF Worlds
<1> HIDE DEF v
<1> QED BY <1>1, <1>2 DEF k, v

LEMMA TakenAnswering ==
  ASSUME NEW w, Base(w), NEW req, w.conn.cs = "data", w.conn.error = "none", w.conn.out = NoRequest,
         Len(w.net.wire) = 1, req = w.net.wire[1], Fits(w, req)
  PROVE  LET v == [w EXCEPT !.net.wire = Tail(@)]
         IN  Answering(v, req) /\ v.net.proto = w.net.proto
<1> DEFINE rest == Tail(w.net.wire)
           v == [w EXCEPT !.net.wire = rest]
<1>1. w \in Worlds /\ Good(w) /\ Queue(w) /\ Session(w) /\ w.net.wire \in Seq(Requests)
  BY GoodType DEF Base, Worlds, Nets
<1>2. rest = <<>> /\ rest \in Seq(Requests)
  <2>1. w.net.wire # <<>>
    BY <1>1
  <2>2. rest \in Seq(Requests) /\ Len(rest) = 0
    BY <1>1, <2>1
  <2> HIDE DEF rest
  <2> QED BY <2>2
<1> HIDE DEF rest
<1>3. /\ v \in Worlds /\ v.conn = w.conn /\ v.sets = w.sets /\ v.net.wire = rest
      /\ v.net.inited = w.net.inited /\ v.net.proto = w.net.proto
  BY <1>1, <1>2, TakenLine
<1> HIDE DEF v
<1>4. Good(v)
  BY <1>1, <1>3 DEF Good, RefsOK, NoExtras
<1>5. Queue(v)
  BY <1>1, <1>3, QueueSame
<1>6. Session(v)
  BY <1>1, <1>3 DEF Session
<1>7. Fits(v, req)
  BY <1>3, FitsSame
<1>8. Answering(v, req)
  BY <1>2, <1>3, <1>4, <1>5, <1>6, <1>7 DEF Answering, Base
<1> QED BY <1>3, <1>8 DEF v, rest

LEMMA KeepsAnswering ==
  ASSUME NEW w, NEW v, NEW req, Answering(w, req), Keeps(w, v)
  PROVE  Answering(v, req)
<1>1. Base(v) /\ Fits(v, req)
  BY KeepsBase, KeepsFits, GoodType DEF Answering, Base
<1> QED BY <1>1 DEF Answering, Keeps, Firm, OnLine

\* Servers without those two habits.
LEMMA PlainAnswers ==
  ASSUME "redirect" \notin Habits, "explain" \notin Habits, NEW req \in Requests
  PROVE  /\ \A a \in Z3950Answers(req) : a \in Answers /\ (req.kind = "init" => a.is # "diag")
         /\ \A a \in HttpAnswers(req) : a \in Answers /\ a.is \notin {"refused", "redirect"}
<1>1. ASSUME NEW a \in Z3950Answers(req), req.kind = "init" PROVE a.is # "diag"
  <2>1. a = Answer("refused", 0, 0) \/ a = Answer("ok", 0, 0)
    BY <1>1 DEF Z3950Answers
  <2> QED BY <2>1 DEF Answer
<1>2. ASSUME NEW a \in HttpAnswers(req) PROVE a.is # "redirect"
  <2>1. PICK b, c :
          /\ b \in BOOLEAN
          /\ a = [c EXCEPT !.close = b]
          /\ \/ \E h \in 0 .. MaxHits, n \in 0 .. MaxHits : c = Answer("ok", h, n)
             \/ \E is \in {"diag", "http", "decode"} : c = Answer(is, 0, 0)
    BY <1>2 DEF HttpAnswers
  <2> QED BY <2>1 DEF Answer
<1> QED BY <1>1, <1>2, AnswersType

LEMMA AnsweredSteady ==
  ASSUME "redirect" \notin Habits, "explain" \notin Habits, Steady(W), Answered
  PROVE  Steady(W')
<1> DEFINE req == Head(net.wire)
           more == <<"recv_data", "recv_apdu">>
           u == [W EXCEPT !.net.wire = Tail(@)]
           all == u.conn.events \o more
           w == [u EXCEPT !.conn.events = all]
<1>1. W.conn = conn /\ W.net = net /\ W.sets = sets
  BY DEF W
<1>2. W \in Worlds /\ Base(W) /\ net.wire \in Seq(Requests)
  BY <1>1, SteadyType DEF Worlds, Nets
<1>3. conn.cs = "data" /\ "read" \in conn.mask /\ net.wire # <<>>
  BY DEF Answered
<1>4. conn.error = "none" /\ conn.out = NoRequest /\ Len(net.wire) = 1 /\ Fits(W, net.wire[1])
  BY <1>1, <1>3 DEF Steady, Rested, AtRest, Dialing, UnderWay
<1>5. req = net.wire[1] /\ req \in Requests
  BY <1>2, <1>3
<1>6. w = [W EXCEPT !.net.wire = Tail(@), !.conn.events = @ \o <<"recv_data", "recv_apdu">>]
  BY DEF W
<1>7. \E ch \in Choice :
        IF net.proto = "z3950"
        THEN \E a \in Z3950Answers(req) : Become(HandleApdu(w, req, a, ch))
        ELSE \E a \in HttpAnswers(req) : Become(HandleHttp(w, req, a, ch))
  <2> HIDE DEF w
  <2> QED BY <1>6 DEF Answered
<1> HIDE DEF req
<1>8. Answering(u, req) /\ u.net.proto = W.net.proto
  BY <1>1, <1>2, <1>3, <1>4, <1>5, TakenAnswering
<1>9. u \in Worlds
  BY <1>8, GoodType DEF Answering, Base
<1>10. u.net.proto = net.proto
  <2> HIDE DEF u
  <2> QED BY <1>1, <1>8
<1> HIDE DEF u
<1>11. all \in Seq(EventKinds)
  BY <1>9 DEF EventKinds, Worlds, Conns
<1> HIDE DEF all
<1>12. Keeps(u, w)
  BY <1>9, <1>11, EventsKeeps
<1> HIDE DEF w
<1>13. Answering(w, req) /\ w.net.proto = net.proto
  BY <1>8, <1>10, <1>12, KeepsAnswering DEF Keeps, Alike
<1>14. CASE net.proto = "z3950"
  <2>1. PICK ch \in Choice, a \in Z3950Answers(req) : Become(HandleApdu(w, req, a, ch))
    BY <1>7, <1>14
  <2>2. ch \in Choices /\ a \in Answers /\ (req.kind = "init" => a.is # "diag")
    BY <1>5, ChoiceSteady, PlainAnswers
  <2>3. Steady(HandleApdu(w, req, a, ch))
    BY <1>5, <1>13, <1>14, <2>2, HandleApduSteady
  <2> QED BY <2>1, <2>3, BecomeSteady
<1>15. CASE net.proto = "http"
  <2>1. PICK ch \in Choice, a \in HttpAnswers(req) : Become(HandleHttp(w, req, a, ch))
    BY <1>7, <1>15
  <2>2. ch \in Choices /\ a \in Answers /\ a.is \notin {"refused", "redirect"}
    BY <1>5, ChoiceSteady, PlainAnswers
  <2>3. Steady(HandleHttp(w, req, a, ch))
    BY <1>5, <1>13, <1>15, <2>2, HandleHttpSteady
  <2> QED BY <2>1, <2>3, BecomeSteady
<1>16. net.proto \in {"z3950", "http"}
  BY <1>1, <1>2 DEF Worlds, Nets
<1> QED BY <1>14, <1>15, <1>16

LEMMA EventSteady ==
  ASSUME NEW w, Steady(w), NEW kind \in EventKinds
  PROVE  Steady(PutEvent(w, kind))
<1>1. Keeps(w, PutEvent(w, kind))
  BY SteadyType, EventKeeps
<1> QED BY <1>1, KeepsSteady

LEMMA ReadFailsSteady ==
  ASSUME Steady(W), ReadFails
  PROVE  Steady(W')
<1> DEFINE w == PutEvent(W, "recv_data")
           w1 == PutEvent(w, "recv_apdu")
<1>1. \/ Become(Broken(w, "lost"))
      \/ Become(Broken(w1, "decode"))
      \/ Become(Broken(w1, "lost"))
      \/ Become(Close(SetError(w1, "decode")))
  BY DEF ReadFails
<1>2. conn.cs = "data" /\ "read" \in conn.mask /\ W.conn = conn
  BY DEF ReadFails, W
<1>3. W.conn.tasks # <<>>
  BY <1>2 DEF Steady, Rested, AtRest, Dialing, UnderWay, Fits
<1>4. Steady(w) /\ Keeps(W, w)
  BY SteadyType, EventKeeps, EventSteady DEF EventKinds
<1>5. w.conn.tasks # <<>>
  BY <1>3, <1>4, KeepsHead, SteadyType
<1> HIDE DEF w
<1>6. Steady(w1) /\ Keeps(w, w1)
  BY <1>4, SteadyType, EventKeeps, EventSteady DEF EventKinds
<1>7. w1.conn.tasks # <<>>
  BY <1>4, <1>5, <1>6, KeepsHead, SteadyType
<1> HIDE DEF w1
<1>8. Base(w) /\ Base(w1)
  BY <1>4, <1>6, SteadyType
<1>9. Steady(Broken(w, "lost")) /\ Steady(Broken(w1, "decode")) /\ Steady(Broken(w1, "lost"))
  BY <1>5, <1>7, <1>8, BrokenSteady DEF Errors
<1>10. Steady(Close(SetError(w1, "decode")))
  BY <1>8, CloseErrorOver DEF Errors
<1> QED BY <1>1, <1>9, <1>10, BecomeSteady

LEMMA PollSteady ==
  ASSUME "redirect" \notin Habits, "explain" \notin Habits, Steady(W), Poll
  PROVE  Steady(W')
<1>1. W.conn = conn /\ Base(W)
  BY SteadyType DEF W
<1>2. ASSUME NEW kind \in EventKinds, Become(PutEvent(W, kind)) PROVE Steady(W')
  BY <1>2, EventSteady, BecomeSteady
<1>3. CASE StillConnecting \/ ReadSome
  BY <1>2, <1>3 DEF StillConnecting, ReadSome, EventKinds
<1>4. ASSUME NEW e \in {"connect", "timeout"}, NEW kind \in EventKinds,
             Become(Close(SetError(W, e))) \/ Become(PutEvent(Close(SetError(W, e)), kind))
      PROVE  Steady(W')
  <2> DEFINE u == Close(SetError(W, e))
  <2>1. Steady(u)
    BY <1>1, CloseErrorOver DEF Errors
  <2> HIDE DEF u
  <2>2. Steady(PutEvent(u, kind))
    BY <2>1, EventSteady
  <2>3. Become(u) \/ Become(PutEvent(u, kind))
    BY <1>4 DEF u
  <2> QED BY <2>1, <2>2, <2>3, BecomeSteady
<1>5. CASE ConnectFails \/ Timeout
  BY <1>4, <1>5 DEF ConnectFails, Timeout, EventKinds
<1>6. CASE WriteMore
  <2>1. PICK ch \in Choice : Become(SendBuf(W, ch))
    BY <1>6 DEF WriteMore
  <2>2. conn.cs = "data" /\ "write" \in conn.mask
    BY <1>6 DEF WriteMore
  <2>3. /\ W.conn.cs = "data" /\ W.conn.error = "none" /\ W.net.wire = <<>>
        /\ W.conn.out # NoRequest /\ Fits(W, W.conn.out)
    BY <1>1, <2>2 DEF Steady, Rested, AtRest, Dialing, UnderWay
  <2>4. Steady(SendBuf(W, ch))
    BY <1>1, <2>3, ChoiceSteady, SendBufSteady
  <2> QED BY <2>1, <2>4, BecomeSteady
<1>7. CASE Exception
  <2>1. conn.cs = "data" /\ conn.mask # {} /\ Become(Broken(W, "lost"))
    BY <1>7 DEF Exception, Waiting
  <2>2. W.conn.tasks # <<>>
    BY <1>1, <2>1 DEF Steady, Rested, AtRest, Dialing, UnderWay, Fits
  <2>3. Steady(Broken(W, "lost"))
    BY <1>1, <2>2, BrokenSteady DEF Errors
  <2> QED BY <2>1, <2>3, BecomeSteady
<1> QED BY <1>3, <1>5, <1>6, <1>7, ConnectedSteady, AnsweredSteady, ReadFailsSteady DEF Poll

-----------------------------------------------------------------------------
(* Calls of a careful application.                                         *)

\* A task may be added: the one that runs, if any, has no error, and there is
\* none while a sort waits.
Ready(w) ==
  /\ w.conn.tasks # <<>> /\ Head(w.conn.tasks).running => w.conn.error = "none"
  /\ \A i \in DOMAIN w.conn.tasks : w.conn.tasks[i].which = "sort" => w.conn.error = "none"

\* The error after the events are cleared.
Cleared(e) == IF e \in Sticky THEN e ELSE "none"

LEMMA AddTaskLine ==
  ASSUME NEW w \in Worlds, NEW t
  PROVE  LET v == AddTask(w, t)
         IN  /\ v.conn.tasks = Append(w.conn.tasks, t) /\ v.sets = w.sets /\ v.net = w.net
             /\ v.conn.error = Cleared(w.conn.error)
             /\ v.conn.cs = w.conn.cs /\ v.conn.out = w.conn.out /\ v.conn.mask = w.conn.mask
             /\ v.conn.aborted = w.conn.aborted /\ v.conn.location = w.conn.location
             /\ v.conn.redirects = w.conn.redirects /\ v.conn.proto = w.conn.proto
<1> DEFINE new == Append(w.conn.tasks, t)
           e == Cleared(w.conn.error)
           c == [w.conn EXCEPT !.tasks = new]
           d == [c EXCEPT !.events = <<>>, !.error = e]
           u == [w EXCEPT !.conn = c]
           v == [u EXCEPT !.conn = d]
<1>1. c.error = w.conn.error /\ u.conn = c
  BY DEF Worlds, Conns
<1>2. AddTask(w, t) = v
  <2>1. AddTask(w, t) = ClearError(u)
    BY DEF AddTask
  <2>2. ClearError(u) = v
    <3> HIDE DEF c, u
    <3> QED BY <1>1 DEF ClearError, Cleared
  <2> QED BY <2>1, <2>2
<1> HIDE DEF new, e
<1>3. /\ c.cs = w.conn.cs /\ c.out = w.conn.out /\ c.mask = w.conn.mask /\ c.tasks = new
      /\ c.aborted = w.conn.aborted /\ c.location = w.conn.location
      /\ c.redirects = w.conn.redirects /\ c.proto = w.conn.proto
  BY DEF Worlds, Conns
<1>4. /\ d.cs = w.conn.cs /\ d.out = w.conn.out /\ d.mask = w.conn.mask /\ d.tasks = new /\ d.error = e
      /\ d.aborted = w.conn.aborted /\ d.location = w.conn.location
      /\ d.redirects = w.conn.redirects /\ d.proto = w.conn.proto
  BY <1>3 DEF Worlds, Conns
<1> HIDE DEF d
<1>5. v.conn = d /\ v.sets = w.sets /\ v.net = w.net
  BY DEF Worlds
<1> HIDE DEF v
<1> QED BY <1>2, <1>4, <1>5 DEF new, e

\* The world with one task more is steady.
LEMMA AddedSteady ==
  ASSUME NEW w, Steady(w), Ready(w), NEW v, Good(v), NEW t \in Tasks, ~t.running,
         t.which = "sort" => w.sets[t.rs].live \/ Naming(w.conn.tasks, t.rs) # 0,
         v.conn.tasks = Append(w.conn.tasks, t), v.net = w.net, v.conn.error = Cleared(w.conn.error),
         v.conn.cs = w.conn.cs, v.conn.out = w.conn.out, v.conn.mask = w.conn.mask,
         v.conn.aborted = w.conn.aborted, v.conn.location = w.conn.location,
         v.conn.redirects = w.conn.redirects, v.conn.proto = w.conn.proto,
         \A r \in ResultSet : v.sets[r].q = w.sets[r].q /\ v.sets[r].live = w.sets[r].live /\ v.sets[r].name = w.sets[r].name
  PROVE  Steady(v) /\ (t.which # "sort" => Ready(v))
<1> DEFINE old == w.conn.tasks
           new == v.conn.tasks
<1>1. w \in Worlds /\ Base(w) /\ Queue(w) /\ Session(w) /\ old \in Seq(Tasks)
  BY SteadyType DEF Base, Worlds, Conns
<1>2. /\ new # <<>> /\ (old # <<>> => Head(new) = Head(old)) /\ (old = <<>> => Head(new) = t)
      /\ \A i \in DOMAIN new : (new[i] = t /\ i \notin DOMAIN old /\ (i > 1 => ~new[i].running)) \/ (i \in DOMAIN old /\ new[i] = old[i])
      /\ \A i \in DOMAIN old : i \in DOMAIN new /\ new[i] = old[i]
      /\ \A i \in DOMAIN new : i \notin DOMAIN old => \A j \in DOMAIN old : j < i
      /\ DOMAIN new \subseteq Int
  <2> DEFINE a == w.conn.tasks
  <2>1. a \in Seq(Tasks) /\ new = Append(a, t)
    BY <1>1
  <2> HIDE DEF a, new
  <2>2. Len(a) \in Nat /\ DOMAIN a = 1 .. Len(a) /\ DOMAIN new = 1 .. Len(a) + 1 /\ new[Len(a) + 1] = t
        /\ \A i \in DOMAIN a : new[i] = a[i]
    BY <2>1
  <2>3. new # <<>> /\ (a # <<>> => Head(new) = Head(a)) /\ (a = <<>> => Head(new) = t)
    BY <2>1
  <2>4. \A i \in DOMAIN new : i \in DOMAIN a \/ i = Len(a) + 1
    BY <2>2
  <2>5. Len(a) + 1 \notin DOMAIN a /\ \A j \in DOMAIN a : j < Len(a) + 1
    BY <2>2
  <2>6. DOMAIN new \subseteq Int /\ DOMAIN a \subseteq DOMAIN new
    BY <2>2
  <2> QED BY <2>2, <2>3, <2>4, <2>5, <2>6 DEF a
<1>3. \A x \in Tasks : x.which = "sort" => x.rs \in ResultSet
  BY DEF Tasks
<1> HIDE DEF old, new
<1>4. Queue(v)
  <2>1. \A i \in DOMAIN new : i > 1 => ~new[i].running
    BY <1>1, <1>2 DEF Queue, old
  <2>2. ASSUME NEW i \in DOMAIN new, new[i].which = "sort" PROVE Prepared(v, i)
    <3> DEFINE r == new[i].rs
    <3>1. r \in ResultSet /\ v.sets[r].live = w.sets[r].live /\ \A k \in DOMAIN old : old[k].which = "sort" => w.conn.error = "none"
      <4>1. new[i] \in Tasks
        BY <1>1, <1>2
      <4>2. r \in ResultSet
        BY <1>3, <2>2, <4>1
      <4> HIDE DEF r
      <4> QED BY <4>2 DEF Ready, old
    <3>2. ASSUME NEW k \in DOMAIN old, k = i \/ i \notin DOMAIN old, old[k].which = "sort", old[k].rs = r
          PROVE  Prepared(v, i)
      <4>1. w.sets[r].live \/ \E j \in DOMAIN old : j < k /\ old[j].which = "search" /\ old[j].rs = r
        <5>1. Prepared(w, k)
          BY <1>1, <3>2 DEF Queue, old
        <5>2. w.conn.error = "none"
          BY <3>1, <3>2
        <5> HIDE DEF r
        <5> QED BY <3>2, <5>1, <5>2 DEF Prepared, old
      <4>2. ASSUME NEW j \in DOMAIN old, j < k PROVE j \in DOMAIN new /\ new[j] = old[j] /\ j < i
        <5>1. j \in DOMAIN new /\ new[j] = old[j]
          BY <1>2
        <5>2. j < i
          BY <1>2, <3>2, <4>2
        <5> QED BY <5>1, <5>2
      <4> HIDE DEF r
      <4> QED BY <3>1, <4>1, <4>2 DEF Prepared, new, r
    <3>3. CASE i \in DOMAIN old /\ new[i] = old[i]
      BY <2>2, <3>2, <3>3
    <3>4. CASE new[i] = t /\ i \notin DOMAIN old
      <4>1. CASE w.sets[r].live
        BY <3>1, <4>1 DEF Prepared, new
      <4>2. CASE Naming(old, r) # 0
        <5>1. PICK k \in DOMAIN old : old[k].rs = r
          BY <1>1, <4>2, PlacesFinite
        <5>2. old[k] \in Tasks /\ k < i /\ k \in DOMAIN new /\ new[k] = old[k]
          BY <1>1, <1>2, <3>4
        <5>3. old[k].which \in {"search", "sort"}
          BY <3>1, <5>1, <5>2 DEF Tasks
        <5>4. CASE old[k].which = "search"
          BY <5>1, <5>2, <5>4 DEF Prepared, new
        <5> QED BY <3>2, <3>4, <5>1, <5>3, <5>4
      <4> QED BY <2>2, <3>4, <4>1, <4>2 DEF old
    <3> QED BY <1>2, <3>3, <3>4
  <2>3. \A r \in ResultSet : v.sets[r].live => v.sets[r].name # Unset
    BY <1>1 DEF Queue
  <2> QED BY <2>1, <2>2, <2>3 DEF Queue, new
<1>5. Session(v)
  BY <1>1 DEF Session, Cleared, Sticky
<1>6. Base(v)
  BY <1>4, <1>5 DEF Base
<1>7. t.which # "sort" => Ready(v)
  <2>1. v.conn.tasks # <<>> /\ Head(v.conn.tasks).running => v.conn.error = "none"
    BY <1>2 DEF Ready, Cleared, old, new
  <2>2. ASSUME t.which # "sort", NEW i \in DOMAIN new, new[i].which = "sort" PROVE v.conn.error = "none"
    <3>1. i \in DOMAIN old /\ old[i].which = "sort"
      BY <1>2, <2>2
    <3>2. w.conn.error = "none"
      BY <3>1 DEF Ready, old
    <3> QED BY <3>2 DEF Cleared
  <2> QED BY <2>1, <2>2 DEF Ready, new
<1>8. CASE Rested(w)
  <2>1. AtRest(v) /\ Covered(v)
    BY <1>8 DEF Rested, AtRest, Covered, Cleared
  <2>2. Head(new).running => v.conn.error # "none"
    BY <1>2, <1>8 DEF Rested, Ready, old
  <2> QED BY <1>6, <1>7, <2>1, <2>2 DEF Steady, Rested, new
<1>9. ASSUME NEW req, Fits(w, req) PROVE Fits(v, req)
  <2>0. old # <<>>
    BY <1>9 DEF Fits, old
  <2>1. Head(old) \in Tasks
    BY <1>1, <2>0
  <2>2. Head(old).rs # NoSet => Head(old).rs \in ResultSet
    BY <2>1 DEF Tasks
  <2> DEFINE h == Head(old)
  <2>3. /\ h.running /\ req.kind \in Sends(h)
        /\ h.rs # NoSet => req.rs = h.rs /\ req.q = w.sets[h.rs].q /\ w.sets[h.rs].name # Unset
        /\ w.net.proto = "z3950" => (req.kind = "init" <=> ~w.net.inited)
    BY <1>9 DEF Fits, old
  <2>4. new # <<>> /\ Head(new) = h
    BY <1>2, <2>0
  <2>5. h.rs # NoSet => req.rs = h.rs /\ req.q = v.sets[h.rs].q /\ v.sets[h.rs].name # Unset
    BY <2>2, <2>3
  <2> HIDE DEF h
  <2>6. v.conn.tasks # <<>> /\ Head(v.conn.tasks) = h
    BY <2>4 DEF new
  <2> QED BY <2>3, <2>5, <2>6 DEF Fits
<1>10. CASE UnderWay(w)
  <2>1. v.conn.error = "none"
    BY <1>10 DEF UnderWay, Cleared, Sticky
  <2>2. UnderWay(v)
    BY <1>9, <1>10, <2>1 DEF UnderWay
  <2> QED BY <1>6, <1>7, <2>2 DEF Steady
<1>11. CASE Dialing(w)
  <2>1. v.conn.error = "none"
    BY <1>11 DEF Dialing, Cleared, Sticky
  <2>2. Dialing(v)
    BY <1>2, <1>11, <2>1 DEF Dialing, old, new
  <2> QED BY <1>6, <1>7, <2>2 DEF Steady
<1> QED BY <1>8, <1>10, <1>11 DEF Steady

LEMMA AddPlainSteady ==
  ASSUME NEW w, Steady(w), Ready(w), NEW which \in {"connect", "scan", "package"}, which = "package" => w.net.proto = "z3950"
  PROVE  LET v == AddTask(w, Plain(which)) IN Steady(v) /\ Ready(v)
<1> DEFINE t == Plain(which)
           v == AddTask(w, t)
<1>1. t \in Tasks /\ ~t.running /\ t.which = which
  BY PlainTask DEF Plain, Task
<1>2. Good(v)
  BY SteadyType, AddPlain DEF Calls
<1> HIDE DEF t
<1>3. /\ v.conn.tasks = Append(w.conn.tasks, t) /\ v.sets = w.sets /\ v.net = w.net
      /\ v.conn.error = Cleared(w.conn.error)
      /\ v.conn.cs = w.conn.cs /\ v.conn.out = w.conn.out /\ v.conn.mask = w.conn.mask
      /\ v.conn.aborted = w.conn.aborted /\ v.conn.location = w.conn.location
      /\ v.conn.redirects = w.conn.redirects /\ v.conn.proto = w.conn.proto
  BY SteadyType, AddTaskLine
<1> HIDE DEF v
<1>4. Steady(v) /\ Ready(v)
  BY <1>1, <1>2, <1>3, AddedSteady
<1> QED BY <1>4 DEF v, t

LEMMA AddNamingSteady ==
  ASSUME NEW w, Steady(w), Ready(w), NEW o \in ResultSet, NEW which \in {"search", "sort"}, NEW start \in Nat, NEW count \in Nat,
         which = "sort" => w.net.proto = "z3950" /\ (w.sets[o].live \/ Naming(w.conn.tasks, o) # 0)
  PROVE  Steady(Addref(AddTask(w, Task(which, o, start, count)), o))
<1> DEFINE t == Task(which, o, start, count)
           u == AddTask(w, t)
           n == u.sets[o].ref + 1
           hold == [u.sets EXCEPT ![o].ref = n]
           v == [u EXCEPT !.sets = hold]
<1>1. t \in Tasks /\ ~t.running /\ t.which = which /\ t.rs = o
  BY DEF Task, Tasks, TaskKinds
<1>2. v = Addref(u, o)
  BY DEF Addref
<1>3. Good(v)
  <2>1. Good(w)
    BY SteadyType
  <2>2. Calls(w, Addref(u, o))
    BY <2>1, AddNaming
  <2> HIDE DEF v
  <2> QED BY <1>2, <2>2, CallsType
<1>4. u \in Worlds
  BY <1>1, SteadyType, AddTaskType
<1> HIDE DEF t
<1>5. /\ u.conn.tasks = Append(w.conn.tasks, t) /\ u.sets = w.sets /\ u.net = w.net
      /\ u.conn.error = Cleared(w.conn.error)
      /\ u.conn.cs = w.conn.cs /\ u.conn.out = w.conn.out /\ u.conn.mask = w.conn.mask
      /\ u.conn.aborted = w.conn.aborted /\ u.conn.location = w.conn.location
      /\ u.conn.redirects = w.conn.redirects /\ u.conn.proto = w.conn.proto
  BY SteadyType, AddTaskLine
<1> HIDE DEF u, n
<1>6. u.sets \in [ResultSet -> Sets]
  BY <1>4 DEF Worlds
<1>7. ASSUME NEW r \in ResultSet
      PROVE  hold[r].q = u.sets[r].q /\ hold[r].live = u.sets[r].live /\ hold[r].name = u.sets[r].name
  <2>1. u.sets[r] \in Sets
    BY <1>6
  <2>2. hold[r] = IF r = o THEN [u.sets[r] EXCEPT !.ref = n] ELSE u.sets[r]
    BY <1>6
  <2> HIDE DEF hold
  <2> QED BY <2>1, <2>2 DEF Sets
<1> HIDE DEF hold
<1>8. v.conn = u.conn /\ v.net = u.net /\ v.sets = hold
  BY <1>4 DEF Worlds
<1> HIDE DEF v
<1>9. \A r \in ResultSet : v.sets[r].q = w.sets[r].q /\ v.sets[r].live = w.sets[r].live /\ v.sets[r].name = w.sets[r].name
  BY <1>5, <1>7, <1>8
<1>10. Steady(v)
  BY <1>1, <1>3, <1>5, <1>8, <1>9, AddedSteady
<1> QED BY <1>2, <1>10 DEF u, t

LEMMA PrepareHttpSteady ==
  ASSUME NEW w, Steady(w), Ready(w)
  PROVE  Steady(PrepareHttp(w)) /\ Ready(PrepareHttp(w))
<1> DEFINE v == [w EXCEPT !.conn.reconnect = TRUE]
           u == AddTask(w, Plain("connect"))
<1>1. Keeps(w, v)
  BY SteadyType, FlagsKeep
<1>2. Steady(u) /\ Ready(u)
  BY AddPlainSteady
<1>3. PrepareHttp(w) \in {w, v, u}
  BY DEF PrepareHttp
<1> HIDE DEF v, u
<1>4. Steady(v)
  BY <1>1, KeepsSteady
<1>5. Ready(v)
  <2>1. v.conn.error = w.conn.error
    BY <1>1 DEF Keeps, Firm, OnLine
  <2>2. (v.conn.tasks = <<>>) = (w.conn.tasks = <<>>)
        /\ (w.conn.tasks # <<>> => Head(v.conn.tasks).running = Head(w.conn.tasks).running)
    BY <1>1, SteadyType, KeepsHead
  <2>3. Alike(w, v)
    BY <1>1 DEF Keeps
  <2>4. DOMAIN v.conn.tasks = DOMAIN w.conn.tasks
        /\ \A i \in DOMAIN w.conn.tasks : v.conn.tasks[i].which = w.conn.tasks[i].which
    BY <2>3 DEF Alike
  <2> QED BY <2>1, <2>2, <2>4 DEF Ready
<1> QED BY <1>2, <1>3, <1>4, <1>5

\* A result set changes.  If a task names it, it stays what it is.
LEMMA SetSteady ==
  ASSUME NEW w, Steady(w), NEW r \in ResultSet, NEW s \in Sets, Good([w EXCEPT !.sets[r] = s]),
         s.live => s.name # Unset,
         Naming(w.conn.tasks, r) # 0 => s.q = w.sets[r].q /\ s.live = w.sets[r].live /\ s.name = w.sets[r].name
  PROVE  LET v == [w EXCEPT !.sets[r] = s]
         IN  Steady(v) /\ v.conn = w.conn /\ v.sets[r] = s
<1> DEFINE hold == [w.sets EXCEPT ![r] = s]
           v == [w EXCEPT !.sets = hold]
           tasks == w.conn.tasks
<1>1. w \in Worlds /\ Base(w) /\ Queue(w) /\ Session(w) /\ tasks \in Seq(Tasks) /\ w.sets \in [ResultSet -> Sets]
  BY SteadyType DEF Base, Worlds, Conns
<1>2. \A o \in ResultSet : hold[o] = IF o = r THEN s ELSE w.sets[o]
  BY <1>1
<1> HIDE DEF hold
<1>3. v.conn = w.conn /\ v.net = w.net /\ v.sets = hold
  BY <1>1 DEF Worlds
<1>4. Good(v)
  BY DEF hold
<1> HIDE DEF v
<1>5. ASSUME NEW i \in DOMAIN tasks, NEW o \in ResultSet, tasks[i].rs = o
      PROVE  v.sets[o].q = w.sets[o].q /\ v.sets[o].live = w.sets[o].live /\ v.sets[o].name = w.sets[o].name
  <2> HIDE DEF tasks
  <2>1. o = r => Naming(tasks, r) # 0
    BY <1>1, <1>5, PlacesFinite
  <2> QED BY <1>2, <1>3, <2>1 DEF tasks
<1>6. ASSUME NEW i \in DOMAIN tasks, tasks[i].which = "sort" PROVE Prepared(v, i)
  <2>1. Prepared(w, i)
    BY <1>1, <1>6 DEF Queue
  <2>2. tasks[i] \in Tasks
    BY <1>1
  <2>3. tasks[i].rs \in ResultSet
    BY <1>6, <2>2 DEF Tasks
  <2>4. v.sets[tasks[i].rs].live = w.sets[tasks[i].rs].live
    BY <1>5, <2>3
  <2> QED BY <1>3, <2>1, <2>4 DEF Prepared
<1>7. Queue(v)
  BY <1>1, <1>2, <1>3, <1>6 DEF Queue
<1>8. Session(v)
  BY <1>1, <1>3 DEF Session
<1>9. Base(v)
  BY <1>4, <1>7, <1>8 DEF Base
<1>10. ASSUME NEW req, Fits(w, req) PROVE Fits(v, req)
  <2> DEFINE h == Head(tasks)
  <2>1. tasks # <<>>
    BY <1>10 DEF Fits
  <2>2. h = tasks[1] /\ 1 \in DOMAIN tasks /\ h \in Tasks
    BY <1>1, <2>1
  <2>3. /\ h.running /\ req.kind \in Sends(h)
        /\ h.rs # NoSet => req.rs = h.rs /\ req.q = w.sets[h.rs].q /\ w.sets[h.rs].name # Unset
        /\ w.net.proto = "z3950" => (req.kind = "init" <=> ~w.net.inited)
    BY <1>10 DEF Fits
  <2> HIDE DEF h, tasks
  <2>4. h.rs # NoSet => h.rs \in ResultSet
    BY <2>2 DEF Tasks
  <2>5. h.rs # NoSet => req.rs = h.rs /\ req.q = v.sets[h.rs].q /\ v.sets[h.rs].name # Unset
    BY <1>5, <2>2, <2>3, <2>4
  <2> QED BY <1>3, <2>1, <2>3, <2>5 DEF Fits, h, tasks
<1>11. Steady(v)
  BY <1>3, <1>9, <1>10 DEF Steady, Rested, AtRest, Covered, UnderWay, Dialing
<1>12. v.sets[r] = s
  BY <1>2, <1>3
<1> QED BY <1>3, <1>11, <1>12 DEF v, hold

LEMMA MayAddReady ==
  ASSUME Careless = {}, MayAdd
  PROVE  Ready(W)
BY DEF MayAdd, Ready, W

LEMMA ConnectSteady ==
  ASSUME Careless = {}, Steady(W), Connect
  PROVE  Steady(W')
<1> DEFINE u == SetError(W, "none")
           w == RemoveTasks(u)
           x == [u EXCEPT !.conn.reconnect = TRUE]
           z == AddTask(u, Plain("connect"))
<1>1. W \in Worlds /\ Base(W) /\ Good(W) /\ Queue(W) /\ Session(W) /\ W.conn = conn
  BY SteadyType DEF Base, W
<1>2. conn.tasks = <<>> /\ (conn.cs = "none" \/ conn.error \notin Sticky)
  BY DEF Connect
<1>3. Become(IF conn.cs # "none" THEN [w EXCEPT !.conn.reconnect = TRUE] ELSE AddTask(w, Plain("connect")))
  BY DEF Connect
<1>4. /\ u.conn.tasks = W.conn.tasks /\ u.sets = W.sets /\ u.net = W.net
      /\ u.conn.error = "none" /\ u.conn.cs = W.conn.cs /\ u.conn.out = W.conn.out /\ u.conn.mask = W.conn.mask
      /\ u.conn.aborted = W.conn.aborted /\ u.conn.proto = W.conn.proto
      /\ u.conn.location = W.conn.location /\ u.conn.redirects = W.conn.redirects
  BY <1>1, ErrorLine
<1>5. u \in Worlds
  <2> DEFINE d == [W.conn EXCEPT !.error = "none"]
  <2>1. d \in Conns
    BY <1>1 DEF Worlds, Conns, Errors
  <2>2. u = [W EXCEPT !.conn = d]
    BY DEF SetError
  <2> HIDE DEF d, u
  <2> QED BY <1>1, <2>1, <2>2 DEF Worlds
<1> HIDE DEF u
<1>6. w = u
  BY <1>1, <1>2, <1>4 DEF RemoveTasks
<1> HIDE DEF w
<1>7. Good(u)
  BY <1>1, <1>4, <1>5 DEF Good, RefsOK, NoExtras
<1>8. Queue(u)
  BY <1>1, <1>2, <1>4 DEF Queue
<1>9. Session(u)
  BY <1>1, <1>2, <1>4 DEF Session, Sticky
<1>10. Rested(W)
  BY <1>1, <1>2 DEF Steady, UnderWay, Dialing, Fits
<1>11. Rested(u)
  BY <1>1, <1>2, <1>4, <1>10 DEF Rested, AtRest, Covered
<1>12. Steady(u) /\ Ready(u)
  BY <1>1, <1>2, <1>4, <1>7, <1>8, <1>9, <1>11 DEF Steady, Base, Ready
<1>13. Steady(z)
  BY <1>12, AddPlainSteady
<1>14. Keeps(u, x)
  BY <1>5, FlagsKeep
<1> HIDE DEF x, z
<1>15. Steady(x)
  BY <1>12, <1>14, KeepsSteady
<1>16. Become(x) \/ Become(z)
  BY <1>3, <1>6 DEF x, z
<1> QED BY <1>13, <1>15, <1>16, BecomeSteady

LEMMA SearchSteady ==
  ASSUME Careless = {}, Steady(W), calls \in Nat, NEW r \in ResultSet, NEW start \in Nat, NEW count \in Nat,
         NEW sort \in BOOLEAN, Search(r, start, count, sort)
  PROVE  Steady(W')
<1> DEFINE n == calls + 1
           s == [FreeSet EXCEPT !.ref = 1, !.app = TRUE, !.q = n, !.sort = sort]
           w == [W EXCEPT !.sets[r] = s]
           u == PrepareHttp(w)
           v == Addref(AddTask(u, Task("search", r, start, count)), r)
<1>1. W.sets[r].ref = 0 /\ Become(v) /\ Ready(W)
  BY MayAddReady DEF Search, W
<1>2. n \in Nat
  OBVIOUS
<1> HIDE DEF n
<1>3. s \in Sets /\ s.ref = 1 /\ s.app /\ ~s.live
  BY <1>2, FreeSetType DEF Sets, FreeSet
<1> HIDE DEF s
<1>4. Naming(W.conn.tasks, r) = 0
  <2>1. Naming(W.conn.tasks, r) \in Nat
    BY SteadyType, PlacesFinite DEF Worlds, Conns
  <2> QED BY <1>1, <2>1, SteadyType DEF Good, RefsOK, Once
<1>5. Good(w)
  BY <1>3, <1>4, SteadyType, SetCalls, CallsType DEF Once
<1>6. Steady(w) /\ w.conn = W.conn
  BY <1>3, <1>4, <1>5, SetSteady
<1> HIDE DEF w
<1>7. Ready(w)
  BY <1>1, <1>6 DEF Ready
<1>8. Steady(u) /\ Ready(u)
  BY <1>6, <1>7, PrepareHttpSteady
<1> HIDE DEF u
<1>9. Steady(v)
  BY <1>8, AddNamingSteady
<1> HIDE DEF v
<1> QED BY <1>1, <1>9, BecomeSteady

LEMMA RecordsSteady ==
  ASSUME Careless = {}, Steady(W), NEW r \in ResultSet, NEW start \in Nat, NEW count \in Nat, Records(r, start, count)
  PROVE  Steady(W')
<1> DEFINE u == PrepareHttp(W)
           v == Addref(AddTask(u, Task("search", r, start, count)), r)
<1>1. Become(v) /\ Ready(W)
  BY MayAddReady DEF Records
<1>2. Steady(u) /\ Ready(u)
  BY <1>1, PrepareHttpSteady
<1> HIDE DEF u
<1>3. Steady(v)
  BY <1>2, AddNamingSteady
<1> HIDE DEF v
<1> QED BY <1>1, <1>3, BecomeSteady

LEMMA SortSteady ==
  ASSUME Careless = {}, Steady(W), NEW r \in ResultSet, Sort(r)
  PROVE  Steady(W')
<1> DEFINE c == FreeSet.cache
           x == Naming(conn.tasks, r) > 0
           s == [W.sets[r] EXCEPT !.cache = c, !.crossed = x]
           u == [W EXCEPT !.sets[r] = s]
           v == Addref(AddTask(u, Task("sort", r, 0, 0)), r)
<1>1. W.sets[r] \in Sets /\ W \in Worlds /\ c \in [Position -> Versions] /\ x \in BOOLEAN
  <2>1. W \in Worlds /\ W.conn.tasks \in Seq(Tasks) /\ W.conn.tasks = conn.tasks
    BY SteadyType DEF Worlds, Conns, W
  <2>2. Naming(conn.tasks, r) \in Nat
    BY <2>1, PlacesFinite
  <2> QED BY <2>1, <2>2, FreeSetType DEF Worlds, Sets
<1>2. Become(v) /\ Ready(W) /\ W.net.proto = "z3950" /\ (W.sets[r].live \/ Naming(W.conn.tasks, r) > 0)
  <2>1. Become(Addref(AddTask([W EXCEPT !.sets[r].cache = c, !.sets[r].crossed = x], Task("sort", r, 0, 0)), r))
        /\ Ready(W) /\ W.net.proto = "z3950" /\ (W.sets[r].live \/ Naming(W.conn.tasks, r) > 0)
    BY MayAddReady DEF Sort, W
  <2> HIDE DEF c, x
  <2>2. [W EXCEPT !.sets[r].cache = c, !.sets[r].crossed = x] = u
    BY <1>1 DEF Worlds, Sets
  <2> QED BY <2>1, <2>2
<1> HIDE DEF c
<1>3. /\ s \in Sets /\ s.ref = W.sets[r].ref /\ s.app = W.sets[r].app
      /\ s.q = W.sets[r].q /\ s.live = W.sets[r].live /\ s.name = W.sets[r].name
  BY <1>1 DEF Sets
<1> HIDE DEF s
<1>4. s.ref = Once(s.app) + Naming(W.conn.tasks, r)
  BY <1>3, SteadyType DEF Good, RefsOK
<1>5. Good(u)
  BY <1>3, <1>4, SteadyType, SetCalls, CallsType
<1>6. s.live => s.name # Unset
  BY <1>3, SteadyType DEF Base, Queue
<1>7. Steady(u) /\ u.conn = W.conn /\ u.sets[r] = s
  BY <1>3, <1>5, <1>6, SetSteady
<1>8. u.net = W.net
  BY <1>1 DEF Worlds
<1> HIDE DEF u
<1>9. Ready(u) /\ (u.sets[r].live \/ Naming(u.conn.tasks, r) # 0)
  BY <1>2, <1>3, <1>7 DEF Ready
<1>10. Steady(v)
  BY <1>2, <1>7, <1>8, <1>9, AddNamingSteady
<1> HIDE DEF v
<1> QED BY <1>2, <1>10, BecomeSteady

LEMMA DestroySteady ==
  ASSUME Steady(W), NEW r \in ResultSet, Destroy(r)
  PROVE  Steady(W')
<1> DEFINE o == W.sets[r]
           s == [o EXCEPT !.app = FALSE]
           new == Unref(s, 1)
           v == [W EXCEPT !.sets[r] = new]
           m == Naming(W.conn.tasks, r)
<1>1. Become(v) /\ o.app
  BY DEF Destroy, W
<1>2. o \in Sets /\ o.ref = Once(o.app) + m /\ m \in Nat
  BY SteadyType, PlacesFinite DEF Good, RefsOK, Worlds, Conns
<1>3. o.live => o.name # Unset
  BY SteadyType DEF Base, Queue
<1> HIDE DEF o
<1>4. s \in Sets /\ s.ref = o.ref /\ ~s.app /\ s.q = o.q /\ s.live = o.live /\ s.name = o.name
  BY <1>2 DEF Sets
<1> HIDE DEF s
<1>5. s.ref = Once(s.app) + (m + 1)
  BY <1>1, <1>2, <1>4 DEF Once
<1>6. new \in Sets /\ new.ref = Once(new.app) + m
  BY <1>2, <1>4, <1>5, UnrefCounts
<1>7. new = FreeSet \/ (new.q = o.q /\ new.live = o.live /\ new.name = o.name)
  BY <1>4, UnrefFrees DEF Freed
<1> HIDE DEF new
<1>8. Good(v)
  BY <1>6, SteadyType, SetCalls, CallsType
<1>9. FreeSet.ref = 0 /\ ~FreeSet.app /\ ~FreeSet.live
  BY DEF FreeSet
<1>10. new = FreeSet => m = 0
  BY <1>2, <1>6, <1>9 DEF Once
<1>11. new.live => new.name # Unset
  BY <1>3, <1>7, <1>9
<1>12. Steady(v)
  BY <1>6, <1>7, <1>8, <1>10, <1>11, SetSteady DEF o
<1> HIDE DEF v
<1> QED BY <1>1, <1>12, BecomeSteady

LEMMA ApiSteady ==
  ASSUME Careless = {}, Steady(W), calls \in Nat, Api
  PROVE  Steady(W')
<1>1. 0 .. MaxHits \subseteq Nat /\ 0 \in Nat
  BY ZoomAssumption
<1>2. CASE Scan
  <2>1. Ready(W) /\ Become(AddTask(W, Plain("scan")))
    BY <1>2, MayAddReady DEF Scan
  <2>2. Steady(AddTask(W, Plain("scan")))
    BY <2>1, AddPlainSteady
  <2> QED BY <2>1, <2>2, BecomeSteady
<1>3. CASE Package
  <2>1. Ready(W) /\ W.net.proto = "z3950" /\ Become(AddTask(W, Plain("package")))
    BY <1>3, MayAddReady DEF Package, W
  <2>2. Steady(AddTask(W, Plain("package")))
    BY <2>1, AddPlainSteady
  <2> QED BY <2>1, <2>2, BecomeSteady
<1>4. ASSUME NEW r \in ResultSet, Sort(r) \/ Destroy(r) PROVE Steady(W')
  BY <1>4, SortSteady, DestroySteady
<1>5. ASSUME NEW r \in ResultSet, NEW start \in 0 .. MaxHits, NEW count \in 0 .. MaxHits,
             Records(r, start, count) \/ Search(r, start, count, FALSE)
      PROVE  Steady(W')
  BY <1>1, <1>5, RecordsSteady, SearchSteady
<1>6. ASSUME NEW r \in ResultSet, NEW count \in 0 .. MaxHits, Search(r, 0, count, TRUE)
      PROVE  Steady(W')
  BY <1>1, <1>6, SearchSteady
<1> QED BY <1>2, <1>3, <1>4, <1>5, <1>6, ConnectSteady DEF Api

-----------------------------------------------------------------------------
(* Every reachable state, with a careful application and a plain server.   *)

FlowInv == Steady(W) /\ calls \in Nat

LEMMA InitFlow ==
  ASSUME Init
  PROVE  FlowInv
<1>1. Good(W) /\ calls \in Nat
  BY InitGood DEF ZoomInv
<1>2. /\ W.conn = conn /\ W.net = net /\ W.sets = sets
      /\ conn.cs = "none" /\ conn.error = "none" /\ conn.mask = {} /\ conn.tasks = <<>>
      /\ conn.redirects = 0 /\ conn.location = NoRequest /\ conn.out = NoRequest /\ ~conn.aborted
      /\ \A r \in ResultSet : ~sets[r].live
  <2> HIDE DEF NoRequest
  <2> QED BY DEF Init, W, FreeSet
<1>3. net.wire = <<>> /\ ~net.inited
  BY DEF Init
<1>4. Queue(W)
  BY <1>2 DEF Queue
<1>5. Session(W)
  BY <1>2, <1>3 DEF Session
<1>6. Rested(W)
  BY <1>2, <1>3 DEF Rested, AtRest, Covered
<1> QED BY <1>1, <1>4, <1>5, <1>6 DEF FlowInv, Steady, Base

LEMMA NextFlow ==
  ASSUME Careless = {}, "redirect" \notin Habits, "explain" \notin Habits, FlowInv, Next
  PROVE  FlowInv'
<1>1. Steady(W')
  BY GetEventSteady, RunTaskSteady, PollSteady, ApiSteady DEF FlowInv, Next
<1>2. ZoomInv'
  BY SteadyType, NextGood DEF FlowInv, ZoomInv
<1> QED BY <1>1, <1>2 DEF FlowInv, ZoomInv

THEOREM FlowInvariant ==
  ASSUME Careless = {}, "redirect" \notin Habits, "explain" \notin Habits
  PROVE  Spec => []FlowInv
<1>1. ASSUME FlowInv, UNCHANGED vars PROVE FlowInv'
  <2>1. W' = W /\ calls' = calls
    BY <1>1 DEF vars, W
  <2> QED BY <1>1, <2>1 DEF FlowInv
<1>2. FlowInv /\ [Next]_vars => FlowInv'
  BY <1>1, NextFlow
<1> QED BY InitFlow, <1>2, PTL DEF Spec

\* No assertion of the client fails, and no list head that is not there is
\* looked at (assert in ZOOM_connection_Z3950_search, handle_Z3950_apdu and
\* es_response; c->tasks->which in do_io and ZOOM_test_reconnect), when the
\* application is careful and the server neither redirects nor explains why it
\* refuses an Init.
THEOREM NeverAborts ==
  ASSUME Careless = {}, "redirect" \notin Habits, "explain" \notin Habits
  PROVE  Spec => []NoAbort
<1>1. FlowInv => NoAbort
  BY DEF FlowInv, Steady, Base, Session, NoAbort, W
<1> QED BY <1>1, FlowInvariant, PTL

\* Never more than one request is under way, and it is one of the task at the
\* head, for that task's result set, so a response is never taken for another's
\* (ZOOM_connection_exec_task, send_package and handle_Z3950_apdu), for any
\* number of sets, tasks and calls, wherever the connection breaks.
THEOREM AnswersToTheHead ==
  ASSUME Careless = {}, "redirect" \notin Habits, "explain" \notin Habits
  PROVE  Spec => []AnswersMatch
<1>1. ASSUME FlowInv PROVE AnswersMatch
  <2>1. W.conn = conn /\ W.net = net /\ W.sets = sets /\ Steady(W) /\ net.wire \in Seq(Requests)
    BY <1>1, SteadyType DEF FlowInv, W, Worlds, Nets
  <2>2. Outstanding = <<>> \/ \E req : Outstanding = <<req>> /\ Fits(W, req)
    <3>1. CASE Rested(W) \/ Dialing(W)
      <4>1. net.wire = <<>> /\ conn.out = NoRequest
        BY <2>1, <3>1 DEF Rested, AtRest, Dialing
      <4> QED BY <4>1 DEF Outstanding
    <3>2. CASE UnderWay(W)
      <4>1. CASE conn.out # NoRequest /\ net.wire = <<>> /\ Fits(W, conn.out)
        BY <4>1 DEF Outstanding
      <4>2. CASE conn.out = NoRequest /\ Len(net.wire) = 1 /\ Fits(W, net.wire[1])
        <5>1. net.wire = <<net.wire[1]>>
          BY <2>1, <4>2
        <5> QED BY <2>1, <4>2, <5>1 DEF Outstanding
      <4> QED BY <2>1, <3>2, <4>1, <4>2 DEF UnderWay
    <3> QED BY <2>1, <3>1, <3>2 DEF Steady
  <2>3. CASE Outstanding = <<>>
    BY <2>3 DEF AnswersMatch
  <2>4. ASSUME NEW req, Outstanding = <<req>>, Fits(W, req) PROVE AnswersMatch
    <3>1. Len(Outstanding) = 1 /\ DOMAIN Outstanding = {1} /\ Outstanding[1] = req
      BY <2>4
    <3>2. LET t == Head(conn.tasks)
          IN  /\ conn.tasks # <<>> /\ t.running
              /\ req.kind \in Sends(t)
              /\ t.rs # NoSet => req.rs = t.rs /\ req.q = sets[t.rs].q
      BY <2>1, <2>4 DEF Fits
    <3> QED BY <3>1, <3>2 DEF AnswersMatch
  <2> QED BY <2>2, <2>3, <2>4
<1> QED BY <1>1, FlowInvariant, PTL

\* Nothing but an Init request goes to a Z39.50 server that has not accepted
\* one in this session, however often the session is lost and begun anew
\* (ZOOM_connection_connect, do_connect_host and handle_Z3950_apdu).
THEOREM InitGoesFirst ==
  ASSUME Careless = {}, "redirect" \notin Habits, "explain" \notin Habits
  PROVE  Spec => []InitFirst
<1>1. ASSUME FlowInv PROVE InitFirst
  <2>1. W.conn = conn /\ W.net = net /\ Steady(W) /\ net.wire \in Seq(Requests)
    BY <1>1, SteadyType DEF FlowInv, W, Worlds, Nets
  <2>2. net.wire = <<>> \/ (Len(net.wire) = 1 /\ Fits(W, net.wire[1]))
    BY <2>1 DEF Steady, Rested, AtRest, Dialing, UnderWay
  <2> QED BY <2>1, <2>2 DEF InitFirst, Fits
<1> QED BY <1>1, FlowInvariant, PTL

\* When ZOOM_event has nothing more to return, every task has been performed or
\* given up, as doc/zoom.events says (ZOOM_event and ZOOM_connection_exec_task).
THEOREM ZeroMeansDone ==
  ASSUME Careless = {}, "redirect" \notin Habits, "explain" \notin Habits
  PROVE  Spec => []DoneWhenZero
<1>1. ASSUME FlowInv, Exhausted, conn.tasks # <<>> PROVE FALSE
  <2>1. W.conn = conn /\ Steady(W)
    BY <1>1 DEF FlowInv, W
  <2>2. conn.error = "none" /\ Head(conn.tasks).running /\ (conn.cs = "none" \/ conn.mask = {})
    BY <1>1 DEF Exhausted, Runnable
  <2> QED BY <1>1, <2>1, <2>2 DEF Steady, Rested, UnderWay, Dialing
<1>2. FlowInv => DoneWhenZero
  BY <1>1 DEF DoneWhenZero
<1> QED BY <1>2, FlowInvariant, PTL
=============================================================================
