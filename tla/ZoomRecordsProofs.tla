------------------------- MODULE ZoomRecordsProofs --------------------------
(***************************************************************************)
(* Whose records are in the caches of the result sets: no record of        *)
(* another query, though sets, sessions and connections come and go and    *)
(* their names are used again; and none from before a sort along with one  *)
(* from after it, but where the sort was asked for over a waiting task.    *)
(***************************************************************************)
EXTENDS ZoomProofs

\* Where a set has a name of its own its records answer its query, and so do
\* those of the set the server knows by that name.
Own(w) ==
  /\ \A r \in ResultSet : w.sets[r].name # Default =>
       \A p \in Position : w.sets[r].cache[p].q \in {-1, 0, w.sets[r].q}
  /\ \A r, o \in ResultSet : r # o /\ w.sets[r].name = w.sets[o].name => w.sets[r].name \in {Unset, Default}
  /\ \A r \in ResultSet : w.net.proto = "z3950" /\ w.sets[r].live /\ w.sets[r].name \in Name \ {Default} =>
       w.net.sets[w.sets[r].name].q \in {-1, w.sets[r].q}

\* No record of the server is in the cache, or all are from one side of a sort;
\* of a set that was to be sorted over a waiting task nothing is said.
Bare(s) == s.crossed \/ \A p \in Position : s.cache[p].q \in {-1, 0}
Ordered(s, b) == s.crossed \/ \A p \in Position : s.cache[p].q \in {-1, 0} \/ s.cache[p].sorted = b

\* Records come after the size of the set is known, and where the set has a name
\* of its own they are as the server has the set, sorted or not.
Even(w) ==
  /\ \A r \in ResultSet : ~w.sets[r].live => Bare(w.sets[r])
  /\ \A r \in ResultSet : w.net.proto = "http" => Ordered(w.sets[r], FALSE)
  /\ \A r \in ResultSet : w.sets[r].name # Default => \E b \in BOOLEAN : Ordered(w.sets[r], b)
  /\ \A r \in ResultSet : w.net.proto = "z3950" /\ w.sets[r].live /\ w.sets[r].name \in Name \ {Default} =>
       \/ w.net.sets[w.sets[r].name].q = -1
       \/ Ordered(w.sets[r], w.net.sets[w.sets[r].name].sorted)

\* The sets that wait to be sorted, and those another task comes first for.
ToSort(tasks) == {r \in ResultSet : \E i \in DOMAIN tasks : tasks[i].which = "sort" /\ tasks[i].rs = r}
Crossed(tasks) ==
  {r \in ResultSet : \E i, j \in DOMAIN tasks :
     tasks[i].which = "sort" /\ tasks[i].rs = r /\ j < i /\ tasks[j].rs = r}

\* What waits to be sorted, if sets can be, has no record yet, unless another
\* task for it waited already.
Lined(w) ==
  /\ \A r \in Crossed(w.conn.tasks) : w.sets[r].crossed
  /\ \A r \in ToSort(w.conn.tasks) : Bare(w.sets[r])
  /\ w.net.proto = "http" => ToSort(w.conn.tasks) = {}

\* What is being written or is with the server.
Pending(w) == {w.conn.out} \cup {w.net.wire[i] : i \in DOMAIN w.net.wire}

\* The request is for that set.
Uses(req, r) == req.kind \in {"search", "present", "sort"} /\ req.rs = r

\* A request for a set uses its name; records are only asked for when the
\* server has told the size of the set, the set is searched for when it has
\* not, without records if they must be sorted, and a set that is sorted has
\* no records.
Aims(req, s) ==
  /\ req.name = s.name
  /\ req.kind = "present" => s.live
  /\ req.kind = "search" => ~s.live /\ (s.sort => req.num = 0)
  /\ req.kind = "sort" => Bare(s)
Aimed(w, req) == w.net.proto = "z3950" => \A r \in ResultSet : Uses(req, r) => Aims(req, w.sets[r])

Sound(w) == Own(w) /\ Even(w) /\ Lined(w) /\ \A req \in Pending(w) : Aimed(w, req)

\* Steps after which the records are whose they were.
Fresh(s) == s.name = Unset /\ ~s.live /\ \A p \in Position : s.cache[p].q = -1
Stays(o, s) ==
  /\ s.name = o.name /\ s.q = o.q /\ s.live = o.live /\ (s.sort => o.sort) /\ s.crossed = o.crossed
  /\ \A p \in Position : s.cache[p].q \in {-1, 0} \/ s.cache[p] = o.cache[p]
Follows(tasks, new) ==
  ToSort(new) \subseteq ToSort(tasks) /\ Crossed(new) \subseteq Crossed(tasks)

Calm(w, v) ==
  /\ v.net.proto = w.net.proto
  /\ v.net.sets = w.net.sets \/ \A n \in Name : v.net.sets[n].q = -1
  /\ Follows(w.conn.tasks, v.conn.tasks)
  /\ \A req \in Pending(v) : req \in Pending(w) \/ req = NoRequest
  /\ \A r \in ResultSet : Stays(w.sets[r], v.sets[r])
                          \/ /\ Fresh(v.sets[r]) /\ r \notin ToSort(v.conn.tasks)
                             /\ \A req \in Pending(v) : ~Uses(req, r)

LEMMA CrossedToSort == \A x : Crossed(x) \subseteq ToSort(x)
BY DEF Crossed, ToSort

LEMMA NobodysRequest == \A r : ~Uses(NoRequest, r)
BY DEF Uses, NoRequest, Request

LEMMA StaysSelf ==
  ASSUME NEW w
  PROVE  \A r \in ResultSet : Stays(w.sets[r], w.sets[r])
BY DEF Stays

\* A set that stays, or is fresh, has no other records than before.
LEMMA StaysEven ==
  ASSUME NEW o, NEW s, Stays(o, s) \/ Fresh(s)
  PROVE  /\ Bare(o) => Bare(s)
         /\ \A b : Ordered(o, b) => Ordered(s, b)
         /\ ~s.live => Fresh(s) \/ ~o.live
<1>1. CASE Fresh(s)
  BY <1>1 DEF Fresh, Bare, Ordered
<1>2. CASE Stays(o, s)
  <2>1. \A p \in Position : s.cache[p].q \in {-1, 0} \/ s.cache[p] = o.cache[p]
    BY <1>2 DEF Stays
  <2>0. s.crossed = o.crossed
    BY <1>2 DEF Stays
  <2>2. Bare(o) => Bare(s)
    BY <2>0, <2>1 DEF Bare
  <2>3. ASSUME NEW b, Ordered(o, b) PROVE Ordered(s, b)
    BY <2>0, <2>1, <2>3 DEF Ordered
  <2> QED BY <1>2, <2>2, <2>3 DEF Stays
<1> QED BY <1>1, <1>2

LEMMA FreshBare ==
  ASSUME NEW s, Fresh(s)
  PROVE  Bare(s) /\ \A b : Ordered(s, b)
BY DEF Fresh, Bare, Ordered

LEMMA BareOrdered ==
  ASSUME NEW s, Bare(s)
  PROVE  \A b : Ordered(s, b)
BY DEF Bare, Ordered

-----------------------------------------------------------------------------
(* The sorts in the list of tasks.                                         *)

LEMMA FollowsChain ==
  ASSUME NEW x, NEW y, NEW z, Follows(x, y), Follows(y, z)
  PROVE  Follows(x, z)
BY DEF Follows

\* The same tasks with other ranges or flags.
LEMMA FollowsSame ==
  ASSUME NEW x, NEW y, DOMAIN y = DOMAIN x,
         \A i \in DOMAIN x : y[i].which = x[i].which /\ y[i].rs = x[i].rs
  PROVE  Follows(x, y)
<1>1. ToSort(y) \subseteq ToSort(x)
  BY DEF ToSort
<1>2. Crossed(y) \subseteq Crossed(x)
  BY DEF Crossed
<1> QED BY <1>1, <1>2 DEF Follows

LEMMA FollowsAlike ==
  ASSUME NEW w, NEW v, Alike(w, v)
  PROVE  Follows(w.conn.tasks, v.conn.tasks)
BY FollowsSame DEF Alike

LEMMA FollowsEmpty ==
  ASSUME NEW x
  PROVE  Follows(x, <<>>)
<1>1. DOMAIN <<>> = {}
  OBVIOUS
<1>2. \A y : DOMAIN y = {} => ToSort(y) = {} /\ Crossed(y) = {}
  BY DEF ToSort, Crossed
<1> QED BY <1>1, <1>2 DEF Follows

LEMMA TailElements ==
  ASSUME NEW S, NEW s \in Seq(S), s # <<>>
  PROVE  /\ DOMAIN Tail(s) \subseteq Nat
         /\ \A i \in DOMAIN Tail(s) : i + 1 \in DOMAIN s /\ Tail(s)[i] = s[i + 1]
OBVIOUS

LEMMA FollowsTail ==
  ASSUME NEW x \in Seq(Tasks), x # <<>>
  PROVE  Follows(x, Tail(x))
<1> DEFINE y == Tail(x)
<1>1. DOMAIN y \subseteq Nat /\ \A i \in DOMAIN y : i + 1 \in DOMAIN x /\ y[i] = x[i + 1]
  BY TailElements
<1> HIDE DEF y
<1>2. ToSort(y) \subseteq ToSort(x)
  BY <1>1 DEF ToSort
<1>3. ASSUME NEW r \in Crossed(y) PROVE r \in Crossed(x)
  <2>1. PICK i \in DOMAIN y, j \in DOMAIN y : y[i].which = "sort" /\ y[i].rs = r /\ j < i /\ y[j].rs = r
    BY <1>3 DEF Crossed
  <2>2. i + 1 \in DOMAIN x /\ j + 1 \in DOMAIN x /\ y[i] = x[i + 1] /\ y[j] = x[j + 1] /\ j + 1 < i + 1
    BY <1>1, <2>1
  <2>3. r \in ResultSet
    BY <1>3 DEF Crossed
  <2> QED BY <2>1, <2>2, <2>3 DEF Crossed
<1> QED BY <1>2, <1>3 DEF Follows, y

LEMMA PrefixElements ==
  ASSUME NEW S, NEW s \in Seq(S), NEW e
  PROVE  LET d == <<e>> \o s
         IN  /\ DOMAIN d \subseteq Nat /\ 1 \in DOMAIN d /\ d[1] = e
             /\ \A i \in DOMAIN d : i # 1 => i > 1 /\ i - 1 \in DOMAIN s /\ d[i] = s[i - 1]
OBVIOUS

\* A task for no set is put at the head.
LEMMA FollowsPrefix ==
  ASSUME NEW x \in Seq(Tasks), NEW t, t.which # "sort", t.rs = NoSet
  PROVE  Follows(x, <<t>> \o x)
<1> DEFINE y == <<t>> \o x
<1>1. /\ DOMAIN y \subseteq Nat /\ 1 \in DOMAIN y /\ y[1] = t
      /\ \A i \in DOMAIN y : i # 1 => i > 1 /\ i - 1 \in DOMAIN x /\ y[i] = x[i - 1]
  BY PrefixElements
<1> HIDE DEF y
<1>2. ASSUME NEW i \in DOMAIN y, y[i].which = "sort" PROVE i > 1 /\ i - 1 \in DOMAIN x /\ y[i] = x[i - 1]
  <2>1. i # 1
    BY <1>1, <1>2
  <2> QED BY <1>1, <2>1, Zenon
<1>3. ToSort(y) \subseteq ToSort(x)
  BY <1>2 DEF ToSort
<1>4. ASSUME NEW r \in Crossed(y) PROVE r \in Crossed(x)
  <2>1. PICK i \in DOMAIN y, j \in DOMAIN y : y[i].which = "sort" /\ y[i].rs = r /\ j < i /\ y[j].rs = r
    BY <1>4 DEF Crossed
  <2>2. r \in ResultSet /\ i - 1 \in DOMAIN x /\ y[i] = x[i - 1]
    BY <1>2, <1>4, <2>1 DEF Crossed
  <2>3. j # 1
    BY <1>1, <2>1, <2>2, ZoomAssumption
  <2>4. j - 1 \in DOMAIN x /\ y[j] = x[j - 1] /\ j - 1 < i - 1
    BY <1>1, <2>1, <2>3
  <2> QED BY <2>1, <2>2, <2>4 DEF Crossed
<1> QED BY <1>3, <1>4 DEF Follows, y

\* A task is queued: if a sort, then behind the tasks for its set.
LEMMA SortsAppend ==
  ASSUME NEW x \in Seq(Tasks), NEW t
  PROVE  /\ ToSort(Append(x, t)) \subseteq ToSort(x) \cup (IF t.which = "sort" THEN {t.rs} ELSE {})
         /\ \A r \in Crossed(Append(x, t)) :
              r \in Crossed(x) \/ (t.which = "sort" /\ t.rs = r /\ \E i \in DOMAIN x : x[i].rs = r)
<1> DEFINE n == Len(x) + 1
           y == Append(x, t)
<1>1. /\ DOMAIN x \subseteq Nat /\ n \in Nat /\ DOMAIN y = DOMAIN x \cup {n} /\ y[n] = t
      /\ \A i \in DOMAIN x : i < n /\ y[i] = x[i]
  OBVIOUS
<1> HIDE DEF y, n
<1>2. ToSort(y) \subseteq ToSort(x) \cup (IF t.which = "sort" THEN {t.rs} ELSE {})
  BY <1>1 DEF ToSort
<1>3. ASSUME NEW r \in Crossed(y)
      PROVE  r \in Crossed(x) \/ (t.which = "sort" /\ t.rs = r /\ \E i \in DOMAIN x : x[i].rs = r)
  <2>1. PICK i \in DOMAIN y, j \in DOMAIN y : y[i].which = "sort" /\ y[i].rs = r /\ j < i /\ y[j].rs = r
    BY <1>3 DEF Crossed
  <2>2. j \in DOMAIN x /\ r \in ResultSet
    BY <1>1, <1>3, <2>1 DEF Crossed
  <2>3. CASE i = n
    BY <1>1, <2>1, <2>2, <2>3
  <2>4. CASE i \in DOMAIN x
    BY <1>1, <2>1, <2>2, <2>4 DEF Crossed
  <2> QED BY <1>1, <2>3, <2>4
<1> QED BY <1>2, <1>3 DEF y

\* The set of the task at the head does not wait to be sorted, unless by it, or
\* was to be sorted over that task.
LEMMA HeadSorted ==
  ASSUME NEW w \in Worlds, w.conn.tasks # <<>>, Head(w.conn.tasks).rs \in ResultSet
  PROVE  LET t == Head(w.conn.tasks)
         IN  /\ t.which = "sort" => t.rs \in ToSort(w.conn.tasks)
             /\ t.which # "sort" /\ t.rs \in ToSort(w.conn.tasks) => t.rs \in Crossed(w.conn.tasks)
<1> DEFINE tasks == w.conn.tasks
           t == Head(tasks)
<1>1. 1 \in DOMAIN tasks /\ t = tasks[1] /\ DOMAIN tasks \subseteq Nat /\ \A i \in DOMAIN tasks : i = 1 \/ 1 < i
  BY HeadType DEF Worlds, Conns
<1>2. t.rs \in ResultSet
  OBVIOUS
<1> HIDE DEF tasks, t
<1>3. t.which = "sort" => t.rs \in ToSort(tasks)
  BY <1>1, <1>2 DEF ToSort
<1>4. ASSUME t.which # "sort", t.rs \in ToSort(tasks) PROVE t.rs \in Crossed(tasks)
  <2>1. PICK i \in DOMAIN tasks : tasks[i].which = "sort" /\ tasks[i].rs = t.rs
    BY <1>4 DEF ToSort
  <2>2. 1 < i
    BY <1>1, <1>4, <2>1
  <2> QED BY <1>1, <1>2, <2>1, <2>2 DEF Crossed
<1> QED BY <1>3, <1>4 DEF tasks, t

-----------------------------------------------------------------------------
(* Steps that leave the records as they are.                               *)

LEMMA CalmOwn ==
  ASSUME NEW w, NEW v, Own(w), Calm(w, v)
  PROVE  Own(v)
<1>1. ASSUME NEW r \in ResultSet, v.sets[r].name # Default, NEW p \in Position
      PROVE  v.sets[r].cache[p].q \in {-1, 0, v.sets[r].q}
  <2>1. CASE Stays(w.sets[r], v.sets[r])
    <3>1. w.sets[r].cache[p].q \in {-1, 0, w.sets[r].q}
      BY <1>1, <2>1 DEF Stays, Own
    <3> QED BY <1>1, <2>1, <3>1 DEF Stays
  <2>2. CASE Fresh(v.sets[r])
    BY <2>2 DEF Fresh
  <2> QED BY <2>1, <2>2 DEF Calm
<1>2. ASSUME NEW r \in ResultSet, NEW o \in ResultSet, r # o, v.sets[r].name = v.sets[o].name
      PROVE  v.sets[r].name \in {Unset, Default}
  <2>1. CASE Stays(w.sets[r], v.sets[r]) /\ Stays(w.sets[o], v.sets[o])
    <3>1. w.sets[r].name = v.sets[r].name /\ w.sets[o].name = v.sets[o].name
      BY <2>1 DEF Stays
    <3>2. w.sets[r].name = w.sets[o].name => w.sets[r].name \in {Unset, Default}
      BY <1>2 DEF Own
    <3> QED BY <1>2, <3>1, <3>2
  <2>2. CASE Fresh(v.sets[r]) \/ Fresh(v.sets[o])
    BY <1>2, <2>2 DEF Fresh
  <2> QED BY <2>1, <2>2 DEF Calm
<1>3. ASSUME NEW r \in ResultSet, v.net.proto = "z3950", v.sets[r].live, v.sets[r].name \in Name \ {Default}
      PROVE  v.net.sets[v.sets[r].name].q \in {-1, v.sets[r].q}
  <2>1. CASE Stays(w.sets[r], v.sets[r])
    <3>1. w.net.proto = "z3950" /\ w.sets[r].live /\ w.sets[r].name \in Name \ {Default}
      BY <1>3, <2>1 DEF Stays, Calm
    <3>2. w.net.sets[w.sets[r].name].q \in {-1, w.sets[r].q}
      BY <3>1 DEF Own
    <3> QED BY <1>3, <2>1, <3>2 DEF Stays, Calm
  <2>2. CASE Fresh(v.sets[r])
    BY <1>3, <2>2 DEF Fresh
  <2> QED BY <2>1, <2>2 DEF Calm
<1> QED BY <1>1, <1>2, <1>3 DEF Own

LEMMA CalmEven ==
  ASSUME NEW w, NEW v, Even(w), Calm(w, v)
  PROVE  Even(v)
<1>1. ASSUME NEW r \in ResultSet
      PROVE  /\ Bare(w.sets[r]) => Bare(v.sets[r])
             /\ \A b : Ordered(w.sets[r], b) => Ordered(v.sets[r], b)
             /\ Stays(w.sets[r], v.sets[r]) \/ Fresh(v.sets[r])
  BY <1>1, StaysEven DEF Calm
<1>2. ASSUME NEW r \in ResultSet, ~v.sets[r].live PROVE Bare(v.sets[r])
  <2>1. CASE Stays(w.sets[r], v.sets[r])
    BY <1>1, <1>2, <2>1 DEF Stays, Even
  <2> QED BY <1>1, <2>1, FreshBare
<1>3. ASSUME NEW r \in ResultSet, v.net.proto = "http" PROVE Ordered(v.sets[r], FALSE)
  <2>1. w.net.proto = "http"
    BY <1>3 DEF Calm
  <2> QED BY <1>1, <1>3, <2>1 DEF Even
<1>4. ASSUME NEW r \in ResultSet, v.sets[r].name # Default PROVE \E b \in BOOLEAN : Ordered(v.sets[r], b)
  <2>1. CASE Stays(w.sets[r], v.sets[r])
    <3>1. w.sets[r].name # Default
      BY <1>4, <2>1 DEF Stays
    <3>2. PICK b \in BOOLEAN : Ordered(w.sets[r], b)
      BY <1>4, <3>1 DEF Even
    <3> QED BY <1>1, <3>2
  <2> QED BY <1>1, <2>1, FreshBare
<1>5. ASSUME NEW r \in ResultSet, v.net.proto = "z3950", v.sets[r].live, v.sets[r].name \in Name \ {Default}
      PROVE  \/ v.net.sets[v.sets[r].name].q = -1
             \/ Ordered(v.sets[r], v.net.sets[v.sets[r].name].sorted)
  <2>1. CASE Stays(w.sets[r], v.sets[r])
    <3>1. w.net.proto = "z3950" /\ w.sets[r].live /\ w.sets[r].name = v.sets[r].name
      BY <1>5, <2>1 DEF Stays, Calm
    <3>2. \/ w.net.sets[v.sets[r].name].q = -1
          \/ Ordered(w.sets[r], w.net.sets[v.sets[r].name].sorted)
      BY <1>5, <3>1 DEF Even
    <3>3. CASE v.net.sets = w.net.sets
      BY <1>1, <3>2, <3>3
    <3>4. CASE \A n \in Name : v.net.sets[n].q = -1
      BY <1>5, <3>4
    <3> QED BY <3>3, <3>4 DEF Calm
  <2> QED BY <1>1, <2>1, FreshBare
<1> QED BY <1>2, <1>3, <1>4, <1>5, Zenon DEF Even

LEMMA CalmLined ==
  ASSUME NEW w, NEW v, Lined(w), Calm(w, v)
  PROVE  Lined(v)
<1>1. Follows(w.conn.tasks, v.conn.tasks)
  BY DEF Calm
<1>2. Crossed(v.conn.tasks) \subseteq Crossed(w.conn.tasks) /\ ToSort(v.conn.tasks) \subseteq ToSort(w.conn.tasks)
  BY <1>1 DEF Follows
<1>3. ASSUME NEW r \in ToSort(v.conn.tasks)
      PROVE  Bare(v.sets[r]) /\ v.sets[r].crossed = w.sets[r].crossed
  <2>1. r \in ResultSet
    BY <1>3 DEF ToSort
  <2>2. Bare(w.sets[r])
    BY <1>2, <1>3 DEF Lined
  <2>3. Stays(w.sets[r], v.sets[r])
    BY <1>3, <2>1 DEF Calm
  <2> QED BY <2>2, <2>3, StaysEven DEF Stays
<1>5. ASSUME NEW r \in Crossed(v.conn.tasks) PROVE v.sets[r].crossed
  <2>1. w.sets[r].crossed
    BY <1>2, <1>5 DEF Lined
  <2> QED BY <1>3, <1>5, <2>1, CrossedToSort
<1>4. ASSUME v.net.proto = "http" PROVE ToSort(v.conn.tasks) = {}
  <2>1. ToSort(w.conn.tasks) = {}
    BY <1>4 DEF Calm, Lined
  <2> QED BY <1>2, <2>1
<1> QED BY <1>3, <1>4, <1>5 DEF Lined

LEMMA CalmSound ==
  ASSUME NEW w, NEW v, Sound(w), Calm(w, v)
  PROVE  Sound(v)
<1>1. Own(w) /\ Even(w) /\ Lined(w)
  BY DEF Sound
<1>2. Own(v) /\ Even(v) /\ Lined(v)
  BY <1>1, CalmOwn, CalmEven, CalmLined
<1>3. ASSUME NEW req \in Pending(v), NEW r \in ResultSet, v.net.proto = "z3950", Uses(req, r)
      PROVE  Aims(req, v.sets[r])
  <2>1. req \in Pending(w) /\ Stays(w.sets[r], v.sets[r]) /\ w.net.proto = "z3950"
    BY <1>3, NobodysRequest DEF Calm
  <2>2. Aims(req, w.sets[r])
    BY <1>3, <2>1 DEF Sound, Aimed
  <2>3. Bare(w.sets[r]) => Bare(v.sets[r])
    BY <2>1, StaysEven
  <2> QED BY <2>1, <2>2, <2>3 DEF Stays, Aims
<1> QED BY <1>2, <1>3 DEF Sound, Aimed

\* The same sets on both sides, and no other request.
LEMMA SameSound ==
  ASSUME NEW w, NEW v, Sound(w), v.sets = w.sets, v.net = w.net, v.conn.out = w.conn.out,
         Follows(w.conn.tasks, v.conn.tasks)
  PROVE  Sound(v)
<1>1. Calm(w, v)
  BY StaysSelf DEF Calm, Pending
<1> QED BY <1>1, CalmSound

LEMMA FollowsSelf == \A x : Follows(x, x)
BY DEF Follows

LEMMA StillSound ==
  ASSUME NEW w, NEW v, Sound(w), v.sets = w.sets, v.net = w.net, v.conn.out = w.conn.out,
         v.conn.tasks = w.conn.tasks
  PROVE  Sound(v)
<1>1. Follows(w.conn.tasks, v.conn.tasks)
  BY FollowsSelf
<1> QED BY <1>1, SameSound

LEMMA SmallSound ==
  ASSUME NEW w \in Worlds, Sound(w), NEW x
  PROVE  /\ Sound(SetError(w, x)) /\ Sound(PutEvent(w, x)) /\ Sound(SetMask(w, x))
         /\ Sound(Returns(w, x)) /\ Sound(Abort(w))
<1>1. Sound(SetError(w, x))
  BY StillSound DEF SetError, Worlds, Conns
<1>2. Sound(PutEvent(w, x))
  BY StillSound DEF PutEvent, Worlds, Conns
<1>3. Sound(SetMask(w, x))
  BY StillSound DEF SetMask, Worlds, Conns
<1>4. Sound(Returns(w, x))
  BY StillSound DEF Returns, Worlds
<1>5. Sound(Abort(w))
  BY StillSound DEF Abort, Worlds, Conns
<1> QED BY <1>1, <1>2, <1>3, <1>4, <1>5

\* Other fields of the connection.
LEMMA FieldSound ==
  ASSUME NEW w \in Worlds, Sound(w), NEW x
  PROVE  /\ Sound([w EXCEPT !.conn.state = x]) /\ Sound([w EXCEPT !.conn.cs = x])
         /\ Sound([w EXCEPT !.conn.reconnect = x]) /\ Sound([w EXCEPT !.conn.named = x])
         /\ Sound([w EXCEPT !.conn.redirects = x]) /\ Sound([w EXCEPT !.conn.events = x])
<1>1. Sound([w EXCEPT !.conn.state = x]) /\ Sound([w EXCEPT !.conn.cs = x])
  BY StillSound DEF Worlds, Conns
<1>2. Sound([w EXCEPT !.conn.reconnect = x]) /\ Sound([w EXCEPT !.conn.named = x])
  BY StillSound DEF Worlds, Conns
<1>3. Sound([w EXCEPT !.conn.redirects = x]) /\ Sound([w EXCEPT !.conn.events = x])
  BY StillSound DEF Worlds, Conns
<1> QED BY <1>1, <1>2, <1>3

\* Nothing is asked any more.
LEMMA QuietSound ==
  ASSUME NEW w, NEW v, Sound(w), v.net.proto = w.net.proto, v.conn.out = NoRequest, v.net.wire = <<>>,
         v.net.sets = w.net.sets \/ \A n \in Name : v.net.sets[n].q = -1,
         Follows(w.conn.tasks, v.conn.tasks),
         \A r \in ResultSet : Stays(w.sets[r], v.sets[r]) \/ (Fresh(v.sets[r]) /\ r \notin ToSort(v.conn.tasks))
  PROVE  Sound(v)
<1>1. \A req \in Pending(v) : req = NoRequest
  BY DEF Pending
<1>2. Calm(w, v)
  BY <1>1, NobodysRequest DEF Calm
<1> QED BY <1>2, CalmSound

\* The sets change in what matters not.
LEMMA SetsSound ==
  ASSUME NEW w, NEW v, Sound(w), v.net = w.net, v.conn.out = w.conn.out,
         Follows(w.conn.tasks, v.conn.tasks), \A r \in ResultSet : Stays(w.sets[r], v.sets[r])
  PROVE  Sound(v)
<1>1. Calm(w, v)
  BY DEF Calm, Pending
<1> QED BY <1>1, CalmSound

LEMMA HangupNet ==
  ASSUME NEW w \in Worlds
  PROVE  LET v == Hangup(w)
         IN  /\ v.sets = w.sets /\ v.conn.out = NoRequest /\ v.net.wire = <<>> /\ v.net.proto = w.net.proto
             /\ \A n \in Name : v.net.sets[n].q = -1
             /\ v.conn.tasks = w.conn.tasks
<1> DEFINE none == [n \in Name |-> NoRecord]
           d == [w.conn EXCEPT !.cs = "none", !.out = NoRequest]
           k == [w.net EXCEPT !.wire = <<>>, !.inited = FALSE, !.sets = none]
           v == [w EXCEPT !.conn = d, !.net = k]
<1>1. \A n \in Name : none[n].q = -1
  BY DEF NoRecord
<1> HIDE DEF none
<1>2. k.wire = <<>> /\ k.proto = w.net.proto /\ k.sets = none
  BY DEF Worlds, Nets
<1>3. d.out = NoRequest /\ d.tasks = w.conn.tasks
  BY DEF Worlds, Conns
<1> HIDE DEF k, d
<1>4. v.conn = d /\ v.net = k /\ v.sets = w.sets
  BY DEF Worlds
<1> HIDE DEF v
<1>5. Hangup(w) = v
  BY DEF Hangup, v, k, d, none
<1> QED BY <1>1, <1>2, <1>3, <1>4, <1>5

LEMMA HangupSound ==
  ASSUME NEW w \in Worlds, Sound(w)
  PROVE  Sound(Hangup(w)) /\ Hangup(w) \in Worlds
<1> DEFINE v == Hangup(w)
<1>1. /\ v.sets = w.sets /\ v.conn.out = NoRequest /\ v.net.wire = <<>> /\ v.net.proto = w.net.proto
      /\ \A n \in Name : v.net.sets[n].q = -1
      /\ v.conn.tasks = w.conn.tasks
  BY HangupNet
<1>2. v \in Worlds
  BY HangupAlike, AlikeType
<1> HIDE DEF v
<1>3. Follows(w.conn.tasks, v.conn.tasks)
  BY <1>1, FollowsSelf
<1>4. Sound(v)
  BY <1>1, <1>3, StaysSelf, QuietSound
<1> QED BY <1>2, <1>4 DEF v

LEMMA CloseSound ==
  ASSUME NEW w \in Worlds, Sound(w)
  PROVE  Sound(Close(w)) /\ Close(w) \in Worlds
<1> DEFINE u == Hangup(w)
           v == SetMask(u, {})
<1>1. Sound(u) /\ u \in Worlds
  BY HangupSound
<1>2. Close(w) = [v EXCEPT !.conn.state = "idle"] /\ Close(w) \in Worlds
  BY CloseAlike, AlikeType DEF Close
<1> HIDE DEF u
<1>3. Sound(v) /\ v \in Worlds
  BY <1>1, SmallSound, MaskAlike, AlikeType
<1> HIDE DEF v
<1>4. Sound([v EXCEPT !.conn.state = "idle"])
  BY <1>3, FieldSound
<1> QED BY <1>2, <1>4

LEMMA RenewedSound ==
  ASSUME NEW w \in Worlds, Sound(w)
  PROVE  Sound(Renewed(w))
<1> DEFINE u == Hangup(w)
           v == [u EXCEPT !.conn.proto = w.net.proto]
<1>1. Sound(u) /\ u \in Worlds
  BY HangupSound
<1>2. Renewed(w) = v
  BY DEF Renewed
<1> HIDE DEF u
<1>3. v.sets = u.sets /\ v.net = u.net /\ v.conn.out = u.conn.out /\ v.conn.tasks = u.conn.tasks
  BY <1>1 DEF Worlds, Conns
<1> HIDE DEF v
<1> QED BY <1>1, <1>2, <1>3, StillSound

LEMMA OpeningSound ==
  ASSUME NEW w \in Worlds, Sound(w), NEW cs, NEW mask, NEW state
  PROVE  Sound(Opening(w, cs, mask, state))
<1> DEFINE v == Opening(w, cs, mask, state)
<1>1. v.sets = w.sets /\ v.net = w.net /\ v.conn.out = w.conn.out /\ v.conn.tasks = w.conn.tasks
  BY OpeningLine
<1> HIDE DEF v
<1>2. Sound(v)
  BY <1>1, StillSound
<1> QED BY <1>2 DEF v

LEMMA StoppedTasks ==
  ASSUME NEW x \in Seq(Tasks), NEW b \in BOOLEAN
  PROVE  LET y == [x EXCEPT ![1].running = b]
         IN  y \in Seq(Tasks) /\ Follows(x, y)
<1> DEFINE y == [x EXCEPT ![1].running = b]
<1>1. ASSUME NEW i \in DOMAIN x
      PROVE  y[i] \in Tasks /\ y[i].which = x[i].which /\ y[i].rs = x[i].rs
  <2> DEFINE p == [x[i] EXCEPT !.running = b]
  <2>1. x[i] \in Tasks
    OBVIOUS
  <2>2. p \in Tasks /\ p.which = x[i].which /\ p.rs = x[i].rs
    <3> DEFINE t == x[i]
    <3> HIDE DEF t
    <3> QED BY <2>1 DEF Tasks, t
  <2>3. y[i] \in {x[i], p}
    OBVIOUS
  <2> HIDE DEF p, y
  <2> QED BY <2>1, <2>2, <2>3
<1>2. x \in [1 .. Len(x) -> Tasks] /\ DOMAIN x = 1 .. Len(x) /\ Len(x) \in Nat
  OBVIOUS
<1>3. DOMAIN y = DOMAIN x /\ y = [i \in DOMAIN x |-> y[i]]
  BY <1>2
<1> HIDE DEF y
<1>4. Follows(x, y)
  BY <1>1, <1>3, FollowsSame
<1>5. y \in [1 .. Len(x) -> Tasks]
  BY <1>1, <1>2, <1>3
<1>6. y \in Seq(Tasks)
  BY <1>2, <1>5
<1> QED BY <1>4, <1>6 DEF y

LEMMA ResumeSound ==
  ASSUME NEW w \in Worlds, Sound(w)
  PROVE  Sound(Resume(w))
<1> DEFINE v == Resume(w)
           x == w.conn.tasks
           y == [x EXCEPT ![1].running = FALSE]
           t == Plain("connect")
           z == <<t>> \o y
<1>1. v.sets = w.sets /\ v.net = w.net /\ v.conn.out = w.conn.out
  BY DEF Resume, InsertTask, Worlds, Conns
<1>2. v.conn.tasks = z
  BY DEF Resume, InsertTask, Worlds, Conns
<1> HIDE DEF v
<1>3. t.which # "sort" /\ t.rs = NoSet
  BY DEF Plain, Task
<1> HIDE DEF t
<1>4. y \in Seq(Tasks) /\ Follows(x, y)
  BY StoppedTasks DEF Worlds, Conns
<1> HIDE DEF x, y
<1>5. Follows(y, z)
  BY <1>3, <1>4, FollowsPrefix
<1>6. Follows(x, z)
  BY <1>4, <1>5, FollowsChain
<1> HIDE DEF z
<1>7. Sound(v)
  BY <1>1, <1>2, <1>6, SameSound DEF x
<1> QED BY <1>7 DEF v

LEMMA ReconnectSound ==
  ASSUME NEW w, Good(w), Sound(w)
  PROVE  Sound(Reconnect(w)) /\ Reconnect(w) \in Worlds
<1> DEFINE u == Close(w)
           v == Resume(u)
<1>1. Sound(u) /\ u \in Worlds /\ Alike(w, u)
  BY CloseSound, CloseAlike, GoodType
<1>2. Reconnect(w) \in Worlds
  BY ReconnectLeads, LeadsType
<1>3. Reconnect(w) = IF w.conn.tasks = <<>> THEN Abort(u) ELSE PutEvent(v, "connect")
  BY DEF Reconnect
<1> HIDE DEF u
<1>4. CASE w.conn.tasks = <<>>
  <2>1. Sound(Abort(u))
    BY <1>1, SmallSound
  <2> QED BY <1>2, <1>3, <1>4, <2>1
<1>5. CASE w.conn.tasks # <<>>
  <2>1. Good(u) /\ u.conn.tasks # <<>>
    BY <1>1, <1>5, AlikeLeads, AlikeEmpty, LeadsType, GoodType
  <2>2. Sound(v) /\ v \in Worlds
    BY <1>1, <2>1, ResumeSound, ResumeLeads, LeadsType
  <2> HIDE DEF v
  <2>3. Sound(PutEvent(v, "connect"))
    BY <2>2, SmallSound
  <2> QED BY <1>2, <1>3, <1>5, <2>3
<1> QED BY <1>4, <1>5

LEMMA CloseErrorSound ==
  ASSUME NEW w \in Worlds, Sound(w), NEW e \in Errors \ {"none"}
  PROVE  Sound(Close(SetError(w, e))) /\ Close(SetError(w, e)) \in Worlds
<1> DEFINE u == SetError(w, e)
<1>1. Sound(u) /\ u \in Worlds
  BY SmallSound, ErrorAlike, AlikeType
<1> HIDE DEF u
<1>2. Sound(Close(u)) /\ Close(u) \in Worlds
  BY <1>1, CloseSound
<1> QED BY <1>2 DEF u

LEMMA BrokenSound ==
  ASSUME NEW w, Good(w), Sound(w), NEW e \in Errors \ {"none"}
  PROVE  Sound(Broken(w, e))
<1>1. Sound(Reconnect(w)) /\ Sound(Close(SetError(w, e)))
  BY ReconnectSound, CloseErrorSound, GoodType
<1> QED BY <1>1 DEF Broken

LEMMA UnrefStays ==
  ASSUME NEW o \in Sets, NEW n
  PROVE  LET s == Unref(o, n)
         IN  Stays(o, s) \/ (Fresh(s) /\ s.ref = 0 /\ ~s.app)
<1>1. Fresh(FreeSet) /\ FreeSet.ref = 0 /\ ~FreeSet.app
  BY DEF Fresh, FreeSet, NoRecord
<1> DEFINE d == [o EXCEPT !.ref = @ - n]
<1>2. /\ d.name = o.name /\ d.q = o.q /\ d.live = o.live /\ d.sort = o.sort /\ d.cache = o.cache
      /\ d.crossed = o.crossed
  BY DEF Sets
<1>3. Unref(o, n) = FreeSet \/ Unref(o, n) = d
  BY DEF Unref
<1> HIDE DEF d
<1>4. Stays(o, d)
  BY <1>2 DEF Stays
<1> QED BY <1>1, <1>3, <1>4

\* No task waits to sort a set that none is for, as none is that nothing refers to.
LEMMA UnnamedWaits ==
  ASSUME NEW w \in Worlds, NEW r \in ResultSet, Naming(w.conn.tasks, r) = 0
  PROVE  r \notin ToSort(w.conn.tasks)
<1>1. w.conn.tasks \in Seq(Tasks)
  BY DEF Worlds, Conns
<1>2. \A i \in DOMAIN w.conn.tasks : w.conn.tasks[i].rs # r
  BY <1>1, PlacesFinite
<1> QED BY <1>2 DEF ToSort

LEMMA UnnamedToSort ==
  ASSUME NEW w, Good(w), NEW r \in ResultSet, w.sets[r].ref = 0, ~w.sets[r].app
  PROVE  r \notin ToSort(w.conn.tasks)
<1>1. w \in Worlds /\ w.sets[r].ref = Once(w.sets[r].app) + Naming(w.conn.tasks, r)
  BY GoodType DEF Good, RefsOK
<1>2. Naming(w.conn.tasks, r) \in Nat
  BY <1>1, PlacesFinite DEF Worlds, Conns
<1>3. Naming(w.conn.tasks, r) = 0
  BY <1>1, <1>2 DEF Once
<1> QED BY <1>1, <1>3, UnnamedWaits

\* Tasks are removed when nothing is under way.
LEMMA HoldingSound ==
  ASSUME NEW w \in Worlds, Sound(w), w.conn.out = NoRequest, w.net.wire = <<>>, NEW new, NEW hold,
         Follows(w.conn.tasks, new),
         \A r \in ResultSet : Stays(w.sets[r], hold[r]) \/ (Fresh(hold[r]) /\ r \notin ToSort(new))
  PROVE  Sound(Holding(w, new, hold)) /\ Sound(PutEvent(Holding(w, new, hold), "end"))
<1> DEFINE v == Holding(w, new, hold)
           u == PutEvent(v, "end")
<1>1. v.sets = hold /\ v.net = w.net /\ v.conn.out = w.conn.out /\ v.conn.tasks = new
  BY DEF Holding, Worlds, Conns
<1>2. u.sets = v.sets /\ u.net = v.net /\ u.conn.out = v.conn.out /\ u.conn.tasks = v.conn.tasks
  BY DEF PutEvent, Holding, Worlds, Conns
<1> HIDE DEF v, u
<1>3. Sound(v)
  BY <1>1, QuietSound
<1>4. Sound(u)
  BY <1>2, <1>3, StillSound
<1> QED BY <1>3, <1>4 DEF v, u

LEMMA DropSound ==
  ASSUME NEW w, Good(w), Sound(w), w.conn.out = NoRequest, w.net.wire = <<>>
  PROVE  Sound(RemoveTask(w))
<1>0. w \in Worlds
  BY GoodType
<1>1. CASE w.conn.tasks = <<>>
  BY <1>1 DEF RemoveTask
<1>2. CASE w.conn.tasks # <<>>
  <2> DEFINE t == Head(w.conn.tasks)
             rest == Tail(w.conn.tasks)
             hold == [r \in ResultSet |-> Unref(w.sets[r], IF r = t.rs THEN 1 ELSE 0)]
             v == Holding(w, rest, hold)
  <2>1. RemoveTask(w) = IF rest = <<>> THEN PutEvent(v, "end") ELSE v
    BY <1>2 DEF RemoveTask, Holding
  <2>2. Good(RemoveTask(w))
    BY <1>2, RemoveTaskLeads DEF Leads
  <2>3. RemoveTask(w).sets = hold /\ RemoveTask(w).conn.tasks = rest
    BY <1>0, <2>1 DEF PutEvent, Holding, Worlds, Conns
  <2>4. ASSUME NEW r \in ResultSet PROVE Stays(w.sets[r], hold[r]) \/ (Fresh(hold[r]) /\ r \notin ToSort(rest))
    <3> DEFINE n == IF r = t.rs THEN 1 ELSE 0
    <3>1. hold[r] = Unref(w.sets[r], n) /\ w.sets[r] \in Sets
      BY <1>0 DEF Worlds
    <3> HIDE DEF n, hold, rest
    <3> QED BY <2>2, <2>3, <3>1, UnrefStays, UnnamedToSort
  <2>5. Follows(w.conn.tasks, rest)
    BY <1>0, <1>2, FollowsTail DEF Worlds, Conns
  <2> HIDE DEF rest, hold
  <2>6. Sound(v) /\ Sound(PutEvent(v, "end"))
    BY <1>0, <2>4, <2>5, HoldingSound
  <2> QED BY <2>1, <2>6
<1> QED BY <1>1, <1>2

LEMMA RemoveTaskSound ==
  ASSUME NEW w, Good(w), Sound(w), AtRest(w)
  PROVE  Sound(RemoveTask(w))
BY DropSound DEF AtRest

LEMMA RemoveTasksSound ==
  ASSUME NEW w \in Worlds, Sound(w), AtRest(w)
  PROVE  Sound(RemoveTasks(w))
<1>1. CASE w.conn.tasks = <<>>
  BY <1>1 DEF RemoveTasks
<1>2. CASE w.conn.tasks # <<>>
  <2> DEFINE hold == [r \in ResultSet |-> Unref(w.sets[r], Naming(w.conn.tasks, r))]
             v == Holding(w, <<>>, hold)
  <2>1. RemoveTasks(w) = PutEvent(v, "end")
    BY <1>2 DEF RemoveTasks, Holding
  <2>2. \A r \in ResultSet : r \notin ToSort(<<>>)
    <3>1. \A y : DOMAIN y = {} => ToSort(y) = {}
      BY DEF ToSort
    <3>2. DOMAIN <<>> = {}
      OBVIOUS
    <3> QED BY <3>1, <3>2
  <2>3. ASSUME NEW r \in ResultSet PROVE Stays(w.sets[r], hold[r]) \/ (Fresh(hold[r]) /\ r \notin ToSort(<<>>))
    <3> DEFINE n == Naming(w.conn.tasks, r)
    <3>1. hold[r] = Unref(w.sets[r], n) /\ w.sets[r] \in Sets
      BY DEF Worlds
    <3> HIDE DEF n, hold
    <3> QED BY <2>2, <3>1, UnrefStays
  <2> HIDE DEF hold
  <2>4. Sound(PutEvent(v, "end"))
    BY <2>3, FollowsEmpty, HoldingSound DEF AtRest
  <2> QED BY <2>1, <2>4
<1> QED BY <1>1, <1>2

-----------------------------------------------------------------------------
(* Requests that are sent.                                                 *)

LEMMA SendBufSound ==
  ASSUME NEW w, Good(w), Sound(w), NEW ch \in Choices
  PROVE  Sound(SendBuf(w, ch))
<1> DEFINE u == PutEvent(w, "send_data")
           z == SendBuf(w, ch)
<1>1. w \in Worlds
  BY GoodType
<1>2. Keeps(w, u) /\ Sound(u)
  BY <1>1, EventKeeps, SmallSound DEF EventKinds
<1>3. Good(u) /\ u \in Worlds
  BY <1>2, AlikeLeads, LeadsType DEF Keeps
<1>4. u.conn.out = w.conn.out
  BY <1>2 DEF Keeps, Firm, OnLine
<1>5. \/ z = Returns(Reconnect(u), "pending")
      \/ \E e \in Errors \ {"none"} : z = Returns(Close(SetError(u, e)), "complete")
      \/ z = Returns(SetMask(u, {"write", "except"}), "pending")
      \/ z = Returns([SetMask(u, {"read", "except"}) EXCEPT !.net.wire = Append(@, w.conn.out),
                                                            !.conn.out = NoRequest], "pending")
  <2> HIDE DEF u
  <2>1. "connect" \in Errors \ {"none"} /\ "lost" \in Errors \ {"none"}
    BY DEF Errors
  <2>2. SendBuf(w, ch) =
          CASE ch.write = "fail" \/ w.conn.cs = "failed" ->
                 IF w.conn.reconnect THEN Returns(Reconnect(u), "pending")
                 ELSE Returns(Close(SetError(u,
                        IF w.conn.state = "connecting" THEN "connect" ELSE "lost")), "complete")
            [] ch.write = "partial" /\ w.conn.cs # "failed" ->
                 Returns(SetMask(u, {"write", "except"}), "pending")
            [] ch.write = "done" /\ w.conn.cs # "failed" ->
                 Returns([SetMask(u, {"read", "except"}) EXCEPT !.net.wire = Append(@, w.conn.out),
                                                                !.conn.out = NoRequest], "pending")
    BY DEF SendBuf, u
  <2>3. ch.write \in {"fail", "partial", "done"}
    BY DEF Choices
  <2>4. CASE ch.write = "fail" \/ w.conn.cs = "failed"
    <3>1. CASE w.conn.reconnect
      BY <2>2, <2>3, <2>4, <3>1
    <3>2. CASE ~w.conn.reconnect
      BY <2>1, <2>2, <2>3, <2>4, <3>2
    <3> QED BY <3>1, <3>2
  <2>5. CASE ~(ch.write = "fail" \/ w.conn.cs = "failed")
    BY <2>2, <2>3, <2>5
  <2> QED BY <2>4, <2>5
<1> HIDE DEF u, z
<1>6. CASE z = Returns(Reconnect(u), "pending")
  <2>1. Sound(Reconnect(u)) /\ Reconnect(u) \in Worlds
    BY <1>2, <1>3, ReconnectSound
  <2> QED BY <1>6, <2>1, SmallSound DEF z
<1>7. ASSUME NEW e \in Errors \ {"none"}, z = Returns(Close(SetError(u, e)), "complete")
      PROVE  Sound(z)
  BY <1>2, <1>3, <1>7, CloseErrorSound, SmallSound
<1>8. CASE z = Returns(SetMask(u, {"write", "except"}), "pending")
  <2>1. Sound(SetMask(u, {"write", "except"})) /\ SetMask(u, {"write", "except"}) \in Worlds
    BY <1>2, <1>3, SmallSound, MaskAlike, AlikeType
  <2> QED BY <1>8, <2>1, SmallSound DEF z
<1>9. CASE z = Returns([SetMask(u, {"read", "except"}) EXCEPT !.net.wire = Append(@, w.conn.out),
                                                            !.conn.out = NoRequest], "pending")
  <2> DEFINE x == SetMask(u, {"read", "except"})
             wire == Append(x.net.wire, w.conn.out)
             v == [x EXCEPT !.net.wire = wire, !.conn.out = NoRequest]
  <2>1. Sound(x) /\ x \in Worlds /\ x.conn.out = w.conn.out
    <3>1. Sound(x) /\ x \in Worlds
      BY <1>2, <1>3, SmallSound, MaskAlike, AlikeType
    <3>2. x.conn.out = u.conn.out
      BY <1>3 DEF SetMask, Worlds, Conns
    <3> QED BY <1>4, <3>1, <3>2
  <2>2. z = Returns(v, "pending")
    BY <1>9
  <2> HIDE DEF x
  <2>3. x.net.wire \in Seq(Requests) /\ w.conn.out \in Requests
    BY <1>1, <2>1 DEF Worlds, Nets, Conns
  <2>4. \A i \in DOMAIN wire : wire[i] = w.conn.out \/ (i \in DOMAIN x.net.wire /\ wire[i] = x.net.wire[i])
    BY <2>3
  <2> HIDE DEF wire
  <2>5. /\ v.sets = x.sets /\ v.conn.out = NoRequest /\ v.net.wire = wire /\ v.net.sets = x.net.sets
        /\ v.net.proto = x.net.proto /\ v.conn.tasks = x.conn.tasks
    BY <2>1 DEF Worlds, Conns, Nets
  <2>6. v.sets = x.sets /\ v.net = [x.net EXCEPT !.wire = wire]
    BY <2>1 DEF Worlds, Conns, Nets
  <2> HIDE DEF v
  <2>7. \A req \in Pending(v) : req \in Pending(x) \/ req = NoRequest
    BY <2>1, <2>4, <2>5 DEF Pending
  <2>8. Calm(x, v)
    BY <2>5, <2>7, StaysSelf, FollowsSelf DEF Calm
  <2>9. Sound(v)
    BY <2>1, <2>8, CalmSound
  <2>10. z.sets = v.sets /\ z.net = v.net /\ z.conn = v.conn
    <3>1. v.conn = [x.conn EXCEPT !.out = NoRequest] /\ v = [x EXCEPT !.net = v.net, !.conn = v.conn]
      BY <2>1 DEF v, Worlds
    <3>2. z = [v EXCEPT !.ret = "pending"]
      BY <2>2 DEF Returns
    <3> QED BY <2>1, <3>1, <3>2 DEF Worlds
  <2>11. Sound(z)
    BY <2>9, <2>10, StillSound
  <2> QED BY <2>11 DEF z
<1> QED BY <1>5, <1>6, <1>7, <1>8, <1>9 DEF z

LEMMA OwnSame ==
  ASSUME NEW w, NEW v, Own(w), v.sets = w.sets, v.net = w.net
  PROVE  Own(v)
<1>1. \A r \in ResultSet : v.sets[r].name # Default => \A p \in Position : v.sets[r].cache[p].q \in {-1, 0, v.sets[r].q}
  BY DEF Own
<1>2. \A r, o \in ResultSet : r # o /\ v.sets[r].name = v.sets[o].name => v.sets[r].name \in {Unset, Default}
  BY DEF Own
<1>3. ASSUME NEW r \in ResultSet, v.net.proto = "z3950", v.sets[r].live, v.sets[r].name \in Name \ {Default}
      PROVE  v.net.sets[v.sets[r].name].q \in {-1, v.sets[r].q}
  BY <1>3 DEF Own
<1> QED BY <1>1, <1>2, <1>3 DEF Own

LEMMA EvenSame ==
  ASSUME NEW w, NEW v, Even(w), v.sets = w.sets, v.net = w.net
  PROVE  Even(v)
<1>1. \A r \in ResultSet : /\ (~v.sets[r].live => Bare(v.sets[r]))
                             /\ (v.net.proto = "http" => Ordered(v.sets[r], FALSE))
                             /\ (v.sets[r].name # Default => \E b \in BOOLEAN : Ordered(v.sets[r], b))
  BY DEF Even
<1>2. ASSUME NEW r \in ResultSet, v.net.proto = "z3950", v.sets[r].live, v.sets[r].name \in Name \ {Default}
      PROVE  v.net.sets[v.sets[r].name].q = -1 \/ Ordered(v.sets[r], v.net.sets[v.sets[r].name].sorted)
  BY <1>2 DEF Even
<1> QED BY <1>1, <1>2, Zenon DEF Even

LEMMA SendSound ==
  ASSUME NEW w, Good(w), Sound(w), NEW req \in Requests, Aimed(w, req), NEW ch \in Choices
  PROVE  Sound(Send(w, req, ch))
<1> DEFINE u == [w EXCEPT !.conn.out = req]
           v == PutEvent(u, "send_apdu")
<1>1. w \in Worlds
  BY GoodType
<1>2. Alike(w, u) /\ u \in Worlds
  BY <1>1, Fields, AlikeType
<1>3. u.sets = w.sets /\ u.net = w.net /\ u.conn.out = req /\ u.conn.tasks = w.conn.tasks
  BY <1>1 DEF Worlds, Conns
<1>4. Send(w, req, ch) = SendBuf(v, ch)
  BY DEF Send
<1> HIDE DEF u
<1>5. Sound(u)
  <2>1. Own(u) /\ Even(u) /\ Lined(u)
    <3>1. Own(w) /\ Even(w) /\ Lined(w)
      BY DEF Sound
    <3>2. Lined(u)
      BY <1>3, <3>1 DEF Lined
    <3> QED BY <1>3, <3>1, <3>2, OwnSame, EvenSame
  <2>2. \A x \in Pending(u) : x \in Pending(w) \/ x = req
    BY <1>3 DEF Pending
  <2>3. \A x : Aimed(w, x) => Aimed(u, x)
    BY <1>3 DEF Aimed
  <2> QED BY <2>1, <2>2, <2>3 DEF Sound
<1>6. Alike(u, v) /\ Sound(v)
  BY <1>2, <1>5, EventAlike, SmallSound DEF EventKinds
<1> HIDE DEF v
<1>7. Good(v)
  BY <1>2, <1>6, AlikeLeads, LeadsAlike, LeadsType
<1>8. Sound(SendBuf(v, ch))
  BY <1>6, <1>7, SendBufSound
<1> QED BY <1>4, <1>8

\* A request for no set.
LEMMA SetlessAimed ==
  ASSUME NEW w, NEW kind, NEW q, NEW name, NEW start, NEW num
  PROVE  /\ Request(kind, NoSet, q, name, start, num).rs = NoSet
         /\ Aimed(w, Request(kind, NoSet, q, name, start, num))
BY ZoomAssumption DEF Aimed, Uses, Request

LEMMA SendInitSound ==
  ASSUME NEW w, Good(w), Sound(w), NEW ch \in Choices
  PROVE  Sound(SendInit(w, ch))
<1> DEFINE req == Request("init", NoSet, 0, Unset, 0, 0)
<1>1. req \in Requests
  BY DEF Request, Requests
<1>2. Aimed(w, req)
  BY SetlessAimed
<1> HIDE DEF req
<1>3. Sound(Send(w, req, ch))
  BY <1>1, <1>2, SendSound
<1> QED BY <1>3 DEF SendInit, req

\* One set changes.
Apart(w, v, r) == v.net = w.net /\ \A o \in ResultSet : o # r => v.sets[o] = w.sets[o]
EvenSet(w, s) ==
  /\ ~s.live => Bare(s)
  /\ w.net.proto = "http" => Ordered(s, FALSE)
  /\ s.name # Default => \E b \in BOOLEAN : Ordered(s, b)
  /\ w.net.proto = "z3950" /\ s.live /\ s.name \in Name \ {Default} =>
       w.net.sets[s.name].q = -1 \/ Ordered(s, w.net.sets[s.name].sorted)

LEMMA OneEven ==
  ASSUME NEW w, NEW v, NEW r \in ResultSet, Even(w), Apart(w, v, r), EvenSet(w, v.sets[r])
  PROVE  Even(v)
<1>1. ASSUME NEW o \in ResultSet PROVE EvenSet(w, v.sets[o])
  <2>1. CASE o # r
    <3>1. v.sets[o] = w.sets[o]
      BY <2>1 DEF Apart
    <3>2. EvenSet(w, w.sets[o])
      BY Zenon DEF Even, EvenSet
    <3> QED BY <3>1, <3>2
  <2> QED BY <2>1
<1>2. v.net = w.net
  BY DEF Apart
<1> QED BY <1>1, <1>2, Zenon DEF Even, EvenSet

LEMMA SetEven ==
  ASSUME NEW w, Even(w), NEW r \in ResultSet
  PROVE  EvenSet(w, w.sets[r])
BY Zenon DEF Even, EvenSet

LEMMA OneLined ==
  ASSUME NEW w, NEW v, NEW r \in ResultSet, Lined(w), Apart(w, v, r), Follows(w.conn.tasks, v.conn.tasks),
         r \in ToSort(w.conn.tasks) => Bare(v.sets[r]), v.sets[r].crossed = w.sets[r].crossed
  PROVE  Lined(v)
<1>1. Crossed(v.conn.tasks) \subseteq Crossed(w.conn.tasks) /\ ToSort(v.conn.tasks) \subseteq ToSort(w.conn.tasks)
  BY DEF Follows
<1>4. ASSUME NEW o \in Crossed(v.conn.tasks) PROVE v.sets[o].crossed
  <2>1. o \in ResultSet /\ w.sets[o].crossed
    BY <1>1, <1>4 DEF Lined, Crossed
  <2> QED BY <2>1 DEF Apart
<1>2. ASSUME NEW o \in ToSort(v.conn.tasks) PROVE Bare(v.sets[o])
  <2>1. o \in ResultSet /\ o \in ToSort(w.conn.tasks)
    BY <1>1, <1>2 DEF ToSort
  <2> QED BY <2>1 DEF Lined, Apart
<1>3. ASSUME v.net.proto = "http" PROVE ToSort(v.conn.tasks) = {}
  <2>1. ToSort(w.conn.tasks) = {}
    BY <1>3 DEF Apart, Lined
  <2> QED BY <1>1, <2>1
<1> QED BY <1>2, <1>3, <1>4 DEF Lined

OwnSet(w, s) ==
  /\ s.name # Default => \A p \in Position : s.cache[p].q \in {-1, 0, s.q}
  /\ w.net.proto = "z3950" /\ s.live /\ s.name \in Name \ {Default} => w.net.sets[s.name].q \in {-1, s.q}

LEMMA SetOwn ==
  ASSUME NEW w, Own(w), NEW r \in ResultSet
  PROVE  OwnSet(w, w.sets[r])
BY Zenon DEF Own, OwnSet

LEMMA OneOwn ==
  ASSUME NEW w, NEW v, NEW r \in ResultSet, Own(w), Apart(w, v, r), v.sets[r].name = w.sets[r].name,
         OwnSet(w, v.sets[r])
  PROVE  Own(v)
<1>1. ASSUME NEW o \in ResultSet PROVE OwnSet(w, v.sets[o]) /\ v.sets[o].name = w.sets[o].name
  <2>1. CASE o # r
    <3>1. v.sets[o] = w.sets[o]
      BY <2>1 DEF Apart
    <3>2. OwnSet(w, w.sets[o])
      BY SetOwn
    <3> QED BY <3>1, <3>2
  <2> QED BY <2>1
<1>2. v.net = w.net
  BY DEF Apart
<1>3. ASSUME NEW a \in ResultSet, NEW o \in ResultSet, a # o, v.sets[a].name = v.sets[o].name
      PROVE  v.sets[a].name \in {Unset, Default}
  <2>1. w.sets[a].name = w.sets[o].name => w.sets[a].name \in {Unset, Default}
    BY <1>3 DEF Own
  <2> QED BY <1>1, <1>3, <2>1
<1>4. \A o \in ResultSet : v.sets[o].name # Default =>
        \A p \in Position : v.sets[o].cache[p].q \in {-1, 0, v.sets[o].q}
  BY <1>1 DEF OwnSet
<1>5. ASSUME NEW o \in ResultSet, v.net.proto = "z3950", v.sets[o].live, v.sets[o].name \in Name \ {Default}
      PROVE  v.net.sets[v.sets[o].name].q \in {-1, v.sets[o].q}
  <2>1. OwnSet(w, v.sets[o])
    BY <1>1
  <2> QED BY <1>2, <1>5, <2>1 DEF OwnSet
<1> QED BY <1>3, <1>4, <1>5 DEF Own

\* One set changes but for its name, while nothing is under way.
LEMMA OneSound ==
  ASSUME NEW w, NEW v, NEW r \in ResultSet, Sound(w), Apart(w, v, r), v.sets[r].name = w.sets[r].name,
         AtRest(w), v.conn.out = w.conn.out, Follows(w.conn.tasks, v.conn.tasks),
         OwnSet(w, v.sets[r]), EvenSet(w, v.sets[r]), r \in ToSort(w.conn.tasks) => Bare(v.sets[r]),
         v.sets[r].crossed = w.sets[r].crossed
  PROVE  Sound(v)
<1>1. Own(w) /\ Even(w) /\ Lined(w)
  BY DEF Sound
<1>2. Own(v) /\ Even(v) /\ Lined(v)
  BY <1>1, OneOwn, OneEven, OneLined
<1>3. \A req \in Pending(v) : req = NoRequest
  BY DEF Pending, AtRest, Apart
<1> QED BY <1>2, <1>3, NobodysRequest DEF Sound, Aimed

\* A set gets its name: one of its own, or the default name.
LEMMA NameSound ==
  ASSUME NEW w \in Worlds, Sound(w), AtRest(w), NEW r \in ResultSet, w.sets[r].name = Unset, ~w.sets[r].live,
         NEW name \in Name, name = Default \/ \A o \in ResultSet : w.sets[o].name # name
  PROVE  Sound([w EXCEPT !.sets[r].name = name])
<1> DEFINE s == [w.sets[r] EXCEPT !.name = name]
           v == [w EXCEPT !.sets[r] = s]
<1>1. w.sets[r] \in Sets
  BY DEF Worlds
<1>2. s.name = name /\ s.q = w.sets[r].q /\ ~s.live /\ s.cache = w.sets[r].cache /\ s.crossed = w.sets[r].crossed
  BY <1>1 DEF Sets
<1> HIDE DEF s
<1>3. v.net = w.net /\ v.conn = w.conn /\ v.sets[r] = s /\ \A o \in ResultSet : o # r => v.sets[o] = w.sets[o]
  BY DEF Worlds
<1> HIDE DEF v
<1>4. \A o \in ResultSet : v.sets[o].name # Default =>
        \A p \in Position : v.sets[o].cache[p].q \in {-1, 0, v.sets[o].q}
  <2>1. w.sets[r].name # Default
    BY DEF Default, Unset
  <2> QED BY <1>2, <1>3, <2>1 DEF Sound, Own
<1>5. ASSUME NEW a \in ResultSet, NEW o \in ResultSet, a # o, v.sets[a].name = v.sets[o].name
      PROVE  v.sets[a].name \in {Unset, Default}
  <2>1. CASE a = r \/ o = r
    BY <1>2, <1>3, <1>5, <2>1
  <2>2. CASE a # r /\ o # r
    <3>1. w.sets[a].name = v.sets[a].name /\ w.sets[o].name = v.sets[o].name
      BY <1>3, <2>2
    <3>2. w.sets[a].name = w.sets[o].name => w.sets[a].name \in {Unset, Default}
      BY <1>5 DEF Sound, Own
    <3> QED BY <1>5, <3>1, <3>2
  <2> QED BY <2>1, <2>2
<1>6. ASSUME NEW o \in ResultSet, v.net.proto = "z3950", v.sets[o].live, v.sets[o].name \in Name \ {Default}
      PROVE  v.net.sets[v.sets[o].name].q \in {-1, v.sets[o].q}
  <2>1. v.sets[o] = w.sets[o]
    BY <1>2, <1>3, <1>6
  <2> QED BY <1>3, <1>6, <2>1 DEF Sound, Own
<1>7. Own(v)
  BY <1>4, <1>5, <1>6 DEF Own
<1>8. \A req \in Pending(v) : req = NoRequest
  BY <1>3 DEF Pending, AtRest
<1>9. Even(v) /\ Lined(v)
  <2>1. Apart(w, v, r) /\ Even(w) /\ Lined(w)
    BY <1>3 DEF Apart, Sound
  <2>2. Bare(w.sets[r])
    BY <2>1 DEF Even
  <2>3. Bare(s)
    BY <1>2, <2>2 DEF Bare
  <2>4. EvenSet(w, s)
    BY <1>2, <2>3, BareOrdered DEF EvenSet
  <2>5. Follows(w.conn.tasks, v.conn.tasks)
    BY <1>3, FollowsSelf
  <2>6. v.sets[r].crossed = w.sets[r].crossed
    BY <1>2, <1>3
  <2> QED BY <1>3, <2>1, <2>3, <2>4, <2>5, <2>6, OneEven, OneLined
<1>10. Sound(v)
  BY <1>7, <1>8, <1>9, NobodysRequest DEF Sound, Aimed
<1> QED BY <1>10 DEF v, s

LEMMA SendSearchSound ==
  ASSUME NEW w, Serving(w), Sound(w), w.conn.error = "none", NEW ch \in Choices, Head(w.conn.tasks).which = "search",
         ~w.sets[Head(w.conn.tasks).rs].live
  PROVE  Sound(SendSearch(w, ch))
<1> DEFINE t == Head(w.conn.tasks)
           r == t.rs
           s == w.sets[r]
           name == IF s.name # Unset THEN s.name ELSE IF w.conn.named THEN FreeName(w) ELSE Default
           req == Request("search", r, s.q, name, 0, Piggyback(s, t))
           d == [s EXCEPT !.name = name]
           v == [w EXCEPT !.sets[r] = d]
<1>1. w \in Worlds /\ w.conn.tasks # <<>> /\ AtRest(w)
  BY GoodType DEF Serving, Over, Base
<1>2. t \in Tasks /\ r \in ResultSet /\ s \in Sets
  BY <1>1, HeadType
<1>3. name \in Name /\ name # Unset
      /\ (s.name = Unset => name = Default \/ \A o \in ResultSet : w.sets[o].name # name)
  <2>1. CASE s.name # Unset
    BY <1>2, <2>1 DEF Sets
  <2>2. CASE s.name = Unset /\ w.conn.named
    <3>1. FreeName(w) \in 1 .. Cardinality(ResultSet) /\ \A o \in ResultSet : w.sets[o].name # FreeName(w)
      <4> HIDE DEF t
      <4> QED BY <1>1, <1>2, <2>2, FreeNameType
    <3>2. name = FreeName(w)
      BY <2>2
    <3> HIDE DEF name, s
    <3> QED BY <3>1, <3>2, NameCount DEF Name, Unset
  <2>3. CASE s.name = Unset /\ ~w.conn.named
    BY <2>3, NameCount DEF Default, Unset
  <2> QED BY <2>1, <2>2, <2>3
<1>4. Piggyback(s, t) \in Int /\ (s.sort => Piggyback(s, t) = 0) /\ ~s.live
  <2>1. ~s.live
    OBVIOUS
  <2> HIDE DEF s, t
  <2> QED BY <1>2, <2>1, ZoomAssumption DEF Piggyback, Tasks
<1>5. s.live => s.name # Unset
  <2> HIDE DEF t, r
  <2> QED BY <1>2 DEF Serving, Over, Base, Queue
<1>6. CASE ~ch.fit
  <2>1. SendSearch(w, ch) = Returns(SetError(w, "query"), "complete")
    BY <1>6 DEF SendSearch
  <2>2. Sound(SetError(w, "query")) /\ SetError(w, "query") \in Worlds
    BY <1>1, SmallSound, ErrorAlike, AlikeType DEF Errors
  <2> QED BY <2>1, <2>2, SmallSound
<1>7. CASE ch.fit
  <2>1. SendSearch(w, ch) = Send([w EXCEPT !.sets[t.rs].name = name], req, ch)
    BY <1>7 DEF SendSearch
  <2> HIDE DEF name, r
  <2>2. req \in Requests /\ req.kind = "search" /\ req.rs = r /\ req.name = name /\ req.num = Piggyback(s, t)
    <3> HIDE DEF t
    <3> QED BY <1>2, <1>3, <1>4, Zenon DEF Request, Requests, Sets
  <2>3. d \in Sets /\ d.ref = s.ref /\ d.app = s.app /\ d.q = s.q /\ d.live = s.live /\ d.name = name
        /\ d.cache = s.cache /\ d.sort = s.sort /\ d.crossed = s.crossed
    BY <1>2, <1>3 DEF Sets
  <2>4. v = [w EXCEPT !.sets[t.rs].name = name]
    BY <1>1, <1>2 DEF r
  <2>5. v.sets[r] = d /\ v.net = w.net /\ v.conn = w.conn /\ \A o \in ResultSet : o # r => v.sets[o] = w.sets[o]
    BY <1>1, <1>2 DEF Worlds
  <2>6. v = [w EXCEPT !.sets[r].name = name]
    BY <2>4 DEF r
  <2> HIDE DEF d, req, s, t
  <2>7. Keeps(w, v)
    BY <1>1, <1>2, <1>3, <2>3, SetKeeps DEF s
  <2>8. Sound(v)
    <3>1. CASE s.name = Unset
      <4>1. Sound([w EXCEPT !.sets[r].name = name])
        BY <1>1, <1>2, <1>3, <1>5, <3>1, NameSound DEF s
      <4> QED BY <2>6, <4>1
    <3>2. CASE s.name # Unset
      <4>1. name = s.name
        BY <3>2 DEF name
      <4>2. Stays(s, d)
        BY <2>3, <4>1 DEF Stays
      <4>3. \A o \in ResultSet : Stays(w.sets[o], v.sets[o])
        BY <2>5, <4>2, StaysSelf, Zenon DEF s
      <4> QED BY <2>5, <4>3, FollowsSelf, SetsSound
    <3> QED BY <3>1, <3>2
  <2> HIDE DEF v
  <2>9. Serving(v)
    BY <2>7, KeepsOver
  <2>10. Good(v)
    BY <2>9 DEF Serving, Over, Base
  <2>11. Aimed(v, req)
    <3>1. Aims(req, v.sets[r])
      BY <1>4, <2>2, <2>3, <2>5 DEF Aims
    <3> QED BY <2>2, <3>1 DEF Aimed, Uses
  <2>12. Sound(Send(v, req, ch))
    BY <2>2, <2>8, <2>10, <2>11, SendSound
  <2> QED BY <2>1, <2>4, <2>12
<1> QED BY <1>6, <1>7

LEMMA SendPresentSound ==
  ASSUME NEW w, Serving(w), Sound(w), NEW ch \in Choices, Head(w.conn.tasks).which = "search",
         w.sets[Head(w.conn.tasks).rs].live
  PROVE  Sound(SendPresent(w, ch))
<1> DEFINE t == Head(w.conn.tasks)
           s == w.sets[t.rs]
           chunk == IF Step > 0 /\ Step < t.count THEN Step ELSE t.count
           num == Smaller(chunk, s.size - t.start)
           req == Request("present", t.rs, s.q, s.name, t.start, num)
<1>1. w \in Worlds /\ w.conn.tasks # <<>> /\ Good(w)
  BY GoodType DEF Serving, Over, Base
<1>2. t \in Tasks /\ t.rs \in ResultSet /\ s \in Sets /\ s.live
  BY <1>1, HeadType
<1>3. num \in Int
  <2> HIDE DEF t, s
  <2> QED BY <1>2, ZoomAssumption DEF Smaller, Tasks, Sets
<1>4. SendPresent(w, ch) = IF num <= 0 THEN Abort(w) ELSE Send(w, req, ch)
  BY DEF SendPresent
<1> HIDE DEF num, t
<1>5. req \in Requests /\ req.rs = t.rs /\ req.name = s.name /\ req.kind = "present"
  BY <1>2, <1>3 DEF Request, Requests, Tasks, Sets
<1> HIDE DEF req
<1>6. Aimed(w, req)
  <2>1. Aims(req, s)
    BY <1>2, <1>5 DEF Aims
  <2> QED BY <1>5, <2>1 DEF Aimed, Uses
<1>7. Sound(Send(w, req, ch)) /\ Sound(Abort(w))
  BY <1>1, <1>5, <1>6, SendSound, SmallSound
<1> QED BY <1>4, <1>7

LEMMA SendSortSound ==
  ASSUME NEW w, Serving(w), Sound(w), NEW ch \in Choices, NEW r \in ResultSet, w.sets[r].sort => Bare(w.sets[r])
  PROVE  Sound(SendSort(w, r, ch))
<1> DEFINE s == w.sets[r]
           d == [s EXCEPT !.sort = FALSE]
           w1 == [w EXCEPT !.sets[r] = d]
           req == Request("sort", r, s.q, s.name, 0, 0)
<1>1. w \in Worlds /\ w.conn.tasks # <<>>
  BY GoodType DEF Serving, Over, Base
<1>2. s \in Sets
  BY <1>1 DEF Worlds
<1>3. d \in Sets /\ d.ref = s.ref /\ d.app = s.app /\ d.q = s.q /\ d.live = s.live /\ d.name = s.name /\ d.cache = s.cache
      /\ ~d.sort /\ d.crossed = s.crossed
  BY <1>2 DEF Sets
<1>4. w1 = [w EXCEPT !.sets[r].sort = FALSE] /\ w1.sets[r] = d /\ w1.net = w.net /\ w1.conn = w.conn
      /\ \A o \in ResultSet : o # r => w1.sets[o] = w.sets[o]
  BY <1>1 DEF Worlds
<1> HIDE DEF d
<1>5. Keeps(w, w1)
  <2>1. s.live => s.name # Unset
    BY DEF Serving, Over, Base, Queue
  <2> QED BY <1>1, <1>3, <2>1, SetKeeps
<1>6. req \in Requests /\ req.rs = r /\ req.name = s.name /\ req.kind = "sort"
  BY <1>2 DEF Request, Requests, Sets
<1>7. \/ SendSort(w, r, ch) = Returns(w1, "complete")
      \/ SendSort(w, r, ch) = Returns(w, "complete")
      \/ SendSort(w, r, ch) = Abort(w)
      \/ SendSort(w, r, ch) = Send(w1, req, ch) /\ s.sort
  <2>0. s.sort \in BOOLEAN
    BY <1>2 DEF Sets
  <2>1. CASE w.conn.error # "none"
    BY <1>4, <2>1 DEF SendSort
  <2>2. CASE w.conn.error = "none" /\ ~s.sort
    BY <2>2 DEF SendSort
  <2>3. CASE w.conn.error = "none" /\ s.sort /\ s.name = Unset
    BY <2>3 DEF SendSort
  <2>4. CASE w.conn.error = "none" /\ s.sort /\ s.name # Unset
    BY <1>4, <2>4 DEF SendSort, req
  <2> QED BY <2>0, <2>1, <2>2, <2>3, <2>4
<1>8. Sound(w1)
  <2>1. Stays(s, d)
    BY <1>3 DEF Stays
  <2>2. \A o \in ResultSet : Stays(w.sets[o], w1.sets[o])
    BY <1>4, <2>1, StaysSelf, Zenon
  <2> QED BY <1>4, <2>2, FollowsSelf, SetsSound
<1>9. s.sort => Aimed(w1, req)
  <2>1. s.sort => Bare(d)
    BY <1>3 DEF Bare
  <2>2. s.sort => Aims(req, w1.sets[r])
    BY <1>3, <1>4, <1>6, <2>1 DEF Aims
  <2> HIDE DEF w1, req
  <2> QED BY <1>6, <2>2 DEF Aimed, Uses
<1> HIDE DEF w1, req, s
<1>10. Good(w1) /\ w1 \in Worlds
  BY <1>5, KeepsOver, GoodType DEF Serving, Over, Base
<1>11. /\ Sound(Returns(w1, "complete")) /\ Sound(Returns(w, "complete")) /\ Sound(Abort(w))
       /\ s.sort => Sound(Send(w1, req, ch))
  BY <1>1, <1>6, <1>8, <1>9, <1>10, SendSound, SmallSound
<1> QED BY <1>7, <1>11

\* The task at the head changes, and events are put.
LEMMA AdvanceSound ==
  ASSUME NEW w \in Worlds, Sound(w), w.conn.tasks # <<>>, Head(w.conn.tasks).which = "search"
  PROVE  Sound(Advance(w)) /\ Advance(w).sets = w.sets
<1> DEFINE t == Head(w.conn.tasks)
           s == w.sets[t.rs]
           n == Cached(s, t, Clip(s, t))
           all == w.conn.events \o Events("record", n)
           p == Passed(s, t)
           v == [w EXCEPT !.conn.tasks[1] = p, !.conn.events = all]
<1>1. Advance(w) = v
  BY DEF Advance, Passed
<1> HIDE DEF p, all
<1>2. v.sets = w.sets /\ v.net = w.net /\ v.conn.out = w.conn.out
  BY DEF Worlds, Conns
<1> HIDE DEF v
<1>3. Follows(w.conn.tasks, v.conn.tasks)
  BY <1>1, AdvanceKeeps, FollowsAlike DEF Keeps
<1>4. Sound(v)
  BY <1>2, <1>3, SameSound
<1> QED BY <1>1, <1>2, <1>4

LEMMA TasksSound ==
  ASSUME NEW w \in Worlds, Sound(w), NEW new, Follows(w.conn.tasks, new)
  PROVE  Sound([w EXCEPT !.conn.tasks = new])
<1> DEFINE v == [w EXCEPT !.conn.tasks = new]
<1>1. v.sets = w.sets /\ v.net = w.net /\ v.conn.out = w.conn.out /\ v.conn.tasks = new
  BY DEF Worlds, Conns
<1> HIDE DEF v
<1>2. Sound(v)
  BY <1>1, SameSound
<1> QED BY <1>2 DEF v

LEMMA StartSound ==
  ASSUME NEW w \in Worlds, Sound(w)
  PROVE  Sound([w EXCEPT !.conn.tasks[1].running = TRUE])
<1> DEFINE new == [w.conn.tasks EXCEPT ![1].running = TRUE]
           v == [w EXCEPT !.conn.tasks = new]
<1>1. Follows(w.conn.tasks, new)
  BY StoppedTasks DEF Worlds, Conns
<1>2. v = [w EXCEPT !.conn.tasks[1].running = TRUE]
  OBVIOUS
<1> HIDE DEF new
<1>3. Sound(v)
  BY <1>1, TasksSound
<1> QED BY <1>2, <1>3

LEMMA ClippedSound ==
  ASSUME NEW w \in Worlds, Sound(w), w.conn.tasks # <<>>, Head(w.conn.tasks).which = "search"
  PROVE  LET t == Head(w.conn.tasks)
         IN  Sound([w EXCEPT !.conn.tasks[1].count = Clip(w.sets[t.rs], t)])
<1> DEFINE t == Head(w.conn.tasks)
           n == Clip(w.sets[t.rs], t)
           new == [w.conn.tasks EXCEPT ![1].count = n]
           v == [w EXCEPT !.conn.tasks = new]
<1>1. v = [w EXCEPT !.conn.tasks[1].count = n]
  OBVIOUS
<1>2. Alike(w, v)
  BY <1>1, ClippedAlike
<1> HIDE DEF n, new
<1>3. v.conn.tasks = new
  BY DEF Worlds, Conns
<1> HIDE DEF v
<1>4. Follows(w.conn.tasks, new)
  BY <1>2, <1>3, FollowsAlike
<1>5. Sound([w EXCEPT !.conn.tasks = new])
  BY <1>4, TasksSound
<1> QED BY <1>1, <1>5 DEF v, n

LEMMA Z3950SearchSound ==
  ASSUME NEW w, Going(w), Sound(w), NEW ch \in Choices
  PROVE  Sound(Z3950Search(w, ch))
<1> DEFINE t == Head(w.conn.tasks)
           s == w.sets[t.rs]
           w1 == Advance(w)
<1>1. w \in Worlds /\ Over(w)
  BY GoodType DEF Going, Over, Base
<1>2. Sound(Returns(w, "complete"))
  BY <1>1, SmallSound
<1>3. CASE w.conn.tasks = <<>>
  BY <1>2, <1>3 DEF Z3950Search
<1>4. CASE w.conn.tasks # <<>> /\ t.which = "sort"
  BY <1>2, <1>4 DEF Z3950Search
<1>5. CASE w.conn.tasks # <<>> /\ t.which = "search" /\ w.conn.error # "none"
  <2> DEFINE v == [w EXCEPT !.conn.tasks[1].count = Clip(s, t)]
  <2>1. Sound(v) /\ v \in Worlds
    BY <1>1, <1>5, ClippedSound, ClippedAlike, AlikeType
  <2>2. Z3950Search(w, ch) = Returns(v, "complete")
    BY <1>5 DEF Z3950Search
  <2> HIDE DEF v
  <2> QED BY <2>1, <2>2, SmallSound
<1>6. CASE w.conn.tasks # <<>> /\ t.which = "search" /\ w.conn.error = "none"
  <2>1. Keeps(w, w1) /\ Sound(w1) /\ w1.sets = w.sets
    BY <1>1, <1>6, AdvanceKeeps, AdvanceSound
  <2>2. t \in Tasks /\ s \in Sets /\ s.live \in BOOLEAN
    BY <1>1, <1>6, HeadType DEF Sets
  <2>3. w1 \in Worlds /\ w1.conn.tasks # <<>> /\ Head(w1.conn.tasks) \in Tasks
        /\ Head(w1.conn.tasks).which = "search" /\ Head(w1.conn.tasks).rs = t.rs
    <3> HIDE DEF w1
    <3>1. w1 \in Worlds /\ w1.conn.tasks # <<>>
      BY <1>1, <1>6, <2>1, KeepsHead
    <3> QED BY <1>1, <1>6, <2>1, <3>1, KeepsHead, HeadType
  <2>4. w1.conn.error = "none" /\ Serving(w1)
    <3> HIDE DEF w1
    <3>1. w1.conn.error = w.conn.error
      BY <2>1 DEF Keeps, Firm, OnLine
    <3>2. Serving(w1)
      BY <1>6, <2>1, KeepsOver DEF Going
    <3> QED BY <1>6, <3>1, <3>2
  <2>5. \/ Z3950Search(w, ch) = Returns(w1, "complete")
        \/ Z3950Search(w, ch) = SendPresent(w1, ch) /\ s.live
        \/ Z3950Search(w, ch) = SendSearch(w1, ch) /\ ~s.live
    <3> DEFINE left == Head(w1.conn.tasks).count
    <3>1. left = 0 \/ left > 0
      <4>1. left \in Nat
        BY <2>3 DEF Tasks
      <4> QED BY <4>1
    <3>2. CASE left = 0 /\ s.live
      BY <1>6, <3>2 DEF Z3950Search
    <3>3. CASE left > 0 /\ s.live
      BY <1>6, <3>3 DEF Z3950Search
    <3>4. CASE ~s.live
      BY <1>6, <3>4 DEF Z3950Search
    <3> QED BY <2>2, <3>1, <3>2, <3>3, <3>4
  <2> HIDE DEF w1, t
  <2>6. Sound(Returns(w1, "complete")) /\ (~s.live => Sound(SendSearch(w1, ch)))
    <3>1. w1.sets[Head(w1.conn.tasks).rs] = s
      BY <2>1, <2>3
    <3> QED BY <2>1, <2>3, <2>4, <3>1, SmallSound, SendSearchSound
  <2>7. s.live => Sound(SendPresent(w1, ch))
    <3>1. w1.sets[Head(w1.conn.tasks).rs] = s
      BY <2>1, <2>3
    <3> QED BY <2>1, <2>3, <2>4, <3>1, SendPresentSound
  <2> QED BY <2>5, <2>6, <2>7
<1> QED BY <1>3, <1>4, <1>5, <1>6 DEF Going

LEMMA DefaultNameSound ==
  ASSUME NEW w, Over(w), Sound(w), NEW r \in ResultSet
  PROVE  Sound(DefaultName(w, r))
<1> DEFINE s == w.sets[r]
<1>1. w \in Worlds /\ AtRest(w) /\ (s.live => s.name # Unset) /\ s \in Sets
  BY GoodType DEF Over, Base, Queue, Worlds
<1>2. CASE s.name = Unset
  <2>1. DefaultName(w, r) = [w EXCEPT !.sets[r].name = Default]
    BY <1>2 DEF DefaultName
  <2>2. Sound([w EXCEPT !.sets[r].name = Default])
    BY <1>1, <1>2, NameCount, NameSound
  <2> QED BY <2>1, <2>2
<1>3. CASE s.name # Unset
  <2> DEFINE d == [s EXCEPT !.name = IF @ = Unset THEN Default ELSE @]
             v == [w EXCEPT !.sets[r] = d]
  <2>1. d = s
    BY <1>1, <1>3 DEF Sets
  <2>2. DefaultName(w, r) = v
    BY DEF DefaultName
  <2> HIDE DEF d
  <2>3. v.sets = w.sets /\ v.net = w.net /\ v.conn = w.conn
    BY <1>1, <2>1 DEF Worlds
  <2> HIDE DEF v
  <2>4. Sound(v)
    BY <2>3, StillSound
  <2> QED BY <2>2, <2>4
<1> QED BY <1>2, <1>3

LEMMA SrwSendSearchSound ==
  ASSUME NEW w, Serving(w), Sound(w), w.net.proto = "http", NEW ch \in Choices
  PROVE  Sound(SrwSendSearch(w, ch))
<1> DEFINE t == Head(w.conn.tasks)
           u == Advance(w)
           w1 == DefaultName(u, t.rs)
           t1 == Head(w1.conn.tasks)
           s == w.sets[t.rs]
           num == IF Step > 0 /\ Step < t1.count THEN Step ELSE t1.count
           req == Request("search", t.rs, s.q, Default, t1.start, num)
<1>1. w \in Worlds /\ w.conn.tasks # <<>> /\ Over(w)
  BY GoodType DEF Serving, Over, Base
<1>2. CASE w.conn.error # "none" \/ t.which # "search"
  <2>1. SrwSendSearch(w, ch) = Returns(w, "complete")
    BY <1>2, Zenon DEF SrwSendSearch
  <2> QED BY <1>1, <2>1, SmallSound, Zenon
<1>3. CASE w.conn.error = "none" /\ t.which = "search"
  <2>1. Keeps(w, u) /\ Sound(u)
    BY <1>1, <1>3, AdvanceKeeps, AdvanceSound
  <2>2. t.rs \in ResultSet /\ s \in Sets
    BY <1>1, <1>3, HeadType, Zenon
  <2>3. SrwSendSearch(w, ch) \in {Returns(w1, "complete"), Returns(SetError(w1, "query"), "complete"),
                                  Send(w1, req, ch)}
    <3>1. CASE t1.count = 0 /\ s.live
      BY <1>3, <3>1, Zenon DEF SrwSendSearch
    <3>2. CASE ~(t1.count = 0 /\ s.live) /\ ~ch.fit
      BY <1>3, <3>2, Zenon DEF SrwSendSearch
    <3>3. CASE ~(t1.count = 0 /\ s.live) /\ ch.fit
      BY <1>3, <3>3 DEF SrwSendSearch
    <3> QED BY <3>1, <3>2, <3>3, Zenon
  <2> HIDE DEF u, t
  <2>4. Over(u) /\ u \in Worlds
    BY <1>1, <2>1, KeepsOver DEF Keeps, Alike
  <2>5. Keeps(u, w1) /\ Sound(w1)
    BY <2>1, <2>2, <2>4, DefaultNameKeeps, DefaultNameSound
  <2> HIDE DEF w1, s
  <2>6. Over(w1) /\ w1 \in Worlds /\ w1.conn.tasks # <<>> /\ w1.net.proto = "http"
    BY <1>1, <2>1, <2>4, <2>5, KeepsOver, KeepsHead DEF Keeps, Alike
  <2>7. t1 \in Tasks
    BY <2>6, HeadType
  <2> HIDE DEF t1
  <2>8. num \in Int
    BY <2>7, ZoomAssumption DEF Tasks
  <2> HIDE DEF num
  <2>9. req \in Requests
    BY <2>2, <2>7, <2>8, NameCount DEF Request, Requests, Sets, Tasks
  <2> HIDE DEF req
  <2>10. Aimed(w1, req)
    BY <2>6 DEF Aimed
  <2>11. Sound(Returns(w1, "complete")) /\ Sound(Returns(SetError(w1, "query"), "complete"))
    <3>1. Sound(SetError(w1, "query")) /\ SetError(w1, "query") \in Worlds
      BY <2>5, <2>6, SmallSound, ErrorAlike, AlikeType DEF Errors
    <3> QED BY <2>5, <2>6, <3>1, SmallSound
  <2>12. Sound(Send(w1, req, ch))
    BY <2>5, <2>6, <2>9, <2>10, SendSound DEF Over, Base
  <2> QED BY <2>3, <2>11, <2>12
<1> QED BY <1>2, <1>3

-----------------------------------------------------------------------------
(* Running the task at the head keeps the records.                         *)

LEMMA DoConnectSound ==
  ASSUME NEW w, Good(w), Sound(w), NEW ch \in Choices
  PROVE  Sound(DoConnect(w, ch))
<1> DEFINE w1 == Renewed(w)
<1>1. w \in Worlds
  BY GoodType
<1>2. Good(w1) /\ w1 \in Worlds /\ Sound(w1)
  <2>1. Alike(w, w1)
    BY <1>1, RenewedLine
  <2> HIDE DEF w1
  <2>2. Good(w1) /\ w1 \in Worlds
    BY <2>1, AlikeLeads, LeadsType
  <2>3. Sound(w1)
    BY <1>1, RenewedSound DEF w1
  <2> QED BY <2>2, <2>3
<1>3. CASE ch.connect = "later"
  <2> DEFINE mask == {"read", "write", "except"}
             u == Opening(w1, "connecting", mask, "connecting")
  <2>1. DoConnect(w, ch) = Returns(u, "pending")
    BY <1>3 DEF DoConnect, Renewed
  <2> HIDE DEF w1
  <2>2. Sound(u) /\ u \in Worlds
    BY <1>2, OpeningSound, OpeningAlike, AlikeType
  <2> HIDE DEF u
  <2> QED BY <2>1, <2>2, SmallSound
<1>4. CASE ch.connect = "now"
  <2> DEFINE x == [w1 EXCEPT !.conn.cs = "data"]
             y == PutEvent(x, "connect")
             z == SendInit(y, ch)
             u == [z EXCEPT !.conn.state = "established"]
  <2>1. DoConnect(w, ch) = Returns(u, "pending")
    BY <1>4 DEF DoConnect, Renewed
  <2> HIDE DEF w1
  <2>2. Sound(x) /\ Alike(w1, x) /\ x \in Worlds
    BY <1>2, FieldSound, Fields, AlikeType
  <2> HIDE DEF x
  <2>3. Sound(y) /\ Alike(x, y)
    BY <2>2, SmallSound, EventAlike DEF EventKinds
  <2> HIDE DEF y
  <2>4. Good(y)
    BY <1>2, <2>2, <2>3, AlikeLeads, LeadsAlike, LeadsType
  <2>5. Sound(z) /\ z \in Worlds
    BY <2>3, <2>4, SendInitSound, SendInitLeads, LeadsType
  <2> HIDE DEF z
  <2>6. Sound(u) /\ u \in Worlds
    BY <2>5, FieldSound, Fields, AlikeType
  <2> HIDE DEF u
  <2> QED BY <2>1, <2>6, SmallSound
<1>5. CASE ch.connect \in {"none", "failed"}
  <2> DEFINE mask == w.conn.mask
             x == Opening(w1, ch.connect, mask, "idle")
             u == SetError(x, "connect")
  <2>1. DoConnect(w, ch) = Returns(u, "complete")
    BY <1>5 DEF DoConnect, Renewed
  <2>2. mask \in SUBSET {"read", "write", "except"}
    BY <1>1 DEF Worlds, Conns
  <2> HIDE DEF w1, mask
  <2>3. Sound(x) /\ x \in Worlds
    BY <1>2, <1>5, <2>2, OpeningSound, OpeningAlike, AlikeType
  <2> HIDE DEF x
  <2>4. Sound(u) /\ u \in Worlds
    BY <2>3, SmallSound, ErrorAlike, AlikeType DEF Errors
  <2> HIDE DEF u
  <2> QED BY <2>1, <2>4, SmallSound
<1> QED BY <1>3, <1>4, <1>5 DEF Choices

\* A set is marked to be sorted.
LEMMA MarkSound ==
  ASSUME NEW w \in Worlds, Sound(w), AtRest(w), NEW r \in ResultSet, NEW d,
         d.name = w.sets[r].name, d.q = w.sets[r].q, d.live = w.sets[r].live, d.cache = w.sets[r].cache,
         d.crossed = w.sets[r].crossed
  PROVE  Sound([w EXCEPT !.sets[r] = d])
<1> DEFINE v == [w EXCEPT !.sets[r] = d]
           s == w.sets[r]
<1>1. v.sets[r] = d /\ v.net = w.net /\ v.conn = w.conn /\ \A o \in ResultSet : o # r => v.sets[o] = w.sets[o]
  BY DEF Worlds
<1> HIDE DEF v
<1>2. Apart(w, v, r) /\ Follows(w.conn.tasks, v.conn.tasks)
  BY <1>1, FollowsSelf DEF Apart
<1>3. OwnSet(w, s) /\ EvenSet(w, s)
  BY SetOwn, SetEven DEF Sound
<1>4. (Bare(s) => Bare(d)) /\ \A b : Ordered(s, b) => Ordered(d, b)
  BY DEF Bare, Ordered
<1>5. OwnSet(w, d) /\ EvenSet(w, d)
  <2> HIDE DEF s
  <2>1. d.name = s.name /\ d.q = s.q /\ d.live = s.live /\ d.cache = s.cache
    BY DEF s
  <2>2. OwnSet(w, d)
    BY <1>3, <2>1 DEF OwnSet
  <2>3. EvenSet(w, d)
    BY <1>3, <1>4, <2>1 DEF EvenSet
  <2> QED BY <2>2, <2>3
<1>6. r \in ToSort(w.conn.tasks) => Bare(d)
  BY <1>4 DEF Sound, Lined
<1>7. Sound(v)
  BY <1>1, <1>2, <1>5, <1>6, OneSound
<1> QED BY <1>7 DEF v

LEMMA DispatchSound ==
  ASSUME NEW w, Over(w), Sound(w), w.conn.error = "none", NEW ch \in Choices, w.conn.tasks # <<>>,
         Head(w.conn.tasks).running, w.conn.cs # "none" \/ Head(w.conn.tasks).which = "connect"
  PROVE  Sound(Dispatch(w, ch))
<1> DEFINE t == Head(w.conn.tasks)
<1>1. w \in Worlds /\ Good(w)
  BY GoodType DEF Over, Base
<1>2. t \in Tasks /\ 1 \in DOMAIN w.conn.tasks /\ t = w.conn.tasks[1]
      /\ (t.which \in {"search", "sort"} => t.rs \in ResultSet /\ w.sets[t.rs] \in Sets)
  BY <1>1, HeadType
<1>3. CASE t.which = "connect"
  <2>1. Sound(DoConnect(w, ch))
    BY <1>1, DoConnectSound
  <2> QED BY <1>3, <2>1 DEF Dispatch
<1>4. ASSUME t.which # "connect" PROVE Serving(w) /\ w.conn.proto = w.net.proto
  BY <1>4 DEF Serving, Over, Base, Session, AtRest
<1>5. CASE t.which = "search"
  <2>1. Serving(w) /\ Going(w)
    BY <1>4, <1>5 DEF Going
  <2>2. w.conn.proto = "http" => Sound(SrwSendSearch(w, ch))
    BY <1>4, <1>5, <2>1, SrwSendSearchSound
  <2>3. Sound(Z3950Search(w, ch))
    BY <2>1, Z3950SearchSound
  <2> QED BY <1>5, <2>2, <2>3 DEF Dispatch
<1>6. CASE t.which = "sort"
  <2> DEFINE r == t.rs
             s == w.sets[r]
             d == [s EXCEPT !.sort = TRUE]
             v == [w EXCEPT !.sets[r] = d]
  <2>1. Dispatch(w, ch) = SendSort(v, r, ch)
    BY <1>6 DEF Dispatch
  <2>2. r \in ResultSet /\ s \in Sets /\ Bare(s)
    <3>1. r \in ResultSet /\ s \in Sets
      BY <1>2, <1>6
    <3>2. r \in ToSort(w.conn.tasks)
      BY <1>2, <1>6, <3>1 DEF ToSort
    <3>3. Bare(s)
      BY <3>2 DEF Sound, Lined
    <3> QED BY <3>1, <3>3
  <2>3. Serving(w)
    BY <1>4, <1>6
  <2> HIDE DEF t, r
  <2>4. d \in Sets /\ d.ref = s.ref /\ d.app = s.app /\ d.q = s.q /\ d.live = s.live /\ d.name = s.name
        /\ d.cache = s.cache /\ d.crossed = s.crossed
    BY <2>2 DEF Sets
  <2>5. Bare(d)
    BY <2>2, <2>4 DEF Bare
  <2> HIDE DEF d
  <2>6. v.sets[r] = d /\ v.net = w.net /\ v.conn = w.conn /\ \A o \in ResultSet : o # r => v.sets[o] = w.sets[o]
    BY <1>1, <2>2 DEF Worlds
  <2>7. Keeps(w, v)
    BY <1>1, <2>2, <2>4, SetKeeps
  <2> HIDE DEF v
  <2>8. Serving(v)
    BY <2>3, <2>7, KeepsOver
  <2>9. Sound(v)
    <3>1. AtRest(w)
      BY DEF Over
    <3> QED BY <1>1, <2>2, <2>4, <3>1, MarkSound DEF v
  <2>10. Sound(SendSort(v, r, ch))
    BY <2>2, <2>5, <2>6, <2>8, <2>9, SendSortSound
  <2> QED BY <2>1, <2>10
<1>7. CASE t.which \in {"scan", "package"}
  <2> DEFINE kind == t.which
             req == Request(kind, NoSet, 0, Unset, 0, 0)
  <2>1. Dispatch(w, ch) = Returns(SetError(w, "query"), "complete") \/ Dispatch(w, ch) = Send(w, req, ch)
    BY <1>7 DEF Dispatch
  <2> HIDE DEF t
  <2>2. req \in Requests
    BY <1>7 DEF Request, Requests
  <2> HIDE DEF kind
  <2>3. Aimed(w, req)
    BY SetlessAimed
  <2> HIDE DEF req
  <2>4. Sound(Send(w, req, ch))
    BY <1>1, <2>2, <2>3, SendSound
  <2>5. Sound(SetError(w, "query")) /\ SetError(w, "query") \in Worlds
    BY <1>1, SmallSound, ErrorAlike, AlikeType DEF Errors
  <2> QED BY <1>1, <2>1, <2>4, <2>5, SmallSound
<1> HIDE DEF t
<1> QED BY <1>2, <1>3, <1>5, <1>6, <1>7 DEF Tasks, TaskKinds

\* The task at the head is over, or waits.
LEMMA FinishSound ==
  ASSUME NEW w, Post(w), Sound(w)
  PROVE  Sound(Finish(w))
<1>1. w.ret = "complete" => Good(w) /\ AtRest(w)
  BY DEF Post, Over, Base
<1> QED BY <1>1, RemoveTaskSound DEF Finish

LEMMA ExecTaskSound ==
  ASSUME NEW w, Base(w), Rested(w), Sound(w), NEW ch \in Choices, w.net.proto = "http" => ch.connect # "now"
  PROVE  Sound(ExecTask(w, ch))
<1>1. Over(w) /\ w \in Worlds /\ AtRest(w)
  BY GoodType DEF Over, Rested, Base
<1>2. CASE w.conn.tasks = <<>>
  BY <1>2 DEF ExecTask
<1>3. CASE w.conn.tasks # <<>> /\ w.conn.error # "none"
  BY <1>1, <1>3, RemoveTasksSound DEF ExecTask
<1>4. CASE w.conn.tasks # <<>> /\ w.conn.error = "none"
  <2> DEFINE w1 == [w EXCEPT !.conn.tasks[1].running = TRUE]
             goes == w.conn.cs # "none" \/ Head(w.conn.tasks).which = "connect"
             w2 == IF goes THEN Dispatch(w1, ch) ELSE Returns(RemoveTasks(w1), "complete")
  <2>1. ~Head(w.conn.tasks).running
    BY <1>4 DEF Rested
  <2>2. ExecTask(w, ch) = Finish(w2)
    BY <1>4, <2>1 DEF ExecTask, Finish
  <2>3. /\ Over(w1) /\ w1.conn.tasks # <<>> /\ Head(w1.conn.tasks).running
        /\ Head(w1.conn.tasks).which = Head(w.conn.tasks).which
        /\ w1.conn.error = w.conn.error /\ w1.conn.cs = w.conn.cs /\ w1.net = w.net
    BY <1>1, <1>4, StartOver
  <2>4. Sound(w1)
    BY <1>1, StartSound
  <2> HIDE DEF w1
  <2>5. goes => Post(Dispatch(w1, ch)) /\ Sound(Dispatch(w1, ch))
    BY <1>4, <2>3, <2>4, DispatchPost, DispatchSound
  <2>6. Post(Returns(RemoveTasks(w1), "complete")) /\ Sound(Returns(RemoveTasks(w1), "complete"))
    <3>1. Over(RemoveTasks(w1)) /\ RemoveTasks(w1).conn.tasks = <<>>
      BY <2>3, RemoveTasksOver
    <3>2. w1 \in Worlds /\ AtRest(w1) /\ RemoveTasks(w1) \in Worlds
      BY <2>3, <3>1, GoodType DEF Over, Base
    <3>3. Sound(RemoveTasks(w1))
      BY <2>4, <3>2, RemoveTasksSound
    <3>4. Told(RemoveTasks(w1))
      BY <3>1 DEF Told
    <3> QED BY <3>1, <3>2, <3>3, <3>4, CompletePost, SmallSound
  <2>7. Post(w2) /\ Sound(w2)
    <3> HIDE DEF goes
    <3> QED BY <2>5, <2>6
  <2> HIDE DEF w2
  <2> QED BY <2>2, <2>7, FinishSound
<1> QED BY <1>2, <1>3, <1>4

-----------------------------------------------------------------------------
(* Records that come in are those of the query of their set.               *)

LEMMA CacheSound ==
  ASSUME NEW w \in Worlds, Sound(w), AtRest(w), NEW r \in ResultSet,
         r \in ToSort(w.conn.tasks) => w.sets[r].crossed,
         NEW d, NEW cache, NEW z, NEW all, d = [w.sets[r] EXCEPT !.cache = cache], OwnSet(w, d), EvenSet(w, d),
         Alike(w, [w EXCEPT !.sets[r].cache = cache, !.conn.tasks[1] = z, !.conn.events = all])
  PROVE  Sound([w EXCEPT !.sets[r].cache = cache, !.conn.tasks[1] = z, !.conn.events = all])
<1> DEFINE v == [w EXCEPT !.sets[r] = d, !.conn.tasks[1] = z, !.conn.events = all]
<1>1. d.name = w.sets[r].name /\ d.crossed = w.sets[r].crossed
  BY DEF Worlds, Sets
<1>2. v = [w EXCEPT !.sets[r].cache = cache, !.conn.tasks[1] = z, !.conn.events = all]
  OBVIOUS
<1>3. Follows(w.conn.tasks, v.conn.tasks)
  BY <1>2, FollowsAlike
<1>4. v.sets[r] = d /\ v.net = w.net /\ v.conn.out = w.conn.out /\ \A o \in ResultSet : o # r => v.sets[o] = w.sets[o]
  BY DEF Worlds, Conns
<1> HIDE DEF v
<1>5. Apart(w, v, r)
  BY <1>4 DEF Apart
<1>6. r \in ToSort(w.conn.tasks) => Bare(d)
  BY <1>1 DEF Bare
<1> HIDE DEF v
<1>7. Sound(v)
  BY <1>1, <1>3, <1>4, <1>5, <1>6, OneSound
<1> QED BY <1>2, <1>7

\* A version is the set's when its size is known, and the server keeps that
\* version by the name of the set, or the set shares its name.
Suits(w, version, s) ==
  /\ w.net.proto = "z3950" /\ s.live /\ version \in Versions
  /\ s.name # Default => s.name \in Name /\ version = w.net.sets[s.name]

\* Such a version may come into the cache, and so may a made up record.
LEMMA SuitsEven ==
  ASSUME NEW w, NEW s, NEW d, NEW version, Suits(w, version, s), OwnSet(w, s), EvenSet(w, s),
         d.name = s.name, d.q = s.q, d.live = s.live, d.crossed = s.crossed,
         \A p \in Position : d.cache[p] \in {MadeUp, version, s.cache[p]}
  PROVE  OwnSet(w, d) /\ EvenSet(w, d)
<1>1. MadeUp.q = 0 /\ w.net.proto # "http" /\ d.live
  BY DEF MadeUp, Suits
<1>2. ASSUME s.name # Default
      PROVE  /\ version.q \in {-1, s.q} /\ s.name \in Name \ {Default} /\ version = w.net.sets[s.name]
             /\ version.q = -1 \/ Ordered(s, version.sorted)
  BY <1>2 DEF Suits, OwnSet, EvenSet
<1>3. ASSUME NEW b, Ordered(s, b), version.q = -1 \/ version.sorted = b PROVE Ordered(d, b)
  <2>1. ASSUME NEW p \in Position, ~d.crossed PROVE d.cache[p].q \in {-1, 0} \/ d.cache[p].sorted = b
    <3>1. s.cache[p].q \in {-1, 0} \/ s.cache[p].sorted = b
      BY <1>3, <2>1 DEF Ordered
    <3> QED BY <1>1, <1>3, <3>1
  <2> QED BY <2>1 DEF Ordered
<1>4. OwnSet(w, d)
  <2>1. ASSUME d.name # Default, NEW p \in Position PROVE d.cache[p].q \in {-1, 0, d.q}
    <3>1. s.cache[p].q \in {-1, 0, s.q}
      BY <2>1 DEF OwnSet
    <3> QED BY <1>1, <1>2, <2>1, <3>1
  <2>2. w.net.proto = "z3950" /\ d.live /\ d.name \in Name \ {Default} => w.net.sets[d.name].q \in {-1, d.q}
    BY <1>2
  <2> QED BY <2>1, <2>2 DEF OwnSet
<1>5. ASSUME d.name # Default PROVE \E b \in BOOLEAN : Ordered(d, b)
  <2>1. CASE version.q = -1
    <3>1. PICK b \in BOOLEAN : Ordered(s, b)
      BY <1>5 DEF EvenSet
    <3> QED BY <1>3, <2>1, <3>1
  <2>2. CASE version.q # -1
    <3>1. version.sorted \in BOOLEAN
      BY DEF Suits, Versions
    <3> QED BY <1>2, <1>3, <1>5, <2>2, <3>1
  <2> QED BY <2>1, <2>2
<1>6. ASSUME d.name \in Name \ {Default}
      PROVE  w.net.sets[d.name].q = -1 \/ Ordered(d, w.net.sets[d.name].sorted)
  <2>1. version = w.net.sets[d.name] /\ (version.q = -1 \/ Ordered(s, version.sorted))
    BY <1>2, <1>6
  <2> QED BY <1>3, <2>1
<1> QED BY <1>1, <1>4, <1>5, <1>6 DEF EvenSet

LEMMA AddRecordsSound ==
  ASSUME NEW w, Serving(w), Sound(w), Head(w.conn.tasks).which = "search",
         NEW n \in Nat, NEW version, NEW empty \in BOOLEAN, Suits(w, version, w.sets[Head(w.conn.tasks).rs])
  PROVE  Sound(AddRecords(w, n, version, empty))
<1> DEFINE t == Head(w.conn.tasks)
           r == t.rs
           s == w.sets[r]
           cache == IF empty THEN Fill(s.cache, t.start, 1, MadeUp) ELSE Fill(s.cache, t.start, n, version)
           d == [s EXCEPT !.cache = cache]
           z == [t EXCEPT !.start = @ + n, !.count = IF empty THEN 0 ELSE Left(s, t, n)]
           more == Events("record", IF empty THEN 1 ELSE n)
           all == w.conn.events \o more
           v == [w EXCEPT !.sets[r].cache = cache, !.conn.tasks[1] = z, !.conn.events = all]
<1>0. w \in Worlds /\ AtRest(w) /\ w.conn.tasks # <<>>
  BY GoodType DEF Serving, Over, Base
<1>1. AddRecords(w, n, version, empty) = v
  BY DEF AddRecords
<1>2. r \in ResultSet /\ s \in Sets
  BY <1>0, HeadType
<1>3. Suits(w, version, s)
  OBVIOUS
<1>4. Alike(w, v)
  <2>1. Keeps(w, AddRecords(w, n, version, empty))
    BY <1>0, <1>3, AddRecordsKeeps DEF Suits
  <2> QED BY <1>1, <2>1 DEF Keeps
<1>5. r \in ToSort(w.conn.tasks) => s.crossed
  <2> HIDE DEF s
  <2>1. r \in ToSort(w.conn.tasks) => r \in Crossed(w.conn.tasks)
    BY <1>0, <1>2, HeadSorted
  <2> QED BY <2>1 DEF Sound, Lined, s
<1>6. \A p \in Position : cache[p] \in {MadeUp, version, s.cache[p]}
  <2> HIDE DEF t, s
  <2> QED BY DEF Fill
<1> HIDE DEF r, z, more, cache
<1>7. d.name = s.name /\ d.q = s.q /\ d.live = s.live /\ d.cache = cache /\ d.crossed = s.crossed
  BY <1>2 DEF Sets
<1>8. OwnSet(w, d) /\ EvenSet(w, d)
  <2>1. OwnSet(w, s) /\ EvenSet(w, s)
    BY <1>2, SetOwn, SetEven DEF Sound
  <2> HIDE DEF d, s
  <2> QED BY <1>3, <1>6, <1>7, <2>1, SuitsEven
<1>9. d = [w.sets[r] EXCEPT !.cache = cache]
  OBVIOUS
<1> HIDE DEF d, all
<1>10. Sound(v)
  BY <1>0, <1>2, <1>4, <1>5, <1>8, <1>9, CacheSound
<1> QED BY <1>1, <1>10

LEMMA HandleRecordsSound ==
  ASSUME NEW w, Serving(w), Sound(w), Head(w.conn.tasks).which = "search", w.conn.error = "none",
         NEW a \in Answers, NEW version, NEW present \in BOOLEAN,
         a.is # "diag" => Suits(w, version, w.sets[Head(w.conn.tasks).rs])
  PROVE  Sound(HandleRecords(w, a, version, present))
<1> DEFINE e == SetError(w, "diag")
           empty == present /\ a.n = 0
<1>1. w \in Worlds /\ a.n \in Nat /\ Over(w) /\ w.conn.tasks # <<>> /\ Head(w.conn.tasks).which = "search"
  BY GoodType DEF Answers, Serving, Over, Base
<1>2. CASE a.is = "diag"
  <2>1. HandleRecords(w, a, version, present) = RemoveTasks(e)
    BY <1>1, <1>2 DEF HandleRecords
  <2>2. Over(e) /\ Sound(e)
    BY <1>1, ErrorOver, SmallSound DEF Errors, Over
  <2> HIDE DEF e
  <2>3. e \in Worlds /\ AtRest(e)
    BY <2>2, GoodType DEF Over, Base
  <2> QED BY <2>1, <2>2, <2>3, RemoveTasksSound
<1>3. CASE a.is # "diag"
  <2>1. HandleRecords(w, a, version, present) = AddRecords(w, a.n, version, empty)
    BY <1>1, <1>3 DEF HandleRecords
  <2>2. empty \in BOOLEAN
    OBVIOUS
  <2> HIDE DEF empty
  <2>3. Sound(AddRecords(w, a.n, version, empty))
    BY <1>1, <1>3, <2>2, AddRecordsSound
  <2> QED BY <2>1, <2>3
<1> QED BY <1>2, <1>3

\* What the server keeps by a name of a set's own is a version of that query.
Holds(w, s) ==
  w.net.proto = "z3950" /\ s.name \in Name \ {Default} => w.net.sets[s.name].q \in {-1, s.q}

\* The size of a set is told when the server keeps it under its name.
LEMMA FoundSound ==
  ASSUME NEW w \in Worlds, Sound(w), AtRest(w), NEW r \in ResultSet, NEW hits, Holds(w, w.sets[r])
  PROVE  Sound(Found(w, r, hits))
<1> DEFINE s == w.sets[r]
           d == [s EXCEPT !.size = hits, !.live = TRUE]
           v == [w EXCEPT !.sets[r] = d]
<1>1. s \in Sets
  BY DEF Worlds
<1>2. d.name = s.name /\ d.q = s.q /\ d.live /\ d.cache = s.cache /\ d.crossed = s.crossed
  BY <1>1 DEF Sets
<1>3. Found(w, r, hits) = v
  BY DEF Found
<1> HIDE DEF d
<1>4. v.sets[r] = d /\ v.net = w.net /\ v.conn = w.conn /\ \A o \in ResultSet : o # r => v.sets[o] = w.sets[o]
  BY DEF Worlds
<1> HIDE DEF v
<1>5. OwnSet(w, s) /\ EvenSet(w, s) /\ Holds(w, s)
  BY SetOwn, SetEven DEF Sound
<1>6. (Bare(s) => Bare(d)) /\ \A b : Ordered(s, b) => Ordered(d, b)
  BY <1>2 DEF Bare, Ordered
<1>7. r \in ToSort(w.conn.tasks) => Bare(d)
  BY <1>6 DEF Sound, Lined
<1> HIDE DEF s
<1>8. OwnSet(w, d)
  BY <1>2, <1>5 DEF OwnSet, Holds
<1>9. EvenSet(w, d)
  <2>1. CASE s.live
    BY <1>2, <1>5, <1>6, <2>1 DEF EvenSet
  <2>2. CASE ~s.live
    <3>1. \A b : Ordered(d, b)
      BY <1>5, <1>6, <2>2, BareOrdered DEF EvenSet
    <3> QED BY <1>2, <3>1 DEF EvenSet
  <2> QED BY <2>1, <2>2
<1>10. Apart(w, v, r) /\ Follows(w.conn.tasks, v.conn.tasks)
  BY <1>4, FollowsSelf DEF Apart
<1>11. v.sets[r].name = w.sets[r].name /\ v.conn.out = w.conn.out /\ v.sets[r].crossed = w.sets[r].crossed
  BY <1>2, <1>4 DEF s
<1>12. Sound(v)
  BY <1>4, <1>7, <1>8, <1>9, <1>10, <1>11, OneSound
<1> QED BY <1>3, <1>12

\* The set of the task at the head has no record when it must be sorted.
SortReady(w) ==
  w.conn.tasks # <<>> =>
    (w.sets[Head(w.conn.tasks).rs].sort => Bare(w.sets[Head(w.conn.tasks).rs]))

LEMMA HandleRecordsReady ==
  ASSUME NEW w, Serving(w), Head(w.conn.tasks).which = "search", SortReady(w), NEW a \in Answers,
         NEW version \in Versions, w.sets[Head(w.conn.tasks).rs].sort => a.n = 0
  PROVE  SortReady(HandleRecords(w, a, version, FALSE))
<1> DEFINE t == Head(w.conn.tasks)
           r == t.rs
           s == w.sets[r]
<1>1. w \in Worlds /\ w.conn.tasks # <<>> /\ a.n \in Nat
  BY GoodType DEF Answers, Serving, Over, Base
<1>2. t \in Tasks /\ r \in ResultSet /\ s \in Sets /\ t.which = "search" /\ (s.sort => a.n = 0)
      /\ (s.sort => Bare(s))
  BY <1>1, HeadType DEF SortReady
<1>3. CASE a.is = "diag"
  <2> DEFINE e == SetError(w, "diag")
  <2>1. HandleRecords(w, a, version, FALSE) = RemoveTasks(e)
    BY <1>1, <1>3 DEF HandleRecords
  <2>2. RemoveTasks(e).conn.tasks = <<>>
    <3>1. e \in Worlds
      BY <1>1, ErrorAlike, AlikeType DEF Errors
    <3> HIDE DEF e
    <3> QED BY <3>1 DEF RemoveTasks, PutEvent, Worlds, Conns
  <2> QED BY <2>1, <2>2 DEF SortReady
<1>4. CASE a.is # "diag"
  <2> DEFINE cache == Fill(s.cache, t.start, a.n, version)
             d == [s EXCEPT !.cache = cache]
             v == AddRecords(w, a.n, version, FALSE)
  <2>1. HandleRecords(w, a, version, FALSE) = v
    BY <1>1, <1>4 DEF HandleRecords
  <2>2. v.sets[r] = d
    BY <1>1, <1>2 DEF AddRecords, Worlds
  <2>3. v.conn.tasks # <<>> /\ Head(v.conn.tasks).rs = r
    BY <1>1, AddRecordsKeeps, KeepsHead
  <2>4. s.sort => \A p \in Position : cache[p] = s.cache[p]
    <3>1. t.start \in Nat
      BY <1>2 DEF Tasks
    <3> HIDE DEF t, s
    <3>2. s.sort => \A p \in Position : p \notin t.start .. t.start + a.n - 1
      BY <1>2, <3>1 DEF Position
    <3> QED BY <3>2 DEF Fill
  <2> HIDE DEF cache, v
  <2>5. d.sort = s.sort /\ d.cache = cache /\ d.crossed = s.crossed
    BY <1>2 DEF Sets
  <2> HIDE DEF d
  <2>6. s.sort => Bare(d)
    BY <1>2, <2>4, <2>5 DEF Bare
  <2> HIDE DEF r, s
  <2> QED BY <2>1, <2>2, <2>3, <2>5, <2>6 DEF SortReady
<1> QED BY <1>3, <1>4

\* The search of the task at the head found that version, which the server
\* keeps for the set; records did not come along if they must be sorted.
Finds(w, a, version) ==
  LET s == w.sets[Head(w.conn.tasks).rs]
  IN  /\ w.net.proto = "z3950" /\ s.name # Unset /\ ~s.live /\ version \in Versions /\ Holds(w, s)
      /\ a.is # "diag" /\ s.name # Default => s.name \in Name /\ version = w.net.sets[s.name]
      /\ s.sort => a.n = 0

LEMMA HandleSearchResponseSound ==
  ASSUME NEW w, Serving(w), Sound(w), Head(w.conn.tasks).which = "search", w.conn.error = "none",
         NEW a \in Answers, NEW version, Finds(w, a, version)
  PROVE  LET v == HandleSearchResponse(w, a, version)
         IN  Sound(v) /\ SortReady(v)
<1> DEFINE r == Head(w.conn.tasks).rs
           w1 == IF w.sets[r].live THEN w ELSE PutEvent(w, "search")
           u == Found(w1, r, a.hits)
           s == w.sets[r]
<1>1. w \in Worlds /\ a.hits \in 0 .. MaxHits /\ w.conn.tasks # <<>> /\ AtRest(w)
  BY GoodType DEF Answers, Serving, Over, Base
<1>2. HandleSearchResponse(w, a, version) = HandleRecords(u, a, version, FALSE)
  BY <1>1 DEF HandleSearchResponse
<1>3. r \in ResultSet /\ s \in Sets
  BY <1>1, HeadType
<1>4. Keeps(w, w1) /\ Sound(w1) /\ w1.sets = w.sets /\ w1.net = w.net /\ AtRest(w1)
  <2>1. Keeps(w, w) /\ Keeps(w, PutEvent(w, "search"))
    BY <1>1, EventKeeps, KeepsSelf DEF EventKinds
  <2>2. Sound(PutEvent(w, "search"))
    BY <1>1, SmallSound
  <2>3. PutEvent(w, "search").sets = w.sets /\ PutEvent(w, "search").net = w.net
    BY <1>1 DEF PutEvent, Worlds
  <2>4. AtRest(PutEvent(w, "search"))
    BY <1>1 DEF AtRest, PutEvent, Worlds, Conns
  <2> QED BY <1>1, <2>1, <2>2, <2>3, <2>4
<1>5. /\ w.net.proto = "z3950" /\ s.name # Unset /\ ~s.live /\ version \in Versions /\ Holds(w, s)
      /\ (a.is # "diag" /\ s.name # Default => s.name \in Name /\ version = w.net.sets[s.name])
      /\ (s.sort => a.n = 0) /\ Head(w.conn.tasks).which = "search"
  BY DEF Finds
<1> HIDE DEF w1
<1>6. w1 \in Worlds /\ w1.sets[r] = s
  BY <1>4 DEF Keeps, Alike
<1>7. Keeps(w1, u) /\ Sound(u)
  <2> HIDE DEF r
  <2>1. Keeps(w1, u)
    BY <1>1, <1>3, <1>5, <1>6, FoundKeeps
  <2>2. Holds(w1, w1.sets[r])
    BY <1>4, <1>5, <1>6 DEF Holds
  <2>3. Sound(u)
    BY <1>3, <1>4, <1>6, <2>2, FoundSound
  <2> QED BY <2>1, <2>3
<1>8. u.net = w.net /\ u.sets[r] = [s EXCEPT !.size = a.hits, !.live = TRUE]
  <2> HIDE DEF r, s
  <2> QED BY <1>3, <1>4, <1>6 DEF Found, Worlds
<1>9. Bare(s)
  BY <1>3, <1>5 DEF Sound, Even
<1> HIDE DEF u
<1>10. u.sets[r].live /\ u.sets[r].name = s.name /\ u.sets[r].sort = s.sort /\ u.sets[r].cache = s.cache
       /\ u.sets[r].crossed = s.crossed
  <2> HIDE DEF r, s
  <2> QED BY <1>3, <1>8 DEF Sets
<1>11. Keeps(w, u)
  BY <1>4, <1>7, KeepsChain
<1>12. Serving(u) /\ Head(u.conn.tasks).which = "search" /\ Head(u.conn.tasks).rs = r /\ u.conn.error = "none"
  <2>1. Serving(u)
    BY <1>11, KeepsOver
  <2>2. Head(u.conn.tasks).which = "search" /\ Head(u.conn.tasks).rs = r
    BY <1>1, <1>5, <1>11, KeepsHead DEF r
  <2>3. u.conn.error = w.conn.error
    BY <1>11 DEF Keeps, Firm, OnLine
  <2> QED BY <2>1, <2>2, <2>3
<1> HIDE DEF r, s
<1>13. a.is # "diag" => Suits(u, version, u.sets[Head(u.conn.tasks).rs])
  BY <1>5, <1>8, <1>10, <1>12 DEF Suits
<1>14. SortReady(u) /\ (u.sets[Head(u.conn.tasks).rs].sort => a.n = 0)
  <2>1. Bare(u.sets[r])
    BY <1>9, <1>10 DEF Bare
  <2> QED BY <1>5, <1>10, <1>12, <2>1 DEF SortReady
<1>15. Sound(HandleRecords(u, a, version, FALSE))
  BY <1>7, <1>12, <1>13, HandleRecordsSound
<1>16. SortReady(HandleRecords(u, a, version, FALSE))
  BY <1>5, <1>12, <1>14, HandleRecordsReady
<1> QED BY <1>2, <1>15, <1>16

LEMMA SortPresentSound ==
  ASSUME NEW w, Going(w), w.conn.tasks # <<>> => Searching(w), Sound(w), SortReady(w), NEW ch \in Choices
  PROVE  Sound(SortPresent(w, ch))
<1> DEFINE t == Head(w.conn.tasks)
           u == SendSort(w, t.rs, ch)
<1>1. w \in Worlds
  BY GoodType DEF Going, Over, Base
<1>2. CASE w.conn.tasks = <<>>
  <2> DEFINE v == Returns(w, "complete")
  <2>1. SortPresent(w, ch) = Z3950Search(v, ch)
    <3>1. v.ret = "complete"
      BY <1>1, ReturnKeeps
    <3> QED BY <1>2, <3>1 DEF SortPresent
  <2>2. Keeps(w, v) /\ Sound(v)
    BY <1>1, ReturnKeeps, SmallSound
  <2> HIDE DEF v
  <2>3. Over(v) /\ v.conn.tasks = <<>>
    BY <1>1, <1>2, <2>2, KeepsOver, KeepsHead DEF Going
  <2>4. Going(v)
    BY <2>3 DEF Going
  <2> QED BY <2>1, <2>2, <2>4, Z3950SearchSound
<1>3. CASE w.conn.tasks # <<>>
  <2>1. Serving(w) /\ t.which = "search" /\ w.sets[t.rs].live /\ t.rs \in ResultSet
    BY <1>1, <1>3, HeadType DEF Searching
  <2>2. SortPresent(w, ch) = IF u.ret = "complete" THEN Z3950Search(u, ch) ELSE u
    BY <1>3, <2>1 DEF SortPresent
  <2>3. IF u.ret = "complete" THEN Serving(u) /\ Head(u.conn.tasks).which = t.which ELSE Steady(u)
    BY <2>1, SendSortPost
  <2>4. Sound(u)
    <3>1. w.sets[t.rs].sort => Bare(w.sets[t.rs])
      BY <1>3 DEF SortReady
    <3> QED BY <2>1, <3>1, SendSortSound
  <2> HIDE DEF u
  <2>5. u.ret = "complete" => Sound(Z3950Search(u, ch))
    <3>1. u.ret = "complete" => Going(u)
      BY <2>1, <2>3 DEF Going, Serving
    <3> QED BY <2>4, <3>1, Z3950SearchSound
  <2> QED BY <2>2, <2>4, <2>5
<1> QED BY <1>2, <1>3

\* The sets of the server change: of those the client knows by their names
\* only such as it has no record of, and those to a version of their query.
LEMMA NetSound ==
  ASSUME NEW w, NEW v, Sound(w), v.sets = w.sets, v.conn.out = w.conn.out, v.conn.tasks = w.conn.tasks,
         v.net.wire = w.net.wire, v.net.proto = w.net.proto,
         \A r \in ResultSet : w.sets[r].live /\ w.sets[r].name \in Name \ {Default} =>
           \/ v.net.sets[w.sets[r].name] = w.net.sets[w.sets[r].name]
           \/ /\ v.net.sets[w.sets[r].name].q \in {-1, w.sets[r].q, w.net.sets[w.sets[r].name].q}
              /\ Bare(w.sets[r])
  PROVE  Sound(v)
<1>0. Own(w) /\ Even(w) /\ Lined(w)
  BY DEF Sound
<1>1. ASSUME NEW r \in ResultSet, v.net.proto = "z3950", v.sets[r].live, v.sets[r].name \in Name \ {Default}
      PROVE  v.net.sets[v.sets[r].name].q \in {-1, v.sets[r].q}
  <2>1. w.net.sets[w.sets[r].name].q \in {-1, w.sets[r].q}
    BY <1>0, <1>1 DEF Own
  <2>2. v.net.sets[w.sets[r].name].q \in {-1, w.sets[r].q, w.net.sets[w.sets[r].name].q}
    BY <1>1
  <2> QED BY <2>1, <2>2
<1>2. Own(v)
  <2>1. \A r \in ResultSet : v.sets[r].name # Default =>
          \A p \in Position : v.sets[r].cache[p].q \in {-1, 0, v.sets[r].q}
    BY <1>0, Zenon DEF Own
  <2>2. ASSUME NEW r \in ResultSet, NEW o \in ResultSet, r # o, v.sets[r].name = v.sets[o].name
        PROVE  v.sets[r].name \in {Unset, Default}
    <3>1. w.sets[r].name = w.sets[o].name => w.sets[r].name \in {Unset, Default}
      BY <1>0, <2>2 DEF Own
    <3> QED BY <2>2, <3>1
  <2> QED BY <1>1, <2>1, <2>2 DEF Own
<1>3. Even(v)
  <2>1. ASSUME NEW r \in ResultSet PROVE EvenSet(v, v.sets[r])
    <3> DEFINE s == w.sets[r]
    <3>1. EvenSet(w, s) /\ v.sets[r] = s
      BY <1>0, SetEven
    <3>2. ASSUME v.net.proto = "z3950", s.live, s.name \in Name \ {Default}
          PROVE  v.net.sets[s.name].q = -1 \/ Ordered(s, v.net.sets[s.name].sorted)
      <4>1. CASE Bare(s)
        BY <4>1, BareOrdered
      <4>2. CASE v.net.sets[s.name] = w.net.sets[s.name]
        BY <3>1, <3>2, <4>2 DEF EvenSet
      <4> QED BY <3>2, <4>1, <4>2
    <3> HIDE DEF s
    <3> QED BY <3>1, <3>2 DEF EvenSet
  <2> QED BY <2>1, Zenon DEF Even, EvenSet
<1>4. Lined(v)
  BY <1>0 DEF Lined
<1>5. Pending(v) = Pending(w)
  BY DEF Pending
<1>6. \A req : Aimed(w, req) => Aimed(v, req)
  BY DEF Aimed
<1> QED BY <1>2, <1>3, <1>4, <1>5, <1>6 DEF Sound

LEMMA HandleInitSound ==
  ASSUME NEW w, Base(w), AtRest(w), w.conn.error = "none", w.conn.cs = "data", w.net.proto = "z3950",
         w.conn.tasks # <<>>, Head(w.conn.tasks).which = "connect", Sound(w),
         NEW a \in Answers, a.is # "diag", NEW ch \in Choices
  PROVE  Sound(HandleInit(w, a, ch))
<1> DEFINE named == w.conn.named \/ w.net.named
           u == [w EXCEPT !.conn.named = named]
           k == [w.net EXCEPT !.inited = TRUE]
           w1 == [u EXCEPT !.net = k]
<1>1. w \in Worlds /\ named \in BOOLEAN
  BY GoodType DEF Worlds, Conns, Nets, Base
<1>2. CASE a.is # "ok"
  <2>1. HandleInit(w, a, ch) = SetError(w, "init")
    BY <1>2 DEF HandleInit
  <2> QED BY <1>1, <2>1, SmallSound
<1>3. CASE a.is = "ok"
  <2>1. w1 = [w EXCEPT !.conn.named = @ \/ w.net.named, !.net.inited = TRUE]
    BY <1>1 DEF Worlds
  <2>2. w1.conn.tasks = w.conn.tasks
    BY <1>1 DEF Worlds, Conns
  <2>3. HandleInit(w, a, ch) = ExecTask(RemoveTask(w1), ch)
    <3> HIDE DEF w1
    <3> QED BY <1>3, <2>1, <2>2 DEF HandleInit
  <2> HIDE DEF named
  <2>4. Keeps(w, u) /\ u.net = w.net /\ u \in Worlds /\ Sound(u)
    <3>1. Keeps(w, u) /\ Sound(u)
      BY <1>1, FlagsKeep, FieldSound
    <3>2. u.net = w.net
      BY <1>1 DEF Worlds
    <3> HIDE DEF u
    <3> QED BY <3>1, <3>2, KeepsHead, <1>1
  <2>5. k \in Nets /\ k.proto = w.net.proto /\ k.inited /\ k.wire = w.net.wire /\ k.sets = w.net.sets
    BY <1>1 DEF Worlds, Nets
  <2> HIDE DEF u, k
  <2>6. Alike(u, w1) /\ w1.conn = u.conn /\ w1.sets = u.sets /\ w1.net = k
    BY <2>4, <2>5, NetAlike DEF Worlds
  <2> HIDE DEF w1
  <2>7. Base(u)
    BY <2>4, KeepsBase
  <2>8. Over(w1)
    <3>1. Good(w1)
      BY <2>6, <2>7, AlikeLeads, LeadsType DEF Base
    <3>2. Queue(w1)
      BY <2>6, <2>7, QueueSame DEF Base
    <3>3. u.conn.cs = "data" /\ AtRest(u)
      BY <2>4 DEF Keeps, Firm, OnLine, AtRest
    <3>4. Session(w1)
      BY <2>4, <2>5, <2>6, <2>7, <3>3 DEF Base, Session
    <3>5. AtRest(w1) /\ Covered(w1)
      BY <2>4, <2>5, <2>6, <3>3 DEF AtRest, Covered
    <3> QED BY <3>1, <3>2, <3>4, <3>5 DEF Over, Base
  <2>9. Sound(w1)
    <3>1. /\ w1.sets = u.sets /\ w1.conn.out = u.conn.out /\ w1.conn.tasks = u.conn.tasks
          /\ w1.net.wire = u.net.wire /\ w1.net.proto = u.net.proto /\ w1.net.sets = u.net.sets
      BY <2>4, <2>5, <2>6
    <3> QED BY <2>4, <3>1, NetSound
  <2> DEFINE x == RemoveTask(w1)
  <2>10. Over(x) /\ Idle(x)
    <3>1. Head(w1.conn.tasks).which = "connect"
      BY <1>1, <2>4, <2>6, KeepsHead
    <3>2. Told(w1)
      BY <3>1 DEF Told
    <3> QED BY <2>8, <3>2, RemoveTaskOver
  <2>11. x.net.proto = "z3950"
    <3>1. Leads(w1, x)
      BY <2>8, RemoveTaskLeads DEF Over, Base
    <3> QED BY <2>5, <2>6, <3>1 DEF Leads
  <2>12. Sound(x)
    <3>1. Good(w1) /\ AtRest(w1)
      BY <2>8 DEF Over, Base
    <3> QED BY <2>9, <3>1, RemoveTaskSound
  <2> HIDE DEF x
  <2>13. Base(x) /\ Rested(x)
    BY <2>10 DEF Over, Rested, Idle
  <2>14. Sound(ExecTask(x, ch))
    BY <2>11, <2>12, <2>13, ExecTaskSound
  <2> QED BY <2>3, <2>14 DEF x
<1> QED BY <1>2, <1>3

\* A request that is answered is the one the client waits for.
LEMMA HandleApduSound ==
  ASSUME NEW w, NEW req \in Requests, Answering(w, req), w.net.proto = "z3950", Sound(w), Aimed(w, req),
         NEW a \in Answers, req.kind = "init" => a.is # "diag",
         req.kind = "search" => a.is \in {"ok", "diag"} /\ (req.num = 0 => a.n = 0), NEW ch \in Choices
  PROVE  Sound(HandleApdu(w, req, a, ch))
<1> DEFINE w1 == Received(w)
           t == Head(w1.conn.tasks)
           s == w.sets[t.rs]
           version == w.net.sets[IF req.name \in Name THEN req.name ELSE Default]
           served == [q |-> req.q, sorted |-> FALSE]
<1>0. w \in Worlds
  BY GoodType DEF Answering, Base
<1>1. /\ w1 \in Worlds /\ Base(w1) /\ AtRest(w1) /\ w1.conn.error = "none" /\ w1.conn.cs = "data" /\ Fits(w1, req)
      /\ w1.conn.tasks = w.conn.tasks /\ w1.sets = w.sets /\ w1.net = w.net /\ w1.conn.tasks # <<>>
      /\ req.kind # "init" => Serving(w1)
  BY ReceivedServing
<1>2. version \in Versions /\ served \in Versions
  <2>1. w.net.sets \in [Name -> Versions] /\ req.q \in Int
    BY <1>0 DEF Worlds, Nets, Requests
  <2> QED BY <2>1, NameCount DEF Versions
<1>3. t \in Tasks /\ req.kind \in Sends(t)
      /\ (t.rs # NoSet => w1.sets[t.rs].name # Unset /\ req.rs = t.rs /\ req.q = s.q)
  BY <1>1, HeadType DEF Fits
<1>4. Sound(w1)
  <2>1. w1 = SetMask(w, {})
    BY DEF Received
  <2> HIDE DEF w1
  <2> QED BY <1>0, <2>1, SmallSound
<1>5. served.q = req.q
  OBVIOUS
<1>6. req.name \in Name => version = w.net.sets[req.name]
  OBVIOUS
<1> HIDE DEF w1, version, served, t
<1>7. ASSUME t.rs \in ResultSet, req.kind \in {"search", "present", "sort"}
      PROVE  /\ w1.sets[t.rs].name # Unset /\ req.q = s.q /\ s \in Sets
             /\ req.name = s.name /\ req.name \in Name /\ Aims(req, s)
  <2>1. t.rs # NoSet
    BY <1>7, ZoomAssumption
  <2>2. w1.sets[t.rs].name # Unset /\ req.rs = t.rs /\ req.q = s.q
    BY <1>3, <2>1
  <2>3. Aims(req, s) /\ req.name = s.name
    <3>1. Aims(req, s)
      BY <1>7, <2>2 DEF Aimed, Uses
    <3> HIDE DEF s
    <3> QED BY <3>1 DEF Aims
  <2>4. s \in Sets
    BY <1>0, <1>7 DEF Worlds
  <2> HIDE DEF s
  <2>5. s.name \in Name \cup {Unset}
    BY <2>4 DEF Sets
  <2>6. s.name # Unset
    BY <1>1, <2>2 DEF s
  <2> QED BY <2>2, <2>3, <2>4, <2>5, <2>6
<1>8. CASE req.kind = "init"
  <2>1. HandleApdu(w, req, a, ch) = HandleInit(w1, a, ch)
    BY <1>8 DEF HandleApdu, w1
  <2>2. t.which = "connect"
    BY <1>3, <1>8 DEF Sends, Tasks, TaskKinds
  <2> QED BY <1>1, <1>4, <1>8, <2>1, <2>2, HandleInitSound DEF t
<1>9. CASE req.kind = "search"
  <2> DEFINE new == IF a.is = "ok" THEN served ELSE NoRecord
             w2 == [w1 EXCEPT !.net.sets[req.name] = new]
             x == HandleSearchResponse(w2, a, served)
             y == SortPresent(x, ch)
  <2>1. HandleApdu(w, req, a, ch) = Finish(y)
    BY <1>9 DEF HandleApdu, w1, served
  <2>2. new \in Versions /\ new.q \in {-1, req.q}
    BY <1>2, <1>5 DEF NoRecord, Versions
  <2>3. t.which = "search" /\ t.rs \in ResultSet
    BY <1>3, <1>9, ZoomAssumption DEF Sends, Tasks, TaskKinds
  <2>4. /\ w1.sets[t.rs].name # Unset /\ req.q = s.q /\ s \in Sets
        /\ req.name = s.name /\ req.name \in Name /\ Aims(req, s)
    BY <1>7, <1>9, <2>3
  <2>41. ~s.live /\ (s.sort => a.n = 0) /\ (a.is # "diag" => new = served)
    <3>1. a.is # "diag" => new = served
      BY <1>9
    <3> HIDE DEF s, new
    <3> QED BY <1>9, <2>4, <3>1 DEF Aims
  <2> HIDE DEF new
  <2>5. /\ w2.sets = w1.sets /\ w2.conn = w1.conn /\ w2.net.wire = w1.net.wire /\ w2.net.proto = w1.net.proto
        /\ w2.net.sets[req.name] = new /\ \A n \in Name : n # req.name => w2.net.sets[n] = w1.net.sets[n]
    BY <1>1, <2>4 DEF Worlds, Nets
  <2>6. Keeps(w1, w2)
    BY <1>1, <1>9, <2>2, NetServing
  <2> HIDE DEF w2
  <2>7. Sound(w2)
    <3>1. ASSUME NEW r \in ResultSet, w1.sets[r].live, w1.sets[r].name \in Name \ {Default}
          PROVE  w2.net.sets[w1.sets[r].name] = w1.net.sets[w1.sets[r].name]
      <4>1. r # t.rs
        BY <1>1, <2>41, <3>1
      <4>2. w.sets[r].name \notin {Unset, Default}
        BY <1>1, <3>1, NameCount DEF Name, Unset
      <4>3. w.sets[r].name # w.sets[t.rs].name
        BY <2>3, <4>1, <4>2 DEF Sound, Own
      <4>4. w1.sets[r].name # req.name /\ w1.sets[r].name \in Name
        BY <1>1, <2>4, <3>1, <4>3
      <4> QED BY <2>5, <4>4
    <3>2. w2.conn.tasks = w1.conn.tasks /\ w2.conn.out = w1.conn.out
      BY <2>5
    <3> QED BY <1>4, <2>5, <3>1, <3>2, NetSound, Zenon
  <2>8. Serving(w2) /\ Head(w2.conn.tasks).which = "search" /\ Head(w2.conn.tasks).rs = t.rs
    BY <1>1, <1>9, <2>3, <2>6, KeepsOver, KeepsHead DEF t
  <2>9. w2.conn.error = "none" /\ w2.sets[t.rs] = s
    BY <1>1, <2>5, <2>6 DEF Keeps, Firm, OnLine
  <2>10. Going(x) /\ (x.conn.tasks # <<>> => Searching(x))
    BY <1>1, <1>2, <2>4, <2>8, <2>9, HandleSearchResponseGoing
  <2>11. Sound(x) /\ SortReady(x)
    <3>1. w2.sets[Head(w2.conn.tasks).rs] = s /\ s.name # Unset /\ w2.net.proto = "z3950"
      BY <1>1, <2>4, <2>5, <2>8, <2>9
    <3>2. w2.net.sets[s.name].q \in {-1, s.q} /\ s.name \in Name
      BY <2>2, <2>4, <2>5
    <3>3. a.is # "diag" => served = w2.net.sets[s.name]
      BY <2>4, <2>41, <2>5
    <3>4. Holds(w2, s)
      BY <3>2 DEF Holds
    <3>5. ~s.live /\ (s.sort => a.n = 0) /\ served \in Versions
      BY <1>2, <2>41
    <3> HIDE DEF s
    <3>6. Finds(w2, a, served)
      BY <3>1, <3>2, <3>3, <3>4, <3>5 DEF Finds
    <3> QED BY <2>7, <2>8, <2>9, <3>6, HandleSearchResponseSound
  <2> HIDE DEF x
  <2>12. Post(y) /\ Sound(y)
    BY <2>10, <2>11, SortPresentPost, SortPresentSound
  <2> HIDE DEF y
  <2> QED BY <2>1, <2>12, FinishSound
<1>10. CASE req.kind = "present"
  <2> DEFINE x == HandleRecords(w1, a, version, TRUE)
             y == Z3950Search(x, ch)
  <2>1. HandleApdu(w, req, a, ch) = Finish(y)
    BY <1>10 DEF HandleApdu, w1, version
  <2>2. t.which = "search" /\ t.rs \in ResultSet
    BY <1>3, <1>10, ZoomAssumption DEF Sends, Tasks, TaskKinds
  <2>3. req.name = s.name /\ req.name \in Name /\ s.live
    <3>1. req.name = s.name /\ req.name \in Name /\ Aims(req, s)
      BY <1>7, <1>10, <2>2
    <3> HIDE DEF s
    <3> QED BY <1>10, <3>1 DEF Aims
  <2>4. Suits(w1, version, s)
    <3>1. version = w1.net.sets[s.name] /\ s.name \in Name /\ w1.net.proto = "z3950" /\ s.live
      BY <1>1, <1>6, <2>3
    <3> HIDE DEF s
    <3> QED BY <1>2, <3>1 DEF Suits
  <2>5. Going(x)
    BY <1>1, <1>2, <1>10, <2>2, HandleRecordsGoing DEF t
  <2>6. Sound(x)
    <3>1. Suits(w1, version, w1.sets[Head(w1.conn.tasks).rs])
      BY <1>1, <2>4 DEF t
    <3> QED BY <1>1, <1>4, <1>10, <2>2, <3>1, HandleRecordsSound DEF t
  <2> HIDE DEF x
  <2>7. Post(y) /\ Sound(y)
    BY <2>5, <2>6, Z3950SearchPost, Z3950SearchSound
  <2> HIDE DEF y
  <2> QED BY <2>1, <2>7, FinishSound
<1>11. CASE req.kind = "sort"
  <2> DEFINE good == [w1 EXCEPT !.net.sets[req.name].sorted = TRUE]
             e == SetError(w1, "diag")
             x == IF a.is = "ok" THEN good ELSE RemoveTasks(e)
             y == Z3950Search(x, ch)
  <2>1. HandleApdu(w, req, a, ch) = Finish(y)
    BY <1>11 DEF HandleApdu, w1
  <2>2. t.which \in {"search", "sort"}
    BY <1>3, <1>11 DEF Sends, Tasks, TaskKinds
  <2>21. t.rs \in ResultSet /\ req.name = s.name /\ req.name \in Name /\ Bare(s)
    <3>1. t.rs \in ResultSet
      BY <1>3, <2>2, ZoomAssumption DEF Tasks
    <3>2. req.name = s.name /\ req.name \in Name /\ Aims(req, s)
      BY <1>7, <1>11, <3>1
    <3> HIDE DEF s
    <3> QED BY <1>11, <3>1, <3>2 DEF Aims
  <2>3. /\ good.sets = w1.sets /\ good.conn = w1.conn /\ good.net.wire = w1.net.wire
        /\ good.net.proto = w1.net.proto /\ \A n \in Name : n # req.name => good.net.sets[n] = w1.net.sets[n]
        /\ good.net.sets[req.name].q = w1.net.sets[req.name].q
    <3> DEFINE held == [w1.net.sets EXCEPT ![req.name].sorted = TRUE]
               k == [w1.net EXCEPT !.sets = held]
    <3>1. w1.net \in Nets /\ w1.net.sets \in [Name -> Versions]
      BY <1>1 DEF Worlds, Nets
    <3>2. (\A n \in Name : n # req.name => held[n] = w1.net.sets[n]) /\ held[req.name].q = w1.net.sets[req.name].q
      BY <2>21, <3>1 DEF Versions
    <3>3. good = [w1 EXCEPT !.net = k]
      OBVIOUS
    <3> HIDE DEF held
    <3>4. k.wire = w1.net.wire /\ k.proto = w1.net.proto /\ k.sets = held
      BY <3>1 DEF Nets
    <3> HIDE DEF k, good
    <3>5. good.sets = w1.sets /\ good.conn = w1.conn /\ good.net = k
      BY <1>1, <3>3 DEF Worlds
    <3> QED BY <3>2, <3>4, <3>5
  <2>4. Keeps(w1, good)
    BY <1>1, <1>2, <1>11, NetServing
  <2> HIDE DEF good
  <2>5. Sound(good)
    <3>1. ASSUME NEW r \in ResultSet, w1.sets[r].live, w1.sets[r].name \in Name \ {Default}
          PROVE  \/ good.net.sets[w1.sets[r].name] = w1.net.sets[w1.sets[r].name]
                 \/ /\ good.net.sets[w1.sets[r].name].q \in {-1, w1.sets[r].q, w1.net.sets[w1.sets[r].name].q}
                    /\ Bare(w1.sets[r])
      <4>1. CASE r = t.rs
        <5>1. w1.sets[r] = s
          BY <1>1, <4>1
        <5> HIDE DEF s
        <5> QED BY <2>3, <2>21, <5>1
      <4>2. CASE r # t.rs
        <5>1. w.sets[r].name \notin {Unset, Default}
          BY <1>1, <3>1, NameCount DEF Name, Unset
        <5>2. w.sets[r].name # w.sets[t.rs].name
          BY <2>21, <4>2, <5>1 DEF Sound, Own
        <5> QED BY <1>1, <2>3, <2>21, <3>1, <5>2
      <4> QED BY <4>1, <4>2
    <3>2. good.conn.tasks = w1.conn.tasks /\ good.conn.out = w1.conn.out
      BY <2>3
    <3> HIDE DEF w1
    <3> QED BY <1>4, <2>3, <3>1, <3>2, NetSound, Zenon
  <2>6. Going(good)
    BY <1>1, <1>11, <2>2, <2>4, KeepsOver, KeepsHead DEF Going, Serving, t
  <2>7. Over(e) /\ Sound(e)
    BY <1>1, <1>4, <1>11, ErrorOver, SmallSound DEF Errors, Serving, Over
  <2> HIDE DEF e
  <2>8. Going(RemoveTasks(e)) /\ Sound(RemoveTasks(e))
    <3>1. e \in Worlds /\ AtRest(e)
      BY <2>7, GoodType DEF Over, Base
    <3> QED BY <2>7, <3>1, RemoveTasksOver, RemoveTasksSound DEF Going
  <2>9. Going(x) /\ Sound(x)
    BY <2>5, <2>6, <2>8
  <2> HIDE DEF x
  <2>10. Post(y) /\ Sound(y)
    BY <2>9, Z3950SearchPost, Z3950SearchSound
  <2> HIDE DEF y
  <2> QED BY <2>1, <2>10, FinishSound
<1>12. CASE req.kind \in {"scan", "package"}
  <2> DEFINE e == SetError(w1, "diag")
             x == IF a.is = "ok" THEN w1 ELSE e
  <2>1. t.which = req.kind
    BY <1>3, <1>12 DEF Sends, Tasks, TaskKinds
  <2>2. HandleApdu(w, req, a, ch) = RemoveTask(x)
    BY <1>1, <1>12, <2>1 DEF HandleApdu, w1, t
  <2>3. Over(w1)
    BY <1>1, <1>12 DEF Serving
  <2>4. Over(e) /\ Sound(e)
    BY <1>1, <1>4, <2>3, ErrorOver, SmallSound DEF Errors, Over
  <2> HIDE DEF e
  <2>5. Over(x) /\ Sound(x)
    BY <1>4, <2>3, <2>4
  <2> HIDE DEF x
  <2>6. Good(x) /\ AtRest(x)
    BY <2>5 DEF Over, Base
  <2> QED BY <2>2, <2>5, <2>6, RemoveTaskSound
<1>13. req.kind # "none"
  BY <1>3 DEF Sends, Tasks, TaskKinds
<1> QED BY <1>8, <1>9, <1>10, <1>11, <1>12, <1>13 DEF Requests

LEMMA AddSrwRecordsSound ==
  ASSUME NEW w \in Worlds, Sound(w), AtRest(w), w.net.proto = "http", w.conn.tasks # <<>>,
         Head(w.conn.tasks).rs \in ResultSet, w.sets[Head(w.conn.tasks).rs].live,
         NEW n \in Nat, NEW q \in Int, q = w.sets[Head(w.conn.tasks).rs].q
  PROVE  Sound(AddSrwRecords(w, n, q))
<1> DEFINE t == Head(w.conn.tasks)
           r == t.rs
           s == w.sets[r]
           fresh == {p \in t.start .. t.start + n - 1 : p \in Position /\ s.cache[p] = NoRecord}
           record == [q |-> q, sorted |-> FALSE]
           cache == [p \in Position |-> IF p \in fresh THEN record ELSE s.cache[p]]
           d == [s EXCEPT !.cache = cache]
           z == [t EXCEPT !.start = @ + n, !.count = IF @ < n THEN 0 ELSE @ - n]
           more == Events("record", n)
           all == w.conn.events \o more
           v == [w EXCEPT !.sets[r].cache = cache, !.conn.tasks[1] = z, !.conn.events = all]
<1>1. AddSrwRecords(w, n, q) = v
  BY DEF AddSrwRecords
<1>2. r \in ResultSet /\ s \in Sets /\ q = s.q /\ s.live
  BY DEF Worlds
<1>3. Alike(w, v)
  <2>1. Keeps(w, AddSrwRecords(w, n, q))
    BY AddSrwRecordsKeeps
  <2> HIDE DEF v
  <2> QED BY <1>1, <2>1 DEF Keeps
<1>4. r \in ToSort(w.conn.tasks) => w.sets[r].crossed
  BY DEF Sound, Lined
<1>5. record.q = q /\ record.sorted = FALSE
  OBVIOUS
<1> HIDE DEF record
<1>6. \A p \in Position : cache[p] \in {record, s.cache[p]}
  <2> HIDE DEF fresh, s
  <2> QED OBVIOUS
<1> HIDE DEF r, z, more, cache
<1>7. d.name = s.name /\ d.q = s.q /\ d.live /\ d.cache = cache /\ d.crossed = s.crossed
  BY <1>2 DEF Sets
<1>8. d = [w.sets[r] EXCEPT !.cache = cache]
  OBVIOUS
<1>9. OwnSet(w, s) /\ EvenSet(w, s)
  BY <1>2, SetOwn, SetEven DEF Sound
<1> HIDE DEF d, s, all
<1>10. OwnSet(w, d)
  <2>1. ASSUME d.name # Default, NEW p \in Position PROVE d.cache[p].q \in {-1, 0, d.q}
    <3>1. s.cache[p].q \in {-1, 0, s.q}
      BY <1>7, <1>9, <2>1 DEF OwnSet
    <3> QED BY <1>2, <1>5, <1>6, <1>7, <3>1
  <2> QED BY <2>1 DEF OwnSet
<1>11. Ordered(d, FALSE)
  <2>1. ASSUME NEW p \in Position, ~d.crossed PROVE d.cache[p].q \in {-1, 0} \/ d.cache[p].sorted = FALSE
    <3>1. s.cache[p].q \in {-1, 0} \/ s.cache[p].sorted = FALSE
      BY <1>7, <1>9, <2>1 DEF EvenSet, Ordered
    <3> QED BY <1>5, <1>6, <1>7, <3>1
  <2> QED BY <2>1 DEF Ordered
<1>12. EvenSet(w, d)
  BY <1>7, <1>11 DEF EvenSet
<1>13. Sound(v)
  BY <1>2, <1>3, <1>4, <1>8, <1>10, <1>12, CacheSound
<1> QED BY <1>1, <1>13

LEMMA HandleSrwSound ==
  ASSUME NEW w, Serving(w), w.conn.error = "none", NEW req \in Requests, Fits(w, req), w.net.proto = "http",
         Sound(w), NEW a \in Answers, NEW ch \in Choices
  PROVE  Sound(HandleSrw(w, req, a, ch))
<1> DEFINE t == Head(w.conn.tasks)
           r == t.rs
           u == IF w.sets[r].live THEN w ELSE PutEvent(w, "search")
           hits == IF a.is = "ok" THEN a.hits ELSE 0
           w1 == Found(u, r, hits)
           mine == w.conn.tasks # <<>> /\ t.which = req.kind
<1>1. w \in Worlds /\ Over(w) /\ w.conn.tasks # <<>>
  BY GoodType DEF Serving, Over, Base
<1>2. CASE ~mine
  <2>1. HandleSrw(w, req, a, ch) = Returns(w, "complete")
    BY <1>2 DEF HandleSrw
  <2> QED BY <1>1, <2>1, SmallSound
<1>3. CASE mine /\ req.kind = "scan"
  <2>1. HandleSrw(w, req, a, ch) = Returns(w, "complete") \/ HandleSrw(w, req, a, ch) = Returns(SetError(w, "diag"), "complete")
    BY <1>3 DEF HandleSrw
  <2>2. Sound(SetError(w, "diag")) /\ SetError(w, "diag") \in Worlds
    BY <1>1, SmallSound, ErrorAlike, AlikeType DEF Errors
  <2> QED BY <1>1, <2>1, <2>2, SmallSound
<1>4. CASE mine /\ req.kind # "scan"
  <2> DEFINE e == SetError(w1, "diag")
             v == AddSrwRecords(w1, a.n, req.q)
  <2>1. HandleSrw(w, req, a, ch) = Returns(e, "complete") \/ HandleSrw(w, req, a, ch) = SrwSendSearch(v, ch)
    BY <1>4 DEF HandleSrw
  <2>2. r \in ResultSet /\ w.sets[r].name # Unset /\ req.q = w.sets[r].q
    <3>1. t \in Tasks /\ t = w.conn.tasks[1] /\ 1 \in DOMAIN w.conn.tasks
      BY <1>1, HeadType
    <3>2. t.which # "package"
      BY <3>1 DEF Serving, Over, Base, Good, NoExtras
    <3>3. t.which \in TaskKinds /\ t.which # "scan"
      BY <1>4, <3>1 DEF Tasks
    <3>4. t.which # "connect"
      BY <1>4 DEF Requests
    <3>5. t.which \in {"search", "sort"}
      BY <3>2, <3>3, <3>4 DEF TaskKinds
    <3>6. r \in ResultSet
      BY <1>1, <3>5, HeadType
    <3> QED BY <3>6, ZoomAssumption DEF Fits
  <2>3. Keeps(w, u) /\ Sound(u) /\ u.sets = w.sets /\ u.net = w.net
    <3>1. Keeps(w, w) /\ Keeps(w, PutEvent(w, "search")) /\ Sound(PutEvent(w, "search"))
      BY <1>1, EventKeeps, KeepsSelf, SmallSound DEF EventKinds
    <3>2. PutEvent(w, "search").sets = w.sets /\ PutEvent(w, "search").net = w.net
      BY <1>1 DEF PutEvent, Worlds
    <3> QED BY <3>1, <3>2
  <2>4. hits \in 0 .. MaxHits /\ a.n \in Nat
    BY ZoomAssumption DEF Answers
  <2> HIDE DEF u, hits, r
  <2>5. u \in Worlds /\ u.sets[r].name # Unset
    BY <2>2, <2>3 DEF Keeps, Alike
  <2>6. Keeps(u, w1) /\ Sound(w1) /\ w1.sets[r].live
    <3>1. Keeps(u, w1)
      BY <2>2, <2>4, <2>5, FoundKeeps
    <3>2. Holds(u, u.sets[r])
      BY <2>3 DEF Holds
    <3>3. AtRest(u)
      BY <1>1, <2>3, KeepsOver DEF Over
    <3>4. Sound(w1) /\ w1.sets[r].live
      <4>1. w1.sets[r].live
        BY <2>2, <2>5 DEF w1, Found, Worlds, Sets
      <4> QED BY <2>2, <2>3, <2>5, <3>2, <3>3, <4>1, FoundSound
    <3> QED BY <3>1, <3>4
  <2> HIDE DEF w1
  <2>7. Keeps(w, w1) /\ w1 \in Worlds
    <3>1. Keeps(w, w1)
      BY <2>3, <2>6, KeepsChain
    <3> QED BY <3>1 DEF Keeps, Alike
  <2>8. Serving(w1) /\ w1.conn.error = "none" /\ w1.conn.tasks # <<>> /\ Head(w1.conn.tasks).rs = r /\ w1.net.proto = "http"
    <3>1. Serving(w1)
      BY <2>7, KeepsOver
    <3>2. w1.conn.tasks # <<>> /\ Head(w1.conn.tasks).rs = r
      BY <1>1, <2>7, KeepsHead DEF r
    <3>3. w1.conn.error = w.conn.error /\ w1.net.proto = w.net.proto
      BY <2>7 DEF Keeps, Firm, OnLine
    <3> QED BY <3>1, <3>2, <3>3
  <2>9. Sound(Returns(e, "complete"))
    <3>1. Sound(e) /\ e \in Worlds
      BY <2>6, <2>7, SmallSound, ErrorAlike, AlikeType DEF Errors
    <3> HIDE DEF e
    <3> QED BY <3>1, SmallSound
  <2>10. req.q \in Int
    BY DEF Requests
  <2>11. Keeps(w1, v) /\ Sound(v)
    <3>1. Keeps(w1, v)
      BY <2>2, <2>4, <2>7, <2>8, <2>10, AddSrwRecordsKeeps
    <3>2. req.q = w1.sets[Head(w1.conn.tasks).rs].q
      BY <2>2, <2>7, <2>8 DEF Keeps, Firm
    <3>3. AtRest(w1)
      BY <2>8 DEF Serving, Over
    <3>4. Sound(v)
      BY <2>2, <2>4, <2>6, <2>7, <2>8, <2>10, <3>2, <3>3, AddSrwRecordsSound
    <3> QED BY <3>1, <3>4
  <2> HIDE DEF v
  <2>12. Serving(v) /\ v.net.proto = "http"
    BY <2>8, <2>11, KeepsOver DEF Keeps, Firm, OnLine
  <2>13. Sound(SrwSendSearch(v, ch))
    BY <2>11, <2>12, SrwSendSearchSound
  <2> QED BY <2>1, <2>9, <2>13
<1> QED BY <1>2, <1>3, <1>4

LEMMA EndHttpSound ==
  ASSUME NEW w, Base(w), Sound(w), NEW e \in {"none", "http", "decode"}, NEW complete \in BOOLEAN,
         NEW mustClose \in BOOLEAN, e # "none" => complete, e = "none" => IF complete THEN Over(w) ELSE Steady(w)
  PROVE  Sound(EndHttp(w, e, complete, mustClose))
<1> DEFINE f == Close(SetError(w, e))
           w1 == IF e = "none" THEN w ELSE f
           w2 == IF complete THEN RemoveTask(w1) ELSE w1
           w3 == Close(w2)
           x == [w2 EXCEPT !.conn.reconnect = TRUE]
<1>1. EndHttp(w, e, complete, mustClose) =
        IF ~mustClose THEN x ELSE IF w3.conn.tasks = <<>> THEN w3 ELSE Resume(w3)
  BY DEF EndHttp
<1>2. w \in Worlds
  BY GoodType DEF Base
<1>3. Sound(w1) /\ (complete => Over(w1)) /\ (~complete => w1 = w)
  <2>1. e # "none" => Over(f) /\ Sound(f)
    BY <1>2, CloseErrorOver, CloseErrorSound DEF Errors
  <2> HIDE DEF f
  <2> QED BY <2>1
<1>4. w1 \in Worlds /\ (complete => Good(w1) /\ AtRest(w1))
  BY <1>2, <1>3, GoodType DEF Over, Base
<1> HIDE DEF w1
<1>5. Sound(w2) /\ w2 \in Worlds
  <2>1. complete => Sound(RemoveTask(w1))
    BY <1>3, <1>4, RemoveTaskSound
  <2>2. complete => RemoveTask(w1) \in Worlds
    BY <1>4, RemoveTaskLeads, LeadsType
  <2> QED BY <1>3, <1>4, <2>1, <2>2
<1> HIDE DEF w2
<1>6. Sound(x) /\ Sound(w3) /\ w3 \in Worlds
  BY <1>5, FieldSound, CloseSound
<1> HIDE DEF x, w3
<1>7. Sound(Resume(w3))
  BY <1>6, ResumeSound
<1> QED BY <1>1, <1>6, <1>7

LEMMA HandleHttpSound ==
  ASSUME NEW w, NEW req \in Requests, Answering(w, req), w.net.proto = "http", Sound(w),
         NEW a \in Answers, a.is \notin {"refused", "redirect"}, NEW ch \in Choices
  PROVE  Sound(HandleHttp(w, req, a, ch))
<1> DEFINE v == Received(w)
           d == [v.conn EXCEPT !.redirects = 0]
           w1 == [v EXCEPT !.conn = d]
           body == HandleSrw(w1, req, a, ch)
<1>1. w.conn.redirects = 0 /\ a.close \in BOOLEAN /\ w \in Worlds
  BY GoodType DEF Answering, Base, Session, Answers
<1>2. /\ v \in Worlds /\ v.conn.error = "none" /\ Fits(v, req) /\ v.net = w.net /\ Serving(v)
  BY ReceivedServing
<1>3. w1 = [v EXCEPT !.conn.redirects = 0]
  OBVIOUS
<1>4. HandleHttp(w, req, a, ch) =
        CASE a.is \in {"http", "decode"} -> EndHttp(w1, a.is, TRUE, a.close)
          [] a.is \in {"ok", "diag"} -> EndHttp(body, "none", body.ret = "complete", a.close)
  <2>1. CASE a.is \in {"http", "decode"}
    <3>1. HandleHttp(w, req, a, ch) = EndHttp(w1, a.is, TRUE, a.close)
      BY <1>3, <2>1 DEF HandleHttp
    <3> QED BY <2>1, <3>1
  <2>2. CASE a.is \in {"ok", "diag"}
    <3>1. HandleHttp(w, req, a, ch) = EndHttp(IF w.conn.redirects > 0 THEN Close(body) ELSE body,
                                             "none", body.ret = "complete", a.close)
      BY <1>3, <2>2 DEF HandleHttp
    <3>2. ~(w.conn.redirects > 0)
      BY <1>1
    <3>3. HandleHttp(w, req, a, ch) = EndHttp(body, "none", body.ret = "complete", a.close)
      BY <3>1, <3>2
    <3> QED BY <2>2, <3>3
  <2> QED BY <2>1, <2>2 DEF Answers
<1>5. Sound(v)
  <2>1. v = SetMask(w, {})
    BY DEF Received
  <2> HIDE DEF v
  <2> QED BY <1>1, <2>1, SmallSound
<1> HIDE DEF v
<1>6. Keeps(v, w1) /\ Sound(w1)
  <2>1. v.conn.redirects = 0
    BY <1>2 DEF Serving, Over, Base, Session
  <2>2. /\ d \in Conns /\ d.tasks = v.conn.tasks /\ d.error = v.conn.error /\ d.cs = v.conn.cs /\ d.proto = v.conn.proto
        /\ d.mask = v.conn.mask /\ d.location = v.conn.location /\ d.redirects = v.conn.redirects
        /\ d.out = v.conn.out /\ d.aborted = v.conn.aborted
    BY <1>2, <2>1 DEF Worlds, Conns
  <2>3. Sound(w1)
    BY <1>2, <1>3, <1>5, FieldSound
  <2> HIDE DEF d
  <2> QED BY <1>2, <2>2, <2>3, ConnKeeps
<1> HIDE DEF w1, d
<1>7. Serving(w1) /\ Fits(w1, req) /\ w1.conn.error = "none" /\ w1.net.proto = "http"
  <2>1. Serving(w1) /\ Fits(w1, req)
    BY <1>2, <1>6, KeepsOver, KeepsFits
  <2>2. w1.conn.error = v.conn.error /\ w1.net.proto = v.net.proto
    BY <1>6 DEF Keeps, Firm, OnLine
  <2> QED BY <1>2, <2>1, <2>2
<1>8. CASE a.is \in {"http", "decode"}
  <2>1. HandleHttp(w, req, a, ch) = EndHttp(w1, a.is, TRUE, a.close)
    BY <1>4, <1>8
  <2>2. Base(w1)
    BY <1>7 DEF Serving, Over
  <2> QED BY <1>1, <1>6, <1>8, <2>1, <2>2, EndHttpSound
<1>9. CASE a.is \in {"ok", "diag"}
  <2> DEFINE complete == body.ret = "complete"
  <2>1. HandleHttp(w, req, a, ch) = EndHttp(body, "none", complete, a.close)
    BY <1>4, <1>9
  <2>2. Post(body) /\ Sound(body)
    BY <1>6, <1>7, HandleSrwPost, HandleSrwSound
  <2> HIDE DEF body
  <2>3. Base(body) /\ complete \in BOOLEAN /\ IF complete THEN Over(body) ELSE Steady(body)
    BY <2>2 DEF Post, Over, Steady
  <2> HIDE DEF complete
  <2> QED BY <1>1, <2>1, <2>2, <2>3, EndHttpSound
<1> QED BY <1>8, <1>9 DEF Answers

-----------------------------------------------------------------------------
(* The steps, as the records go.                                           *)

LEMMA BecomeSound ==
  ASSUME NEW w \in Worlds, Sound(w), Become(w)
  PROVE  Sound(W')
<1>1. W' = Returns(w, "none")
  BY DEF W, Become, Returns, Worlds
<1>2. Sound(Returns(w, "none"))
  BY SmallSound
<1> QED BY <1>1, <1>2

LEMMA RunTaskSound ==
  ASSUME Steady(W), Sound(W), RunTask
  PROVE  Sound(W')
<1>1. Rested(W)
  BY DEF RunTask, Runnable, Steady, UnderWay, Dialing, Fits, W
<1>2. PICK ch \in Choice : Become(ExecTask(W, ch))
  BY DEF RunTask
<1>3. W.net = net
  BY DEF W
<1>4. Sound(ExecTask(W, ch)) /\ Steady(ExecTask(W, ch))
  BY <1>1, <1>3, ChoiceSteady, SteadyType, ExecTaskSteady, ExecTaskSound
<1> QED BY <1>2, <1>4, SteadyType, BecomeSound

LEMMA GetEventSound ==
  ASSUME Steady(W), Sound(W), GetEvent
  PROVE  Sound(W')
<1> DEFINE rest == Tail(conn.events)
           v == [W EXCEPT !.conn.events = rest]
<1>1. W \in Worlds /\ conn.events \in Seq(EventKinds) /\ conn.events # <<>>
  BY SteadyType DEF GetEvent, W, Worlds, Conns
<1>2. rest \in Seq(EventKinds)
  BY <1>1
<1>3. Become(v)
  BY DEF GetEvent, W
<1> HIDE DEF rest
<1>4. Keeps(W, v) /\ Sound(v)
  BY <1>1, <1>2, EventsKeeps, FieldSound
<1> HIDE DEF v
<1>5. v \in Worlds
  BY <1>4, AlikeType DEF Keeps
<1> QED BY <1>3, <1>4, <1>5, BecomeSound

LEMMA EstablishedSound ==
  ASSUME NEW w \in Worlds, Sound(w), Become(IF w.conn.cs # "data" THEN w ELSE [w EXCEPT !.conn.state = "established"])
  PROVE  Sound(W')
<1> DEFINE v == [w EXCEPT !.conn.state = "established"]
<1>1. v \in Worlds /\ Sound(v)
  BY Fields, AlikeType, FieldSound
<1> HIDE DEF v
<1>2. Become(w) \/ Become(v)
  BY DEF v
<1> QED BY <1>1, <1>2, BecomeSound

LEMMA ConnectedSound ==
  ASSUME Steady(W), Sound(W), Connected
  PROVE  Sound(W')
<1> DEFINE u == [W EXCEPT !.conn.cs = "data"]
           w == PutEvent(u, "connect")
           isConnect == conn.tasks # <<>> /\ Head(conn.tasks).which = "connect"
           w1 == IF isConnect THEN SetMask(RemoveTask(w), {}) ELSE w
<1>1. W.conn = conn /\ W.net = net
  BY DEF W
<1>2. W \in Worlds /\ Base(W) /\ conn.cs = "connecting"
  BY SteadyType DEF Connected
<1>3. Dialing(W)
  BY <1>1, <1>2 DEF Steady, Rested, AtRest, UnderWay
<1>4. conn.tasks # <<>> /\ isConnect /\ conn.location = NoRequest /\ conn.proto = net.proto
  BY <1>1, <1>2, <1>3, Zenon DEF Dialing, Base, Session
<1>5. PICK ch \in Choice :
        LET w2 == CASE conn.proto = "z3950" -> SendInit(w, ch)
                    [] conn.proto = "http" /\ conn.tasks = <<>> -> Abort(w)
                    [] conn.proto = "http" /\ conn.tasks # <<>>
                         /\ conn.location # NoRequest ->
                         Send([w1 EXCEPT !.conn.location = NoRequest],
                              conn.location, ch)
                    [] conn.proto = "http" /\ conn.tasks # <<>>
                         /\ conn.location = NoRequest -> ExecTask(w1, ch)
        IN  Become(IF w2.conn.cs # "data" THEN w2
                   ELSE [w2 EXCEPT !.conn.state = "established"])
  BY Zenon DEF Connected
<1>6. ch \in Choices /\ (net.proto = "http" => ch.connect # "now")
  BY ChoiceSteady
<1>7. /\ u.conn.tasks = W.conn.tasks /\ u.sets = W.sets /\ u.net = W.net /\ u.conn.error = W.conn.error
      /\ u.conn.cs = "data" /\ u.conn.out = W.conn.out
  BY <1>2, DataLine
<1>8. Base(u) /\ Sound(u)
  BY <1>1, <1>2, DataBase, FieldSound
<1> HIDE DEF u
<1>9. Keeps(u, w) /\ Sound(w)
  BY <1>8, GoodType, EventKeeps, SmallSound DEF Base, EventKinds
<1> HIDE DEF w
<1>10. Base(w) /\ w \in Worlds /\ Good(w)
  BY <1>8, <1>9, KeepsBase, GoodType DEF Base
<1>11. w.conn.tasks # <<>>
  BY <1>3, <1>7, <1>8, <1>9, GoodType, KeepsHead DEF Base, Dialing
<1>12. w.conn.cs = "data" /\ w.net.wire = <<>> /\ w.conn.out = NoRequest /\ w.net.proto = net.proto
  BY <1>1, <1>3, <1>7, <1>9 DEF Keeps, Firm, OnLine, Dialing
<1>13. CASE net.proto = "z3950"
  <2> DEFINE w2 == SendInit(w, ch)
  <2>1. Sound(w2) /\ w2 \in Worlds
    BY <1>6, <1>9, <1>10, SendInitSound, SendInitLeads, LeadsType
  <2>2. Become(IF w2.conn.cs # "data" THEN w2 ELSE [w2 EXCEPT !.conn.state = "established"])
    BY <1>4, <1>5, <1>13
  <2> HIDE DEF w2
  <2> QED BY <2>1, <2>2, EstablishedSound
<1>14. CASE net.proto = "http"
  <2> DEFINE w2 == ExecTask(w1, ch)
             x == RemoveTask(w)
  <2>1. w1 = SetMask(x, {})
    BY <1>4
  <2>2. Become(IF w2.conn.cs # "data" THEN w2 ELSE [w2 EXCEPT !.conn.state = "established"])
    BY <1>4, <1>5, <1>14
  <2> HIDE DEF w1
  <2>3. Over(w1) /\ Idle(w1)
    BY <1>10, <1>11, <1>12, <1>14, <2>1, DialedOver
  <2>4. Rested(w1) /\ Base(w1)
    BY <2>3 DEF Over, Idle, Rested
  <2>5. Sound(x) /\ x \in Worlds
    BY <1>9, <1>10, <1>12, DropSound, RemoveTaskLeads, LeadsType
  <2> HIDE DEF x
  <2>6. Sound(w1)
    BY <2>1, <2>5, SmallSound
  <2>7. ch.connect # "now"
    BY <1>6, <1>14
  <2>8. Sound(w2) /\ Steady(w2)
    BY <1>6, <2>4, <2>6, <2>7, ExecTaskSound, ExecTaskSteady
  <2> HIDE DEF w2
  <2> QED BY <2>2, <2>8, SteadyType, EstablishedSound
<1>15. net.proto \in {"z3950", "http"}
  BY <1>1, <1>2 DEF Worlds, Nets
<1> QED BY <1>13, <1>14, <1>15

LEMMA OneLeft ==
  ASSUME NEW S, NEW s \in Seq(S), Len(s) = 1
  PROVE  Tail(s) = <<>> /\ 1 \in DOMAIN s
<1>1. s # <<>>
  OBVIOUS
<1>2. Tail(s) \in Seq(S) /\ Len(Tail(s)) = 0
  BY <1>1
<1>3. \A rest \in Seq(S) : Len(rest) = 0 => rest = <<>>
  OBVIOUS
<1>4. 1 \in DOMAIN s
  OBVIOUS
<1> QED BY <1>2, <1>3, <1>4, Zenon

\* The request that is answered is taken from the wire.
LEMMA TakenSound ==
  ASSUME NEW w \in Worlds, Sound(w), w.conn.out = NoRequest, Len(w.net.wire) = 1
  PROVE  LET v == [w EXCEPT !.net.wire = Tail(@)]
         IN  Sound(v) /\ \A req : req = w.net.wire[1] => Aimed(v, req)
<1> DEFINE rest == Tail(w.net.wire)
           k == [w.net EXCEPT !.wire = rest]
           v == [w EXCEPT !.net = k]
<1>1. w.net \in Nets /\ w.net.wire \in Seq(Requests)
  BY DEF Worlds, Nets
<1>2. rest = <<>> /\ 1 \in DOMAIN w.net.wire
  BY <1>1, OneLeft
<1> HIDE DEF rest
<1>3. k.wire = rest /\ k.proto = w.net.proto /\ k.sets = w.net.sets
  BY <1>1 DEF Nets
<1> HIDE DEF k
<1>4. v.conn = w.conn /\ v.sets = w.sets /\ v.net = k
  BY DEF Worlds
<1> HIDE DEF v
<1>5. Sound(v)
  <2>1. Follows(w.conn.tasks, v.conn.tasks)
    BY <1>4, FollowsSelf
  <2> QED BY <1>2, <1>3, <1>4, <2>1, StaysSelf, QuietSound
<1>6. Aimed(w, w.net.wire[1])
  BY <1>2 DEF Sound, Pending
<1>7. Aimed(v, w.net.wire[1])
  BY <1>3, <1>4, <1>6 DEF Aimed
<1> QED BY <1>5, <1>7 DEF v, k, rest

\* A search brings records or a diagnostic, and no records that it did not ask for.
LEMMA SearchAnswers ==
  ASSUME NEW req, req.kind = "search", NEW a \in Z3950Answers(req)
  PROVE  a.is \in {"ok", "diag"} /\ (req.num = 0 => a.n = 0)
<1>1. a = Answer("diag", 0, 0) \/ \E h \in 0 .. MaxHits, n \in 0 .. req.num : a = Answer("ok", h, n)
  BY DEF Z3950Answers
<1>2. \A n \in 0 .. 0 : n = 0
  OBVIOUS
<1> QED BY <1>1, <1>2 DEF Answer

LEMMA AnsweredSound ==
  ASSUME "redirect" \notin Habits, "explain" \notin Habits, Steady(W), Sound(W), Answered
  PROVE  Sound(W')
<1> DEFINE req == Head(net.wire)
           more == <<"recv_data", "recv_apdu">>
           u == [W EXCEPT !.net.wire = Tail(@)]
           all == u.conn.events \o more
           w == [u EXCEPT !.conn.events = all]
<1>1. W.conn = conn /\ W.net = net /\ W.sets = sets
  BY DEF W
<1>2. W \in Worlds /\ Base(W) /\ net.wire \in Seq(Requests)
  BY <1>1, SteadyType DEF Worlds, Nets
<1>3. conn.cs = "data" /\ "read" \in conn.mask /\ net.wire # <<>>
  BY DEF Answered
<1>4. conn.error = "none" /\ conn.out = NoRequest /\ Len(net.wire) = 1 /\ Fits(W, net.wire[1])
  BY <1>1, <1>3 DEF Steady, Rested, AtRest, Dialing, UnderWay
<1>5. req = net.wire[1] /\ req \in Requests
  BY <1>2, <1>3
<1>6. w = [W EXCEPT !.net.wire = Tail(@), !.conn.events = @ \o <<"recv_data", "recv_apdu">>]
  BY DEF W
<1>7. \E ch \in Choice :
        IF net.proto = "z3950"
        THEN \E a \in Z3950Answers(req) : Become(HandleApdu(w, req, a, ch))
        ELSE \E a \in HttpAnswers(req) : Become(HandleHttp(w, req, a, ch))
  <2> HIDE DEF w
  <2> QED BY <1>6 DEF Answered
<1> HIDE DEF req
<1>8. Answering(u, req) /\ u.net.proto = W.net.proto
  BY <1>1, <1>2, <1>3, <1>4, <1>5, TakenAnswering
<1>9. Sound(u) /\ Aimed(u, req)
  BY <1>1, <1>2, <1>4, <1>5, TakenSound
<1>10. u \in Worlds
  BY <1>8, GoodType DEF Answering, Base
<1>11. u.net.proto = net.proto
  <2> HIDE DEF u
  <2> QED BY <1>1, <1>8
<1> HIDE DEF u
<1>12. all \in Seq(EventKinds)
  BY <1>10 DEF EventKinds, Worlds, Conns
<1> HIDE DEF all
<1>13. Keeps(u, w) /\ Sound(w) /\ w.sets = u.sets /\ w.net = u.net
  <2>1. w.sets = u.sets /\ w.net = u.net
    BY <1>10 DEF Worlds
  <2> QED BY <1>9, <1>10, <1>12, <2>1, EventsKeeps, FieldSound
<1> HIDE DEF w
<1>14. Answering(w, req) /\ w.net.proto = net.proto /\ Aimed(w, req)
  <2>1. Answering(w, req)
    BY <1>8, <1>13, KeepsAnswering
  <2> QED BY <1>9, <1>11, <1>13, <2>1 DEF Aimed
<1>15. CASE net.proto = "z3950"
  <2>1. PICK ch \in Choice, a \in Z3950Answers(req) : Become(HandleApdu(w, req, a, ch))
    BY <1>7, <1>15
  <2>2. ch \in Choices /\ a \in Answers /\ (req.kind = "init" => a.is # "diag")
    BY <1>5, ChoiceSteady, PlainAnswers
  <2>3. Steady(HandleApdu(w, req, a, ch))
    BY <1>5, <1>13, <1>14, <1>15, <2>2, HandleApduSteady
  <2>4. req.kind = "search" => a.is \in {"ok", "diag"} /\ (req.num = 0 => a.n = 0)
    BY <2>1, SearchAnswers
  <2>5. Sound(HandleApdu(w, req, a, ch))
    BY <1>5, <1>13, <1>14, <1>15, <2>2, <2>4, HandleApduSound
  <2> QED BY <2>1, <2>3, <2>5, SteadyType, BecomeSound
<1>16. CASE net.proto = "http"
  <2>1. PICK ch \in Choice, a \in HttpAnswers(req) : Become(HandleHttp(w, req, a, ch))
    BY <1>7, <1>16
  <2>2. ch \in Choices /\ a \in Answers /\ a.is \notin {"refused", "redirect"}
    BY <1>5, ChoiceSteady, PlainAnswers
  <2>3. Steady(HandleHttp(w, req, a, ch)) /\ Sound(HandleHttp(w, req, a, ch))
    BY <1>5, <1>13, <1>14, <1>16, <2>2, HandleHttpSteady, HandleHttpSound
  <2> QED BY <2>1, <2>3, SteadyType, BecomeSound
<1>17. net.proto \in {"z3950", "http"}
  BY <1>1, <1>2 DEF Worlds, Nets
<1> QED BY <1>15, <1>16, <1>17

LEMMA EventSound ==
  ASSUME NEW w \in Worlds, Sound(w), NEW kind \in EventKinds
  PROVE  Sound(PutEvent(w, kind)) /\ PutEvent(w, kind) \in Worlds
BY SmallSound, EventAlike, AlikeType

LEMMA ReadFailsSound ==
  ASSUME Steady(W), Sound(W), ReadFails
  PROVE  Sound(W')
<1> DEFINE w == PutEvent(W, "recv_data")
           w1 == PutEvent(w, "recv_apdu")
<1>1. \/ Become(Broken(w, "lost"))
      \/ Become(Broken(w1, "decode"))
      \/ Become(Broken(w1, "lost"))
      \/ Become(Close(SetError(w1, "decode")))
  BY DEF ReadFails
<1>2. W \in Worlds /\ Good(W)
  BY SteadyType
<1>3. Sound(w) /\ w \in Worlds /\ Good(w)
  <2>1. Alike(W, w)
    BY <1>2, EventAlike DEF EventKinds
  <2> QED BY <1>2, <2>1, EventSound, AlikeLeads, LeadsType DEF EventKinds
<1> HIDE DEF w
<1>4. Sound(w1) /\ w1 \in Worlds /\ Good(w1)
  <2>1. Alike(w, w1)
    BY <1>3, EventAlike DEF EventKinds
  <2> QED BY <1>3, <2>1, EventSound, AlikeLeads, LeadsType DEF EventKinds
<1> HIDE DEF w1
<1>5. Sound(Broken(w, "lost")) /\ Sound(Broken(w1, "decode")) /\ Sound(Broken(w1, "lost"))
  BY <1>3, <1>4, BrokenSound DEF Errors
<1>6. Broken(w, "lost") \in Worlds /\ Broken(w1, "decode") \in Worlds /\ Broken(w1, "lost") \in Worlds
  BY <1>3, <1>4, BrokenLeads, LeadsType DEF Errors
<1>7. Sound(Close(SetError(w1, "decode"))) /\ Close(SetError(w1, "decode")) \in Worlds
  BY <1>4, CloseErrorSound DEF Errors
<1> QED BY <1>1, <1>5, <1>6, <1>7, BecomeSound

LEMMA PollSound ==
  ASSUME "redirect" \notin Habits, "explain" \notin Habits, Steady(W), Sound(W), Poll
  PROVE  Sound(W')
<1>1. W.conn = conn /\ Good(W) /\ W \in Worlds
  BY SteadyType DEF W
<1>2. ASSUME NEW kind \in EventKinds, Become(PutEvent(W, kind)) PROVE Sound(W')
  BY <1>1, <1>2, EventSound, BecomeSound
<1>3. CASE StillConnecting \/ ReadSome
  BY <1>2, <1>3 DEF StillConnecting, ReadSome, EventKinds
<1>4. ASSUME NEW e \in {"connect", "timeout"}, NEW kind \in EventKinds,
             Become(Close(SetError(W, e))) \/ Become(PutEvent(Close(SetError(W, e)), kind))
      PROVE  Sound(W')
  <2> DEFINE u == Close(SetError(W, e))
  <2>1. Sound(u) /\ u \in Worlds
    BY <1>1, CloseErrorSound DEF Errors
  <2> HIDE DEF u
  <2>2. Sound(PutEvent(u, kind)) /\ PutEvent(u, kind) \in Worlds
    BY <2>1, EventSound
  <2>3. Become(u) \/ Become(PutEvent(u, kind))
    BY <1>4 DEF u
  <2> QED BY <2>1, <2>2, <2>3, BecomeSound
<1>5. CASE ConnectFails \/ Timeout
  BY <1>4, <1>5 DEF ConnectFails, Timeout, EventKinds
<1>6. CASE WriteMore
  <2>1. PICK ch \in Choice : Become(SendBuf(W, ch))
    BY <1>6 DEF WriteMore
  <2>2. Sound(SendBuf(W, ch)) /\ SendBuf(W, ch) \in Worlds
    BY <1>1, ChoiceSteady, SendBufSound, SendBufLeads, LeadsType
  <2> QED BY <2>1, <2>2, BecomeSound
<1>7. CASE Exception
  <2>1. Become(Broken(W, "lost"))
    BY <1>7 DEF Exception
  <2>2. Sound(Broken(W, "lost")) /\ Broken(W, "lost") \in Worlds
    BY <1>1, BrokenSound, BrokenLeads, LeadsType DEF Errors
  <2> QED BY <2>1, <2>2, BecomeSound
<1> QED BY <1>3, <1>5, <1>6, <1>7, ConnectedSound, AnsweredSound, ReadFailsSound DEF Poll

LEMMA AddTaskSound ==
  ASSUME NEW w \in Worlds, Sound(w), NEW t,
         t.which = "sort" => /\ w.net.proto # "http" /\ Bare(w.sets[t.rs])
                             /\ w.sets[t.rs].crossed \/ \A i \in DOMAIN w.conn.tasks : w.conn.tasks[i].rs # t.rs
  PROVE  Sound(AddTask(w, t))
<1> DEFINE v == AddTask(w, t)
           x == w.conn.tasks
<1>1. v.sets = w.sets /\ v.net = w.net /\ v.conn.out = w.conn.out /\ v.conn.tasks = Append(x, t)
  BY AddTaskLine
<1> HIDE DEF v
<1>2. Own(w) /\ Even(w) /\ Lined(w)
  BY DEF Sound
<1>3. Own(v) /\ Even(v)
  BY <1>1, <1>2, OwnSame, EvenSame
<1>4. x \in Seq(Tasks)
  BY DEF Worlds, Conns
<1>5. /\ ToSort(v.conn.tasks) \subseteq ToSort(x) \cup (IF t.which = "sort" THEN {t.rs} ELSE {})
      /\ \A r \in Crossed(v.conn.tasks) :
           r \in Crossed(x) \/ (t.which = "sort" /\ t.rs = r /\ \E i \in DOMAIN x : x[i].rs = r)
  BY <1>1, <1>4, SortsAppend
<1> HIDE DEF x
<1>6. Lined(v)
  <2>1. \A r \in ToSort(v.conn.tasks) : Bare(v.sets[r])
    BY <1>1, <1>2, <1>5 DEF Lined, x
  <2>2. v.net.proto = "http" => ToSort(v.conn.tasks) = {}
    BY <1>1, <1>2, <1>5 DEF Lined, x
  <2>3. \A r \in Crossed(v.conn.tasks) : v.sets[r].crossed
    BY <1>1, <1>2, <1>5 DEF Lined, x
  <2> QED BY <2>1, <2>2, <2>3 DEF Lined
<1>7. Pending(v) = Pending(w)
  BY <1>1 DEF Pending
<1>8. \A req : Aimed(w, req) => Aimed(v, req)
  BY <1>1 DEF Aimed
<1>9. Sound(v)
  BY <1>3, <1>6, <1>7, <1>8 DEF Sound
<1> QED BY <1>9 DEF v

LEMMA AddPlainSound ==
  ASSUME NEW w \in Worlds, Sound(w), NEW which \in {"connect", "scan", "package"}
  PROVE  Sound(AddTask(w, Plain(which)))
<1> DEFINE t == Plain(which)
<1>1. t.which # "sort"
  BY PlainTask
<1> HIDE DEF t
<1>2. Sound(AddTask(w, t))
  BY <1>1, AddTaskSound
<1> QED BY <1>2 DEF t

\* A set is sorted when it has no records: over no task for it, or it is marked.
Sortable(w, o) ==
  w.net.proto # "http" /\ Bare(w.sets[o]) /\ (w.sets[o].crossed \/ Naming(w.conn.tasks, o) = 0)

LEMMA AddNamingSound ==
  ASSUME NEW w, Good(w), Sound(w), NEW o \in ResultSet, NEW which \in {"search", "sort"}, NEW start \in Nat, NEW count \in Nat,
         which = "sort" => Sortable(w, o)
  PROVE  Sound(Addref(AddTask(w, Task(which, o, start, count)), o))
<1> DEFINE t == Task(which, o, start, count)
           u == AddTask(w, t)
           n == u.sets[o].ref + 1
           d == [u.sets[o] EXCEPT !.ref = n]
           v == [u EXCEPT !.sets[o] = d]
<1>1. t \in Tasks /\ t.which = which /\ t.rs = o
  BY DEF Task, Tasks, TaskKinds
<1>2. v = Addref(u, o)
  BY DEF Addref
<1> HIDE DEF t
<1>3. u \in Worlds /\ Sound(u)
  <2>1. w \in Worlds /\ w.conn.tasks \in Seq(Tasks)
    BY GoodType DEF Worlds, Conns
  <2>2. u \in Worlds
    <3>1. t.which \in {"package", "sort"} => w.net.proto = "z3950"
      BY <1>1, <2>1 DEF Sortable, Worlds, Nets
    <3> QED BY <1>1, <3>1, AddTaskType
  <2>3. which = "sort" => w.sets[o].crossed \/ \A i \in DOMAIN w.conn.tasks : w.conn.tasks[i].rs # o
    BY <2>1, PlacesFinite DEF Sortable
  <2> HIDE DEF u
  <2>4. Sound(AddTask(w, t))
    BY <1>1, <2>1, <2>3, AddTaskSound DEF Sortable
  <2> QED BY <2>2, <2>4 DEF u
<1> HIDE DEF u, n
<1>4. u.sets[o] \in Sets
  BY <1>3 DEF Worlds
<1>5. Stays(u.sets[o], d)
  BY <1>4 DEF Stays, Sets
<1> HIDE DEF d
<1>6. v.sets[o] = d /\ v.net = u.net /\ v.conn = u.conn /\ \A r \in ResultSet : r # o => v.sets[r] = u.sets[r]
  BY <1>3 DEF Worlds
<1> HIDE DEF v
<1>7. \A r \in ResultSet : Stays(u.sets[r], v.sets[r])
  BY <1>5, <1>6, StaysSelf, Zenon
<1>8. Follows(u.conn.tasks, v.conn.tasks) /\ v.conn.out = u.conn.out
  BY <1>6, FollowsSelf
<1>9. Sound(v)
  BY <1>3, <1>6, <1>7, <1>8, SetsSound
<1> QED BY <1>2, <1>9 DEF u, t

LEMMA PrepareHttpSound ==
  ASSUME NEW w \in Worlds, Sound(w)
  PROVE  Sound(PrepareHttp(w))
<1>1. Sound([w EXCEPT !.conn.reconnect = TRUE]) /\ Sound(AddTask(w, Plain("connect")))
  BY FieldSound, AddPlainSound
<1> QED BY <1>1 DEF PrepareHttp

\* No request is under way for a set that no task names.
LEMMA NobodyUses ==
  ASSUME NEW w, Steady(w), NEW r \in ResultSet, Naming(w.conn.tasks, r) = 0, NEW req \in Pending(w)
  PROVE  ~Uses(req, r)
<1>1. w \in Worlds /\ w.conn.tasks \in Seq(Tasks)
  BY SteadyType DEF Worlds, Conns
<1>2. req = NoRequest \/ Fits(w, req)
  <2>1. w.net.wire \in Seq(Requests)
    BY <1>1 DEF Worlds, Nets
  <2>2. CASE w.conn.out = NoRequest /\ w.net.wire = <<>>
    BY <2>2 DEF Pending
  <2>3. CASE UnderWay(w)
    <3>1. req = w.conn.out \/ (req = w.net.wire[1] /\ Len(w.net.wire) = 1)
      BY <2>1, <2>3 DEF Pending, UnderWay
    <3>2. Len(<<>>) = 0
      OBVIOUS
    <3> QED BY <2>3, <3>1, <3>2 DEF UnderWay
  <2> QED BY <2>2, <2>3 DEF Steady, Rested, AtRest, Dialing
<1>3. CASE req = NoRequest
  BY <1>3, NobodysRequest
<1>4. CASE Fits(w, req)
  <2> DEFINE t == Head(w.conn.tasks)
  <2>1. /\ w.conn.tasks # <<>> /\ req.kind \in Sends(t) /\ (t.rs # NoSet => req.rs = t.rs)
    BY <1>4 DEF Fits
  <2>2. t \in Tasks /\ t = w.conn.tasks[1] /\ 1 \in DOMAIN w.conn.tasks
    BY <1>1, <2>1, HeadType
  <2>3. t.rs # r
    BY <1>1, <2>2, PlacesFinite
  <2> HIDE DEF t
  <2>4. t.rs = NoSet => req.kind \notin {"search", "present", "sort"}
    <3>1. t.which \in {"search", "sort"} => t.rs # NoSet
      BY <2>2, ZoomAssumption DEF Tasks
    <3>2. t.which \in TaskKinds
      BY <2>2 DEF Tasks
    <3> QED BY <2>1, <3>1, <3>2 DEF Sends, TaskKinds
  <2> QED BY <2>1, <2>3, <2>4 DEF Uses
<1> QED BY <1>2, <1>3, <1>4

\* A result set of the application changes, begins or ends.
LEMMA ChangeSound ==
  ASSUME NEW w, Steady(w), Sound(w), NEW r \in ResultSet, NEW s,
         Stays(w.sets[r], s) \/ (Fresh(s) /\ Naming(w.conn.tasks, r) = 0)
  PROVE  Sound([w EXCEPT !.sets[r] = s])
<1> DEFINE v == [w EXCEPT !.sets[r] = s]
<1>1. w \in Worlds
  BY SteadyType
<1>2. v.sets[r] = s /\ v.net = w.net /\ v.conn = w.conn /\ \A o \in ResultSet : o # r => v.sets[o] = w.sets[o]
  BY <1>1 DEF Worlds
<1> HIDE DEF v
<1>3. Pending(v) = Pending(w)
  BY <1>2 DEF Pending
<1>4. \A o \in ResultSet : Stays(w.sets[o], v.sets[o])
                           \/ /\ Fresh(v.sets[o]) /\ o \notin ToSort(v.conn.tasks)
                              /\ \A req \in Pending(v) : ~Uses(req, o)
  <2>1. Naming(w.conn.tasks, r) = 0 => \A req \in Pending(w) : ~Uses(req, r)
    BY NobodyUses
  <2>2. Naming(w.conn.tasks, r) = 0 => r \notin ToSort(w.conn.tasks)
    BY <1>1, UnnamedWaits
  <2> QED BY <1>2, <1>3, <2>1, <2>2, StaysSelf, Zenon
<1>5. Calm(w, v)
  <2>1. Follows(w.conn.tasks, v.conn.tasks)
    BY <1>2, FollowsSelf
  <2> QED BY <1>2, <1>3, <1>4, <2>1 DEF Calm
<1>6. Sound(v)
  BY <1>5, CalmSound
<1> QED BY <1>6 DEF v

LEMMA ConnectSound ==
  ASSUME Careless = {}, Steady(W), Sound(W), Connect
  PROVE  Sound(W')
<1> DEFINE u == SetError(W, "none")
           x == [u EXCEPT !.conn.reconnect = TRUE]
           z == AddTask(u, Plain("connect"))
<1>1. W \in Worlds /\ Good(W) /\ W.conn = conn /\ conn.tasks = <<>>
  BY SteadyType DEF Connect, W
<1>2. Become(IF conn.cs # "none" THEN [RemoveTasks(u) EXCEPT !.conn.reconnect = TRUE]
             ELSE AddTask(RemoveTasks(u), Plain("connect")))
  BY DEF Connect
<1>3. /\ u.conn.tasks = W.conn.tasks /\ u.sets = W.sets /\ u.net = W.net
  BY <1>1, ErrorLine
<1>4. u \in Worlds /\ Sound(u)
  <2> DEFINE d == [W.conn EXCEPT !.error = "none"]
  <2>1. d \in Conns
    BY <1>1 DEF Worlds, Conns, Errors
  <2>2. u = [W EXCEPT !.conn = d] /\ Sound(u)
    BY <1>1, SmallSound DEF SetError
  <2> HIDE DEF d, u
  <2> QED BY <1>1, <2>1, <2>2 DEF Worlds
<1> HIDE DEF u
<1>5. RemoveTasks(u) = u
  BY <1>1, <1>3 DEF RemoveTasks
<1>6. Good(u)
  BY <1>1, <1>3, <1>4 DEF Good, RefsOK, NoExtras
<1>7. Sound(x) /\ x \in Worlds
  BY <1>4, FieldSound, Fields, AlikeType
<1>8. Sound(z) /\ z \in Worlds
  <2>1. Calls(u, z)
    BY <1>6, AddPlain
  <2>2. Sound(z)
    BY <1>4, AddPlainSound
  <2> QED BY <2>1, <2>2, CallsType
<1> HIDE DEF x, z
<1>9. Become(x) \/ Become(z)
  BY <1>2, <1>5 DEF x, z
<1> QED BY <1>7, <1>8, <1>9, BecomeSound

\* A task that names a set is added, and becomes.
LEMMA NamingSound ==
  ASSUME NEW w, Good(w), Sound(w), NEW o \in ResultSet, NEW which \in {"search", "sort"}, NEW start \in Nat, NEW count \in Nat,
         which = "sort" => Sortable(w, o), Become(Addref(AddTask(w, Task(which, o, start, count)), o))
  PROVE  Sound(W')
<1> DEFINE v == Addref(AddTask(w, Task(which, o, start, count)), o)
<1>1. Sound(v)
  BY AddNamingSound
<1>2. v \in Worlds
  <2>1. which = "sort" => w.net.proto = "z3950"
    BY GoodType DEF Sortable, Worlds, Nets
  <2> HIDE DEF v
  <2>2. Calls(w, v)
    BY <2>1, AddNaming DEF v
  <2> QED BY <2>2, CallsType
<1> HIDE DEF v
<1> QED BY <1>1, <1>2, BecomeSound DEF v

LEMMA SearchSound ==
  ASSUME Careless = {}, Steady(W), calls \in Nat, Sound(W), NEW r \in ResultSet, NEW start \in Nat, NEW count \in Nat,
         NEW sort \in BOOLEAN, Search(r, start, count, sort)
  PROVE  Sound(W')
<1> DEFINE n == calls + 1
           s == [FreeSet EXCEPT !.ref = 1, !.app = TRUE, !.q = n, !.sort = sort]
           w == [W EXCEPT !.sets[r] = s]
           u == PrepareHttp(w)
<1>1. W.sets[r].ref = 0 /\ Become(Addref(AddTask(u, Task("search", r, start, count)), r)) /\ Ready(W)
  BY MayAddReady DEF Search, W
<1>2. n \in Nat
  OBVIOUS
<1> HIDE DEF n
<1>3. s \in Sets /\ s.ref = 1 /\ s.app /\ ~s.live
  BY <1>2, FreeSetType DEF Sets, FreeSet
<1>4. Fresh(s)
  BY DEF Fresh, FreeSet, NoRecord
<1> HIDE DEF s
<1>5. Naming(W.conn.tasks, r) = 0
  <2>1. Naming(W.conn.tasks, r) \in Nat
    BY SteadyType, PlacesFinite DEF Worlds, Conns
  <2> QED BY <1>1, <2>1, SteadyType DEF Good, RefsOK, Once
<1>6. Good(w)
  <2>1. Good(W)
    BY SteadyType
  <2>2. s.ref = Once(s.app) + Naming(W.conn.tasks, r)
    BY <1>3, <1>5 DEF Once
  <2>3. Calls(W, w)
    BY <2>1, <2>2, <1>3, SetCalls
  <2> QED BY <2>3, CallsType
<1>7. Steady(w) /\ w.conn = W.conn
  BY <1>3, <1>5, <1>6, SetSteady
<1>8. Sound(w)
  BY <1>4, <1>5, ChangeSound
<1> HIDE DEF w
<1>9. Ready(w)
  BY <1>1, <1>7 DEF Ready
<1>10. Good(u) /\ Sound(u)
  BY <1>7, <1>8, <1>9, PrepareHttpSteady, PrepareHttpSound, SteadyType
<1> HIDE DEF u
<1> QED BY <1>1, <1>10, NamingSound

LEMMA RecordsSound ==
  ASSUME Careless = {}, Steady(W), Sound(W), NEW r \in ResultSet, NEW start \in Nat, NEW count \in Nat, Records(r, start, count)
  PROVE  Sound(W')
<1> DEFINE u == PrepareHttp(W)
<1>1. Become(Addref(AddTask(u, Task("search", r, start, count)), r)) /\ Ready(W)
  BY MayAddReady DEF Records
<1>2. Good(u) /\ Sound(u)
  BY <1>1, PrepareHttpSteady, PrepareHttpSound, SteadyType
<1> HIDE DEF u
<1> QED BY <1>1, <1>2, NamingSound

\* The records of a set are forgotten; it is marked if a task is for it.
LEMMA EmptiedSound ==
  ASSUME NEW w \in Worlds, Sound(w), NEW r \in ResultSet, NEW s,
         s.name = w.sets[r].name, s.q = w.sets[r].q, s.live = w.sets[r].live, s.sort = w.sets[r].sort,
         \A p \in Position : s.cache[p].q = -1, s.crossed \/ Naming(w.conn.tasks, r) = 0
  PROVE  Sound([w EXCEPT !.sets[r] = s])
<1> DEFINE v == [w EXCEPT !.sets[r] = s]
<1>1. v.sets[r] = s /\ v.net = w.net /\ v.conn = w.conn /\ \A o \in ResultSet : o # r => v.sets[o] = w.sets[o]
  BY DEF Worlds
<1> HIDE DEF v
<1>2. Apart(w, v, r) /\ Own(w) /\ Even(w) /\ Lined(w)
  BY <1>1 DEF Apart, Sound
<1>3. Bare(s) /\ \A b : Ordered(s, b)
  BY DEF Bare, Ordered
<1>4. OwnSet(w, s)
  <2>1. OwnSet(w, w.sets[r])
    BY <1>2, SetOwn
  <2> QED BY <2>1 DEF OwnSet
<1>5. EvenSet(w, s)
  BY <1>3 DEF EvenSet
<1>6. Own(v) /\ Even(v)
  BY <1>1, <1>2, <1>4, <1>5, OneOwn, OneEven
<1>7. Lined(v)
  <2>1. ASSUME NEW o \in ToSort(v.conn.tasks) PROVE Bare(v.sets[o])
    <3>1. o \in ResultSet
      BY <2>1 DEF ToSort
    <3> QED BY <1>1, <1>2, <1>3, <2>1, <3>1 DEF Lined
  <2>2. ASSUME NEW o \in Crossed(v.conn.tasks) PROVE v.sets[o].crossed
    <3>1. o \in ToSort(w.conn.tasks) /\ o \in ResultSet /\ w.sets[o].crossed
      BY <1>1, <1>2, <2>2, CrossedToSort DEF Lined, Crossed
    <3>2. o = r => s.crossed
      BY <3>1, UnnamedWaits
    <3> QED BY <1>1, <3>1, <3>2
  <2>3. v.net.proto = "http" => ToSort(v.conn.tasks) = {}
    BY <1>1, <1>2 DEF Lined
  <2> QED BY <2>1, <2>2, <2>3 DEF Lined
<1>8. Pending(v) = Pending(w)
  BY <1>1 DEF Pending
<1>9. ASSUME NEW req \in Pending(w), NEW o \in ResultSet, v.net.proto = "z3950", Uses(req, o)
      PROVE  Aims(req, v.sets[o])
  <2>1. Aims(req, w.sets[o])
    BY <1>1, <1>9 DEF Sound, Aimed
  <2>2. Aims(req, w.sets[r]) => Aims(req, s)
    BY <1>3 DEF Aims
  <2> QED BY <1>1, <2>1, <2>2
<1>10. Sound(v)
  BY <1>6, <1>7, <1>8, <1>9 DEF Sound, Aimed
<1> QED BY <1>10 DEF v

LEMMA SortSound ==
  ASSUME Careless = {}, Steady(W), Sound(W), NEW r \in ResultSet, Sort(r)
  PROVE  Sound(W')
<1> DEFINE c == FreeSet.cache
           x == Naming(W.conn.tasks, r) > 0
           s == [W.sets[r] EXCEPT !.cache = c, !.crossed = x]
           u == [W EXCEPT !.sets[r] = s]
<1>1. Become(Addref(AddTask(u, Task("sort", r, 0, 0)), r)) /\ W.net.proto = "z3950"
  <2>1. u = [W EXCEPT !.sets[r].cache = c, !.sets[r].crossed = x]
    BY SteadyType DEF Worlds
  <2> HIDE DEF u, c
  <2>2. W.conn = conn /\ W.net = net
    BY DEF W
  <2> QED BY <2>1, <2>2 DEF Sort, c
<1>2. W.sets[r] \in Sets /\ c \in [Position -> Versions] /\ \A p \in Position : c[p].q = -1
  BY SteadyType, FreeSetType DEF Worlds, Sets, FreeSet, NoRecord
<1> HIDE DEF c
<1>3. W \in Worlds /\ x \in BOOLEAN /\ (x \/ Naming(W.conn.tasks, r) = 0)
  <2>1. W \in Worlds /\ Naming(W.conn.tasks, r) \in Nat
    BY SteadyType, PlacesFinite DEF Worlds, Conns
  <2> QED BY <2>1
<1> HIDE DEF x
<1>4. /\ s \in Sets /\ s.ref = W.sets[r].ref /\ s.app = W.sets[r].app
      /\ s.q = W.sets[r].q /\ s.live = W.sets[r].live /\ s.name = W.sets[r].name /\ s.cache = c
      /\ s.sort = W.sets[r].sort /\ s.crossed = x
  BY <1>2, <1>3 DEF Sets
<1> HIDE DEF s
<1>5. s.ref = Once(s.app) + Naming(W.conn.tasks, r)
  BY <1>4, SteadyType DEF Good, RefsOK
<1>6. Good(u)
  BY <1>4, <1>5, SteadyType, SetCalls, CallsType
<1>7. Sound(u)
  BY <1>2, <1>3, <1>4, EmptiedSound
<1>8. Sortable(u, r)
  <2>1. u.sets[r] = s /\ u.conn = W.conn /\ u.net = W.net
    BY <1>3 DEF Worlds
  <2>2. Bare(s)
    BY <1>2, <1>4 DEF Bare
  <2> QED BY <1>1, <1>3, <1>4, <2>1, <2>2 DEF Sortable
<1> HIDE DEF u
<1>9. Become(Addref(AddTask(u, Task("sort", r, 0, 0)), r)) /\ "sort" \in {"search", "sort"} /\ 0 \in Nat
  BY <1>1
<1> QED BY <1>6, <1>7, <1>8, <1>9, NamingSound

LEMMA DestroySound ==
  ASSUME Steady(W), Sound(W), NEW r \in ResultSet, Destroy(r)
  PROVE  Sound(W')
<1> DEFINE o == W.sets[r]
           s == [o EXCEPT !.app = FALSE]
           new == Unref(s, 1)
           v == [W EXCEPT !.sets[r] = new]
           m == Naming(W.conn.tasks, r)
<1>1. Become(v) /\ o.app
  BY DEF Destroy, W
<1>2. o \in Sets /\ o.ref = Once(o.app) + m /\ m \in Nat
  BY SteadyType, PlacesFinite DEF Good, RefsOK, Worlds, Conns
<1> HIDE DEF o
<1>3. /\ s \in Sets /\ s.ref = o.ref /\ ~s.app /\ s.q = o.q /\ s.live = o.live /\ s.name = o.name
      /\ s.cache = o.cache /\ s.sort = o.sort /\ s.crossed = o.crossed
  BY <1>2 DEF Sets
<1> HIDE DEF s
<1>4. s.ref = m + 1
  BY <1>1, <1>2, <1>3 DEF Once
<1>5. new \in Sets /\ new.ref = Once(new.app) + m
  <2>1. s.ref = Once(s.app) + (m + 1)
    BY <1>3, <1>4, <1>2 DEF Once
  <2> QED BY <1>2, <1>3, <2>1, UnrefCounts
<1>6. Stays(o, new) \/ (Fresh(new) /\ m = 0)
  <2>1. CASE s.ref <= 1
    <3>1. Fresh(FreeSet)
      BY DEF Fresh, FreeSet, NoRecord
    <3> QED BY <1>2, <1>4, <2>1, <3>1 DEF Unref
  <2>2. CASE ~(s.ref <= 1)
    <3>1. new = [s EXCEPT !.ref = @ - 1]
      BY <2>2 DEF Unref
    <3>2. new.name = s.name /\ new.q = s.q /\ new.live = s.live /\ new.cache = s.cache /\ new.sort = s.sort
          /\ new.crossed = s.crossed
      BY <1>3, <3>1 DEF Sets
    <3> HIDE DEF new
    <3> QED BY <1>3, <3>2 DEF Stays
  <2> QED BY <2>1, <2>2
<1> HIDE DEF new
<1>7. Good(v)
  BY <1>5, SteadyType, SetCalls, CallsType
<1>8. Sound(v)
  BY <1>6, ChangeSound DEF o
<1> HIDE DEF v
<1> QED BY <1>1, <1>7, <1>8, GoodType, BecomeSound

LEMMA ApiSound ==
  ASSUME Careless = {}, Steady(W), calls \in Nat, Sound(W), Api
  PROVE  Sound(W')
<1>1. 0 .. MaxHits \subseteq Nat /\ 0 \in Nat
  BY ZoomAssumption
<1>2. ASSUME NEW which \in {"scan", "package"}, which = "package" => W.net.proto = "z3950",
             Become(AddTask(W, Plain(which)))
      PROVE  Sound(W')
  <2>1. Sound(AddTask(W, Plain(which))) /\ AddTask(W, Plain(which)) \in Worlds
    <3>1. Calls(W, AddTask(W, Plain(which)))
      BY <1>2, SteadyType, AddPlain
    <3>2. Sound(AddTask(W, Plain(which)))
      BY SteadyType, AddPlainSound
    <3> QED BY <3>1, <3>2, CallsType
  <2> QED BY <1>2, <2>1, BecomeSound
<1>3. CASE Scan \/ Package
  BY <1>2, <1>3 DEF Scan, Package, W
<1>4. ASSUME NEW r \in ResultSet, Sort(r) \/ Destroy(r) PROVE Sound(W')
  BY <1>4, SortSound, DestroySound
<1>5. ASSUME NEW r \in ResultSet, NEW start \in 0 .. MaxHits, NEW count \in 0 .. MaxHits,
             Records(r, start, count) \/ Search(r, start, count, FALSE)
      PROVE  Sound(W')
  BY <1>1, <1>5, RecordsSound, SearchSound
<1>6. ASSUME NEW r \in ResultSet, NEW count \in 0 .. MaxHits, Search(r, 0, count, TRUE)
      PROVE  Sound(W')
  BY <1>1, <1>6, SearchSound
<1> QED BY <1>3, <1>4, <1>5, <1>6, ConnectSound DEF Api

-----------------------------------------------------------------------------
(* Every record answers the query of its set, in one order.                *)

OwnInv == FlowInv /\ Sound(W)

LEMMA InitOwn ==
  ASSUME Init
  PROVE  OwnInv
<1>1. W.conn = conn /\ W.net = net /\ W.sets = sets
  BY DEF W
<1>2. conn.out = NoRequest /\ net.wire = <<>> /\ \A r \in ResultSet : Fresh(sets[r])
  <2> HIDE DEF NoRequest
  <2> QED BY DEF Init, Fresh, FreeSet, NoRecord
<1>3. Pending(W) = {NoRequest}
  BY <1>1, <1>2 DEF Pending
<1>4. Own(W)
  BY <1>1, <1>2 DEF Own, Fresh
<1>5. Even(W)
  <2>1. \A r \in ResultSet : Bare(W.sets[r]) /\ (\A b : Ordered(W.sets[r], b)) /\ ~W.sets[r].live
    BY <1>1, <1>2, FreshBare DEF Fresh
  <2> QED BY <2>1 DEF Even
<1>6. Lined(W)
  <2>1. W.conn.tasks = <<>>
    BY <1>1 DEF Init
  <2>2. DOMAIN W.conn.tasks = {}
    BY <2>1
  <2>3. ToSort(W.conn.tasks) = {} /\ Crossed(W.conn.tasks) = {}
    BY <2>2 DEF ToSort, Crossed
  <2> QED BY <2>3 DEF Lined
<1>7. Sound(W)
  BY <1>3, <1>4, <1>5, <1>6, NobodysRequest DEF Sound, Aimed
<1> QED BY <1>7, InitFlow DEF OwnInv

LEMMA NextOwn ==
  ASSUME Careless = {}, "redirect" \notin Habits, "explain" \notin Habits, OwnInv, Next
  PROVE  OwnInv'
<1>1. FlowInv'
  BY NextFlow DEF OwnInv
<1>2. Steady(W) /\ Sound(W) /\ calls \in Nat
  BY DEF OwnInv, FlowInv
<1>3. Sound(W')
  BY <1>2, ApiSound, GetEventSound, RunTaskSound, PollSound DEF Next
<1>4. Sound(W)'
  BY <1>3
<1> QED BY <1>1, <1>4 DEF OwnInv

LEMMA OwnAlways ==
  ASSUME Careless = {}, "redirect" \notin Habits, "explain" \notin Habits
  PROVE  Spec => []OwnInv
<1>1. Init => OwnInv
  BY InitOwn
<1>2. ASSUME OwnInv, [Next]_vars PROVE OwnInv'
  <2>1. CASE Next
    BY <1>2, <2>1, NextOwn
  <2>2. CASE UNCHANGED vars
    <3>1. W' = W /\ calls' = calls
      BY <2>2 DEF vars, W
    <3> QED BY <1>2, <3>1 DEF OwnInv, FlowInv
  <2> QED BY <1>2, <2>1, <2>2
<1> QED BY <1>1, <1>2, PTL DEF Spec

\* As long as the server keeps each set under its own name, the records in the
\* cache of a set answer its query: for every number of sets and tasks, however
\* chunks, sorts, lost sessions and names that are used again interleave.  It
\* holds of a careful application and a server with neither of those two habits,
\* because no request can be for a set but the one at the head that has its
\* name, and no two sets share a name of their own.
THEOREM OwnRecordsOnly ==
  ASSUME Careless = {}, "redirect" \notin Habits, "explain" \notin Habits
  PROVE  Spec => []RecordsFromOwnQuery
<1>1. OwnInv => RecordsFromOwnQuery
  <2>1. W.sets = sets
    BY DEF W
  <2> QED BY <2>1 DEF OwnInv, Sound, Own, RecordsFromOwnQuery
<1>2. Spec => []OwnInv
  BY OwnAlways
<1> QED BY <1>1, <1>2, PTL

\* Nor are there records from before a sort and from after it in such a cache,
\* unless the sort was asked for while another task for the set waited: of a
\* careful application and a server with neither of those two habits.  The cache
\* was emptied when the sort was queued; without a task before the sort the set
\* then has no records until it is sorted, and one that is to be sorted when it
\* is found gets none along with the search.  What comes later is in the order
\* the server has the set in by then, and a session that is lost takes that
\* order with it.
THEOREM OneOrderOnly ==
  ASSUME Careless = {}, "redirect" \notin Habits, "explain" \notin Habits
  PROVE  Spec => []OneOrder
<1>1. OwnInv => OneOrder
  <2>1. ASSUME OwnInv, NEW r \in ResultSet, sets[r].name # Default, NEW p \in Position, NEW o \in Position,
               sets[r].cache[p].q > 0, sets[r].cache[o].q = sets[r].cache[p].q, ~sets[r].crossed
        PROVE  sets[r].cache[p].sorted = sets[r].cache[o].sorted
    <3>1. W.sets = sets
      BY DEF W
    <3>2. PICK b \in BOOLEAN : Ordered(sets[r], b)
      BY <2>1, <3>1 DEF OwnInv, Sound, Even
    <3> QED BY <2>1, <3>2 DEF Ordered
  <2> QED BY <2>1 DEF OneOrder
<1>2. Spec => []OwnInv
  BY OwnAlways
<1> QED BY <1>1, <1>2, PTL
=============================================================================
