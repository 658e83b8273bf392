-------------------------- MODULE AssociationProofs --------------------------
(***************************************************************************)
(* For every number of PDUs of every kind: nothing is forgotten by the     *)
(* event loop when it waits, and no backend handle is closed twice or      *)
(* lost, unless the client names a virtual host that is not configured.    *)
(***************************************************************************)
EXTENDS AssociationProperties, Integers, SequenceTheorems, TLAPS

AllKinds == Z3950Kinds \cup HttpKinds
Item == [req : Nat, what : {"none", "response", "close", "torn"}]
Fields == {"state", "init", "version", "control", "backends", "backend", "incoming", "outgoing",
           "getmask", "putmask", "in", "out", "force", "destroyed", "cur", "more", "stale"}

\* The fields of an association, and the types of those that are no flags.
IsAs(a) ==
    /\ DOMAIN a = Fields
    /\ a.state \in {"new", "up", "dead"} /\ a.version \in Nat /\ a.backends \in Int
    /\ a.incoming \in Seq(Nat \ {0}) /\ a.outgoing \in Seq(Item) /\ a.cur \in Nat

\* None of the first n PDUs names a virtual host that is not configured.
Unstrayed(n) == \A i \in 1 .. n : stream[i] \notin Stray

\* What any handler keeps of an association, when the first n PDUs were got: it
\* holds requests among these, is deaf only when dead, and has one backend at
\* most, of a server that is selected, unless the client went astray.
Sane(a, n) ==
    /\ IsAs(a)
    /\ a.cur <= n /\ \A i \in DOMAIN a.incoming : a.incoming[i] <= n
    /\ (~a.in => ~a.getmask) /\ (~a.getmask => a.state = "dead")
    /\ a.backends >= 0 /\ (a.backend => a.backends >= 1)
    /\ Unstrayed(n) => /\ a.backends = IF a.backend THEN 1 ELSE 0
                       /\ (a.init \/ a.backend => a.control)

\* The masks say whether there is something to put.
Masked(a) == /\ a.putmask <=> a.outgoing # <<>>
             /\ a.putmask => a.out

\* No request waits unless another is being handled.
Drained(a) == a.cur = 0 => a.incoming = <<>>

\* A dead association has a last answer to put, or will be found dead.
Ending(a) == a.state = "dead" => a.outgoing # <<>> \/ a.force \/ a.destroyed
Doomed == as.state = "dead" =>
            \/ as.outgoing # <<>> \/ as.force \/ as.destroyed \/ "timeout" \in todo
            \/ client # "open" /\ as.getmask

\* A client speaks one protocol, and only HTTP leaves an association deaf.
OneProtocol ==
    /\ \A i \in DOMAIN stream : stream[i] \in HttpKinds <=> stream[1] \in HttpKinds
    /\ ~as.getmask => stream # <<>> /\ stream[1] \in HttpKinds

NoTrigger == \A i \in 1 .. taken : stream[i] # "trigger"

Surroundings ==
    /\ stream \in Seq(AllKinds) /\ taken \in 0 .. Len(stream)
    /\ client \in {"open", "closed", "reset"}
    /\ todo \subseteq {"input", "output", "except", "timeout"}
    /\ sock \in [partial : Item, room : BOOLEAN]

AInv == /\ Surroundings /\ Sane(as, taken) /\ Masked(as)
        /\ NoTrigger => Drained(as)
        /\ Doomed /\ OneProtocol

-----------------------------------------------------------------------------
(* Steps of the handlers.                                                  *)

\* What NextRequest leaves alone.
Kept(a, b) == /\ b.state = a.state /\ b.init = a.init /\ b.version = a.version
              /\ b.backends = a.backends /\ b.backend = a.backend /\ b.control = a.control
              /\ b.getmask = a.getmask /\ b.in = a.in
              /\ b.force = a.force /\ b.destroyed = a.destroyed

LEMMA NextRequestIs ==
    ASSUME NEW n \in Nat, NEW a, Sane(a, n)
    PROVE  LET b == NextRequest(a)
           IN  /\ Sane(b, n) /\ Drained(b) /\ Kept(a, b)
               /\ b.outgoing = a.outgoing /\ b.putmask = a.putmask /\ b.out = a.out
  <1> DEFINE b == NextRequest(a)
  <1>0. IsAs(a)
    BY DEF Sane
  <1>1. CASE a.incoming = <<>>
    <2>1. b = [a EXCEPT !.cur = 0, !.more = FALSE]
      BY <1>1 DEF NextRequest
    <2>2. /\ IsAs(b) /\ b.cur = 0 /\ b.incoming = a.incoming /\ Kept(a, b)
          /\ b.outgoing = a.outgoing /\ b.putmask = a.putmask /\ b.out = a.out
      BY <1>0, <2>1 DEF IsAs, Fields, Kept
    <2> QED BY <1>1, <2>2 DEF Sane, Drained, Kept
  <1>2. CASE a.incoming # <<>>
    <2> DEFINE q == a.incoming
    <2>1. b = [a EXCEPT !.cur = Head(q), !.incoming = Tail(q)]
      BY <1>0, <1>2 DEF NextRequest, IsAs, Fields
    <2>2. q \in Seq(Nat \ {0}) /\ q # <<>>
      BY <1>0, <1>2 DEF IsAs, Fields
    <2>3. /\ Head(q) \in Nat \ {0} /\ Head(q) = q[1] /\ 1 \in DOMAIN q
          /\ Tail(q) \in Seq(Nat \ {0})
          /\ \A i \in DOMAIN Tail(q) : i + 1 \in DOMAIN q /\ Tail(q)[i] = q[i + 1]
      BY <2>2
    <2>4. /\ IsAs(b) /\ b.cur = Head(q) /\ b.incoming = Tail(q) /\ Kept(a, b)
          /\ b.outgoing = a.outgoing /\ b.putmask = a.putmask /\ b.out = a.out
      BY <1>0, <2>1, <2>3 DEF IsAs, Fields, Kept
    <2>5. b.cur <= n /\ b.cur # 0 /\ \A i \in DOMAIN b.incoming : b.incoming[i] <= n
      BY <2>3, <2>4 DEF Sane
    <2> QED BY <2>4, <2>5 DEF Sane, Drained, Kept
  <1> QED BY <1>1, <1>2

LEMMA RespondIs ==
    ASSUME NEW n \in Nat, NEW a, Sane(a, n), NEW item \in Item
    PROVE  LET b == Respond(a, item)
           IN  /\ Sane(b, n) /\ Masked(b) /\ Drained(b) /\ Kept(a, b)
               /\ b.outgoing = Append(a.outgoing, item) /\ b.outgoing # <<>>
  <1> DEFINE p == [a EXCEPT !.outgoing = Append(@, item), !.out = TRUE,
                            !.putmask = TRUE, !.more = TRUE]
             b == Respond(a, item)
  <1>0. IsAs(a) /\ a.outgoing \in Seq(Item)
    BY DEF Sane, IsAs, Fields
  <1>1. b = NextRequest(p)
    BY DEF Respond
  <1>2. Append(a.outgoing, item) \in Seq(Item) /\ Append(a.outgoing, item) # <<>>
    BY <1>0
  <1>3. /\ IsAs(p) /\ p.outgoing = Append(a.outgoing, item) /\ p.out /\ p.putmask
        /\ p.cur = a.cur /\ p.incoming = a.incoming /\ Kept(a, p)
    BY <1>0, <1>2 DEF IsAs, Fields, Kept
  <1>4. Sane(p, n)
    BY <1>3 DEF Sane, Kept
  <1> HIDE DEF p
  <1>5. /\ Sane(b, n) /\ Drained(b) /\ Kept(p, b)
        /\ b.outgoing = p.outgoing /\ b.putmask /\ b.out
    BY <1>1, <1>3, <1>4, NextRequestIs
  <1>6. Kept(a, b)
    BY <1>3, <1>5 DEF Kept
  <1> QED BY <1>2, <1>3, <1>5, <1>6 DEF Masked

LEMMA DoCloseIs ==
    ASSUME NEW n \in Nat, NEW a, Sane(a, n), NEW i \in Nat
    PROVE  LET b == DoClose(a, i)
           IN  /\ Sane(b, n) /\ Masked(b) /\ Drained(b) /\ Ending(b)
               /\ b.state = "dead" /\ b.getmask = a.getmask /\ b.backend = a.backend
               /\ b.destroyed = a.destroyed /\ b.backends = a.backends
  <1> DEFINE p == [a EXCEPT !.incoming = <<>>, !.outgoing = <<>>, !.state = "dead"]
             b == DoClose(a, i)
             item == [req |-> i, what |-> "close"]
  <1>0. IsAs(a)
    BY DEF Sane
  <1>1. <<>> \in Seq(Nat \ {0}) /\ <<>> \in Seq(Item) /\ DOMAIN (<<>>) = {}
    OBVIOUS
  <1>2. /\ IsAs(p) /\ p.incoming = <<>> /\ p.outgoing = <<>> /\ p.state = "dead"
        /\ p.cur = a.cur /\ p.in = a.in /\ p.getmask = a.getmask /\ p.version = a.version
        /\ p.backend = a.backend /\ p.backends = a.backends
        /\ p.init = a.init /\ p.control = a.control /\ p.destroyed = a.destroyed
    BY <1>0, <1>1 DEF IsAs, Fields
  <1>3. Sane(p, n)
    BY <1>1, <1>2 DEF Sane
  <1>4. CASE a.version >= 3
    <2>1. b = Respond(p, item)
      BY <1>2, <1>4 DEF DoClose
    <2>2. item \in Item
      BY DEF Item
    <2>3. Sane(b, n) /\ Masked(b) /\ Drained(b) /\ Kept(p, b) /\ b.outgoing # <<>>
      BY <1>3, <2>1, <2>2, RespondIs
    <2> QED BY <1>2, <2>3 DEF Ending, Kept
  <1>5. CASE ~(a.version >= 3)
    <2>1. b = [p EXCEPT !.force = TRUE, !.putmask = FALSE, !.cur = 0, !.more = FALSE]
      BY <1>2, <1>5 DEF DoClose
    <2>2. /\ IsAs(b) /\ b.incoming = <<>> /\ b.outgoing = <<>> /\ b.state = "dead"
          /\ b.cur = 0 /\ b.in = a.in /\ b.getmask = a.getmask /\ b.force /\ ~b.putmask
          /\ b.backend = a.backend /\ b.backends = a.backends
          /\ b.init = a.init /\ b.control = a.control /\ b.destroyed = a.destroyed
      BY <1>2, <2>1 DEF IsAs, Fields
    <2>3. Sane(b, n)
      BY <1>1, <2>2 DEF Sane
    <2> QED BY <2>2, <2>3 DEF Masked, Drained, Ending
  <1> QED BY <1>4, <1>5

LEMMA DestroyedIs ==
    ASSUME NEW n \in Nat, NEW a, Sane(a, n)
    PROVE  LET b == Destroyed(a)
           IN  /\ Sane(b, n) /\ Masked(b) /\ Drained(b) /\ Ending(b)
               /\ b.getmask = a.getmask /\ b.destroyed
  <1> DEFINE b == Destroyed(a)
  <1>0. IsAs(a)
    BY DEF Sane
  <1>1. <<>> \in Seq(Nat \ {0}) /\ <<>> \in Seq(Item) /\ DOMAIN (<<>>) = {}
    OBVIOUS
  <1> DEFINE left == IF a.backend /\ a.control THEN a.backends - 1 ELSE a.backends
  <1>2. left \in Int /\ left >= 0 /\ (Unstrayed(n) => left = 0)
    BY <1>0 DEF Sane, IsAs, Fields
  <1>3. /\ IsAs(b) /\ b.incoming = <<>> /\ b.outgoing = <<>> /\ b.state = a.state
        /\ b.cur = 0 /\ b.in = a.in /\ b.getmask = a.getmask /\ ~b.putmask
        /\ b.init = a.init /\ b.control = a.control
        /\ ~b.backend /\ b.backends = left /\ b.destroyed
    BY <1>0, <1>1, <1>2 DEF IsAs, Fields, Destroyed
  <1> HIDE DEF b, left
  <1>4. Sane(b, n)
    BY <1>1, <1>2, <1>3 DEF Sane
  <1> USE DEF b
  <1> QED BY <1>3, <1>4 DEF Masked, Drained, Ending

LEMMA PutAllIs ==
    ASSUME NEW n \in Nat, NEW a, Sane(a, n), Masked(a), a.outgoing # <<>>
    PROVE  LET b == PutAll(a)
           IN  /\ Sane(b, n) /\ Masked(b) /\ Ending(b) /\ b.getmask = a.getmask
               /\ b.cur = a.cur /\ b.incoming = a.incoming /\ b.destroyed = a.destroyed
  <1> DEFINE b == PutAll(a)
             q == a.outgoing
  <1>0. IsAs(a) /\ q \in Seq(Item)
    BY DEF Sane, IsAs, Fields
  <1>1. CASE Len(q) = 1
    <2>0. <<>> \in Seq(Item)
      OBVIOUS
    <2>1. b = [a EXCEPT !.outgoing = <<>>, !.out = FALSE, !.in = a.getmask,
                        !.putmask = FALSE, !.force = @ \/ a.state = "dead"]
      BY <1>1 DEF PutAll
    <2>2. (a.force \/ a.state = "dead") \in BOOLEAN
      OBVIOUS
    <2>3. /\ IsAs(b) /\ b.outgoing = <<>> /\ b.in = a.getmask /\ ~b.putmask
          /\ b.force = (a.force \/ a.state = "dead") /\ b.state = a.state
          /\ b.getmask = a.getmask /\ b.cur = a.cur /\ b.incoming = a.incoming
          /\ b.destroyed = a.destroyed /\ b.backend = a.backend /\ b.backends = a.backends
          /\ b.init = a.init /\ b.control = a.control
      BY <1>0, <2>0, <2>1, <2>2 DEF IsAs, Fields
    <2>4. Sane(b, n)
      BY <2>3 DEF Sane
    <2>5. b.state = "dead" => b.force
      BY <2>3
    <2> QED BY <2>3, <2>4, <2>5 DEF Masked, Ending
  <1>2. CASE Len(q) # 1
    <2>1. b = [a EXCEPT !.outgoing = Tail(@), !.putmask = TRUE]
      BY <1>2 DEF PutAll
    <2>2. Tail(q) \in Seq(Item) /\ Tail(q) # <<>>
      <3>1. Len(q) \in Nat \ {0} /\ Tail(q) \in Seq(Item) /\ Len(Tail(q)) = Len(q) - 1
        BY <1>0, EmptySeq, HeadTailProperties
      <3>2. Len(Tail(q)) # 0
        BY <1>2, <3>1
      <3>3. Len(<<>>) = 0
        OBVIOUS
      <3> QED BY <3>1, <3>2, <3>3
    <2>3. /\ IsAs(b) /\ b.outgoing = Tail(q) /\ b.in = a.in /\ b.putmask
          /\ b.out = a.out /\ b.state = a.state
          /\ b.getmask = a.getmask /\ b.cur = a.cur /\ b.incoming = a.incoming
          /\ b.destroyed = a.destroyed /\ b.backend = a.backend /\ b.backends = a.backends
          /\ b.init = a.init /\ b.control = a.control
      BY <1>0, <2>1, <2>2 DEF IsAs, Fields
    <2>4. Sane(b, n)
      BY <2>3 DEF Sane
    <2> QED BY <2>2, <2>3, <2>4 DEF Masked, Ending
  <1> QED BY <1>1, <1>2

LEMMA TimedOutIs ==
    ASSUME NEW n \in Nat, NEW a, Sane(a, n)
    PROVE  LET b == TimedOut(a)
           IN  Sane(b, n) /\ Masked(b) /\ Drained(b) /\ Ending(b) /\ b.getmask = a.getmask
  <1>1. CASE a.state = "up"
    BY <1>1, DoCloseIs DEF TimedOut
  <1>2. CASE a.state # "up"
    BY <1>2, DestroyedIs DEF TimedOut
  <1> QED BY <1>1, <1>2

\* The PDUs read are queued.
LEMMA EnqueuedIs ==
    ASSUME taken \in Nat, NEW m \in Nat, NEW a, Sane(a, taken), a.getmask
    PROVE  LET b == Enqueued(a, m)
           IN  /\ Sane(b, taken + m) /\ (Masked(a) => Masked(b)) /\ b.getmask
               /\ b.state = a.state /\ b.outgoing = a.outgoing /\ b.cur = a.cur
               /\ b.destroyed = a.destroyed /\ b.force = a.force
  <1> DEFINE new == [i \in 1 .. m |-> taken + i]
             q == a.incoming \o new
             b == Enqueued(a, m)
  <1>0. IsAs(a) /\ a.incoming \in Seq(Nat \ {0})
    BY DEF Sane, IsAs
  <1>1. new \in Seq(Nat \ {0}) /\ Len(new) = m /\ \A i \in 1 .. m : new[i] = taken + i
    <2>1. \A i \in 1 .. m : taken + i \in Nat \ {0}
      OBVIOUS
    <2>2. new \in [1 .. m -> Nat \ {0}]
      BY <2>1
    <2>3. \A i \in 1 .. m : new[i] = taken + i
      OBVIOUS
    <2> HIDE DEF new
    <2>4. new \in Seq(Nat \ {0}) /\ DOMAIN new = 1 .. m
      BY <2>2, SeqDef
    <2>5. Len(new) = m
      BY <2>4, LenProperties
    <2> QED BY <2>3, <2>4, <2>5
  <1>2. q \in Seq(Nat \ {0}) /\ \A i \in DOMAIN q : q[i] <= taken + m
    <2> HIDE DEF new
    <2>1. q \in Seq(Nat \ {0}) /\ Len(q) = Len(a.incoming) + m
      BY <1>0, <1>1, ConcatProperties
    <2>2. ASSUME NEW i \in DOMAIN q PROVE q[i] <= taken + m
      <3>1. CASE i <= Len(a.incoming)
        <4>1. i \in DOMAIN a.incoming /\ q[i] = a.incoming[i]
          BY <1>0, <1>1, <2>1, <3>1
        <4>2. a.incoming[i] <= taken /\ a.incoming[i] \in Nat
          BY <1>0, <4>1 DEF Sane
        <4> QED BY <4>1, <4>2
      <3>2. CASE i > Len(a.incoming)
        <4>1. i - Len(a.incoming) \in 1 .. m /\ q[i] = new[i - Len(a.incoming)]
          BY <1>0, <1>1, <2>1, <3>2
        <4> QED BY <1>1, <4>1
      <3> QED BY <1>0, <2>1, <3>1, <3>2
    <2> QED BY <2>1, <2>2
  <1>3. b = [a EXCEPT !.getmask = TRUE, !.incoming = q]
    BY <1>0 DEF Enqueued, IsAs, Fields
  <1> HIDE DEF q, b
  <1>4. /\ IsAs(b) /\ b.getmask /\ b.incoming = q /\ b.in = a.in /\ b.out = a.out
        /\ b.putmask = a.putmask /\ b.state = a.state /\ b.outgoing = a.outgoing
        /\ b.cur = a.cur /\ b.destroyed = a.destroyed /\ b.force = a.force
        /\ b.backend = a.backend /\ b.backends = a.backends
        /\ b.init = a.init /\ b.control = a.control
    BY <1>0, <1>2, <1>3 DEF IsAs, Fields
  <1>5. a.cur <= taken + m
    BY <1>0 DEF Sane, IsAs
  <1>6. Unstrayed(taken + m) => Unstrayed(taken)
    BY DEF Unstrayed
  <1>7. Sane(b, taken + m)
    BY <1>2, <1>4, <1>5, <1>6 DEF Sane
  <1> QED BY <1>4, <1>7 DEF Masked, b

\* More PDUs were got than an association knows of.
LEMMA SaneMore ==
    ASSUME NEW n \in Nat, NEW k \in Nat, n <= k, NEW a, Sane(a, n)
    PROVE  Sane(a, k)
  <1>1. a.cur \in Nat /\ \A i \in DOMAIN a.incoming : a.incoming[i] \in Nat
    BY DEF Sane, IsAs
  <1>2. a.cur <= k /\ \A i \in DOMAIN a.incoming : a.incoming[i] <= k
    BY <1>1 DEF Sane
  <1>3. Unstrayed(k) => Unstrayed(n)
    BY DEF Unstrayed
  <1> QED BY <1>2, <1>3 DEF Sane

\* After ir_read either the association is ending and nothing waits, or all of
\* the PDUs wait.
LEMMA ReadBatchIs ==
    ASSUME taken \in Nat, NEW m \in Nat \ {0}, NEW a, Sane(a, taken), a.getmask
    PROVE  LET b == ReadBatch(a, m)
           IN  /\ Sane(b, taken + m) /\ b.getmask
               /\ IF stream[taken + m] \in Malformed
                  THEN Masked(b) /\ Drained(b) /\ Ending(b) /\ b.state = "dead"
                  ELSE /\ Masked(a) => Masked(b)
                       /\ b.outgoing = a.outgoing /\ b.state = a.state
                       /\ b.cur = a.cur /\ b.force = a.force /\ b.destroyed = a.destroyed
  <1> DEFINE b == ReadBatch(a, m)
             e == Enqueued(a, m - 1)
             item == [req |-> taken + m, what |-> "response"]
  <1>1. /\ Sane(e, taken + (m - 1)) /\ e.getmask /\ e.state = a.state
    BY EnqueuedIs
  <1>2. Sane(e, taken + m)
    BY <1>1, SaneMore
  <1> HIDE DEF e
  <1>3. CASE stream[taken + m] = "malformed"
    <2>1. b = DoClose(e, taken + m)
      BY <1>3 DEF ReadBatch, e
    <2>2. taken + m \in Nat
      OBVIOUS
    <2> HIDE DEF b
    <2>3. /\ Sane(b, taken + m) /\ Masked(b) /\ Drained(b) /\ Ending(b)
          /\ b.state = "dead" /\ b.getmask = e.getmask
      BY <1>2, <2>1, <2>2, DoCloseIs
    <2> QED BY <1>1, <1>3, <2>3 DEF Malformed, b
  <1>4. CASE stream[taken + m] = "badhttp"
    <2> DEFINE p == [e EXCEPT !.state = "dead"]
    <2>1. b = Respond(p, item)
      BY <1>4 DEF ReadBatch, e
    <2>2. /\ IsAs(p) /\ p.state = "dead" /\ p.in = e.in /\ p.getmask = e.getmask
          /\ p.cur = e.cur /\ p.incoming = e.incoming
          /\ p.backend = e.backend /\ p.backends = e.backends
          /\ p.init = e.init /\ p.control = e.control
      BY <1>2 DEF Sane, IsAs, Fields
    <2> HIDE DEF p
    <2>3. Sane(p, taken + m) /\ item \in Item
      BY <1>2, <2>2 DEF Sane, Item
    <2>4. /\ Sane(b, taken + m) /\ Masked(b) /\ Drained(b) /\ Kept(p, b)
          /\ b.outgoing # <<>>
      BY <2>1, <2>3, RespondIs
    <2> QED BY <1>1, <1>4, <2>2, <2>4 DEF Kept, Ending, Malformed
  <1>5. CASE stream[taken + m] \notin Malformed
    <2>1. b = Enqueued(a, m)
      BY <1>5 DEF ReadBatch, Malformed
    <2> QED BY <1>5, <2>1, EnqueuedIs
  <1> QED BY <1>3, <1>4, <1>5 DEF Malformed

\* A backend is closed when the next one is opened, or none was given.
LEMMA OpenBackendIs ==
    ASSUME NEW n \in Nat, NEW a, Sane(a, n)
    PROVE  LET b == OpenBackend(a)
           IN  /\ Sane(b, n) /\ b.state = a.state /\ b.getmask = a.getmask
  <1> DEFINE b == OpenBackend(a)
             open == IF a.backend THEN a.backends ELSE a.backends + 1
  <1>0. IsAs(a)
    BY DEF Sane
  <1>1. open \in Int /\ open >= 1 /\ (Unstrayed(n) => open = 1)
    BY <1>0 DEF Sane, IsAs, Fields
  <1>2. /\ IsAs(b) /\ b.state = a.state /\ b.getmask = a.getmask /\ b.in = a.in
        /\ b.cur = a.cur /\ b.incoming = a.incoming
        /\ b.backend /\ b.control /\ b.backends = open
    BY <1>0, <1>1 DEF IsAs, Fields, OpenBackend
  <1> HIDE DEF b, open
  <1>3. Sane(b, n)
    BY <1>1, <1>2 DEF Sane
  <1> QED BY <1>2, <1>3 DEF b

LEMMA NoBackendIs ==
    ASSUME NEW n \in Nat, NEW a, Sane(a, n)
    PROVE  LET b == NoBackend(a)
           IN  /\ Sane(b, n) /\ b.state = a.state /\ b.getmask = a.getmask
  <1> DEFINE b == NoBackend(a)
             open == IF a.backend THEN a.backends - 1 ELSE a.backends
  <1>0. IsAs(a)
    BY DEF Sane
  <1>1. open \in Int /\ open >= 0 /\ (Unstrayed(n) => open = 0)
    BY <1>0 DEF Sane, IsAs, Fields
  <1>2. /\ IsAs(b) /\ b.state = a.state /\ b.getmask = a.getmask /\ b.in = a.in
        /\ b.cur = a.cur /\ b.incoming = a.incoming
        /\ ~b.backend /\ b.control /\ b.backends = open
    BY <1>0, <1>1 DEF IsAs, Fields, NoBackend
  <1> HIDE DEF b, open
  <1>3. Sane(b, n)
    BY <1>1, <1>2 DEF Sane
  <1> QED BY <1>2, <1>3 DEF b

\* The state, the version and the memory of a response are changed.
LEMMA SetState ==
    ASSUME NEW n \in Nat, NEW a, Sane(a, n), NEW s \in {"new", "up", "dead"},
           a.getmask \/ s = "dead", NEW b, b = [a EXCEPT !.state = s]
    PROVE  Sane(b, n) /\ b.state = s /\ b.getmask = a.getmask
  <1>0. IsAs(a)
    BY DEF Sane
  <1>1. /\ IsAs(b) /\ b.state = s /\ b.getmask = a.getmask /\ b.in = a.in
        /\ b.cur = a.cur /\ b.incoming = a.incoming
        /\ b.backend = a.backend /\ b.backends = a.backends
        /\ b.init = a.init /\ b.control = a.control
    BY <1>0 DEF IsAs, Fields
  <1> QED BY <1>1 DEF Sane

LEMMA SetDead ==
    ASSUME NEW n \in Nat, NEW a, Sane(a, n), NEW b, b = [a EXCEPT !.state = "dead"]
    PROVE  Sane(b, n) /\ b.state = "dead" /\ b.getmask = a.getmask
  BY SetState

LEMMA SetDeaf ==
    ASSUME NEW n \in Nat, NEW a, Sane(a, n), NEW b, b = [a EXCEPT !.state = "dead", !.getmask = FALSE]
    PROVE  Sane(b, n) /\ b.state = "dead" /\ ~b.getmask
  <1>0. IsAs(a)
    BY DEF Sane
  <1>1. /\ IsAs(b) /\ b.state = "dead" /\ ~b.getmask /\ b.in = a.in
        /\ b.cur = a.cur /\ b.incoming = a.incoming
        /\ b.backend = a.backend /\ b.backends = a.backends
        /\ b.init = a.init /\ b.control = a.control
    BY <1>0 DEF IsAs, Fields
  <1> QED BY <1>1 DEF Sane

LEMMA SetVersion ==
    ASSUME NEW n \in Nat, NEW a, Sane(a, n), NEW v \in {2, 3}, NEW b, b = [a EXCEPT !.version = v]
    PROVE  Sane(b, n) /\ b.getmask = a.getmask
  <1>0. IsAs(a)
    BY DEF Sane
  <1>1. /\ IsAs(b) /\ b.getmask = a.getmask /\ b.in = a.in /\ b.state = a.state
        /\ b.cur = a.cur /\ b.incoming = a.incoming
        /\ b.backend = a.backend /\ b.backends = a.backends
        /\ b.init = a.init /\ b.control = a.control
    BY <1>0 DEF IsAs, Fields
  <1> QED BY <1>1 DEF Sane

LEMMA SetStale ==
    ASSUME NEW n \in Nat, NEW a, Sane(a, n), NEW b, b = [a EXCEPT !.stale = FALSE]
    PROVE  Sane(b, n) /\ b.getmask = a.getmask
  <1>0. IsAs(a)
    BY DEF Sane
  <1>1. /\ IsAs(b) /\ b.getmask = a.getmask /\ b.in = a.in /\ b.state = a.state
        /\ b.cur = a.cur /\ b.incoming = a.incoming
        /\ b.backend = a.backend /\ b.backends = a.backends
        /\ b.init = a.init /\ b.control = a.control
    BY <1>0 DEF IsAs, Fields
  <1> QED BY <1>1 DEF Sane

\* A server is selected, and the backend of another one is closed.
LEMMA ServerChosenIs ==
    ASSUME NEW n \in Nat, NEW a, Sane(a, n), NEW b \in ServerChosen(a)
    PROVE  Sane(b, n) /\ b.getmask = a.getmask
  <1>0. IsAs(a)
    BY DEF Sane
  <1>1. CASE b = [a EXCEPT !.control = TRUE]
    <2>1. /\ IsAs(b) /\ b.state = a.state /\ b.getmask = a.getmask /\ b.in = a.in
          /\ b.cur = a.cur /\ b.incoming = a.incoming
          /\ b.backend = a.backend /\ b.backends = a.backends /\ b.control
      BY <1>0, <1>1 DEF IsAs, Fields
    <2> QED BY <2>1 DEF Sane
  <1>2. CASE /\ a.backend
             /\ b = [a EXCEPT !.control = TRUE, !.init = FALSE, !.backend = FALSE, !.backends = @ - 1]
    <2>1. a.backends \in Int /\ a.backends >= 1 /\ (Unstrayed(n) => a.backends = 1)
      BY <1>0, <1>2 DEF Sane, IsAs
    <2>2. /\ IsAs(b) /\ b.state = a.state /\ b.getmask = a.getmask /\ b.in = a.in
          /\ b.cur = a.cur /\ b.incoming = a.incoming
          /\ ~b.backend /\ b.backends = a.backends - 1 /\ b.control
      BY <1>0, <1>2, <2>1 DEF IsAs, Fields
    <2> QED BY <2>1, <2>2 DEF Sane
  <1> QED BY <1>1, <1>2 DEF ServerChosen

LEMMA SruOpenedIs ==
    ASSUME NEW n \in Nat, NEW a, Sane(a, n), NEW b \in SruOpened(a)
    PROVE  Sane(b, n)
  <1> DEFINE o == OpenBackend(a)
             u == NoBackend(a)
  <1>1. b \in {a, o, [o EXCEPT !.state = "dead"], [u EXCEPT !.state = "dead"]}
    BY DEF SruOpened
  <1>2. Sane(o, n) /\ Sane(u, n)
    BY OpenBackendIs, NoBackendIs
  <1> HIDE DEF o, u
  <1>3. Sane([o EXCEPT !.state = "dead"], n) /\ Sane([u EXCEPT !.state = "dead"], n)
    BY <1>2, SetDead
  <1> QED BY <1>1, <1>2, <1>3

\* The selection is lost, by a client that went astray.
LEMMA NoServerIs ==
    ASSUME NEW n \in Nat, NEW a, Sane(a, n), ~Unstrayed(n),
           NEW b, b = [a EXCEPT !.control = FALSE]
    PROVE  Sane(b, n) /\ b.getmask = a.getmask
  <1>0. IsAs(a)
    BY DEF Sane
  <1>1. /\ IsAs(b) /\ b.state = a.state /\ b.getmask = a.getmask /\ b.in = a.in
        /\ b.cur = a.cur /\ b.incoming = a.incoming
        /\ b.backend = a.backend /\ b.backends = a.backends
    BY <1>0 DEF IsAs, Fields
  <1> QED BY <1>1 DEF Sane

-----------------------------------------------------------------------------
(* The steps of the event loop.                                            *)

LEMMA Basics ==
    ASSUME AInv
    PROVE  /\ Len(stream) \in Nat /\ taken \in Nat /\ taken <= Len(stream)
           /\ taken \in taken .. Len(stream)
           /\ Sane(as, taken) /\ Masked(as) /\ (NoTrigger => Drained(as))
           /\ sock \in [partial : Item, room : BOOLEAN]
           /\ todo \subseteq {"input", "output", "except", "timeout"}
  <1>1. Len(stream) \in Nat /\ taken \in 0 .. Len(stream)
    BY DEF AInv, Surroundings
  <1>2. taken \in Nat /\ taken <= Len(stream) /\ taken \in taken .. Len(stream)
    BY <1>1
  <1> QED BY <1>1, <1>2 DEF AInv, Surroundings

\* What a step of the server has to show.
LEMMA ServerStep ==
    ASSUME AInv, UNCHANGED <<stream, client>>, taken' \in taken .. Len(stream),
           todo' \subseteq {"input", "output", "except", "timeout"},
           sock' \in [partial : Item, room : BOOLEAN],
           Sane(as', taken'), Masked(as'), NoTrigger => Drained(as'),
           as'.state = "dead" => \/ Ending(as') \/ "timeout" \in todo'
                                 \/ client # "open" /\ as'.getmask,
           ~as'.getmask => ~as.getmask \/ (stream # <<>> /\ stream[1] \in HttpKinds)
    PROVE  AInv'
  <1>1. Surroundings'
    BY DEF AInv, Surroundings
  <1>2. Masked(as)' /\ Doomed'
    BY DEF Doomed, Ending
  <1>5. Sane(as, taken)'
    BY DEF Sane, Unstrayed
  <1>3. (NoTrigger => Drained(as))'
    BY DEF NoTrigger, AInv, Surroundings
  <1>4. OneProtocol'
    BY DEF OneProtocol, AInv
  <1> QED BY <1>1, <1>2, <1>3, <1>4, <1>5 DEF AInv

LEMMA EventIs ==
    ASSUME NEW e, NEW a, Event(e, a)
    PROVE  /\ as.cur = 0 /\ as' = a /\ todo' \subseteq todo
           /\ e # "timeout" /\ "timeout" \in todo => a.destroyed \/ "timeout" \in todo'
  BY DEF Event

\* An event that leaves an association that ends or is destroyed.
LEMMA EndingEvent ==
    ASSUME AInv, NEW e, NEW a, Event(e, a), UNCHANGED <<stream, client, taken, sock>>,
           Sane(a, taken), Masked(a), Drained(a), Ending(a), a.getmask = as.getmask
    PROVE  AInv'
  <1>1. as' = a /\ todo' \subseteq todo
    BY EventIs
  <1>2. /\ taken' \in taken .. Len(stream) /\ sock' \in [partial : Item, room : BOOLEAN]
        /\ todo' \subseteq {"input", "output", "except", "timeout"}
    BY <1>1 DEF AInv, Surroundings
  <1> QED BY <1>1, <1>2, ServerStep

\* An event that leaves the association as it was.
LEMMA IdleEvent ==
    ASSUME AInv, NEW e, e # "timeout", Event(e, as), UNCHANGED <<stream, client, taken>>,
           sock' \in [partial : Item, room : BOOLEAN]
    PROVE  AInv'
  <1>1. as' = as /\ todo' \subseteq todo
        /\ ("timeout" \in todo => as.destroyed \/ "timeout" \in todo')
    BY DEF Event
  <1>2. /\ taken' \in taken .. Len(stream)
        /\ todo' \subseteq {"input", "output", "except", "timeout"}
    BY <1>1 DEF AInv, Surroundings
  <1>3. as.state = "dead" => \/ Ending(as) \/ "timeout" \in todo'
                             \/ client # "open" /\ as.getmask
    BY <1>1 DEF AInv, Doomed, Ending
  <1> QED BY <1>1, <1>2, <1>3, ServerStep DEF AInv

\* A handler that leaves an association that ends, or is alive.
LEMMA HandlerStep ==
    ASSUME AInv, HandlerOnly, Sane(as', taken), Masked(as'), Drained(as'), Ending(as'),
           ~as'.getmask => ~as.getmask \/ (stream # <<>> /\ stream[1] \in HttpKinds)
    PROVE  AInv'
  <1>1. /\ taken' \in taken .. Len(stream) /\ sock' \in [partial : Item, room : BOOLEAN]
        /\ todo' \subseteq {"input", "output", "except", "timeout"}
        /\ UNCHANGED <<stream, client>> /\ taken' = taken
    BY DEF AInv, Surroundings, HandlerOnly
  <1> QED BY <1>1, ServerStep

LEMMA PollKeeps == AInv /\ Poll => AInv'
  <1> SUFFICES ASSUME AInv, Poll PROVE AInv'
    OBVIOUS
  <1> DEFINE b == [as EXCEPT !.force = FALSE]
  <1>0. IsAs(as) /\ as' = b /\ todo' = Events /\ todo = {} /\ ~as.destroyed
        /\ UNCHANGED <<stream, client, taken, sock>>
    BY DEF AInv, Sane, Poll, Waiting
  <1>1. /\ IsAs(b) /\ b.state = as.state /\ b.getmask = as.getmask /\ b.in = as.in
        /\ b.cur = as.cur /\ b.incoming = as.incoming /\ b.outgoing = as.outgoing
        /\ b.putmask = as.putmask /\ b.out = as.out
        /\ b.backend = as.backend /\ b.backends = as.backends
        /\ b.init = as.init /\ b.control = as.control
    BY <1>0 DEF IsAs, Fields
  <1> HIDE DEF b
  <1>2. Sane(b, taken) /\ Masked(b) /\ (NoTrigger => Drained(b))
    BY <1>1 DEF AInv, Sane, Masked, Drained
  <1>3. as.state = "dead" => \/ as.outgoing # <<>> \/ as.force
                             \/ client # "open" /\ as.getmask
    BY <1>0 DEF AInv, Doomed
  <1>4. as.force => "timeout" \in todo'
    BY <1>0 DEF Events
  <1>5. b.state = "dead" => \/ Ending(b) \/ "timeout" \in todo'
                            \/ client # "open" /\ b.getmask
    BY <1>1, <1>3, <1>4 DEF Ending
  <1>6. /\ taken' \in taken .. Len(stream) /\ sock' \in [partial : Item, room : BOOLEAN]
        /\ todo' \subseteq {"input", "output", "except", "timeout"}
    BY <1>0, Basics DEF Events
  <1> QED BY <1>0, <1>1, <1>2, <1>5, <1>6, ServerStep

LEMMA IdleKeeps == AInv /\ Idle => AInv'
  <1> SUFFICES ASSUME AInv, Idle PROVE AInv'
    OBVIOUS
  <1>1. as' = as /\ todo' = {"timeout"} /\ UNCHANGED <<stream, client, taken, sock>>
    BY DEF Idle
  <1>2. /\ taken' \in taken .. Len(stream) /\ sock' \in [partial : Item, room : BOOLEAN]
        /\ todo' \subseteq {"input", "output", "except", "timeout"}
    BY <1>1 DEF AInv, Surroundings
  <1>3. Sane(as', taken') /\ Masked(as') /\ (NoTrigger => Drained(as'))
    BY <1>1 DEF AInv
  <1> QED BY <1>1, <1>2, <1>3, ServerStep

LEMMA InputToDeadKeeps == AInv /\ InputToDead => AInv'
  <1> SUFFICES ASSUME AInv, InputToDead PROVE AInv'
    OBVIOUS
  <1>0. taken \in Nat /\ Sane(as, taken) /\ UNCHANGED <<stream, client, taken, sock>>
        /\ sock' \in [partial : Item, room : BOOLEAN]
    BY DEF AInv, Surroundings, InputToDead
  <1>1. CASE as.getmask
    <2>1. Event("input", Destroyed(as))
      BY <1>1 DEF InputToDead
    <2>2. /\ Sane(Destroyed(as), taken) /\ Masked(Destroyed(as)) /\ Drained(Destroyed(as))
          /\ Ending(Destroyed(as)) /\ Destroyed(as).getmask = as.getmask
      BY <1>0, DestroyedIs
    <2> QED BY <1>0, <2>1, <2>2, EndingEvent
  <1>2. CASE ~as.getmask
    <2>1. Event("input", as)
      BY <1>2 DEF InputToDead
    <2> QED BY <1>0, <2>1, IdleEvent
  <1> QED BY <1>1, <1>2

LEMMA InputKeeps == ASSUME NEW n \in Batches PROVE AInv /\ Input(n) => AInv'
  <1> SUFFICES ASSUME AInv, Input(n) PROVE AInv'
    OBVIOUS
  <1> DEFINE a == ReadBatch(as, n)
             bad == stream[taken + n] \in Malformed
             b == IF bad THEN a ELSE NextRequest(a)
  <1>0. /\ taken \in Nat /\ n \in Nat \ {0} /\ taken + n \in Nat
        /\ taken + n \in taken .. Len(stream)
        /\ Sane(as, taken) /\ Masked(as) /\ as.getmask /\ as.state # "dead"
    <2>1. n \in 1 .. Len(stream) - taken
      BY DEF Batches
    <2>2. Len(stream) \in Nat /\ taken \in Nat /\ Sane(as, taken) /\ Masked(as)
      BY Basics
    <2>3. as.getmask /\ as.state # "dead"
      BY DEF Input, Listening
    <2>4. ASSUME NEW l \in Nat, NEW t \in Nat, NEW k \in 1 .. l - t
          PROVE  k \in Nat \ {0} /\ t + k \in Nat /\ t + k \in t .. l
      OBVIOUS
    <2>5. n \in Nat \ {0} /\ taken + n \in Nat /\ taken + n \in taken .. Len(stream)
      BY <2>1, <2>2, <2>4
    <2> QED BY <2>2, <2>3, <2>5
  <1>1. Event("input", b) /\ taken' = taken + n /\ UNCHANGED <<stream, client, sock>>
    BY DEF Input
  <1>2. as' = b /\ todo' \subseteq todo
    BY <1>1 DEF Event
  <1>3. /\ Sane(a, taken + n) /\ a.getmask
        /\ IF bad THEN Masked(a) /\ Drained(a) /\ Ending(a)
           ELSE Masked(a) /\ a.state = as.state
    BY <1>0, ReadBatchIs
  <1> HIDE DEF a, bad
  <1>4. /\ Sane(b, taken + n) /\ b.getmask /\ Masked(b) /\ Drained(b)
        /\ b.state = "dead" => Ending(b)
    <2>1. CASE bad
      BY <1>3, <2>1
    <2>2. CASE ~bad
      <3> DEFINE r == NextRequest(a)
      <3>1. /\ Sane(r, taken + n) /\ Drained(r) /\ Kept(a, r)
            /\ r.outgoing = a.outgoing /\ r.putmask = a.putmask /\ r.out = a.out
        BY <1>0, <1>3, NextRequestIs
      <3>2. b = r
        BY <2>2
      <3> HIDE DEF r, b
      <3> QED BY <1>0, <1>3, <2>2, <3>1, <3>2 DEF Masked, Kept
    <2> QED BY <2>1, <2>2
  <1> HIDE DEF b
  <1>5. /\ taken' \in taken .. Len(stream) /\ sock' \in [partial : Item, room : BOOLEAN]
        /\ todo' \subseteq {"input", "output", "except", "timeout"}
    BY <1>0, <1>1, <1>2 DEF AInv, Surroundings
  <1> QED BY <1>1, <1>2, <1>4, <1>5, ServerStep

LEMMA InputIncompleteKeeps == AInv /\ InputIncomplete => AInv'
  <1> SUFFICES ASSUME AInv, InputIncomplete PROVE AInv'
    OBVIOUS
  <1>1. Event("input", as) /\ UNCHANGED <<stream, client, taken>>
        /\ sock' \in [partial : Item, room : BOOLEAN]
    BY DEF InputIncomplete, AInv, Surroundings
  <1> QED BY <1>1, IdleEvent

LEMMA InputEndsKeeps == AInv /\ InputEnds => AInv'
  <1> SUFFICES ASSUME AInv, InputEnds PROVE AInv'
    OBVIOUS
  <1> DEFINE b == [as EXCEPT !.state = "dead"]
  <1>0. IsAs(as) /\ as' = b /\ todo' \subseteq todo /\ as.getmask /\ client # "open"
        /\ UNCHANGED <<stream, client, taken, sock>>
    BY DEF AInv, Sane, InputEnds, Event, Listening, AtEnd
  <1>1. /\ IsAs(b) /\ b.state = "dead" /\ b.getmask = as.getmask /\ b.in = as.in
        /\ b.cur = as.cur /\ b.incoming = as.incoming /\ b.outgoing = as.outgoing
        /\ b.putmask = as.putmask /\ b.out = as.out
        /\ b.backend = as.backend /\ b.backends = as.backends
        /\ b.init = as.init /\ b.control = as.control
    BY <1>0 DEF IsAs, Fields
  <1> HIDE DEF b
  <1>2. Sane(b, taken) /\ Masked(b) /\ (NoTrigger => Drained(b))
    BY <1>1 DEF AInv, Sane, Masked, Drained
  <1>3. /\ taken' \in taken .. Len(stream) /\ sock' \in [partial : Item, room : BOOLEAN]
        /\ todo' \subseteq {"input", "output", "except", "timeout"}
    BY <1>0 DEF AInv, Surroundings
  <1> QED BY <1>0, <1>1, <1>2, <1>3, ServerStep

LEMMA OutputKeeps == AInv /\ Output => AInv'
  <1> SUFFICES ASSUME AInv, Output PROVE AInv'
    OBVIOUS
  <1> DEFINE b == PutAll(as)
  <1>0. /\ taken \in Nat /\ Sane(as, taken) /\ Masked(as) /\ as.outgoing # <<>>
        /\ NoTrigger => Drained(as)
    BY Basics DEF Output, Masked
  <1>1. as' = b /\ todo' \subseteq todo /\ UNCHANGED <<stream, client, taken>>
        /\ sock' = [sock EXCEPT !.partial = Nothing]
    BY DEF Output, Event
  <1>2. /\ Sane(b, taken) /\ Masked(b) /\ Ending(b) /\ b.getmask = as.getmask
        /\ b.cur = as.cur /\ b.incoming = as.incoming
    BY <1>0, PutAllIs
  <1> HIDE DEF b
  <1>3. Nothing \in Item
    BY DEF Nothing, Item
  <1>4. /\ taken' \in taken .. Len(stream) /\ sock' \in [partial : Item, room : BOOLEAN]
        /\ todo' \subseteq {"input", "output", "except", "timeout"}
    BY <1>1, <1>3 DEF AInv, Surroundings
  <1>5. NoTrigger => Drained(b)
    BY <1>0, <1>2 DEF Drained
  <1> QED BY <1>1, <1>2, <1>4, <1>5, ServerStep

LEMMA OutputIncompleteKeeps == AInv /\ OutputIncomplete => AInv'
  <1> SUFFICES ASSUME AInv, OutputIncomplete PROVE AInv'
    OBVIOUS
  <1>1. as.outgoing \in Seq(Item) /\ as.outgoing # <<>>
    BY DEF AInv, Sane, IsAs, Masked, OutputIncomplete
  <1>2. Head(as.outgoing) \in Item
    BY <1>1, HeadTailProperties
  <1>3. [Head(as.outgoing) EXCEPT !.what = "torn"] \in Item
    BY <1>2 DEF Item
  <1>4. Putting \in Item
    BY <1>2, <1>3 DEF Putting
  <1>5. Event("output", as) /\ UNCHANGED <<stream, client, taken>>
        /\ sock' \in [partial : Item, room : BOOLEAN]
    BY <1>4 DEF OutputIncomplete
  <1> QED BY <1>5, IdleEvent

LEMMA OutputFailsKeeps == AInv /\ OutputFails => AInv'
  <1> SUFFICES ASSUME AInv, OutputFails PROVE AInv'
    OBVIOUS
  <1>1. taken \in Nat /\ Sane(as, taken) /\ Event("output", Destroyed(as))
        /\ UNCHANGED <<stream, client, taken, sock>>
    BY Basics DEF OutputFails
  <1>2. /\ Sane(Destroyed(as), taken) /\ Masked(Destroyed(as)) /\ Drained(Destroyed(as))
        /\ Ending(Destroyed(as)) /\ Destroyed(as).getmask = as.getmask
    BY <1>1, DestroyedIs
  <1> QED BY <1>1, <1>2, EndingEvent

LEMMA OutputIgnoredKeeps == AInv /\ OutputIgnored => AInv'
  <1> SUFFICES ASSUME AInv, OutputIgnored PROVE AInv'
    OBVIOUS
  <1>1. Event("output", as) /\ UNCHANGED <<stream, client, taken>>
        /\ sock' \in [partial : Item, room : BOOLEAN]
    BY DEF OutputIgnored, AInv, Surroundings
  <1> QED BY <1>1, IdleEvent

LEMMA ExceptKeeps == AInv /\ Except => AInv'
  <1> SUFFICES ASSUME AInv, Except PROVE AInv'
    OBVIOUS
  <1>1. taken \in Nat /\ Sane(as, taken) /\ Event("except", Destroyed(as))
        /\ UNCHANGED <<stream, client, taken, sock>>
    BY Basics DEF Except
  <1>2. /\ Sane(Destroyed(as), taken) /\ Masked(Destroyed(as)) /\ Drained(Destroyed(as))
        /\ Ending(Destroyed(as)) /\ Destroyed(as).getmask = as.getmask
    BY <1>1, DestroyedIs
  <1> QED BY <1>1, <1>2, EndingEvent

LEMMA TimeoutKeeps == AInv /\ Timeout => AInv'
  <1> SUFFICES ASSUME AInv, Timeout PROVE AInv'
    OBVIOUS
  <1>1. taken \in Nat /\ Sane(as, taken) /\ Event("timeout", TimedOut(as))
        /\ UNCHANGED <<stream, client, taken, sock>>
    BY Basics DEF Timeout
  <1>2. /\ Sane(TimedOut(as), taken) /\ Masked(TimedOut(as)) /\ Drained(TimedOut(as))
        /\ Ending(TimedOut(as)) /\ TimedOut(as).getmask = as.getmask
    BY <1>1, TimedOutIs
  <1> QED BY <1>1, <1>2, EndingEvent

-----------------------------------------------------------------------------
(* The steps of the handlers.                                              *)

\* The PDU that is handled is one that was got, of the client's protocol.
LEMMA HandlingIs ==
    ASSUME AInv, NEW K \in SUBSET AllKinds, Handling(K)
    PROVE  /\ taken \in Nat /\ Sane(as, taken) /\ Masked(as)
           /\ as.cur \in Nat /\ as.cur \in 1 .. taken
           /\ Answer \in Item /\ [Answer EXCEPT !.what = "torn"] \in Item
           /\ K \subseteq HttpKinds => stream # <<>> /\ stream[1] \in HttpKinds
           /\ K \cap HttpKinds = {} => as.getmask
           /\ K \subseteq Stray => ~Unstrayed(taken)
  <1>1. /\ taken \in Nat /\ Sane(as, taken) /\ Masked(as) /\ taken <= Len(stream)
        /\ Len(stream) \in Nat /\ stream \in Seq(AllKinds)
    BY Basics DEF AInv, Surroundings
  <1>2. as.cur \in Nat /\ as.cur # 0 /\ as.cur <= taken /\ stream[as.cur] \in K
    BY <1>1 DEF Sane, IsAs, Handling
  <1>3. Answer \in Item /\ [Answer EXCEPT !.what = "torn"] \in Item
    BY <1>2 DEF Answer, Item
  <1>a. ASSUME NEW t \in Nat, NEW c \in Nat, c # 0, c <= t PROVE c \in 1 .. t
    BY <1>a
  <1>6. as.cur \in 1 .. taken
    BY <1>1, <1>2, <1>a
  <1>b. \A l, t \in Nat : \A c \in 1 .. t : t <= l => c \in 1 .. l /\ l # 0
    OBVIOUS
  <1>c. as.cur \in 1 .. Len(stream) /\ Len(stream) # 0
    BY <1>1, <1>6, <1>b
  <1>4. as.cur \in DOMAIN stream /\ stream # <<>>
    BY <1>1, <1>c, LenProperties, EmptySeq
  <1>5. stream[as.cur] \in HttpKinds <=> stream[1] \in HttpKinds
    BY <1>4 DEF AInv, OneProtocol
  <1>7. K \subseteq Stray => ~Unstrayed(taken)
    BY <1>2, <1>6 DEF Unstrayed
  <1> QED BY <1>1, <1>2, <1>3, <1>4, <1>5, <1>6, <1>7 DEF AInv, OneProtocol

\* A handler that closes the session, or responds.
LEMMA ClosingStep ==
    ASSUME AInv, HandlerOnly, NEW a, Sane(a, taken), NEW i \in Nat,
           as' = DoClose(a, i), a.getmask = as.getmask
    PROVE  AInv'
  <1>1. taken \in Nat
    BY Basics
  <1>2. /\ Sane(as', taken) /\ Masked(as') /\ Drained(as') /\ Ending(as')
        /\ as'.getmask = a.getmask
    BY <1>1, DoCloseIs
  <1> QED BY <1>2, HandlerStep

LEMMA RespondingStep ==
    ASSUME AInv, HandlerOnly, NEW a, Sane(a, taken), NEW item \in Item,
           as' = Respond(a, item),
           ~a.getmask => ~as.getmask \/ (stream # <<>> /\ stream[1] \in HttpKinds)
    PROVE  AInv'
  <1>1. taken \in Nat
    BY Basics
  <1>2. /\ Sane(as', taken) /\ Masked(as') /\ Drained(as') /\ as'.outgoing # <<>>
        /\ Kept(a, as')
    BY <1>1, RespondIs
  <1>3. Ending(as') /\ as'.getmask = a.getmask
    BY <1>2 DEF Ending, Kept
  <1> QED BY <1>2, <1>3, HandlerStep

LEMMA InitRequestKeeps == AInv /\ InitRequest => AInv'
  <1> SUFFICES ASSUME AInv, InitRequest PROVE AInv'
    OBVIOUS
  <1>1. Handling({"init"}) /\ HandlerOnly
    BY DEF InitRequest
  <1>2. {"init"} \in SUBSET AllKinds /\ {"init"} \cap HttpKinds = {}
    BY DEF AllKinds, Z3950Kinds, HttpKinds
  <1>3. /\ taken \in Nat /\ Sane(as, taken) /\ as.cur \in Nat /\ Answer \in Item
        /\ as.getmask
    BY <1>1, <1>2, HandlingIs
  <1>4. ASSUME NEW v \in {2, 3}, NEW s \in {"up", "dead"},
               as' = Respond([OpenBackend(as) EXCEPT !.version = v, !.state = s], Answer)
        PROVE  AInv'
    <2> DEFINE o == OpenBackend(as)
               p == [o EXCEPT !.version = v]
               q == [p EXCEPT !.state = s]
    <2>1. Sane(o, taken) /\ o.getmask
      BY <1>3, OpenBackendIs
    <2> HIDE DEF o
    <2>2. s \in {"new", "up", "dead"} /\ taken \in Nat
      BY <1>3
    <2>3. p = [o EXCEPT !.version = v] /\ q = [p EXCEPT !.state = s]
      OBVIOUS
    <2> HIDE DEF p, q
    <2>6. Sane(p, taken) /\ p.getmask
      BY <2>1, <2>2, <2>3, SetVersion
    <2>7. Sane(q, taken) /\ q.getmask
      <3>1. q = [p EXCEPT !.state = s] /\ (p.getmask \/ s = "dead")
        BY <2>3, <2>6
      <3>2. Sane(q, taken) /\ q.getmask = p.getmask
        BY <2>2, <2>6, <3>1, SetState
      <3> QED BY <2>6, <3>2
    <2>4. IsAs(o) /\ q = [o EXCEPT !.version = v, !.state = s]
      BY <2>1 DEF Sane, IsAs, Fields, p, q
    <2>5. as' = Respond(q, Answer)
      BY <1>4, <2>4 DEF o
    <2> QED BY <1>1, <1>3, <2>5, <2>7, RespondingStep
  <1>5. CASE as' = DoClose(NoBackend(as), as.cur)
    <2>1. Sane(NoBackend(as), taken) /\ NoBackend(as).getmask = as.getmask
      BY <1>3, NoBackendIs
    <2> QED BY <1>1, <1>3, <1>5, <2>1, ClosingStep
  <1> QED BY <1>4, <1>5 DEF InitRequest

LEMMA RequestKeeps == AInv /\ Request => AInv'
  <1> SUFFICES ASSUME AInv, Request PROVE AInv'
    OBVIOUS
  <1> DEFINE p == [as EXCEPT !.stale = FALSE]
  <1>1. Handling({"search"}) /\ HandlerOnly
    BY DEF Request
  <1>2. {"search"} \in SUBSET AllKinds
    BY DEF AllKinds, Z3950Kinds
  <1>3. /\ taken \in Nat /\ Sane(as, taken) /\ as.cur \in Nat /\ Answer \in Item
        /\ [Answer EXCEPT !.what = "torn"] \in Item
    BY <1>1, <1>2, HandlingIs
  <1>4. Sane(p, taken) /\ p.getmask = as.getmask
    BY <1>3, SetStale
  <1>5. \/ as' = DoClose(as, as.cur) \/ as' = Respond(p, Answer)
        \/ as' = Respond(p, [Answer EXCEPT !.what = "torn"]) \/ as' = DoClose(p, as.cur)
    BY DEF Request
  <1> HIDE DEF p
  <1>6. CASE as' = DoClose(as, as.cur)
    BY <1>1, <1>3, <1>6, ClosingStep
  <1>7. CASE as' = DoClose(p, as.cur)
    BY <1>1, <1>3, <1>4, <1>7, ClosingStep
  <1>8. CASE as' = Respond(p, Answer)
    BY <1>1, <1>3, <1>4, <1>8, RespondingStep
  <1>9. CASE as' = Respond(p, [Answer EXCEPT !.what = "torn"])
    BY <1>1, <1>3, <1>4, <1>9, RespondingStep
  <1> QED BY <1>5, <1>6, <1>7, <1>8, <1>9

LEMMA UnsupportedKeeps == AInv /\ Unsupported => AInv'
  <1> SUFFICES ASSUME AInv, Unsupported PROVE AInv'
    OBVIOUS
  <1>1. Handling({"unsupported"}) /\ HandlerOnly /\ as' = DoClose(as, as.cur)
    BY DEF Unsupported
  <1>2. {"unsupported"} \in SUBSET AllKinds
    BY DEF AllKinds, Z3950Kinds
  <1>3. Sane(as, taken) /\ as.cur \in Nat
    BY <1>1, <1>2, HandlingIs
  <1> QED BY <1>1, <1>3, ClosingStep

LEMMA TriggerKeeps == AInv /\ Trigger => AInv'
  <1> SUFFICES ASSUME AInv, Trigger PROVE AInv'
    OBVIOUS
  <1> DEFINE p == [as EXCEPT !.cur = 0]
             r == NextRequest(as)
  <1>1. Handling({"trigger"}) /\ HandlerOnly
    BY DEF Trigger
  <1>2. {"trigger"} \in SUBSET AllKinds
    BY DEF AllKinds, Z3950Kinds
  <1>3. /\ taken \in Nat /\ Sane(as, taken) /\ Masked(as) /\ as.cur \in Nat
        /\ as.cur \in 1 .. taken
    BY <1>1, <1>2, HandlingIs
  <1>4. ~NoTrigger
    BY <1>1, <1>3 DEF Handling, NoTrigger
  <1>5. as' \in {DoClose(as, as.cur), r, p}
    BY DEF Trigger
  <1>6. /\ taken' \in taken .. Len(stream) /\ sock' \in [partial : Item, room : BOOLEAN]
        /\ todo' \subseteq {"input", "output", "except", "timeout"}
        /\ UNCHANGED <<stream, client, taken, todo>>
    BY <1>1, Basics DEF HandlerOnly
  <1>7. ASSUME NEW b, as' = b, Sane(b, taken), Kept(as, b), b.outgoing = as.outgoing,
               b.putmask = as.putmask, b.out = as.out
        PROVE  AInv'
    <2>1. Masked(b) /\ b.getmask = as.getmask
      BY <1>3, <1>7 DEF Masked, Kept
    <2>2. b.state = "dead" => \/ Ending(b) \/ "timeout" \in todo'
                              \/ client # "open" /\ b.getmask
      BY <1>6, <1>7 DEF AInv, Doomed, Ending, Kept
    <2> QED BY <1>4, <1>6, <1>7, <2>1, <2>2, ServerStep
  <1>8. CASE as' = DoClose(as, as.cur)
    BY <1>1, <1>3, <1>8, ClosingStep
  <1>9. CASE as' = r
    <2>1. /\ Sane(r, taken) /\ Kept(as, r)
          /\ r.outgoing = as.outgoing /\ r.putmask = as.putmask /\ r.out = as.out
      BY <1>3, NextRequestIs
    <2> HIDE DEF r
    <2> QED BY <1>7, <1>9, <2>1
  <1>10. CASE as' = p
    <2>0. IsAs(as)
      BY <1>3 DEF Sane
    <2>1. /\ IsAs(p) /\ Kept(as, p) /\ p.cur = 0 /\ p.incoming = as.incoming
          /\ p.outgoing = as.outgoing /\ p.putmask = as.putmask /\ p.out = as.out
      BY <2>0 DEF IsAs, Fields, Kept
    <2> HIDE DEF p
    <2>2. p.cur <= taken
      BY <1>3, <2>1
    <2>3. Sane(p, taken)
      BY <1>3, <2>1, <2>2 DEF Sane, Kept
    <2> QED BY <1>7, <1>10, <2>1, <2>3
  <1> QED BY <1>5, <1>8, <1>9, <1>10

LEMMA CloseRequestKeeps == AInv /\ CloseRequest => AInv'
  <1> SUFFICES ASSUME AInv, CloseRequest PROVE AInv'
    OBVIOUS
  <1> DEFINE p == [as EXCEPT !.version = 3]
  <1>1. /\ Handling({"close"}) /\ HandlerOnly
        /\ as' \in {DoClose(as, as.cur), DoClose(p, as.cur)}
    BY DEF CloseRequest
  <1>2. {"close"} \in SUBSET AllKinds
    BY DEF AllKinds, Z3950Kinds
  <1>3. taken \in Nat /\ Sane(as, taken) /\ as.cur \in Nat
    BY <1>1, <1>2, HandlingIs
  <1>a. p = [as EXCEPT !.version = 3] /\ 3 \in {2, 3}
    OBVIOUS
  <1> HIDE DEF p
  <1>4. Sane(p, taken) /\ p.getmask = as.getmask
    BY <1>3, <1>a, SetVersion
  <1>5. CASE as' = DoClose(as, as.cur)
    BY <1>1, <1>3, <1>5, ClosingStep
  <1>6. CASE as' = DoClose(p, as.cur)
    BY <1>1, <1>3, <1>4, <1>6, ClosingStep
  <1> QED BY <1>1, <1>5, <1>6

LEMMA HttpAnsweredStep ==
    ASSUME AInv, HandlerOnly, NEW K \in SUBSET HttpKinds, Handling(K), NEW a, Sane(a, taken),
           as' = HttpAnswered(a)
    PROVE  AInv'
  <1>1. K \in SUBSET AllKinds /\ K \subseteq HttpKinds
    BY DEF AllKinds
  <1>2. /\ taken \in Nat /\ Answer \in Item /\ stream # <<>> /\ stream[1] \in HttpKinds
    BY <1>1, HandlingIs
  <1> DEFINE c == [a EXCEPT !.state = "dead", !.getmask = FALSE]
  <1>3. Sane(c, taken)
    BY <1>2, SetDeaf
  <1>4. as' = Respond(c, Answer) \/ as' = Respond(a, Answer)
    BY DEF HttpAnswered
  <1> HIDE DEF c
  <1> QED BY <1>2, <1>3, <1>4, RespondingStep

LEMMA HttpRequestKeeps == AInv /\ HttpRequest => AInv'
  <1> SUFFICES ASSUME AInv, HttpRequest PROVE AInv'
    OBVIOUS
  <1>1. Handling({"http", "httpclose"}) /\ HandlerOnly
    BY DEF HttpRequest
  <1>2. {"http", "httpclose"} \in SUBSET HttpKinds
    BY DEF HttpKinds
  <1>3. taken \in Nat /\ Sane(as, taken)
    BY Basics
  <1>4. PICK b \in ServerChosen(as) : \E a \in SruOpened(b) : as' = HttpAnswered(a)
    BY DEF HttpRequest
  <1>5. PICK a \in SruOpened(b) : as' = HttpAnswered(a)
    BY <1>4
  <1>6. Sane(b, taken)
    BY <1>3, ServerChosenIs
  <1>7. Sane(a, taken)
    BY <1>3, <1>6, SruOpenedIs
  <1> QED BY <1>1, <1>2, <1>5, <1>7, HttpAnsweredStep

LEMMA StrayInitIs ==
    ASSUME AInv, Handling({"strayinit"}), NEW v \in {2, 3},
           NEW b, b = [as EXCEPT !.init = TRUE, !.control = FALSE, !.backend = FALSE,
                                 !.version = v, !.state = "dead"]
    PROVE  Sane(b, taken) /\ b.getmask /\ Answer \in Item
  <1>1. /\ {"strayinit"} \in SUBSET AllKinds /\ {"strayinit"} \cap HttpKinds = {}
        /\ {"strayinit"} \subseteq Stray
    BY DEF AllKinds, Z3950Kinds, HttpKinds, Stray
  <1>2. /\ Sane(as, taken) /\ Answer \in Item /\ as.getmask /\ ~Unstrayed(taken)
    BY <1>1, HandlingIs
  <1>3. IsAs(as) /\ as.backends >= 0
    BY <1>2 DEF Sane
  <1>4. v \in Nat
    OBVIOUS
  <1>5. /\ IsAs(b) /\ b.getmask = as.getmask /\ b.in = as.in /\ b.state = "dead"
        /\ b.cur = as.cur /\ b.incoming = as.incoming
        /\ ~b.backend /\ b.backends = as.backends
    BY <1>3, <1>4 DEF IsAs, Fields
  <1>6. Sane(b, taken)
    BY <1>2, <1>3, <1>5 DEF Sane
  <1> QED BY <1>2, <1>5, <1>6

LEMMA StrayInitKeeps == AInv /\ StrayInit => AInv'
  <1> SUFFICES ASSUME AInv, StrayInit PROVE AInv'
    OBVIOUS
  <1>1. Handling({"strayinit"}) /\ HandlerOnly
    BY DEF StrayInit
  <1>2. PICK v \in {2, 3} :
          as' = Respond([as EXCEPT !.init = TRUE, !.control = FALSE, !.backend = FALSE,
                                   !.version = v, !.state = "dead"], Answer)
    BY DEF StrayInit
  <1> DEFINE b == [as EXCEPT !.init = TRUE, !.control = FALSE, !.backend = FALSE,
                             !.version = v, !.state = "dead"]
  <1>3. Sane(b, taken) /\ b.getmask /\ Answer \in Item
    BY <1>1, StrayInitIs
  <1>4. as' = Respond(b, Answer)
    BY <1>2
  <1> HIDE DEF b
  <1> QED BY <1>1, <1>3, <1>4, RespondingStep

LEMMA StrayRequestKeeps == AInv /\ StrayRequest => AInv'
  <1> SUFFICES ASSUME AInv, StrayRequest PROVE AInv'
    OBVIOUS
  <1> DEFINE b == [as EXCEPT !.control = FALSE]
  <1>1. Handling({"strayclose"}) /\ HandlerOnly /\ as' = HttpAnswered(b)
    BY DEF StrayRequest
  <1>2. /\ {"strayclose"} \in SUBSET AllKinds /\ {"strayclose"} \in SUBSET HttpKinds
        /\ {"strayclose"} \subseteq Stray
    BY DEF AllKinds, HttpKinds, Stray
  <1>3. taken \in Nat /\ Sane(as, taken) /\ ~Unstrayed(taken)
    BY <1>1, <1>2, HandlingIs
  <1>4. Sane(b, taken)
    BY <1>3, NoServerIs
  <1> HIDE DEF b
  <1> QED BY <1>1, <1>2, <1>4, HttpAnsweredStep

\* Only a client that named a host that is not configured makes the server fail.
LEMMA AstrayIs ==
    ASSUME AInv, Astray
    PROVE  ~Unstrayed(taken)
  <1>0. taken \in Nat /\ Sane(as, taken)
    BY Basics
  <1>1. as.cur \in Nat /\ as.cur # 0 /\ as.cur <= taken
    BY <1>0 DEF Sane, IsAs, Astray
  <1>2. as.cur \in 1 .. taken
    <2>1. \A t, c \in Nat : c # 0 /\ c <= t => c \in 1 .. t
      OBVIOUS
    <2> QED BY <1>0, <1>1, <2>1
  <1>3. CASE stream[as.cur] = "strayhttp"
    BY <1>2, <1>3 DEF Unstrayed, Stray
  <1>4. CASE (as.init \/ as.backend) /\ ~as.control
    BY <1>0, <1>4 DEF Sane
  <1> QED BY <1>3, <1>4 DEF Astray

LEMMA CrashKeeps == AInv /\ Crash => AInv'
  <1> SUFFICES ASSUME AInv, Crash PROVE AInv'
    OBVIOUS
  <1> DEFINE p == [as EXCEPT !.control = FALSE]
  <1>1. /\ as' = Destroyed(p) /\ todo' = {} /\ UNCHANGED <<stream, client, taken, sock>>
        /\ Astray
    BY DEF Crash
  <1>2. taken \in Nat /\ Sane(as, taken) /\ ~Unstrayed(taken)
    BY <1>1, Basics, AstrayIs
  <1>3. Sane(p, taken) /\ p.getmask = as.getmask
    BY <1>2, NoServerIs
  <1> HIDE DEF p
  <1>4. /\ Sane(as', taken) /\ Masked(as') /\ Drained(as') /\ Ending(as')
        /\ as'.getmask = as.getmask
    BY <1>1, <1>2, <1>3, DestroyedIs
  <1>5. /\ taken' \in taken .. Len(stream) /\ sock' \in [partial : Item, room : BOOLEAN]
        /\ taken' = taken
    BY <1>1, Basics
  <1> QED BY <1>1, <1>4, <1>5, ServerStep

LEMMA IsAliveKeeps == AInv /\ IsAlive => AInv'
  <1> SUFFICES ASSUME AInv, IsAlive PROVE AInv'
    OBVIOUS
  <1>1. /\ Handling({"search"}) /\ as.state # "dead"
        /\ UNCHANGED <<stream, client, todo, sock>>
    BY DEF IsAlive
  <1>2. /\ {"search"} \in SUBSET AllKinds /\ {"search"} \cap HttpKinds = {}
    BY DEF AllKinds, Z3950Kinds, HttpKinds
  <1>3. /\ taken \in Nat /\ Sane(as, taken) /\ Masked(as) /\ as.cur \in Nat
        /\ as.cur \in 1 .. taken /\ as.getmask
    BY <1>1, <1>2, HandlingIs
  <1>4. /\ todo' \subseteq {"input", "output", "except", "timeout"}
        /\ sock' \in [partial : Item, room : BOOLEAN]
        /\ Len(stream) \in Nat /\ taken \in taken .. Len(stream)
    BY <1>1, Basics
  <1>5. ASSUME NEW n \in Batches, taken' = taken + n, NEW more, NEW stale,
               as' = [ReadBatch(as, n) EXCEPT !.cur = as.cur, !.more = more, !.stale = stale]
        PROVE  AInv'
    <2> DEFINE a == ReadBatch(as, n)
               b == [a EXCEPT !.cur = as.cur, !.more = more, !.stale = stale]
    <2>1. n \in Nat \ {0} /\ taken + n \in Nat /\ taken + n \in taken .. Len(stream)
      <3>1. n \in 1 .. Len(stream) - taken
        BY DEF Batches
      <3> QED BY <1>3, <1>4, <3>1
    <2>2. /\ Sane(a, taken + n) /\ a.getmask /\ Masked(a)
          /\ a.state = "dead" => Ending(a)
      <3>1. /\ Sane(a, taken + n) /\ a.getmask
            /\ IF stream[taken + n] \in Malformed
               THEN Masked(a) /\ Ending(a)
               ELSE (Masked(as) => Masked(a)) /\ a.state = as.state
        BY <1>3, <2>1, ReadBatchIs
      <3> HIDE DEF a
      <3> QED BY <1>1, <1>3, <3>1
    <2> HIDE DEF a
    <2>3. IsAs(a)
      BY <2>2 DEF Sane
    <2>4. /\ IsAs(b) /\ b.cur = as.cur /\ b.incoming = a.incoming /\ b.in = a.in
          /\ b.getmask = a.getmask /\ b.state = a.state /\ b.outgoing = a.outgoing
          /\ b.putmask = a.putmask /\ b.out = a.out /\ b.force = a.force
          /\ b.backend = a.backend /\ b.backends = a.backends
          /\ b.init = a.init /\ b.control = a.control
          /\ b.destroyed = a.destroyed
      BY <1>3, <2>3 DEF IsAs, Fields
    <2>5. as' = b
      BY <1>5 DEF a
    <2> HIDE DEF b
    <2>a. \A t, k \in Nat : \A c \in 1 .. t : c # 0 /\ c <= t + k
      OBVIOUS
    <2>6. b.cur # 0 /\ b.cur <= taken + n
      BY <1>3, <2>1, <2>4, <2>a
    <2>7. Sane(b, taken + n) /\ Masked(b) /\ Drained(b) /\ (b.state = "dead" => Ending(b))
      BY <2>2, <2>4, <2>6 DEF Sane, Masked, Drained, Ending
    <2> QED BY <1>1, <1>4, <1>5, <2>1, <2>2, <2>4, <2>5, <2>7, ServerStep
  <1>6. ASSUME AtEnd, as' = [as EXCEPT !.state = "dead"], taken' = taken
        PROVE  AInv'
    <2> DEFINE b == [as EXCEPT !.state = "dead"]
    <2>0. IsAs(as)
      BY <1>3 DEF Sane
    <2>1. /\ b.state = "dead" /\ b.cur = as.cur
          /\ b.outgoing = as.outgoing /\ b.putmask = as.putmask /\ b.out = as.out
      BY <2>0 DEF IsAs, Fields
    <2>2. Sane(b, taken) /\ b.getmask
      <3>1. b = [as EXCEPT !.state = "dead"]
        OBVIOUS
      <3> HIDE DEF b
      <3>2. Sane(b, taken) /\ b.getmask = as.getmask
        BY <1>3, <3>1, SetDead
      <3> QED BY <1>3, <3>2
    <2> HIDE DEF b
    <2>3. Masked(b) /\ Drained(b)
      BY <1>1, <1>3, <2>1 DEF Masked, Drained, Handling
    <2>4. client # "open"
      BY <1>6 DEF AtEnd
    <2>5. as' = b
      BY <1>6 DEF b
    <2> QED BY <1>1, <1>4, <1>6, <2>2, <2>3, <2>4, <2>5, ServerStep
  <1> QED BY <1>5, <1>6 DEF IsAlive

-----------------------------------------------------------------------------
(* The client, the initial state, and the theorems.                        *)

LEMMA PutKeeps == ASSUME NEW kind \in Kinds PROVE AInv /\ Put(kind) => AInv'
  <1> SUFFICES ASSUME AInv, Put(kind) PROVE AInv'
    OBVIOUS
  <1>1. /\ stream' = Append(stream, kind) /\ UNCHANGED <<client, taken, as, todo, sock>>
        /\ stream # <<>> => (kind \in HttpKinds <=> stream[1] \in HttpKinds)
    BY DEF Put
  <1>2. stream \in Seq(AllKinds) /\ kind \in AllKinds
    BY AssociationAssumption DEF AInv, Surroundings, AllKinds
  <1>3. /\ stream' \in Seq(AllKinds) /\ Len(stream') = Len(stream) + 1
        /\ \A i \in 1 .. Len(stream) : stream'[i] = stream[i]
        /\ stream'[Len(stream) + 1] = kind
    BY <1>1, <1>2, AppendProperties
  <1>4. Len(stream) \in Nat /\ taken \in Nat /\ taken <= Len(stream)
    BY Basics
  <1>5. taken \in 0 .. Len(stream) + 1 /\ \A i \in 1 .. taken : i \in 1 .. Len(stream)
    BY <1>4
  <1>6. Surroundings'
    BY <1>1, <1>3, <1>5 DEF AInv, Surroundings
  <1>10. Unstrayed(taken)' <=> Unstrayed(taken)
    BY <1>1, <1>3, <1>5 DEF Unstrayed
  <1>7. (Sane(as, taken) /\ Masked(as) /\ Doomed)'
    BY <1>1, <1>10 DEF AInv, Doomed, Sane
  <1>8. (NoTrigger => Drained(as))'
    BY <1>1, <1>3, <1>5 DEF AInv, NoTrigger
  <1>9. OneProtocol'
    <2>1. CASE stream = <<>>
      <3>1. Len(stream') = 1 /\ stream'[1] = kind
        BY <1>3, <2>1
      <3>2. DOMAIN stream' = {1} /\ stream' # <<>>
        <4>1. DOMAIN stream' = 1 .. Len(stream') /\ 1 .. 1 = {1}
          BY <1>3, LenProperties
        <4> QED BY <1>3, <3>1, <4>1, EmptySeq
      <3>3. as.getmask
        BY <2>1 DEF AInv, OneProtocol
      <3> QED BY <1>1, <3>2, <3>3 DEF OneProtocol
    <2>2. CASE stream # <<>>
      <3>1. 1 \in 1 .. Len(stream) /\ DOMAIN stream = 1 .. Len(stream)
        BY <1>2, <2>2
      <3>2. /\ stream' # <<>> /\ stream'[1] = stream[1]
            /\ DOMAIN stream' = 1 .. Len(stream) + 1
        <4>1. stream'[1] = stream[1]
          BY <1>3, <3>1
        <4>2. DOMAIN stream' = 1 .. Len(stream')
          BY <1>3, LenProperties
        <4>3. Len(stream') # 0
          BY <1>3, <1>4
        <4>4. stream' # <<>>
          BY <1>3, <4>3, EmptySeq
        <4> QED BY <1>3, <4>1, <4>2, <4>4
      <3>3. ASSUME NEW i \in DOMAIN stream'
            PROVE  stream'[i] \in HttpKinds <=> stream[1] \in HttpKinds
        <4>1. i \in DOMAIN stream \/ i = Len(stream) + 1
          BY <1>4, <3>1, <3>2
        <4> QED BY <1>1, <1>3, <2>2, <3>1, <4>1 DEF AInv, OneProtocol
      <3> QED BY <1>1, <3>2, <3>3 DEF AInv, OneProtocol
    <2> QED BY <2>1, <2>2
  <1> QED BY <1>6, <1>7, <1>8, <1>9 DEF AInv

LEMMA LeaveOrReadsKeeps == AInv /\ (Leave \/ Reads) => AInv'
  <1> SUFFICES ASSUME AInv, Leave \/ Reads PROVE AInv'
    OBVIOUS
  <1>1. /\ UNCHANGED <<stream, taken, as, todo>>
        /\ client' \in {"open", "closed", "reset"} /\ (client # "open" => client' # "open")
        /\ sock' \in [partial : Item, room : BOOLEAN]
    BY DEF Leave, Reads, AInv, Surroundings
  <1>2. Surroundings'
    BY <1>1 DEF AInv, Surroundings
  <1>3. (Sane(as, taken) /\ Masked(as) /\ (NoTrigger => Drained(as)) /\ OneProtocol)'
    BY <1>1 DEF AInv, NoTrigger, OneProtocol, Sane, Unstrayed
  <1>4. Doomed'
    BY <1>1 DEF AInv, Doomed
  <1> QED BY <1>2, <1>3, <1>4 DEF AInv

LEMMA InitIs == Init => AInv
  <1> SUFFICES ASSUME Init PROVE AInv
    OBVIOUS
  <1>1. stream = <<>> /\ taken = 0 /\ todo = {} /\ client = "open"
        /\ sock = [partial |-> Nothing, room |-> TRUE]
    BY DEF Init
  <1>2. /\ as.state = "new" /\ as.version = 0 /\ as.backends = 0 /\ ~as.backend /\ ~as.init
        /\ as.incoming = <<>> /\ as.outgoing = <<>> /\ as.getmask /\ ~as.putmask
        /\ as.in /\ as.cur = 0 /\ DOMAIN as = Fields
    BY DEF Init, Fields
  <1>3. /\ <<>> \in Seq(Nat \ {0}) /\ <<>> \in Seq(Item) /\ <<>> \in Seq(AllKinds)
        /\ DOMAIN (<<>>) = {} /\ Len(<<>>) = 0
    OBVIOUS
  <1>4. Surroundings
    BY <1>1, <1>3 DEF Surroundings, Nothing, Item
  <1>5. Sane(as, taken)
    <2>1. IsAs(as)
      BY <1>2, <1>3 DEF IsAs
    <2>2. as.cur <= taken /\ \A i \in DOMAIN as.incoming : as.incoming[i] <= taken
      BY <1>1, <1>2, <1>3
    <2>3. (IF as.backend THEN 1 ELSE 0) = 0
      BY <1>2
    <2>4. as.backends >= 0 /\ as.backends = IF as.backend THEN 1 ELSE 0
      BY <1>2, <2>3
    <2> QED BY <1>2, <2>1, <2>2, <2>4 DEF Sane
  <1>6. Masked(as) /\ Drained(as) /\ Doomed
    BY <1>2 DEF Masked, Drained, Doomed
  <1>7. OneProtocol
    BY <1>1, <1>2, <1>3 DEF OneProtocol
  <1> QED BY <1>4, <1>5, <1>6, <1>7 DEF AInv

LEMMA NextKeeps == AInv /\ [Next]_vars => AInv'
  <1> SUFFICES ASSUME AInv, [Next]_vars PROVE AInv'
    OBVIOUS
  <1>1. CASE Poll
    BY <1>1, PollKeeps
  <1>2. CASE Idle
    BY <1>2, IdleKeeps
  <1>3. CASE Session
    BY <1>3, InputToDeadKeeps, InputKeeps, InputIncompleteKeeps, InputEndsKeeps,
       OutputKeeps, OutputIncompleteKeeps, OutputFailsKeeps, OutputIgnoredKeeps,
       ExceptKeeps, TimeoutKeeps DEF Session
  <1>4. CASE Handlers
    BY <1>4, InitRequestKeeps, RequestKeeps, UnsupportedKeeps, TriggerKeeps,
       CloseRequestKeeps, HttpRequestKeeps, StrayInitKeeps, StrayRequestKeeps,
       CrashKeeps DEF Handlers
  <1>5. CASE IsAlive
    BY <1>5, IsAliveKeeps
  <1>6. CASE Client
    BY <1>6, PutKeeps, LeaveOrReadsKeeps DEF Client
  <1>7. CASE UNCHANGED vars
    <2>1. UNCHANGED <<stream, client, taken, as, todo, sock>>
      BY <1>7 DEF vars
    <2> QED BY <2>1 DEF AInv, Surroundings, NoTrigger, Doomed, OneProtocol, Sane, Unstrayed
  <1> QED BY <1>1, <1>2, <1>3, <1>4, <1>5, <1>6, <1>7 DEF Next

\* AInv holds always: the inductive invariant of the association.
THEOREM AlwaysAInv == Spec => []AInv
  <1> QED BY InitIs, NextKeeps, PTL DEF Spec

LEMMA AInvImplies == AInv => NeverSleeps /\ BackendsClosed
  <1> SUFFICES ASSUME AInv PROVE NeverSleeps /\ BackendsClosed
    OBVIOUS
  <1>1. BackendsClosed
    <2>1. /\ as.backends >= 0 /\ (as.backend => as.backends >= 1)
          /\ Unstrayed(taken) => as.backends = IF as.backend THEN 1 ELSE 0
      BY DEF AInv, Sane
    <2>2. CASE as.backend
      <3>1. (IF as.backend THEN 1 ELSE 0) = 1
        BY <2>2
      <3> QED BY <2>1, <2>2, <3>1 DEF BackendsClosed, Unstrayed
    <2>3. CASE ~as.backend
      <3>1. (IF as.backend THEN 1 ELSE 0) = 0
        BY <2>3
      <3> QED BY <2>1, <3>1 DEF BackendsClosed, Unstrayed
    <2> QED BY <2>2, <2>3
  <1>2. as.putmask <=> as.outgoing # <<>>
    BY DEF AInv, Masked
  <1>3. ASSUME Waiting
        PROVE  /\ (\A i \in 1 .. taken : stream[i] # "trigger") => as.incoming = <<>>
               /\ as.outgoing # <<>> => as.putmask /\ as.out
               /\ as.state # "dead" => as.in /\ as.getmask
               /\ as.state = "dead" /\ as.outgoing = <<>> =>
                    as.force \/ (as.in /\ as.getmask /\ Readable)
    <2>1. todo = {} /\ as.cur = 0 /\ ~as.destroyed
      BY <1>3 DEF Waiting
    <2>2. as.getmask => as.in
      BY DEF AInv, Sane
    <2>3. as.state = "dead" /\ as.outgoing = <<>> =>
            as.force \/ (as.getmask /\ client # "open")
      BY <2>1 DEF AInv, Doomed
    <2> QED BY <2>1, <2>2, <2>3 DEF AInv, Sane, Masked, Drained, NoTrigger, Readable
  <1> QED BY <1>1, <1>2, <1>3 DEF NeverSleeps

\* Whatever the order of the events, of a batch of PDUs and of the answers: when
\* the event loop waits, it waits for the client alone.  No request is left in
\* the queue (but behind a TriggerResourceControl), no answer is unannounced to
\* yaz_poll, a living association is read from, and a dead one is on its way to
\* destroy_association (ir_session and process_gdu_response in seshigh.c).
THEOREM NothingForgotten == Spec => []NeverSleeps
  <1> QED BY AlwaysAInv, AInvImplies, PTL

\* No handle bend_init gave is closed twice; and of a client that names only
\* configured virtual hosts, as often as it changes them, each is closed, by the
\* next Init, the next Host or with the association (control_association,
\* process_initRequest, srw_bend_init and destroy_association).
THEOREM BackendsAreClosed == Spec => []BackendsClosed
  <1> QED BY AlwaysAInv, AInvImplies, PTL
=============================================================================
