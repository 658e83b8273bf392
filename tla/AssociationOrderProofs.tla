----------------------- MODULE AssociationOrderProofs -----------------------
(***************************************************************************)
(* For every number of PDUs of every kind: requests are answered once, in  *)
(* their order, without a gap, and nothing but the answer to an earlier    *)
(* request follows a Close.                                                *)
(***************************************************************************)
EXTENDS AssociationProofs

\* What was sent and what is to be sent.
Said == sent \o as.outgoing

\* The requests that are handled or wait.
Queued(a) == {a.incoming[i] : i \in DOMAIN a.incoming}
Pending(a) == Queued(a) \cup ({a.cur} \ {0})

IsResponse(S, k) == k \in DOMAIN S /\ S[k].what = "response"
IsClose(S, k) == k \in DOMAIN S /\ S[k].what = "close"

\* Requests wait in their order, behind the one that is handled.
Rising(a) ==
    /\ \A i, j \in DOMAIN a.incoming : i < j => a.incoming[i] < a.incoming[j]
    /\ a.cur # 0 => \A i \in DOMAIN a.incoming : a.cur < a.incoming[i]

\* Responses are in the order of the requests, and before those that wait.
Ordered(S, a, n) ==
    /\ \A j, k \in DOMAIN S :
         IsResponse(S, j) /\ IsResponse(S, k) /\ j < k => S[j].req < S[k].req
    /\ \A k \in DOMAIN S :
         IsResponse(S, k) => S[k].req <= n /\ \A r \in Pending(a) : S[k].req < r

\* Once a Close is in the queue the association is dead and nothing waits: at most
\* a search is still handled, whose backend found the end, and only until
\* the Close is sent.
Closing(S, l, a) ==
    /\ \A j, k \in DOMAIN S : IsClose(S, j) /\ j < k => S[k].req < S[j].req
    /\ \A j \in DOMAIN S : IsClose(S, j) =>
         /\ a.state = "dead" /\ a.incoming = <<>>
         /\ a.cur # 0 => l < j /\ a.cur < S[j].req /\ stream[a.cur] = "search"

\* Nothing will be handled or read any more.
Finished(a) == a.destroyed \/ (a.state = "dead" /\ a.cur = 0 /\ a.incoming = <<>>)

Decodes(n) == \A i \in 1 .. n : stream[i] # "malformed"
Answerable(M) == {i \in M : stream[i] # "trigger"}
Requested(S, k) == {S[j].req : j \in 1 .. k}
AllResponses(S, k) == \A j \in 1 .. k : S[j].what = "response"

\* Up to each response there is no gap, and unless all is over every request
\* that was got is answered or waits.
Chained(S) ==
    \A k \in DOMAIN S :
      AllResponses(S, k) => Answerable(1 .. S[k].req) = Requested(S, k)
Complete(S, a, n) ==
    AllResponses(S, Len(S)) /\ ~Finished(a) =>
      Answerable(1 .. n) = Requested(S, Len(S)) \cup Answerable(Pending(a))

\* A malformed HTTP request is the next to be read, and nothing waits.
BadNext == \A i \in taken + 1 .. Len(stream) :
             stream[i] = "badhttp" => i = taken + 1 /\ as.cur = 0

Over == as.destroyed => todo = {} /\ as.cur = 0 /\ as.incoming = <<>>

\* What the queues show of what was sent and is to be sent.
Shown(S, l, a, n) ==
    /\ S \in Seq(Item) /\ Ordered(S, a, n) /\ Closing(S, l, a)
    /\ Decodes(n) => Chained(S) /\ Complete(S, a, n)

OInv == /\ sent \in Seq(Item) /\ Rising(as) /\ Over /\ BadNext
        /\ Shown(Said, Len(sent), as, taken)

-----------------------------------------------------------------------------
(* What the steps of the handlers do to the queues.                        *)

LEMMA QueueFacts ==
    ASSUME NEW n \in Nat, NEW a, Sane(a, n)
    PROVE  /\ a.incoming \in Seq(Nat \ {0}) /\ a.outgoing \in Seq(Item) /\ a.cur \in Nat
           /\ \A r \in Pending(a) : r \in 1 .. n
           /\ \A r \in Queued(a) : r \in 1 .. n
  <1>1. /\ a.incoming \in Seq(Nat \ {0}) /\ a.outgoing \in Seq(Item) /\ a.cur \in Nat
        /\ a.cur <= n /\ \A i \in DOMAIN a.incoming : a.incoming[i] <= n
    BY DEF Sane, IsAs
  <1>2. \A i \in DOMAIN a.incoming : a.incoming[i] \in Nat \ {0}
    BY <1>1, ElementOfSeq, LenProperties
  <1>3. \A r \in Queued(a) : r \in 1 .. n
    BY <1>1, <1>2 DEF Queued
  <1>4. a.cur # 0 => a.cur \in 1 .. n
    BY <1>1
  <1> QED BY <1>1, <1>3, <1>4 DEF Pending

LEMMA QueuedIs ==
    ASSUME NEW a, NEW q, a.incoming = q, NEW D, DOMAIN q = D
    PROVE  \A x : x \in Queued(a) <=> \E i \in D : x = q[i]
  BY DEF Queued

LEMMA TailIs ==
    ASSUME NEW q \in Seq(Nat \ {0}), q # <<>>, NEW l, l = Len(q)
    PROVE  /\ l \in Nat \ {0} /\ DOMAIN q = 1 .. l /\ DOMAIN Tail(q) = 1 .. l - 1
           /\ Head(q) = q[1] /\ q[1] \in Nat \ {0}
           /\ \A i \in 1 .. l - 1 : Tail(q)[i] = q[i + 1]
  <1>1. l \in Nat \ {0} /\ DOMAIN q = 1 .. l
    BY EmptySeq, LenProperties
  <1>2. /\ Tail(q) \in Seq(Nat \ {0}) /\ Len(Tail(q)) = l - 1
        /\ \A i \in 1 .. Len(Tail(q)) : Tail(q)[i] = q[i + 1]
    BY HeadTailProperties
  <1>3. DOMAIN Tail(q) = 1 .. l - 1
    BY <1>2, LenProperties
  <1>4. 1 \in 1 .. Len(q)
    BY <1>1
  <1>5. q[1] \in Nat \ {0}
    BY <1>4, ElementOfSeq
  <1>6. Head(q) = q[1]
    OBVIOUS
  <1> QED BY <1>1, <1>2, <1>3, <1>5, <1>6

LEMMA NextRequestTakes ==
    ASSUME NEW n \in Nat, NEW a, Sane(a, n), Rising(a)
    PROVE  LET b == NextRequest(a)
           IN  /\ Rising(b) /\ Pending(b) = Queued(a)
               /\ a.incoming = <<>> => b.incoming = <<>> /\ b.cur = 0
  <1> DEFINE b == NextRequest(a)
             q == a.incoming
  <1>0. IsAs(a) /\ q \in Seq(Nat \ {0})
    BY QueueFacts DEF Sane
  <1>1. CASE q = <<>>
    <2>1. b = [a EXCEPT !.cur = 0, !.more = FALSE]
      BY <1>1 DEF NextRequest
    <2>2. b.cur = 0 /\ b.incoming = <<>>
      BY <1>0, <1>1, <2>1 DEF IsAs, Fields
    <2>3. DOMAIN <<>> = {}
      OBVIOUS
    <2> HIDE DEF b
    <2>4. Queued(a) = {} /\ Queued(b) = {}
      BY <1>1, <2>2, <2>3 DEF Queued
    <2>5. Pending(b) = {} /\ Rising(b)
      BY <2>2, <2>3, <2>4 DEF Pending, Rising
    <2> QED BY <2>2, <2>4, <2>5 DEF b
  <1>2. CASE q # <<>>
    <2>1. b = [a EXCEPT !.cur = Head(q), !.incoming = Tail(q)]
      BY <1>0, <1>2 DEF NextRequest, IsAs, Fields
    <2>2. b.cur = Head(q) /\ b.incoming = Tail(q)
      BY <1>0, <2>1 DEF IsAs, Fields
    <2>3. PICK l : l = Len(q)
      OBVIOUS
    <2>4. /\ l \in Nat \ {0} /\ DOMAIN q = 1 .. l /\ DOMAIN Tail(q) = 1 .. l - 1
          /\ Head(q) = q[1] /\ q[1] \in Nat \ {0}
          /\ \A i \in 1 .. l - 1 : Tail(q)[i] = q[i + 1]
      BY <1>0, <1>2, <2>3, TailIs
    <2>5. \A i \in 1 .. l - 1 : i + 1 \in 1 .. l /\ 1 < i + 1
      BY <2>4
    <2>6. \A i \in 1 .. l : i = 1 \/ (i - 1 \in 1 .. l - 1 /\ (i - 1) + 1 = i)
      BY <2>4
    <2>7. 1 \in 1 .. l
      BY <2>4
    <2>8. /\ \A i, j \in 1 .. l : i < j => q[i] < q[j]
          /\ Queued(a) = {q[i] : i \in 1 .. l}
      BY <2>4 DEF Rising, Queued
    <2> HIDE DEF b, q
    <2>9. /\ \A x : x \in Queued(b) <=> \E i \in 1 .. l - 1 : x = Tail(q)[i]
          /\ b.cur = q[1]
      <3>1. PICK t : t = Tail(q)
        OBVIOUS
      <3>2. PICK D : D = 1 .. l - 1
        OBVIOUS
      <3>3. b.incoming = t /\ DOMAIN t = D
        BY <2>2, <2>4, <3>1, <3>2
      <3>4. \A x : x \in Queued(b) <=> \E i \in D : x = t[i]
        BY <3>3, QueuedIs
      <3> QED BY <2>2, <2>4, <3>1, <3>2, <3>4
    <2>10. Pending(b) = Queued(a)
      <3>1. ASSUME NEW x \in Queued(a) PROVE x \in Pending(b)
        <4>1. PICK i \in 1 .. l : x = q[i]
          BY <2>8
        <4>2. CASE i = 1
          BY <2>4, <2>9, <4>1, <4>2 DEF Pending
        <4>3. CASE i # 1
          <5>1. i - 1 \in 1 .. l - 1 /\ Tail(q)[i - 1] = x
            BY <2>4, <2>6, <4>1, <4>3
          <5> QED BY <2>9, <5>1 DEF Pending
        <4> QED BY <4>2, <4>3
      <3>2. ASSUME NEW x \in Pending(b) PROVE x \in Queued(a)
        <4>1. CASE x = q[1]
          BY <2>7, <2>8, <4>1
        <4>2. CASE x # q[1]
          <5>1. PICK i \in 1 .. l - 1 : x = Tail(q)[i]
            BY <2>9, <4>2 DEF Pending
          <5> QED BY <2>4, <2>5, <2>8, <5>1
        <4> QED BY <4>1, <4>2
      <3> QED BY <3>1, <3>2
    <2>11. Rising(b)
      <3>1. ASSUME NEW i \in 1 .. l - 1, NEW j \in 1 .. l - 1, i < j
            PROVE  b.incoming[i] < b.incoming[j]
        <4>1. i + 1 < j + 1
          BY <3>1
        <4> QED BY <2>2, <2>4, <2>5, <2>8, <4>1
      <3>2. ASSUME NEW i \in 1 .. l - 1 PROVE b.cur < b.incoming[i]
        BY <2>2, <2>4, <2>5, <2>7, <2>8
      <3>3. DOMAIN b.incoming = 1 .. l - 1
        BY <2>2, <2>4
      <3> QED BY <3>1, <3>2, <3>3 DEF Rising
    <2> QED BY <1>2, <2>10, <2>11 DEF b, q
  <1> QED BY <1>1, <1>2

LEMMA RespondTakes ==
    ASSUME NEW n \in Nat, NEW a, Sane(a, n), Rising(a), NEW item \in Item
    PROVE  LET b == Respond(a, item)
           IN  /\ Rising(b) /\ Pending(b) = Queued(a)
               /\ a.incoming = <<>> => b.incoming = <<>> /\ b.cur = 0
               /\ b.outgoing = Append(a.outgoing, item) /\ Kept(a, b)
  <1> DEFINE p == [a EXCEPT !.outgoing = Append(@, item), !.out = TRUE,
                            !.putmask = TRUE, !.more = TRUE]
             b == Respond(a, item)
  <1>0. IsAs(a)
    BY DEF Sane
  <1>1. b = NextRequest(p)
    BY DEF Respond
  <1>2. Append(a.outgoing, item) \in Seq(Item)
    BY <1>0 DEF IsAs
  <1>3. IsAs(p) /\ p.cur = a.cur /\ p.incoming = a.incoming /\ Kept(a, p)
    BY <1>0, <1>2 DEF IsAs, Fields, Kept
  <1>4. Sane(p, n)
    BY <1>3 DEF Sane, Kept
  <1> HIDE DEF p
  <1>5. Rising(p) /\ Queued(p) = Queued(a)
    BY <1>3 DEF Rising, Queued
  <1>6. /\ Rising(b) /\ Pending(b) = Queued(p)
        /\ p.incoming = <<>> => b.incoming = <<>> /\ b.cur = 0
    BY <1>1, <1>4, <1>5, NextRequestTakes
  <1>7. b.outgoing = Append(a.outgoing, item) /\ Kept(a, b)
    BY RespondIs
  <1> HIDE DEF b
  <1> QED BY <1>3, <1>5, <1>6, <1>7 DEF b

LEMMA DoCloseTakes ==
    ASSUME NEW n \in Nat, NEW a, Sane(a, n), NEW i \in Nat
    PROVE  LET b == DoClose(a, i)
           IN  /\ b.incoming = <<>> /\ b.cur = 0
               /\ b.outgoing = <<>> \/ b.outgoing = <<[req |-> i, what |-> "close"]>>
  <1> DEFINE p == [a EXCEPT !.incoming = <<>>, !.outgoing = <<>>, !.state = "dead"]
             b == DoClose(a, i)
             item == [req |-> i, what |-> "close"]
  <1>0. IsAs(a)
    BY DEF Sane
  <1>1. <<>> \in Seq(Nat \ {0}) /\ <<>> \in Seq(Item) /\ DOMAIN (<<>>) = {}
    OBVIOUS
  <1>2. /\ IsAs(p) /\ p.incoming = <<>> /\ p.outgoing = <<>> /\ p.state = "dead"
        /\ p.cur = a.cur /\ p.in = a.in /\ p.getmask = a.getmask /\ p.version = a.version
        /\ p.backend = a.backend /\ p.backends = a.backends
        /\ p.init = a.init /\ p.control = a.control /\ p.destroyed = a.destroyed
    BY <1>0, <1>1 DEF IsAs, Fields
  <1>3. Sane(p, n) /\ Rising(p)
    BY <1>1, <1>2 DEF Sane, Rising
  <1>4. CASE a.version >= 3
    <2>1. b = Respond(p, item)
      BY <1>2, <1>4 DEF DoClose
    <2>2. item \in Item
      BY DEF Item
    <2> HIDE DEF p, item, b
    <2>5. /\ b.outgoing = Append(p.outgoing, item)
          /\ p.incoming = <<>> => b.incoming = <<>> /\ b.cur = 0
      BY <1>3, <2>1, <2>2, RespondTakes
    <2>3. b.incoming = <<>> /\ b.cur = 0 /\ b.outgoing = Append(<<>>, item)
      BY <1>2, <2>5
    <2>4. Append(<<>>, item) = <<item>>
      OBVIOUS
    <2> QED BY <2>3, <2>4 DEF b, item
  <1>5. CASE ~(a.version >= 3)
    <2>1. b = [p EXCEPT !.force = TRUE, !.putmask = FALSE, !.cur = 0, !.more = FALSE]
      BY <1>2, <1>5 DEF DoClose
    <2> HIDE DEF p
    <2>2. b.incoming = <<>> /\ b.outgoing = <<>> /\ b.cur = 0
      BY <1>2, <2>1 DEF IsAs, Fields
    <2> QED BY <2>2
  <1> QED BY <1>4, <1>5

\* A sequence that counts from t, and one that another is extended by it to.
Counts(new, t, m) ==
    new \in Seq(Nat \ {0}) /\ Len(new) = m /\ \A i \in 1 .. m : new[i] = t + i
Extends(q, p, l, t, m) ==
    /\ l \in Nat /\ DOMAIN p = 1 .. l /\ DOMAIN q = 1 .. l + m
    /\ \A i \in 1 .. l : q[i] = p[i]
    /\ \A i \in 1 .. m : l + i \in 1 .. l + m /\ q[l + i] = t + i
    /\ \A i \in 1 .. l + m : i \in 1 .. l \/ \E k \in 1 .. m : i = l + k
    /\ m = 0 => q = p

LEMMA Counting ==
    ASSUME NEW t \in Nat, NEW m \in Nat, NEW new, new = [i \in 1 .. m |-> t + i]
    PROVE  Counts(new, t, m)
  <1>1. \A i \in 1 .. m : t + i \in Nat \ {0}
    OBVIOUS
  <1>2. new \in [1 .. m -> Nat \ {0}]
    BY <1>1
  <1>3. \A i \in 1 .. m : new[i] = t + i
    OBVIOUS
  <1>4. new \in Seq(Nat \ {0}) /\ DOMAIN new = 1 .. m
    BY <1>2, SeqDef
  <1>5. Len(new) = m
    BY <1>4, LenProperties
  <1> QED BY <1>3, <1>4, <1>5 DEF Counts

LEMMA Extended ==
    ASSUME NEW t \in Nat, NEW m \in Nat, NEW p \in Seq(Nat \ {0}), NEW l, l = Len(p),
           NEW new, Counts(new, t, m), NEW q, q = p \o new
    PROVE  Extends(q, p, l, t, m)
  <1>1. new \in Seq(Nat \ {0}) /\ Len(new) = m /\ \A i \in 1 .. m : new[i] = t + i
    BY DEF Counts
  <1>3. l \in Nat /\ DOMAIN p = 1 .. l
    BY LenProperties
  <1>4. /\ q \in Seq(Nat \ {0}) /\ Len(q) = l + m
        /\ \A i \in 1 .. l + m : q[i] = IF i <= l THEN p[i] ELSE new[i - l]
    BY <1>1, ConcatProperties
  <1>5. DOMAIN q = 1 .. l + m
    BY <1>4, LenProperties
  <1>6. \A i \in 1 .. l : i \in 1 .. l + m /\ i <= l
    BY <1>3
  <1>7. \A i \in 1 .. m : l + i \in 1 .. l + m /\ ~(l + i <= l) /\ (l + i) - l = i
    BY <1>3
  <1>8. \A i \in 1 .. l + m : i \in 1 .. l \/ (i - l \in 1 .. m /\ i = l + (i - l))
    BY <1>3
  <1>9. \A i \in 1 .. l : q[i] = p[i]
    BY <1>4, <1>6
  <1>10. \A i \in 1 .. m : q[l + i] = t + i
    BY <1>1, <1>4, <1>7
  <1>11. m = 0 => q = p
    <2> SUFFICES ASSUME m = 0 PROVE q = p
      OBVIOUS
    <2>1. Len(q) = Len(p)
      BY <1>3, <1>4
    <2> QED BY <1>4, <1>9, <2>1, SeqEqual
  <1> QED BY <1>3, <1>5, <1>7, <1>8, <1>9, <1>10, <1>11 DEF Extends

LEMMA EnqueuedTakes ==
    ASSUME taken \in Nat, NEW m \in Nat, NEW a, Sane(a, taken), a.getmask, Rising(a)
    PROVE  LET b == Enqueued(a, m)
           IN  /\ Rising(b) /\ Queued(b) = Queued(a) \cup (taken + 1 .. taken + m)
               /\ m = 0 => b.incoming = a.incoming
  <1> DEFINE p == a.incoming
             new == [i \in 1 .. m |-> taken + i]
             q == p \o new
             b == Enqueued(a, m)
  <1>0. IsAs(a) /\ p \in Seq(Nat \ {0}) /\ (\A r \in Queued(a) : r \in 1 .. taken)
        /\ a.cur \in Nat /\ a.cur <= taken
    BY QueueFacts DEF Sane
  <1>1. b = [a EXCEPT !.getmask = TRUE, !.incoming = q]
    BY <1>0 DEF Enqueued, IsAs, Fields
  <1>2. b.incoming = q /\ b.cur = a.cur
    BY <1>0, <1>1 DEF IsAs, Fields
  <1>3. PICK l : l = Len(p)
    OBVIOUS
  <1>4. /\ l \in Nat /\ DOMAIN p = 1 .. l /\ DOMAIN q = 1 .. l + m
        /\ \A i \in 1 .. l : q[i] = p[i]
        /\ \A i \in 1 .. m : l + i \in 1 .. l + m /\ q[l + i] = taken + i
        /\ \A i \in 1 .. l + m : i \in 1 .. l \/ \E k \in 1 .. m : i = l + k
        /\ m = 0 => q = p
    <2>1. q = p \o new
      OBVIOUS
    <2>2. Counts(new, taken, m)
      BY Counting
    <2> HIDE DEF p, q, new
    <2>3. Extends(q, p, l, taken, m)
      BY <1>0, <1>3, <2>1, <2>2, Extended
    <2> QED BY <2>3 DEF Extends
  <1> HIDE DEF q, b
  <1>5. \A i \in 1 .. l : q[i] = p[i] /\ q[i] \in 1 .. taken /\ i \in 1 .. l + m
    <2>1. \A i \in 1 .. l : p[i] \in Queued(a)
      BY <1>4 DEF Queued
    <2>2. \A i \in 1 .. l : i \in 1 .. l + m
      BY <1>4
    <2> QED BY <1>0, <1>4, <2>1, <2>2
  <1>6. Queued(b) = Queued(a) \cup (taken + 1 .. taken + m)
    <2>1. Queued(b) = {q[i] : i \in 1 .. l + m} /\ Queued(a) = {p[i] : i \in 1 .. l}
      BY <1>2, <1>4 DEF Queued
    <2>2. \A x \in taken + 1 .. taken + m : x - taken \in 1 .. m /\ x = taken + (x - taken)
      OBVIOUS
    <2>3. \A i \in 1 .. m : taken + i \in taken + 1 .. taken + m
      OBVIOUS
    <2>4. ASSUME NEW x \in Queued(b) PROVE x \in Queued(a) \cup (taken + 1 .. taken + m)
      <3>1. PICK i \in 1 .. l + m : x = q[i]
        BY <2>1
      <3>2. CASE i \in 1 .. l
        BY <1>5, <2>1, <3>1, <3>2
      <3>3. CASE i \notin 1 .. l
        <4>1. PICK k \in 1 .. m : i = l + k
          BY <1>4, <3>3
        <4> QED BY <1>4, <2>3, <3>1, <4>1
      <3> QED BY <3>2, <3>3
    <2>5. ASSUME NEW x \in Queued(a) PROVE x \in Queued(b)
      BY <1>5, <2>1
    <2>6. ASSUME NEW x \in taken + 1 .. taken + m PROVE x \in Queued(b)
      <3>1. PICK k \in 1 .. m : x = taken + k
        BY <2>2
      <3> QED BY <1>4, <2>1, <3>1
    <2> QED BY <2>4, <2>5, <2>6
  <1>7. Rising(b)
    <2>0. \A i, j \in 1 .. l : i < j => q[i] < q[j]
      BY <1>4 DEF Rising
    <2>1. ASSUME NEW i \in 1 .. l + m, NEW j \in 1 .. l + m, i < j PROVE q[i] < q[j]
      <3>1. CASE j \in 1 .. l
        <4>1. i \in 1 .. l
          BY <1>4, <2>1, <3>1
        <4> QED BY <2>0, <2>1, <3>1, <4>1
      <3>2. CASE i \in 1 .. l /\ j \notin 1 .. l
        <4>1. PICK k \in 1 .. m : j = l + k
          BY <1>4, <3>2
        <4>2. q[j] = taken + k /\ q[i] \in 1 .. taken
          BY <1>4, <1>5, <3>2, <4>1
        <4> QED BY <4>2
      <3>3. CASE i \notin 1 .. l /\ j \notin 1 .. l
        <4>1. PICK k \in 1 .. m : j = l + k
          BY <1>4, <3>3
        <4>2. PICK h \in 1 .. m : i = l + h
          BY <1>4, <3>3
        <4>3. h < k
          BY <1>4, <2>1, <4>1, <4>2
        <4>4. q[j] = taken + k /\ q[i] = taken + h
          BY <1>4, <4>1, <4>2
        <4> QED BY <4>3, <4>4
      <3>4. i \in 1 .. l \/ j \notin 1 .. l
        BY <1>4, <2>1
      <3> QED BY <3>1, <3>2, <3>3, <3>4
    <2>2. ASSUME a.cur # 0, NEW i \in 1 .. l + m PROVE a.cur < q[i]
      <3>1. CASE i \in 1 .. l
        BY <1>4, <2>2, <3>1 DEF Rising
      <3>2. CASE i \notin 1 .. l
        <4>1. PICK k \in 1 .. m : i = l + k
          BY <1>4, <3>2
        <4>2. q[i] = taken + k
          BY <1>4, <4>1
        <4> QED BY <1>0, <4>2
      <3> QED BY <3>1, <3>2
    <2> QED BY <1>2, <1>4, <2>1, <2>2 DEF Rising
  <1> QED BY <1>2, <1>4, <1>6, <1>7 DEF b

-----------------------------------------------------------------------------
(* What the steps do to the order of what was sent and is to be sent.      *)

\* T is q behind P.
Joined(T, P, q, l, h) ==
    /\ T \in Seq(Item) /\ l \in Nat /\ h \in Nat /\ Len(T) = l + h
    /\ DOMAIN T = 1 .. l + h /\ DOMAIN P = 1 .. l /\ DOMAIN q = 1 .. h
    /\ \A i \in 1 .. l : T[i] = P[i] /\ i \in 1 .. l + h
    /\ \A i \in 1 .. h : T[l + i] = q[i]

LEMMA SaidIs ==
    ASSUME NEW P \in Seq(Item), NEW q \in Seq(Item), NEW T, T = P \o q,
           NEW l, l = Len(P), NEW h, h = Len(q)
    PROVE  Joined(T, P, q, l, h)
  <1>1. l \in Nat /\ DOMAIN P = 1 .. l /\ h \in Nat /\ DOMAIN q = 1 .. h
    BY LenProperties
  <1>2. /\ T \in Seq(Item) /\ Len(T) = l + h
        /\ \A i \in 1 .. l + h : T[i] = IF i <= l THEN P[i] ELSE q[i - l]
    BY ConcatProperties
  <1>3. DOMAIN T = 1 .. l + h
    BY <1>2, LenProperties
  <1>4. \A i \in 1 .. l : i \in 1 .. l + h /\ i <= l
    BY <1>1
  <1>5. \A i \in 1 .. h : l + i \in 1 .. l + h /\ ~(l + i <= l) /\ (l + i) - l = i
    BY <1>1
  <1>6. \A i \in 1 .. l : T[i] = P[i]
    BY <1>2, <1>4
  <1>7. \A i \in 1 .. h : T[l + i] = q[i]
    BY <1>2, <1>5
  <1> QED BY <1>1, <1>2, <1>3, <1>4, <1>6, <1>7 DEF Joined

LEMMA SaidMore ==
    ASSUME NEW P \in Seq(Item), NEW q \in Seq(Item), NEW x \in Item
    PROVE  P \o Append(q, x) = Append(P \o q, x)
  OBVIOUS

\* One sequence is a beginning of another, but some of it may be torn.
Weaker(T, S) ==
    \A k \in DOMAIN T : /\ k \in DOMAIN S /\ T[k].req = S[k].req
                        /\ T[k].what = S[k].what \/ T[k].what = "torn"

LEMMA WeakerIs ==
    ASSUME NEW S, NEW T, Weaker(T, S)
    PROVE  /\ \A k : IsResponse(T, k) => IsResponse(S, k)
           /\ \A k : IsClose(T, k) => IsClose(S, k)
           /\ \A k \in DOMAIN T : k \in DOMAIN S /\ T[k].req = S[k].req
  BY DEF Weaker, IsResponse, IsClose

LEMMA OrderedKept ==
    ASSUME NEW S, NEW T, Weaker(T, S), NEW n \in Nat, NEW m \in Nat, n <= m,
           NEW a, NEW b, Ordered(S, a, n), \A k \in DOMAIN S : S[k].req \in Nat,
           \A r \in Pending(b) : r \in Pending(a) \cup (n + 1 .. m)
    PROVE  Ordered(T, b, m)
  <1>1. /\ \A k : IsResponse(T, k) => IsResponse(S, k) /\ T[k].req = S[k].req /\ k \in DOMAIN S
        /\ DOMAIN T \subseteq DOMAIN S
    BY WeakerIs DEF IsResponse
  <1>2. ASSUME NEW j \in DOMAIN T, NEW k \in DOMAIN T, IsResponse(T, j), IsResponse(T, k), j < k
        PROVE  T[j].req < T[k].req
    BY <1>1, <1>2 DEF Ordered
  <1>3. ASSUME NEW k \in DOMAIN T, IsResponse(T, k)
        PROVE  T[k].req <= m /\ \A r \in Pending(b) : T[k].req < r
    <2>1. S[k].req \in Nat /\ S[k].req <= n /\ T[k].req = S[k].req
      BY <1>1, <1>3 DEF Ordered
    <2>2. \A r \in Pending(a) : S[k].req < r
      BY <1>1, <1>3 DEF Ordered
    <2>3. \A r \in n + 1 .. m : S[k].req < r
      BY <2>1
    <2>4. T[k].req <= m
      BY <2>1
    <2> QED BY <2>1, <2>2, <2>3, <2>4
  <1> QED BY <1>2, <1>3 DEF Ordered

LEMMA ClosingKept ==
    ASSUME NEW S, NEW T, Weaker(T, S), NEW a, NEW b, NEW l \in Nat, NEW h \in Nat,
           \A k \in DOMAIN S : k \in Nat, Closing(S, l, a),
           a.state = "dead" /\ a.incoming = <<>> =>
             b.state = "dead" /\ b.incoming = <<>> /\ (b.cur # 0 => b.cur = a.cur /\ h <= l)
    PROVE  Closing(T, h, b)
  <1>1. \A k : IsClose(T, k) => IsClose(S, k) /\ T[k].req = S[k].req /\ k \in DOMAIN S
    BY WeakerIs DEF IsClose
  <1>2. \A k \in DOMAIN T : k \in DOMAIN S /\ T[k].req = S[k].req
    BY WeakerIs
  <1>3. ASSUME NEW j \in DOMAIN T, NEW k \in DOMAIN T, IsClose(T, j), j < k
        PROVE  T[k].req < T[j].req
    BY <1>1, <1>2, <1>3 DEF Closing
  <1>4. ASSUME NEW j \in DOMAIN T, IsClose(T, j)
        PROVE  /\ b.state = "dead" /\ b.incoming = <<>>
               /\ b.cur # 0 => h < j /\ b.cur < T[j].req /\ stream[b.cur] = "search"
    <2>1. /\ a.state = "dead" /\ a.incoming = <<>>
          /\ a.cur # 0 => l < j /\ a.cur < S[j].req /\ stream[a.cur] = "search"
      BY <1>1, <1>4 DEF Closing
    <2>2. j \in Nat /\ T[j].req = S[j].req
      BY <1>1, <1>4
    <2>3. ASSUME b.cur # 0 PROVE b.cur = a.cur /\ h < j
      <3>1. b.cur = a.cur /\ h <= l /\ l < j
        BY <2>1, <2>3
      <3> QED BY <2>2, <3>1
    <2> QED BY <2>1, <2>2, <2>3
  <1> QED BY <1>3, <1>4 DEF Closing

LEMMA AllResponsesKept ==
    ASSUME NEW S, NEW T, Weaker(T, S), NEW k, 1 .. k \subseteq DOMAIN T, AllResponses(T, k)
    PROVE  AllResponses(S, k) /\ Requested(S, k) = Requested(T, k)
  <1>1. \A j \in 1 .. k : S[j].what = "response" /\ S[j].req = T[j].req
    BY DEF Weaker, AllResponses
  <1> QED BY <1>1 DEF AllResponses, Requested

LEMMA ChainKept ==
    ASSUME NEW S, NEW T \in Seq(Item), Weaker(T, S), Chained(S)
    PROVE  Chained(T)
  <1> SUFFICES ASSUME NEW k \in DOMAIN T, AllResponses(T, k)
               PROVE  Answerable(1 .. T[k].req) = Requested(T, k)
    BY DEF Chained
  <1>1. 1 .. k \subseteq DOMAIN T
    <2>1. DOMAIN T = 1 .. Len(T) /\ Len(T) \in Nat
      BY LenProperties
    <2> QED BY <2>1
  <1>2. AllResponses(S, k) /\ Requested(S, k) = Requested(T, k)
    BY <1>1, AllResponsesKept
  <1>3. k \in DOMAIN S /\ S[k].req = T[k].req
    BY WeakerIs
  <1> QED BY <1>2, <1>3 DEF Chained

LEMMA CompleteKept ==
    ASSUME NEW S, NEW T \in Seq(Item), Weaker(T, S), NEW n \in Nat, NEW m \in Nat, n <= m,
           NEW a, NEW b, Complete(S, a, n),
           \A r \in Pending(b) : r \in Pending(a) \cup (n + 1 .. m),
           ~Finished(b) => /\ ~Finished(a) /\ Len(T) = Len(S)
                           /\ \A r \in Pending(a) \cup (n + 1 .. m) :
                                r \in Pending(b) \/ stream[r] = "trigger"
    PROVE  Complete(T, b, m)
  <1> SUFFICES ASSUME AllResponses(T, Len(T)), ~Finished(b)
               PROVE  Answerable(1 .. m) = Requested(T, Len(T)) \cup Answerable(Pending(b))
    BY DEF Complete
  <1>1. DOMAIN T = 1 .. Len(T) /\ Len(T) = Len(S)
    BY LenProperties
  <1>2. AllResponses(S, Len(S)) /\ Requested(S, Len(S)) = Requested(T, Len(T))
    BY <1>1, AllResponsesKept
  <1>3. Answerable(1 .. n) = Requested(T, Len(T)) \cup Answerable(Pending(a))
    BY <1>2 DEF Complete
  <1>4. \A i : i \in 1 .. m <=> i \in 1 .. n \/ i \in n + 1 .. m
    OBVIOUS
  <1>5. \A i : i \in Answerable(1 .. m) <=>
               i \in Answerable(1 .. n) \/ (i \in n + 1 .. m /\ stream[i] # "trigger")
    BY <1>4 DEF Answerable
  <1>6. \A i : i \in Answerable(Pending(a)) \/ (i \in n + 1 .. m /\ stream[i] # "trigger") =>
               i \in Answerable(Pending(b))
    BY DEF Answerable
  <1>7. \A i : i \in Answerable(Pending(b)) =>
               i \in Answerable(Pending(a)) \/ (i \in n + 1 .. m /\ stream[i] # "trigger")
    BY DEF Answerable
  <1> QED BY <1>3, <1>5, <1>6, <1>7

LEMMA ItemsOf ==
    ASSUME NEW S \in Seq(Item)
    PROVE  /\ DOMAIN S = 1 .. Len(S) /\ Len(S) \in Nat
           /\ \A k \in DOMAIN S : k \in Nat /\ S[k] \in Item /\ S[k].req \in Nat
  <1>1. DOMAIN S = 1 .. Len(S) /\ Len(S) \in Nat
    BY LenProperties
  <1>2. \A k \in 1 .. Len(S) : k \in Nat /\ S[k] \in Item
    BY <1>1, ElementOfSeq
  <1> QED BY <1>1, <1>2 DEF Item

LEMMA QuietShown ==
    ASSUME NEW S, NEW T \in Seq(Item), Weaker(T, S), NEW n \in Nat, NEW m \in Nat, n <= m,
           NEW a, NEW b, NEW l \in Nat, NEW h \in Nat, Shown(S, l, a, n),
           \A r \in Pending(b) : r \in Pending(a) \cup (n + 1 .. m),
           a.state = "dead" /\ a.incoming = <<>> =>
             b.state = "dead" /\ b.incoming = <<>> /\ (b.cur # 0 => b.cur = a.cur /\ h <= l),
           ~Finished(b) => /\ ~Finished(a) /\ Len(T) = Len(S)
                           /\ \A r \in Pending(a) \cup (n + 1 .. m) :
                                r \in Pending(b) \/ stream[r] = "trigger"
    PROVE  Shown(T, h, b, m)
  <1>1. \A k \in DOMAIN S : k \in Nat /\ S[k].req \in Nat
    BY ItemsOf DEF Shown
  <1>2. Ordered(S, a, n) /\ Closing(S, l, a)
    BY DEF Shown
  <1>3. Ordered(T, b, m)
    BY <1>1, <1>2, OrderedKept
  <1>4. Closing(T, h, b)
    BY <1>1, <1>2, ClosingKept
  <1>a. \A i \in 1 .. n : i \in 1 .. m
    OBVIOUS
  <1>5. ASSUME Decodes(m) PROVE Chained(T) /\ Complete(T, b, m)
    <2>1. Chained(S) /\ Complete(S, a, n)
      BY <1>5, <1>a DEF Shown, Decodes
    <2>2. Chained(T)
      BY <2>1, ChainKept
    <2>3. Complete(T, b, m)
      BY <2>1, CompleteKept
    <2> QED BY <2>2, <2>3
  <1> QED BY <1>3, <1>4, <1>5 DEF Shown

\* A response, or a torn one, of the request that is handled.
LEMMA ResponseShown ==
    ASSUME NEW n \in Nat, NEW a, NEW b, NEW S, NEW l \in Nat, Shown(S, l, a, n),
           NEW item \in Item, item.req = a.cur, item.what \in {"response", "torn"},
           NEW T, T = Append(S, item), a.cur \in 1 .. n, Queued(a) \subseteq 1 .. n, Rising(a),
           stream[a.cur] # "trigger", ~a.destroyed, Pending(b) = Queued(a),
           a.incoming = <<>> => b.incoming = <<>> /\ b.cur = 0,
           a.state = "dead" /\ stream[a.cur] = "search" => b.state = "dead"
    PROVE  Shown(T, l, b, n)
  <1> DEFINE c == a.cur
  <1>0. PICK z : z = Len(S) + 1
    OBVIOUS
  <1>1. /\ T \in Seq(Item) /\ Len(T) = z /\ z \in Nat /\ DOMAIN S = 1 .. Len(S)
        /\ Len(S) = z - 1 /\ DOMAIN T = 1 .. z /\ T[z] = item
        /\ \A k \in 1 .. z - 1 : T[k] = S[k]
        /\ c \in Nat /\ c # 0
    <2>1. S \in Seq(Item)
      BY DEF Shown
    <2>2. Len(S) \in Nat /\ DOMAIN S = 1 .. Len(S)
      BY <2>1, LenProperties
    <2>3. /\ T \in Seq(Item) /\ Len(T) = Len(S) + 1 /\ T[Len(S) + 1] = item
          /\ \A k \in 1 .. Len(S) : T[k] = S[k]
      BY <2>1, AppendProperties
    <2>4. DOMAIN T = 1 .. Len(T)
      BY <2>3, LenProperties
    <2>5. Len(S) = z - 1 /\ z \in Nat
      BY <1>0, <2>2
    <2> QED BY <1>0, <2>2, <2>3, <2>4, <2>5
  <1>2. /\ \A k \in 1 .. z : k = z \/ k \in 1 .. z - 1
        /\ \A k \in 1 .. z - 1 : k < z /\ k \in 1 .. z
    BY <1>1
  <1>3. c \in Pending(a) /\ Queued(a) \subseteq Pending(a)
    BY <1>1 DEF Pending
  <1>4. \A r \in Queued(a) : c < r
    BY <1>1 DEF Rising, Queued
  <1>5. \A j, k \in 1 .. z - 1 :
          IsResponse(S, j) /\ IsResponse(S, k) /\ j < k => S[j].req < S[k].req
    BY <1>1 DEF Shown, Ordered
  <1>6. \A k \in 1 .. z - 1 :
          IsResponse(S, k) => S[k].req <= n /\ \A r \in Pending(a) : S[k].req < r
    BY <1>1 DEF Shown, Ordered
  <1>7. \A k \in 1 .. z - 1 : /\ IsResponse(T, k) => IsResponse(S, k)
                              /\ IsClose(T, k) => IsClose(S, k)
    BY <1>1 DEF IsResponse, IsClose
  <1>8. c <= n
    BY <1>1
  <1>9. ~IsClose(T, z)
    BY <1>1 DEF IsClose
  <1> HIDE DEF c
  <1>10. item.req = c
    BY DEF c
  <1>11. Ordered(T, b, n)
    <2>1. ASSUME NEW j \in 1 .. z, NEW k \in 1 .. z, IsResponse(T, j), IsResponse(T, k), j < k
          PROVE  T[j].req < T[k].req
      <3>1. j \in 1 .. z - 1
        BY <1>1, <2>1
      <3>2. CASE k = z
        <4>1. IsResponse(S, j) /\ T[j] = S[j] /\ T[k].req = c
          BY <1>1, <1>7, <1>10, <2>1, <3>1, <3>2
        <4> QED BY <1>3, <1>6, <3>1, <4>1
      <3>3. CASE k \in 1 .. z - 1
        <4>1. IsResponse(S, j) /\ T[j] = S[j] /\ IsResponse(S, k) /\ T[k] = S[k]
          BY <1>1, <1>7, <2>1, <3>1, <3>3
        <4> QED BY <1>5, <2>1, <3>1, <3>3, <4>1
      <3> QED BY <1>2, <3>2, <3>3
    <2>2. ASSUME NEW k \in 1 .. z, IsResponse(T, k)
          PROVE  T[k].req <= n /\ \A r \in Pending(b) : T[k].req < r
      <3>1. CASE k = z
        BY <1>1, <1>4, <1>8, <1>10, <3>1
      <3>2. CASE k \in 1 .. z - 1
        <4>1. IsResponse(S, k) /\ T[k] = S[k]
          BY <1>1, <1>7, <2>2, <3>2
        <4> QED BY <1>3, <1>6, <3>2, <4>1
      <3> QED BY <1>2, <3>1, <3>2
    <2> QED BY <1>1, <2>1, <2>2 DEF Ordered
  <1>12. Closing(T, l, b)
    <2>1. ASSUME NEW j \in 1 .. z, IsClose(T, j)
          PROVE  /\ j \in 1 .. z - 1 /\ IsClose(S, j) /\ T[j] = S[j]
                 /\ a.state = "dead" /\ a.incoming = <<>> /\ c < S[j].req
                 /\ stream[c] = "search"
      <3>1. j \in 1 .. z - 1
        BY <1>2, <1>9, <2>1
      <3>2. IsClose(S, j) /\ T[j] = S[j]
        BY <1>1, <1>7, <2>1, <3>1
      <3>3. /\ a.state = "dead" /\ a.incoming = <<>>
            /\ a.cur # 0 => a.cur < S[j].req /\ stream[a.cur] = "search"
        BY <1>1, <3>1, <3>2 DEF Shown, Closing
      <3> QED BY <1>1, <3>1, <3>2, <3>3 DEF c
    <2>2. ASSUME NEW j \in 1 .. z, NEW k \in 1 .. z, IsClose(T, j), j < k
          PROVE  T[k].req < T[j].req
      <3>1. IsClose(S, j) /\ T[j] = S[j] /\ c < S[j].req /\ j \in 1 .. z - 1
        BY <2>1, <2>2
      <3>2. CASE k = z
        BY <1>1, <1>10, <3>1, <3>2
      <3>3. CASE k \in 1 .. z - 1
        <4>1. T[k] = S[k] /\ S[k].req < S[j].req
          BY <1>1, <2>2, <3>1, <3>3 DEF Shown, Closing
        <4> QED BY <3>1, <4>1
      <3> QED BY <1>2, <3>2, <3>3
    <2>3. ASSUME NEW j \in 1 .. z, IsClose(T, j)
          PROVE  b.state = "dead" /\ b.incoming = <<>> /\ b.cur = 0
      BY <2>1, <2>3 DEF c
    <2> QED BY <1>1, <2>2, <2>3 DEF Closing
  <1>13. ASSUME Decodes(n) PROVE Chained(T) /\ Complete(T, b, n)
    <2>0. Chained(S) /\ Complete(S, a, n)
      BY <1>13 DEF Shown
    <2>1. ASSUME AllResponses(T, z)
          PROVE  /\ Answerable(1 .. n) = Requested(S, z - 1) \cup Answerable(Pending(a))
                 /\ Requested(T, z) = Requested(S, z - 1) \cup {c}
                 /\ \A k \in 1 .. z - 1 : IsResponse(S, k)
      <3>1. \A k \in 1 .. z - 1 : S[k].what = "response" /\ S[k].req = T[k].req
        BY <1>1, <1>2, <2>1 DEF AllResponses
      <3>2. AllResponses(S, Len(S)) /\ ~Finished(a)
        BY <1>1, <3>1 DEF AllResponses, Finished, c
      <3>3. Answerable(1 .. n) = Requested(S, z - 1) \cup Answerable(Pending(a))
        BY <1>1, <2>0, <3>2 DEF Complete
      <3>4. T[z].req = c /\ z \in 1 .. z
        BY <1>1, <1>10
      <3>5. Requested(T, z) = Requested(S, z - 1) \cup {c}
        <4>1. ASSUME NEW x \in Requested(T, z) PROVE x \in Requested(S, z - 1) \cup {c}
          <5>1. PICK k \in 1 .. z : x = T[k].req
            BY <4>1 DEF Requested
          <5>2. CASE k = z
            BY <3>4, <5>1, <5>2
          <5>3. CASE k \in 1 .. z - 1
            BY <3>1, <5>1, <5>3 DEF Requested
          <5> QED BY <1>2, <5>2, <5>3
        <4>2. ASSUME NEW x \in Requested(S, z - 1) PROVE x \in Requested(T, z)
          <5>1. PICK k \in 1 .. z - 1 : x = S[k].req
            BY <4>2 DEF Requested
          <5> QED BY <1>2, <3>1, <5>1 DEF Requested
        <4>3. c \in Requested(T, z)
          BY <3>4 DEF Requested
        <4> QED BY <4>1, <4>2, <4>3
      <3>6. \A k \in 1 .. z - 1 : IsResponse(S, k)
        BY <1>1, <3>1 DEF IsResponse
      <3> QED BY <3>3, <3>5, <3>6
    <2>2. Chained(T)
      <3> SUFFICES ASSUME NEW k \in 1 .. z, AllResponses(T, k)
                   PROVE  Answerable(1 .. T[k].req) = Requested(T, k)
        BY <1>1 DEF Chained
      <3>1. CASE k \in 1 .. z - 1
        <4>0. \A j \in 1 .. k : j \in 1 .. z - 1
          BY <1>1, <3>1
        <4>1. \A j \in 1 .. k : T[j] = S[j]
          BY <1>1, <4>0
        <4>2. AllResponses(S, k) /\ Requested(S, k) = Requested(T, k) /\ T[k] = S[k]
          BY <1>1, <3>1, <4>1 DEF AllResponses, Requested
        <4> QED BY <1>1, <2>0, <3>1, <4>2 DEF Chained
      <3>2. CASE k = z
        <4>1. /\ Answerable(1 .. n) = Requested(S, z - 1) \cup Answerable(Pending(a))
              /\ Requested(T, z) = Requested(S, z - 1) \cup {c}
              /\ \A j \in 1 .. z - 1 : IsResponse(S, j)
          BY <2>1, <3>2
        <4>2. T[k].req = c
          BY <1>1, <1>10, <3>2
        <4>3. \A i \in Requested(S, z - 1) : i < c
          BY <1>3, <1>6, <4>1 DEF Requested
        <4>4. \A i \in Requested(S, z - 1) : i \in 1 .. n /\ stream[i] # "trigger"
          BY <4>1 DEF Answerable
        <4>5. \A i \in 1 .. n : i < c => i \in 1 .. c
          BY <1>1
        <4>6. \A i \in Pending(a) : i = c \/ c < i
          BY <1>4 DEF Pending, c
        <4>7. \A i \in 1 .. c : i \in 1 .. n /\ ~(c < i)
          BY <1>1, <1>8
        <4>8. ASSUME NEW i \in Answerable(1 .. c) PROVE i \in Requested(T, z)
          <5>1. i \in 1 .. n /\ stream[i] # "trigger" /\ ~(c < i)
            BY <4>7 DEF Answerable
          <5>2. i \in Requested(S, z - 1) \/ i \in Pending(a)
            BY <4>1, <5>1 DEF Answerable
          <5> QED BY <4>1, <4>6, <5>1, <5>2
        <4>9. ASSUME NEW i \in Requested(T, z) PROVE i \in Answerable(1 .. c)
          <5>1. c \in 1 .. c /\ stream[c] # "trigger"
            BY <1>1 DEF c
          <5> QED BY <4>1, <4>3, <4>4, <4>5, <5>1 DEF Answerable
        <4> QED BY <3>2, <4>2, <4>8, <4>9
      <3> QED BY <1>2, <3>1, <3>2
    <2>3. Complete(T, b, n)
      <3> SUFFICES ASSUME AllResponses(T, z)
                   PROVE  Answerable(1 .. n) = Requested(T, z) \cup Answerable(Pending(b))
        BY <1>1 DEF Complete
      <3>1. /\ Answerable(1 .. n) = Requested(S, z - 1) \cup Answerable(Pending(a))
            /\ Requested(T, z) = Requested(S, z - 1) \cup {c}
        BY <2>1
      <3>2. Pending(a) = Pending(b) \cup {c} /\ stream[c] # "trigger"
        BY <1>1 DEF Pending, c
      <3>3. Answerable(Pending(a)) = Answerable(Pending(b)) \cup {c}
        BY <3>2 DEF Answerable
      <3> QED BY <3>1, <3>3
    <2> QED BY <2>2, <2>3
  <1> QED BY <1>1, <1>11, <1>12, <1>13 DEF Shown

\* A Close is all that is to be sent, or nothing.  A search may still be handled.
EndsIn(a, b, i, m) ==
    /\ b.incoming = <<>> /\ b.state = "dead" /\ b.cur \in {0, a.cur}
    /\ b.cur # 0 => b.cur < i /\ stream[b.cur] = "search" /\ ~Decodes(m)
    /\ b.outgoing = <<>> \/ b.outgoing = <<[req |-> i, what |-> "close"]>>

LEMMA CloseShown ==
    ASSUME NEW n \in Nat, NEW m \in Nat, n <= m, NEW a, NEW b, NEW i \in Nat,
           NEW P \in Seq(Item), NEW q \in Seq(Item), NEW l, l = Len(P),
           Shown(P \o q, l, a, n), \A r \in Pending(a) : r \in Nat,
           ~(a.state = "dead" /\ a.cur = 0), EndsIn(a, b, i, m)
    PROVE  Shown(P \o b.outgoing, l, b, m)
  <1>0. PICK r : r = b.outgoing
    OBVIOUS
  <1>z. /\ b.incoming = <<>> /\ b.state = "dead" /\ b.cur \in {0, a.cur}
        /\ b.cur # 0 => b.cur < i /\ stream[b.cur] = "search" /\ ~Decodes(m)
        /\ r = <<>> \/ r = <<[req |-> i, what |-> "close"]>>
    BY <1>0 DEF EndsIn
  <1> DEFINE S == P \o q
             T == P \o r
             x == [req |-> i, what |-> "close"]
  <1>1. x \in Item /\ x.req = i /\ x.what = "close"
    BY DEF Item
  <1>2. r \in Seq(Item) /\ (r = <<>> \/ r = <<x>>)
    <2>1. <<>> \in Seq(Item) /\ <<x>> \in Seq(Item)
      BY <1>1
    <2> QED BY <1>z, <2>1
  <1>3. PICK k : k = Len(r)
    OBVIOUS
  <1>4. k = 0 \/ (k = 1 /\ r[1] = x)
    BY <1>2, <1>3
  <1> HIDE DEF x
  <1>5. PICK g : g = Len(q)
    OBVIOUS
  <1>6. /\ S \in Seq(Item) /\ l \in Nat /\ g \in Nat /\ DOMAIN S = 1 .. l + g
        /\ \A j \in 1 .. l : S[j] = P[j] /\ j \in 1 .. l + g
    <2>1. S = P \o q
      OBVIOUS
    <2> HIDE DEF S
    <2>2. Joined(S, P, q, l, g)
      BY <1>5, <2>1, SaidIs
    <2> QED BY <2>2 DEF Joined
  <1>7. /\ T \in Seq(Item) /\ Len(T) = l + k /\ DOMAIN T = 1 .. l + k
        /\ \A j \in 1 .. l : T[j] = P[j]
        /\ \A j \in 1 .. k : T[l + j] = r[j]
    <2>1. T = P \o r
      OBVIOUS
    <2> HIDE DEF T
    <2>2. Joined(T, P, r, l, k)
      BY <1>2, <1>3, <2>1, SaidIs
    <2> QED BY <2>2 DEF Joined
  <1> HIDE DEF S, T
  <1>8. Shown(S, l, a, n)
    BY DEF S
  <1>9. \A j \in 1 .. l : T[j] = S[j] /\ j \in DOMAIN S
    BY <1>6, <1>7
  <1>10. \A j \in DOMAIN T : j \in 1 .. l \/ (j = l + 1 /\ T[j] = x)
    <2> SUFFICES ASSUME NEW j \in 1 .. l + k PROVE j \in 1 .. l \/ (j = l + 1 /\ T[j] = x)
      BY <1>7
    <2>1. CASE k = 0
      BY <1>6, <2>1
    <2>2. CASE k = 1 /\ r[1] = x
      <3>1. T[l + 1] = x
        BY <1>7, <2>2
      <3> QED BY <1>6, <2>2, <3>1
    <2> QED BY <1>4, <2>1, <2>2
  <1>11. \A j \in 1 .. l : ~IsClose(T, j)
    <2> SUFFICES ASSUME NEW j \in 1 .. l, IsClose(T, j) PROVE FALSE
      OBVIOUS
    <2>1. j \in DOMAIN S /\ IsClose(S, j)
      BY <1>9 DEF IsClose
    <2>2. a.state = "dead" /\ (a.cur # 0 => l < j)
      BY <1>8, <2>1 DEF Shown, Closing
    <2> QED BY <1>6, <2>2
  <1>12. \A j : IsResponse(T, j) => j \in 1 .. l /\ IsResponse(S, j) /\ T[j] = S[j]
    BY <1>1, <1>9, <1>10 DEF IsResponse
  <1>13. \A j : IsClose(T, j) => j = l + 1 /\ T[j] = x
    BY <1>10, <1>11 DEF IsClose
  <1>14. Pending(b) \subseteq Pending(a)
    <2>1. DOMAIN (<<>>) = {}
      OBVIOUS
    <2> QED BY <1>z, <2>1 DEF Pending, Queued
  <1>15. Ordered(T, b, m)
    <2>1. \A j \in DOMAIN S : S[j].req \in Nat
      BY <1>6, ItemsOf
    <2>2. ASSUME NEW j \in DOMAIN T, NEW k1 \in DOMAIN T, IsResponse(T, j), IsResponse(T, k1), j < k1
          PROVE  T[j].req < T[k1].req
      BY <1>8, <1>9, <1>12, <2>2 DEF Shown, Ordered
    <2>3. ASSUME NEW j \in DOMAIN T, IsResponse(T, j)
          PROVE  T[j].req <= m /\ \A p \in Pending(b) : T[j].req < p
      <3>1. S[j].req \in Nat /\ S[j].req <= n /\ T[j] = S[j] /\ \A p \in Pending(a) : S[j].req < p
        BY <1>8, <1>9, <1>12, <2>1, <2>3 DEF Shown, Ordered
      <3> QED BY <1>14, <3>1
    <2> QED BY <2>2, <2>3 DEF Ordered
  <1>16. Closing(T, l, b)
    <2>1. \A j, k1 \in DOMAIN T : IsClose(T, j) => ~(j < k1)
      <3>1. \A k1 \in 1 .. l + k : ~(l + 1 < k1)
        BY <1>4, <1>6
      <3> QED BY <1>7, <1>13, <3>1
    <2>2. \A j \in DOMAIN T : IsClose(T, j) => (b.cur # 0 => l < j /\ b.cur < T[j].req)
      BY <1>z, <1>1, <1>6, <1>13
    <2> QED BY <1>z, <2>1, <2>2 DEF Closing
  <1>a. \A req \in 1 .. n : req \in 1 .. m
    OBVIOUS
  <1>17. ASSUME Decodes(m) PROVE Chained(T) /\ Complete(T, b, m)
    <2>0. Decodes(n)
      BY <1>17, <1>a DEF Decodes
    <2>1. Finished(b)
      BY <1>z, <1>17 DEF Finished
    <2>2. Chained(T)
      <3> SUFFICES ASSUME NEW j \in DOMAIN T, AllResponses(T, j)
                   PROVE  Answerable(1 .. T[j].req) = Requested(T, j)
        BY DEF Chained
      <3>1. j \in 1 .. j /\ j \in Nat
        BY <1>6, <1>7
      <3>2. IsResponse(T, j)
        BY <3>1 DEF AllResponses, IsResponse
      <3>3. j \in 1 .. l /\ T[j] = S[j] /\ j \in DOMAIN S
        BY <1>9, <1>12, <3>2
      <3>4. \A g1 \in 1 .. j : g1 \in 1 .. l
        BY <1>6, <3>3
      <3>5. \A g1 \in 1 .. j : T[g1] = S[g1]
        BY <1>9, <3>4
      <3>6. AllResponses(S, j) /\ Requested(S, j) = Requested(T, j)
        BY <3>5 DEF AllResponses, Requested
      <3> QED BY <1>8, <2>0, <3>3, <3>6 DEF Shown, Chained
    <2> QED BY <2>1, <2>2 DEF Complete
  <1>18. Shown(T, l, b, m)
    BY <1>7, <1>15, <1>16, <1>17 DEF Shown
  <1> QED BY <1>0, <1>18 DEF T

-----------------------------------------------------------------------------
(* The steps of the event loop.                                            *)

LEMMA Start ==
    ASSUME AInv, OInv
    PROVE  /\ taken \in Nat /\ Sane(as, taken) /\ IsAs(as) /\ as.cur \in Nat
           /\ as.outgoing \in Seq(Item) /\ sent \in Seq(Item) /\ Len(sent) \in Nat
           /\ Said = sent \o as.outgoing /\ Said \in Seq(Item)
           /\ Shown(Said, Len(sent), as, taken)
           /\ \A r \in Pending(as) : r \in 1 .. taken /\ r \in Nat
           /\ \A r \in Queued(as) : r \in 1 .. taken
           /\ as.cur # 0 => as.cur \in 1 .. taken
  <1>1. taken \in Nat /\ Sane(as, taken)
    BY Basics
  <1>2. IsAs(as) /\ as.cur \in Nat /\ as.outgoing \in Seq(Item) /\ as.cur <= taken
    BY <1>1 DEF Sane, IsAs
  <1>3. /\ \A r \in Pending(as) : r \in 1 .. taken
        /\ \A r \in Queued(as) : r \in 1 .. taken
    BY <1>1, QueueFacts
  <1>4. sent \in Seq(Item) /\ Len(sent) \in Nat
    BY LenProperties DEF OInv
  <1>5. Said = sent \o as.outgoing /\ Said \in Seq(Item) /\ Shown(Said, Len(sent), as, taken)
    BY DEF OInv, Shown, Said
  <1>a. /\ \A c, t \in Nat : c <= t /\ c # 0 => c \in 1 .. t
        /\ \A t \in Nat : \A c \in 1 .. t : c \in Nat
    OBVIOUS
  <1>b. taken \in Nat
    BY <1>1
  <1>6. as.cur # 0 => as.cur \in 1 .. taken
    BY <1>2, <1>a, <1>b
  <1>7. \A r \in Pending(as) : r \in Nat
    BY <1>3, <1>a, <1>b
  <1> QED BY <1>1, <1>2, <1>3, <1>4, <1>5, <1>6, <1>7

\* What a step of the server has to show.
LEMMA OrderStep ==
    ASSUME AInv, OInv, stream' = stream, taken' \in Nat, taken <= taken', sent' \in Seq(Item),
           Rising(as'), Shown(sent' \o as'.outgoing, Len(sent'), as', taken'),
           as'.destroyed => todo' = {} /\ as'.cur = 0 /\ as'.incoming = <<>>,
           taken' = taken => (as.cur = 0 => as'.cur = 0)
    PROVE  OInv'
  <1>1. taken \in Nat /\ Len(stream) \in Nat
    BY Basics
  <1>2. Decodes(taken)' => Decodes(taken')
    BY DEF Decodes
  <1>3. BadNext'
    <2>1. CASE taken' = taken
      BY <2>1 DEF BadNext, OInv
    <2>2. CASE taken' # taken
      <3>1. \A i \in taken' + 1 .. Len(stream) : i \in taken + 1 .. Len(stream) /\ i # taken + 1
        BY <1>1, <2>2
      <3> QED BY <3>1 DEF BadNext, OInv
    <2> QED BY <2>1, <2>2
  <1>4. Said' = sent' \o as'.outgoing
    BY DEF Said
  <1>5. /\ Said' \in Seq(Item) /\ Ordered(Said', as', taken') /\ Closing(Said', Len(sent'), as')
        /\ Decodes(taken') => Chained(Said') /\ Complete(Said', as', taken')
    BY <1>4 DEF Shown
  <1>6. Closing(Said, Len(sent), as)'
    BY <1>5 DEF Closing
  <1>7. Decodes(taken)' => Chained(Said)'
    BY <1>2, <1>5 DEF Chained, Answerable
  <1>8. Decodes(taken)' => Complete(Said, as, taken)'
    BY <1>2, <1>5 DEF Complete, Answerable
  <1>9. Shown(Said, Len(sent), as, taken)'
    BY <1>5, <1>6, <1>7, <1>8 DEF Shown
  <1>10. Over'
    BY DEF Over
  <1> QED BY <1>3, <1>9, <1>10 DEF OInv

\* The queues are as they were.
SameQueues(a, b) == /\ b.cur = a.cur /\ b.incoming = a.incoming /\ b.outgoing = a.outgoing
                    /\ b.destroyed = a.destroyed /\ (a.state = "dead" => b.state = "dead")

LEMMA SameIs ==
    ASSUME NEW a, NEW b, SameQueues(a, b)
    PROVE  /\ Queued(b) = Queued(a) /\ Pending(b) = Pending(a)
           /\ Rising(a) => Rising(b)
           /\ Finished(a) => Finished(b)
  BY DEF SameQueues, Queued, Pending, Rising, Finished

LEMMA SameStep ==
    ASSUME AInv, OInv, UNCHANGED <<stream, taken, sent>>, SameQueues(as, as'),
           as.destroyed => todo' = {}
    PROVE  OInv'
  <1>0. PICK b : b = as'
    OBVIOUS
  <1>1. SameQueues(as, b)
    BY <1>0
  <1>2. /\ taken \in Nat /\ Len(sent) \in Nat /\ Said = sent \o as.outgoing /\ Said \in Seq(Item)
        /\ Shown(Said, Len(sent), as, taken) /\ sent \in Seq(Item)
    BY Start
  <1>3. Pending(b) = Pending(as) /\ Rising(b) /\ (Finished(as) => Finished(b))
    BY <1>1, SameIs DEF OInv
  <1>4. Weaker(Said, Said)
    BY DEF Weaker
  <1>5. \A r \in taken + 1 .. taken : FALSE
    BY <1>2
  <1>6. /\ taken <= taken /\ Len(sent) <= Len(sent)
    BY <1>2
  <1>7. as.state = "dead" /\ as.incoming = <<>> =>
          b.state = "dead" /\ b.incoming = <<>> /\ (b.cur # 0 => b.cur = as.cur /\ Len(sent) <= Len(sent))
    BY <1>1, <1>6 DEF SameQueues
  <1>8. Shown(Said, Len(sent), b, taken)
    BY <1>2, <1>3, <1>4, <1>5, <1>6, <1>7, QuietShown
  <1>9. sent' \o b.outgoing = Said /\ sent' = sent
    BY <1>1, <1>2 DEF SameQueues
  <1>10. b.destroyed => todo' = {} /\ b.cur = 0 /\ b.incoming = <<>>
    BY <1>1 DEF SameQueues, OInv, Over
  <1>11. as.cur = 0 => b.cur = 0
    BY <1>1 DEF SameQueues
  <1> QED BY <1>0, <1>2, <1>3, <1>6, <1>8, <1>9, <1>10, <1>11, OrderStep

\* Nothing is to be sent any more.
LEMMA SentIsWeaker ==
    ASSUME AInv, OInv
    PROVE  sent \o <<>> = sent /\ Weaker(sent, Said)
  <1>1. /\ sent \in Seq(Item) /\ as.outgoing \in Seq(Item) /\ Said = sent \o as.outgoing
    BY Start
  <1>2. sent \o <<>> = sent
    BY <1>1
  <1>3. PICK l : l = Len(sent)
    OBVIOUS
  <1>4. PICK h : h = Len(as.outgoing)
    OBVIOUS
  <1>5. PICK q : q = as.outgoing
    OBVIOUS
  <1>6. q \in Seq(Item) /\ h = Len(q) /\ Said = sent \o q
    BY <1>1, <1>4, <1>5
  <1>7. /\ DOMAIN Said = 1 .. l + h /\ DOMAIN sent = 1 .. l
        /\ \A i \in 1 .. l : Said[i] = sent[i] /\ i \in 1 .. l + h
    <2>1. Joined(Said, sent, q, l, h)
      BY <1>1, <1>3, <1>6, SaidIs
    <2> QED BY <2>1 DEF Joined
  <1> QED BY <1>2, <1>7 DEF Weaker

LEMMA DestroyedStep ==
    ASSUME AInv, OInv, UNCHANGED <<stream, taken, sent>>, todo' = {},
           NEW p, IsAs(p), p.state = as.state, as' = Destroyed(p)
    PROVE  OInv'
  <1>0. PICK b : b = as'
    OBVIOUS
  <1>1. b = Destroyed(p)
    BY <1>0
  <1>2. /\ taken \in Nat /\ Len(sent) \in Nat /\ Said \in Seq(Item) /\ IsAs(as)
        /\ Shown(Said, Len(sent), as, taken) /\ sent \in Seq(Item)
    BY Start
  <1>3. /\ b.cur = 0 /\ b.incoming = <<>> /\ b.outgoing = <<>> /\ b.destroyed
        /\ b.state = as.state
    BY <1>1, <1>2 DEF Destroyed, IsAs, Fields
  <1>5. DOMAIN (<<>>) = {}
    OBVIOUS
  <1>6. Pending(b) = {} /\ Rising(b) /\ Finished(b)
    BY <1>3, <1>5 DEF Pending, Queued, Rising, Finished
  <1>7. sent \o <<>> = sent /\ Weaker(sent, Said)
    BY SentIsWeaker
  <1>8. taken <= taken
    BY <1>2
  <1>9. Shown(sent, Len(sent), b, taken)
    BY <1>2, <1>3, <1>6, <1>7, <1>8, QuietShown
  <1>10. sent' \o b.outgoing = sent /\ sent' = sent
    BY <1>3, <1>7
  <1> QED BY <1>0, <1>2, <1>3, <1>6, <1>8, <1>9, <1>10, OrderStep

LEMMA DestroyStep ==
    ASSUME AInv, OInv, UNCHANGED <<stream, taken, sent>>, NEW e, Event(e, Destroyed(as))
    PROVE  OInv'
  <1>1. as' = Destroyed(as) /\ todo' = IF Destroyed(as).destroyed THEN {} ELSE todo \ {e}
    BY DEF Event
  <1>2. IsAs(as)
    BY Start
  <1>3. Destroyed(as).destroyed
    BY <1>2 DEF Destroyed, IsAs, Fields
  <1>4. todo' = {}
    BY <1>1, <1>3
  <1> QED BY <1>1, <1>2, <1>4, DestroyedStep

LEMMA PollOrdered == AInv /\ OInv /\ (Poll \/ Idle) => OInv'
  <1> SUFFICES ASSUME AInv, OInv, Poll \/ Idle PROVE OInv'
    OBVIOUS
  <1> DEFINE b == [as EXCEPT !.force = FALSE]
  <1>1. UNCHANGED <<stream, taken, sent>> /\ ~as.destroyed /\ (as' = as \/ as' = b)
    BY DEF Poll, Idle, Waiting
  <1>2. IsAs(as)
    BY Start
  <1>3. SameQueues(as, as) /\ SameQueues(as, b)
    BY <1>2 DEF SameQueues, IsAs, Fields
  <1> HIDE DEF b
  <1> QED BY <1>1, <1>3, SameStep

LEMMA IdleEventOrdered ==
    ASSUME AInv, OInv, UNCHANGED <<stream, taken, sent>>, NEW e,
           NEW a, SameQueues(as, a), Event(e, a)
    PROVE  OInv'
  <1>1. as' = a /\ todo' = IF a.destroyed THEN {} ELSE todo \ {e}
    BY DEF Event
  <1>2. as.destroyed => todo' = {}
    BY <1>1 DEF SameQueues
  <1> QED BY <1>1, <1>2, SameStep

LEMMA SameAsIs == AInv /\ OInv => SameQueues(as, as) /\ SameQueues(as, [as EXCEPT !.state = "dead"])
  <1> SUFFICES ASSUME AInv, OInv
               PROVE  SameQueues(as, as) /\ SameQueues(as, [as EXCEPT !.state = "dead"])
    OBVIOUS
  <1>1. IsAs(as)
    BY Start
  <1> QED BY <1>1 DEF SameQueues, IsAs, Fields

LEMMA EventsOrdered ==
    AInv /\ OInv /\ (InputToDead \/ InputIncomplete \/ InputEnds \/ OutputIncomplete
                     \/ OutputFails \/ OutputIgnored \/ Except) => OInv'
  <1> SUFFICES ASSUME AInv, OInv, InputToDead \/ InputIncomplete \/ InputEnds
                                  \/ OutputIncomplete \/ OutputFails \/ OutputIgnored \/ Except
               PROVE  OInv'
    OBVIOUS
  <1>1. SameQueues(as, as) /\ SameQueues(as, [as EXCEPT !.state = "dead"])
    BY SameAsIs
  <1>2. CASE InputToDead
    <2>1. UNCHANGED <<stream, taken, sent>>
      BY <1>2 DEF InputToDead
    <2>2. Event("input", Destroyed(as)) \/ Event("input", as)
      BY <1>2 DEF InputToDead
    <2> QED BY <1>1, <2>1, <2>2, DestroyStep, IdleEventOrdered
  <1>3. CASE InputIncomplete
    BY <1>1, <1>3, IdleEventOrdered DEF InputIncomplete
  <1>4. CASE InputEnds
    BY <1>1, <1>4, IdleEventOrdered DEF InputEnds
  <1>5. CASE OutputIncomplete
    BY <1>1, <1>5, IdleEventOrdered DEF OutputIncomplete
  <1>6. CASE OutputFails
    BY <1>6, DestroyStep DEF OutputFails
  <1>7. CASE OutputIgnored
    BY <1>1, <1>7, IdleEventOrdered DEF OutputIgnored
  <1>8. CASE Except
    BY <1>8, DestroyStep DEF Except
  <1> QED BY <1>2, <1>3, <1>4, <1>5, <1>6, <1>7, <1>8

LEMMA LeaveOrReadsOrdered == AInv /\ OInv /\ (Leave \/ Reads) => OInv'
  <1> SUFFICES ASSUME AInv, OInv, Leave \/ Reads PROVE OInv'
    OBVIOUS
  <1>1. UNCHANGED <<stream, taken, as, sent>> /\ ~as.destroyed
    BY DEF Leave, Reads
  <1>2. SameQueues(as, as')
    BY <1>1, SameAsIs
  <1> QED BY <1>1, <1>2, SameStep

\* What is put moves from the outgoing queue to what was sent, whole or torn.
LEMMA Moved ==
    ASSUME NEW P \in Seq(Item), NEW q \in Seq(Item), q # <<>>, NEW x \in Item,
           x.req = q[1].req, x.what = q[1].what \/ x.what = "torn"
    PROVE  /\ Append(P, x) \o Tail(q) \in Seq(Item)
           /\ Len(Append(P, x) \o Tail(q)) = Len(P \o q)
           /\ Weaker(Append(P, x) \o Tail(q), P \o q)
  <1> DEFINE A == Append(P, x)
             r == Tail(q)
             S == P \o q
             T == A \o r
  <1>1. PICK l : l = Len(P)
    OBVIOUS
  <1>2. PICK h : h = Len(q)
    OBVIOUS
  <1>3. /\ h \in Nat \ {0} /\ r \in Seq(Item) /\ Len(r) = h - 1
        /\ \A i \in 1 .. Len(r) : r[i] = q[i + 1]
    BY <1>2, EmptySeq, LenProperties, HeadTailProperties
  <1>4. /\ A \in Seq(Item) /\ Len(A) = Len(P) + 1 /\ A[Len(P) + 1] = x
        /\ \A i \in 1 .. Len(P) : A[i] = P[i]
    BY AppendProperties
  <1>5. S = P \o q /\ T = A \o r
    OBVIOUS
  <1> HIDE DEF A, r, S, T
  <1>6. /\ l \in Nat /\ Len(S) = l + h /\ DOMAIN S = 1 .. l + h
        /\ \A i \in 1 .. l : S[i] = P[i]
        /\ \A i \in 1 .. h : S[l + i] = q[i]
    <2>1. Joined(S, P, q, l, h)
      BY <1>1, <1>2, <1>5, SaidIs
    <2> QED BY <2>1 DEF Joined
  <1>7. PICK n : n = l + 1
    OBVIOUS
  <1>8. PICK k : k = h - 1
    OBVIOUS
  <1>9. n = Len(A) /\ k = Len(r)
    BY <1>1, <1>3, <1>4, <1>7, <1>8
  <1>10. /\ T \in Seq(Item) /\ Len(T) = n + k /\ DOMAIN T = 1 .. n + k
         /\ \A i \in 1 .. n : T[i] = A[i]
         /\ \A i \in 1 .. k : T[n + i] = r[i]
    <2>1. r \in Seq(Item) /\ A \in Seq(Item) /\ T = A \o r
      BY <1>3, <1>4, <1>5
    <2>2. Joined(T, A, r, n, k)
      BY <1>9, <2>1, SaidIs
    <2> QED BY <2>2 DEF Joined
  <1>11. n + k = l + h
    BY <1>3, <1>6, <1>7, <1>8
  <1>12. ASSUME NEW i \in 1 .. l + h
         PROVE  T[i].req = S[i].req /\ (T[i].what = S[i].what \/ T[i].what = "torn")
    <2>1. CASE i \in 1 .. l
      <3>1. i \in 1 .. n
        BY <1>6, <1>7, <2>1
      <3>2. T[i] = A[i] /\ A[i] = P[i] /\ S[i] = P[i]
        BY <1>1, <1>4, <1>6, <1>10, <2>1, <3>1
      <3> QED BY <3>2
    <2>2. CASE i = l + 1
      <3>1. n \in 1 .. n /\ 1 \in 1 .. h
        BY <1>3, <1>6, <1>7
      <3>2. T[i] = x /\ S[i] = q[1]
        BY <1>1, <1>4, <1>6, <1>7, <1>10, <2>2, <3>1
      <3> QED BY <3>2
    <2>3. CASE ~(i <= l + 1)
      <3>1. PICK j : j = i - (l + 1)
        OBVIOUS
      <3>2. j \in 1 .. k /\ i = n + j /\ i = l + (j + 1) /\ j + 1 \in 1 .. h
        BY <1>3, <1>6, <1>7, <1>8, <2>3, <3>1
      <3>3. T[i] = r[j]
        BY <1>10, <3>2
      <3>4. r[j] = q[j + 1]
        BY <1>3, <1>9, <3>2
      <3>5. S[i] = q[j + 1]
        BY <1>6, <3>2
      <3> QED BY <3>3, <3>4, <3>5
    <2>a. \A m1, m2 \in Nat : \A j \in 1 .. m1 + m2 :
            j \in 1 .. m1 \/ j = m1 + 1 \/ ~(j <= m1 + 1)
      OBVIOUS
    <2>b. l \in Nat /\ h \in Nat
      BY <1>3, <1>6
    <2>4. i \in 1 .. l \/ i = l + 1 \/ ~(i <= l + 1)
      BY <1>12, <2>a, <2>b
    <2> QED BY <2>1, <2>2, <2>3, <2>4
  <1>13. DOMAIN T = 1 .. l + h
    BY <1>10, <1>11
  <1>14. Weaker(T, S)
    BY <1>6, <1>12, <1>13 DEF Weaker
  <1> QED BY <1>6, <1>10, <1>11, <1>14 DEF S, T, A, r

LEMMA OutputOrdered == AInv /\ OInv /\ Output => OInv'
  <1> SUFFICES ASSUME AInv, OInv, Output PROVE OInv'
    OBVIOUS
  <1> DEFINE q == as.outgoing
  <1>0. PICK b : b = as'
    OBVIOUS
  <1>1. /\ taken \in Nat /\ Sane(as, taken) /\ IsAs(as) /\ Len(sent) \in Nat
        /\ q \in Seq(Item) /\ Said = sent \o q /\ Said \in Seq(Item)
        /\ Shown(Said, Len(sent), as, taken) /\ sent \in Seq(Item)
    BY Start
  <1>2. /\ b = PutAll(as) /\ as.cur = 0 /\ sent' = Append(sent, Putting)
        /\ UNCHANGED <<stream, taken>> /\ "output" \in todo /\ q # <<>>
    BY <1>0 DEF Output, Event, AInv, Masked
  <1>a. PICK t : t = Tail(q)
    OBVIOUS
  <1>3. Head(q) = q[1] /\ Head(q) \in Item /\ t \in Seq(Item) /\ Len(t) = Len(q) - 1
    <2>1. q \in Seq(Item) /\ q # <<>>
      BY <1>1, <1>2
    <2> HIDE DEF q
    <2>2. Head(q) \in Item /\ Tail(q) \in Seq(Item) /\ Len(Tail(q)) = Len(q) - 1
      BY <2>1, HeadTailProperties
    <2>3. Head(q) = q[1]
      OBVIOUS
    <2> QED BY <1>a, <2>2, <2>3
  <1>4. PICK x : x = Putting
    OBVIOUS
  <1>5. x \in Item /\ x.req = q[1].req /\ (x.what = q[1].what \/ x.what = "torn")
    BY <1>3, <1>4 DEF Putting, Item
  <1>6. /\ b.cur = 0 /\ b.incoming = as.incoming /\ b.outgoing = Tail(q)
        /\ b.destroyed = as.destroyed /\ b.state = as.state
    <2>1. CASE Len(q) = 1
      <3>1. Tail(q) = <<>>
        <4>1. t \in Seq(Item) /\ Len(t) = 0
          BY <1>3, <2>1
        <4>2. t = <<>>
          BY <4>1, EmptySeq
        <4> QED BY <1>a, <4>2
      <3> QED BY <1>1, <1>2, <2>1, <3>1 DEF PutAll, IsAs, Fields
    <2>2. CASE Len(q) # 1
      BY <1>1, <1>2, <2>2 DEF PutAll, IsAs, Fields
    <2> QED BY <2>1, <2>2
  <1> DEFINE T == Append(sent, x) \o Tail(q)
  <1>7. T \in Seq(Item) /\ Len(T) = Len(Said) /\ Weaker(T, Said)
    BY <1>1, <1>2, <1>5, Moved
  <1>8. ~as.destroyed
    BY <1>2 DEF OInv, Over
  <1>9. Pending(b) = Pending(as) /\ Rising(b) /\ (Finished(as) => Finished(b))
    BY <1>2, <1>6 DEF Pending, Queued, Rising, Finished, OInv
  <1>10. sent' \in Seq(Item) /\ Len(sent') \in Nat
    <2>1. Append(sent, x) \in Seq(Item)
      BY <1>1, <1>5
    <2> QED BY <1>2, <1>4, <2>1, LenProperties
  <1>11. taken <= taken /\ \A r \in taken + 1 .. taken : FALSE
    BY <1>1
  <1> HIDE DEF T
  <1>12. Shown(T, Len(sent'), b, taken)
    BY <1>1, <1>2, <1>6, <1>7, <1>9, <1>10, <1>11, QuietShown
  <1>13. sent' \o b.outgoing = T
    BY <1>2, <1>4, <1>6 DEF T
  <1> QED BY <1>0, <1>1, <1>2, <1>6, <1>8, <1>9, <1>10, <1>11, <1>12, <1>13, OrderStep

\* A request that waits is in the queue of those that were got.
LEMMA NextRequestShown ==
    ASSUME AInv, OInv, NEW m \in Nat, taken < m, NEW a, NEW b, Sane(a, m), Rising(a),
           Queued(a) = Queued(as) \cup (taken + 1 .. m), as.cur = 0,
           a.cur = 0, a.outgoing = as.outgoing, a.destroyed = as.destroyed, ~as.destroyed,
           as.state # "dead", a.state # "dead", b = NextRequest(a)
    PROVE  /\ Rising(b) /\ ~b.destroyed /\ b.outgoing = as.outgoing
           /\ Shown(Said, Len(sent), b, m)
  <1>1. /\ taken \in Nat /\ Len(sent) \in Nat /\ Said \in Seq(Item)
        /\ Shown(Said, Len(sent), as, taken)
    BY Start
  <1>2. Rising(b) /\ Pending(b) = Queued(a)
    BY NextRequestTakes
  <1>3. Kept(a, b) /\ b.outgoing = a.outgoing
    BY NextRequestIs
  <1>4. Pending(as) = Queued(as)
    BY DEF Pending
  <1>5. Weaker(Said, Said)
    BY DEF Weaker
  <1>6. ~Finished(as)
    BY DEF Finished
  <1>7. taken <= m
    BY <1>1
  <1>8. \A r : r \in Pending(b) <=> r \in Pending(as) \cup (taken + 1 .. m)
    BY <1>2, <1>4
  <1>9. Shown(Said, Len(sent), b, m)
    BY <1>1, <1>5, <1>6, <1>7, <1>8, QuietShown
  <1> QED BY <1>2, <1>3, <1>9 DEF Kept

\* The numbers of the PDUs that are read.
LEMMA BatchIs ==
    ASSUME AInv, NEW n \in Batches
    PROVE  /\ n \in Nat \ {0} /\ n - 1 \in Nat /\ taken + n \in Nat /\ taken < taken + n
           /\ taken + (n - 1) <= taken + n
           /\ taken + n \in taken + 1 .. Len(stream)
           /\ n = 1 \/ taken + n # taken + 1
           /\ \A i \in 1 .. taken + n : i \in 1 .. Len(stream)
  <1>1. n \in 1 .. Len(stream) - taken
    BY DEF Batches
  <1>2. Len(stream) \in Nat /\ taken \in Nat
    BY Basics
  <1>3. ASSUME NEW l \in Nat, NEW t \in Nat, NEW k \in 1 .. l - t
        PROVE  /\ k \in Nat \ {0} /\ k - 1 \in Nat /\ t + k \in Nat /\ t < t + k
               /\ t + (k - 1) <= t + k
               /\ t + k \in t + 1 .. l
               /\ k = 1 \/ t + k # t + 1
               /\ \A i \in 1 .. t + k : i \in 1 .. l
    OBVIOUS
  <1> QED BY <1>1, <1>2, <1>3

\* An association is closed, because of the i-th PDU or of none.
LEMMA CloseStep ==
    ASSUME AInv, OInv, stream' = stream, UNCHANGED sent, taken' \in Nat, taken <= taken',
           ~(as.state = "dead" /\ as.cur = 0), ~as'.destroyed, NEW i \in Nat,
           EndsIn(as, as', i, taken')
    PROVE  OInv'
  <1>1. /\ taken \in Nat /\ Len(sent) \in Nat /\ sent \in Seq(Item)
        /\ as.outgoing \in Seq(Item) /\ Said = sent \o as.outgoing
        /\ Shown(Said, Len(sent), as, taken)
        /\ \A r \in Pending(as) : r \in Nat
    BY Start
  <1>2. PICK q \in Seq(Item) : Said = sent \o q
    BY <1>1
  <1>3. Shown(sent \o q, Len(sent), as, taken)
    BY <1>1, <1>2
  <1>4. PICK b : b = as'
    OBVIOUS
  <1>5. EndsIn(as, b, i, taken')
    BY <1>4
  <1>6. Shown(sent \o b.outgoing, Len(sent), b, taken')
    BY <1>1, <1>3, <1>5, CloseShown
  <1>7. DOMAIN (<<>>) = {}
    OBVIOUS
  <1>8. Rising(b) /\ (as.cur = 0 => b.cur = 0)
    BY <1>5, <1>7 DEF Rising, EndsIn
  <1> QED BY <1>1, <1>4, <1>6, <1>8, OrderStep

LEMMA TimeoutOrdered == AInv /\ OInv /\ Timeout => OInv'
  <1> SUFFICES ASSUME AInv, OInv, Timeout PROVE OInv'
    OBVIOUS
  <1>1. /\ as' = TimedOut(as) /\ UNCHANGED <<stream, taken, sent>> /\ as.cur = 0
        /\ "timeout" \in todo /\ Event("timeout", TimedOut(as))
    BY DEF Timeout, Event
  <1>2. ~as.destroyed
    BY <1>1 DEF OInv, Over
  <1>3. taken \in Nat /\ Sane(as, taken)
    BY Start
  <1>4. CASE as.state = "up"
    <2>0. PICK i \in Nat : i = 0
      OBVIOUS
    <2>1. as' = DoClose(as, i)
      BY <1>1, <1>4, <2>0 DEF TimedOut
    <2>2. /\ as'.incoming = <<>> /\ as'.cur = 0
          /\ as'.outgoing = <<>> \/ as'.outgoing = <<[req |-> i, what |-> "close"]>>
      BY <1>3, <2>1, DoCloseTakes
    <2>3. as'.state = "dead" /\ as'.destroyed = as.destroyed
      BY <1>3, <2>1, DoCloseIs
    <2>4. taken <= taken
      BY <1>3
    <2>5. EndsIn(as, as', i, taken')
      BY <2>2, <2>3 DEF EndsIn
    <2> QED BY <1>1, <1>2, <1>3, <1>4, <2>3, <2>4, <2>5, CloseStep
  <1>5. CASE as.state # "up"
    <2>1. Event("timeout", Destroyed(as))
      BY <1>1, <1>5 DEF TimedOut
    <2> QED BY <1>1, <2>1, DestroyStep
  <1> QED BY <1>4, <1>5

\* A malformed PDU closes the association, and nothing waits any more.
LEMMA MalformedIs ==
    ASSUME AInv, OInv, NEW n \in Batches, stream[taken + n] = "malformed", as.getmask
    PROVE  LET b == ReadBatch(as, n)
           IN  /\ b.incoming = <<>> /\ b.cur = 0 /\ b.state = "dead"
               /\ b.destroyed = as.destroyed
               /\ \/ b.outgoing = <<>>
                  \/ b.outgoing = <<[req |-> taken + n, what |-> "close"]>>
  <1> DEFINE b == ReadBatch(as, n)
             e == Enqueued(as, n - 1)
  <1>1. /\ n \in Nat \ {0} /\ n - 1 \in Nat /\ taken + n \in Nat
        /\ taken + (n - 1) <= taken + n
    BY BatchIs
  <1>2. taken \in Nat /\ Sane(as, taken)
    BY Start
  <1>3. Sane(e, taken + (n - 1)) /\ e.destroyed = as.destroyed
    BY <1>1, <1>2, EnqueuedIs
  <1> HIDE DEF e
  <1>4. taken + (n - 1) \in Nat
    BY <1>1, <1>2
  <1>5. Sane(e, taken + n)
    BY <1>1, <1>3, <1>4, SaneMore
  <1>6. b = DoClose(e, taken + n)
    BY DEF ReadBatch, e
  <1> HIDE DEF b
  <1>7. /\ b.incoming = <<>> /\ b.cur = 0
        /\ b.outgoing = <<>> \/ b.outgoing = <<[req |-> taken + n, what |-> "close"]>>
    BY <1>1, <1>5, <1>6, DoCloseTakes
  <1>8. b.state = "dead" /\ b.destroyed = e.destroyed
    BY <1>1, <1>5, <1>6, DoCloseIs
  <1> QED BY <1>3, <1>7, <1>8 DEF b

\* PDUs that all decode wait behind those that waited.
LEMMA QueuedIn ==
    ASSUME AInv, OInv, NEW n \in Batches, stream[taken + n] \notin Malformed, as.getmask
    PROVE  LET b == ReadBatch(as, n)
           IN  /\ Sane(b, taken + n) /\ Rising(b)
               /\ Queued(b) = Queued(as) \cup (taken + 1 .. taken + n)
               /\ b.outgoing = as.outgoing /\ b.state = as.state /\ b.cur = as.cur
               /\ b.destroyed = as.destroyed
  <1> DEFINE b == ReadBatch(as, n)
  <1>1. b = Enqueued(as, n)
    BY DEF ReadBatch, Malformed
  <1>2. taken \in Nat /\ Sane(as, taken) /\ Rising(as) /\ n \in Nat
    BY Start, BatchIs DEF OInv
  <1> HIDE DEF b
  <1>3. Rising(b) /\ Queued(b) = Queued(as) \cup (taken + 1 .. taken + n)
    BY <1>1, <1>2, EnqueuedTakes
  <1>4. /\ Sane(b, taken + n) /\ b.outgoing = as.outgoing /\ b.state = as.state
        /\ b.cur = as.cur /\ b.destroyed = as.destroyed
    BY <1>1, <1>2, EnqueuedIs
  <1> QED BY <1>3, <1>4 DEF b

\* A malformed HTTP request is read when nothing else waits; it is answered at
\* once, as if it had been handled.
LEMMA BadHttpShown ==
    ASSUME AInv, OInv, NEW n \in Batches, stream[taken + n] = "badhttp", as.getmask,
           as.cur = 0, as.state # "dead", ~as.destroyed, NEW b, b = ReadBatch(as, n)
    PROVE  /\ Rising(b) /\ ~b.destroyed /\ b.cur = 0
           /\ Shown(sent \o b.outgoing, Len(sent), b, taken + n)
  <1>1. /\ n \in Nat \ {0} /\ n - 1 \in Nat /\ taken + n \in Nat /\ taken < taken + n
        /\ taken + n \in taken + 1 .. Len(stream) /\ (n = 1 \/ taken + n # taken + 1)
        /\ \A i \in 1 .. taken + n : i \in 1 .. Len(stream)
    BY BatchIs
  <1>2. /\ taken \in Nat /\ Sane(as, taken) /\ IsAs(as) /\ sent \in Seq(Item)
        /\ as.outgoing \in Seq(Item) /\ Said = sent \o as.outgoing /\ Said \in Seq(Item)
        /\ Shown(Said, Len(sent), as, taken) /\ Len(sent) \in Nat
    BY Start
  <1>3. n = 1
    BY <1>1 DEF OInv, BadNext
  <1>4. as.incoming = <<>>
    <2>1. stream[1] \in HttpKinds
      <3>1. DOMAIN stream = 1 .. Len(stream)
        BY DEF AInv, Surroundings
      <3>2. taken + n \in 1 .. taken + n
        BY <1>1, <1>2
      <3> QED BY <1>1, <3>1, <3>2 DEF AInv, OneProtocol, HttpKinds
    <2>2. NoTrigger
      <3> SUFFICES ASSUME NEW i \in 1 .. taken PROVE stream[i] # "trigger"
        BY DEF NoTrigger
      <3>1. i \in 1 .. taken + n
        BY <1>1, <1>2
      <3>2. DOMAIN stream = 1 .. Len(stream)
        BY DEF AInv, Surroundings
      <3>3. i \in DOMAIN stream
        BY <1>1, <3>1, <3>2
      <3> QED BY <2>1, <3>3 DEF AInv, OneProtocol, HttpKinds
    <2> QED BY <2>2 DEF AInv, Drained
  <1>5. PICK z : z = taken + n
    OBVIOUS
  <1>6. PICK k : k = n - 1
    OBVIOUS
  <1>7. /\ z \in Nat /\ taken < z /\ taken <= z /\ stream[z] = "badhttp" /\ z \in 1 .. z
        /\ k \in Nat /\ taken + k = taken /\ k = 0
        /\ \A r : r \in taken + 1 .. z <=> r = z
    <2>1. z = taken + 1 /\ k = 0 /\ stream[z] = "badhttp"
      BY <1>3, <1>5, <1>6
    <2>2. \A t \in Nat : /\ t + 1 \in Nat /\ t < t + 1 /\ t <= t + 1 /\ t + 1 \in 1 .. t + 1
                         /\ t + 0 = t /\ \A r : r \in t + 1 .. t + 1 <=> r = t + 1
      OBVIOUS
    <2> QED BY <1>2, <2>1, <2>2
  <1> DEFINE e == Enqueued(as, k)
             item == [req |-> z, what |-> "response"]
             d == [e EXCEPT !.state = "dead"]
             c == [d EXCEPT !.cur = z]
  <1>8. b = Respond(d, item) /\ item \in Item
    BY <1>5, <1>6, <1>7 DEF ReadBatch, Item
  <1>9. Sane(e, taken) /\ e.outgoing = as.outgoing /\ e.cur = 0 /\ e.destroyed = as.destroyed
    <2>1. /\ Sane(e, taken + k) /\ e.outgoing = as.outgoing /\ e.cur = as.cur
          /\ e.destroyed = as.destroyed
      BY <1>2, <1>7, EnqueuedIs
    <2> QED BY <1>7, <2>1
  <1>10. e.incoming = <<>>
    <2>1. Rising(as)
      BY DEF OInv
    <2>2. k = 0 => e.incoming = as.incoming
      BY <1>2, <1>7, <2>1, EnqueuedTakes
    <2> QED BY <1>4, <1>7, <2>2
  <1> HIDE DEF e
  <1>11. IsAs(e)
    BY <1>9 DEF Sane
  <1>12. /\ d.incoming = <<>> /\ d.outgoing = as.outgoing /\ d.cur = 0 /\ d.state = "dead"
         /\ ~d.destroyed
    BY <1>9, <1>10, <1>11 DEF IsAs, Fields
  <1>13. Sane(d, taken)
    <2>1. d = [e EXCEPT !.state = "dead"]
      OBVIOUS
    <2> HIDE DEF d
    <2> QED BY <1>2, <1>9, <2>1, SetDead
  <1>14. /\ c.incoming = <<>> /\ c.cur = z /\ c.state = "dead" /\ ~c.destroyed
    BY <1>9, <1>10, <1>11 DEF IsAs, Fields
  <1> HIDE DEF d, c
  <1>15. DOMAIN (<<>>) = {}
    OBVIOUS
  <1>16. /\ Rising(d) /\ Rising(c) /\ Queued(c) = {} /\ Queued(d) = {} /\ Queued(as) = {}
         /\ Pending(as) = {}
    BY <1>4, <1>12, <1>14, <1>15 DEF Rising, Queued, Pending
  <1> HIDE DEF item
  <1>17. /\ Rising(b) /\ Pending(b) = Queued(d) /\ b.incoming = <<>> /\ b.cur = 0
         /\ b.outgoing = Append(d.outgoing, item) /\ Kept(d, b)
    <2>1. taken \in Nat /\ Rising(d) /\ item \in Item /\ b = Respond(d, item) /\ Sane(d, taken)
      BY <1>2, <1>8, <1>13, <1>16
    <2>2. /\ Rising(b) /\ Pending(b) = Queued(d)
          /\ d.incoming = <<>> => b.incoming = <<>> /\ b.cur = 0
          /\ b.outgoing = Append(d.outgoing, item) /\ Kept(d, b)
      BY <2>1, RespondTakes
    <2> QED BY <1>12, <2>2
  <1>18. item.req = z /\ item.what = "response"
    BY DEF item
  <1>19. Pending(c) = {z}
    BY <1>7, <1>14, <1>16 DEF Pending
  <1>20. Shown(Said, Len(sent), c, z)
    <2>1. Weaker(Said, Said)
      BY DEF Weaker
    <2>2. ~Finished(as)
      BY DEF Finished
    <2>3. \A r : r \in Pending(c) <=> r \in Pending(as) \cup (taken + 1 .. z)
      BY <1>7, <1>16, <1>19
    <2>4. PICK l \in Nat : l = Len(sent)
      BY <1>2
    <2>5. Said \in Seq(Item) /\ Shown(Said, l, as, taken) /\ taken \in Nat
      BY <1>2, <2>4
    <2>6. z \in Nat /\ taken <= z
      BY <1>7
    <2>7. Shown(Said, l, c, z)
      BY <2>1, <2>2, <2>3, <2>5, <2>6, QuietShown
    <2> QED BY <2>4, <2>7
  <1>21. Shown(Append(Said, item), Len(sent), b, z)
    <2>1. c.cur \in 1 .. z /\ stream[c.cur] # "trigger" /\ stream[c.cur] # "search"
      BY <1>7, <1>14
    <2>2. Pending(b) = Queued(c) /\ Queued(c) \subseteq 1 .. z
      BY <1>16, <1>17
    <2>3. item.req = c.cur /\ item.what \in {"response", "torn"}
      BY <1>14, <1>18
    <2>4. PICK l \in Nat : l = Len(sent)
      BY <1>2
    <2>5. PICK T : T = Append(Said, item)
      OBVIOUS
    <2>6. Shown(Said, l, c, z) /\ z \in Nat /\ item \in Item
      BY <1>7, <1>8, <1>20, <2>4
    <2>7. Rising(c) /\ ~c.destroyed /\ b.incoming = <<>> /\ b.cur = 0
      BY <1>14, <1>16, <1>17
    <2>8. Shown(T, l, b, z)
      BY <2>1, <2>2, <2>3, <2>5, <2>6, <2>7, ResponseShown
    <2> QED BY <2>4, <2>5, <2>8
  <1>22. Append(Said, item) = sent \o b.outgoing
    <2>1. PICK q \in Seq(Item) : q = as.outgoing
      BY <1>2
    <2>2. b.outgoing = Append(q, item) /\ Said = sent \o q /\ sent \in Seq(Item) /\ item \in Item
      BY <1>2, <1>8, <1>12, <1>17, <2>1
    <2>3. sent \o Append(q, item) = Append(sent \o q, item)
      BY <2>2, SaidMore
    <2> QED BY <2>2, <2>3
  <1> QED BY <1>5, <1>12, <1>17, <1>21, <1>22 DEF Kept

LEMMA InputOrdered == ASSUME NEW n \in Batches PROVE AInv /\ OInv /\ Input(n) => OInv'
  <1> SUFFICES ASSUME AInv, OInv, Input(n) PROVE OInv'
    OBVIOUS
  <1> DEFINE a == ReadBatch(as, n)
  <1>0. PICK z : z = taken + n
    OBVIOUS
  <1>1. /\ as.getmask /\ as.state # "dead" /\ as.cur = 0 /\ "input" \in todo
        /\ as' = (IF stream[z] \in Malformed THEN a ELSE NextRequest(a))
        /\ taken' = z /\ UNCHANGED <<stream, sent>>
    BY <1>0 DEF Input, Listening, Event
  <1>2. ~as.destroyed
    BY <1>1 DEF OInv, Over
  <1>3. z \in Nat /\ taken < z /\ taken <= z
    <2>1. \A t, y \in Nat : t < y => t <= y
      OBVIOUS
    <2> QED BY <1>0, <2>1, BatchIs, Start
  <1>4. sent \in Seq(Item)
    BY Start
  <1>5. CASE stream[z] = "malformed"
    <2>1. as' = a
      BY <1>1, <1>5 DEF Malformed
    <2>2. /\ a.incoming = <<>> /\ a.cur = 0 /\ a.state = "dead" /\ a.destroyed = as.destroyed
          /\ a.outgoing = <<>> \/ a.outgoing = <<[req |-> z, what |-> "close"]>>
      BY <1>0, <1>1, <1>5, MalformedIs
    <2> HIDE DEF a
    <2>3. EndsIn(as, as', z, taken')
      BY <2>1, <2>2 DEF EndsIn
    <2> QED BY <1>1, <1>2, <1>3, <2>1, <2>2, <2>3, CloseStep
  <1>6. CASE stream[z] = "badhttp"
    <2>1. as' = a
      BY <1>1, <1>6 DEF Malformed
    <2>2. PICK b : b = a
      OBVIOUS
    <2>3. /\ Rising(b) /\ ~b.destroyed /\ b.cur = 0
          /\ Shown(sent \o b.outgoing, Len(sent), b, z)
      BY <1>0, <1>1, <1>2, <1>6, <2>2, BadHttpShown
    <2> HIDE DEF a
    <2> QED BY <1>1, <1>3, <1>4, <2>1, <2>2, <2>3, OrderStep
  <1>7. CASE stream[z] \notin Malformed
    <2>1. as' = NextRequest(a)
      BY <1>1, <1>7
    <2>2. /\ Sane(a, z) /\ Rising(a) /\ Queued(a) = Queued(as) \cup (taken + 1 .. z)
          /\ a.outgoing = as.outgoing /\ a.state = as.state /\ a.cur = as.cur
          /\ a.destroyed = as.destroyed
      BY <1>0, <1>1, <1>7, QueuedIn
    <2> HIDE DEF a
    <2>3. PICK b : b = NextRequest(a)
      OBVIOUS
    <2>4. /\ Rising(b) /\ ~b.destroyed /\ b.outgoing = as.outgoing
          /\ Shown(Said, Len(sent), b, z)
      BY <1>1, <1>2, <1>3, <2>2, <2>3, NextRequestShown
    <2>5. sent' \o b.outgoing = Said /\ sent' = sent
      BY <1>1, <2>4 DEF Said
    <2>6. taken' # taken
      <3>1. \A t, y \in Nat : t < y => y # t
        OBVIOUS
      <3> QED BY <1>1, <1>3, <3>1, Start
    <2> QED BY <1>1, <1>3, <1>4, <2>1, <2>3, <2>4, <2>5, <2>6, OrderStep
  <1> QED BY <1>5, <1>6, <1>7 DEF Malformed

-----------------------------------------------------------------------------
(* The steps of the handlers.                                              *)

\* The queues, and the request that is handled, are as they were.
Like(a, b) == /\ b.cur = a.cur /\ b.incoming = a.incoming /\ b.outgoing = a.outgoing
              /\ b.destroyed = a.destroyed

LEMMA RespondOrdered ==
    ASSUME AInv, OInv, HandlerOnly, as.cur # 0, stream[as.cur] # "trigger",
           NEW p, Sane(p, taken), Like(as, p), stream[as.cur] = "search" => p.state = as.state,
           NEW item \in Item, item.req = as.cur, item.what \in {"response", "torn"},
           as' = Respond(p, item)
    PROVE  OInv'
  <1>1. /\ taken \in Nat /\ sent \in Seq(Item) /\ as.outgoing \in Seq(Item)
        /\ Said = sent \o as.outgoing /\ Shown(Said, Len(sent), as, taken)
        /\ Len(sent) \in Nat /\ as.cur \in 1 .. taken /\ \A r \in Queued(as) : r \in 1 .. taken
    BY Start
  <1>2. Rising(p) /\ Queued(p) = Queued(as) /\ Rising(as)
    BY DEF Like, OInv, Rising, Queued
  <1>3. PICK b : b = as'
    OBVIOUS
  <1>4. /\ Rising(b) /\ Pending(b) = Queued(p) /\ b.outgoing = Append(p.outgoing, item)
        /\ p.incoming = <<>> => b.incoming = <<>> /\ b.cur = 0
        /\ Kept(p, b)
    <2>1. taken \in Nat /\ Rising(p) /\ b = Respond(p, item)
      BY <1>1, <1>2, <1>3
    <2> QED BY <2>1, RespondTakes
  <1>5. ~as.destroyed /\ ~b.destroyed
    BY <1>4 DEF Like, OInv, Over, Kept
  <1>6. /\ Pending(b) = Queued(as) /\ b.outgoing = Append(as.outgoing, item)
        /\ as.incoming = <<>> => b.incoming = <<>> /\ b.cur = 0
        /\ as.state = "dead" /\ stream[as.cur] = "search" => b.state = "dead"
    BY <1>2, <1>4 DEF Like, Kept
  <1>7. PICK T : T = Append(Said, item)
    OBVIOUS
  <1>8. PICK l \in Nat : l = Len(sent)
    BY <1>1
  <1>9. Shown(T, l, b, taken)
    <2>1. taken \in Nat /\ as.cur \in 1 .. taken /\ Queued(as) \subseteq 1 .. taken
          /\ Shown(Said, l, as, taken)
      BY <1>1, <1>8
    <2> QED BY <1>2, <1>5, <1>6, <1>7, <2>1, ResponseShown
  <1>10. T = sent \o b.outgoing
    <2>1. PICK q \in Seq(Item) : q = as.outgoing
      BY <1>1
    <2>2. b.outgoing = Append(q, item) /\ Said = sent \o q
      BY <1>1, <1>6, <2>1
    <2>3. sent \o Append(q, item) = Append(sent \o q, item)
      BY <1>1, SaidMore
    <2> QED BY <1>7, <2>2, <2>3
  <1>11. stream' = stream /\ taken' = taken /\ sent' = sent
    BY DEF HandlerOnly
  <1>12. taken <= taken
    BY <1>1
  <1>13. Shown(sent' \o b.outgoing, Len(sent'), b, taken') /\ sent' \in Seq(Item)
    BY <1>1, <1>8, <1>9, <1>10, <1>11
  <1> QED BY <1>1, <1>3, <1>4, <1>5, <1>11, <1>12, <1>13, OrderStep

LEMMA CloseOrdered ==
    ASSUME AInv, OInv, HandlerOnly, as.cur # 0,
           NEW p, Sane(p, taken), Like(as, p), as' = DoClose(p, as.cur)
    PROVE  OInv'
  <1>1. /\ taken \in Nat /\ as.cur \in Nat
    BY Start
  <1>2. PICK i \in Nat : as' = DoClose(p, i)
    BY <1>1
  <1>3. /\ as'.incoming = <<>> /\ as'.cur = 0
        /\ as'.outgoing = <<>> \/ as'.outgoing = <<[req |-> i, what |-> "close"]>>
    BY <1>1, <1>2, DoCloseTakes
  <1>4. as'.state = "dead" /\ as'.destroyed = p.destroyed
    BY <1>1, <1>2, DoCloseIs
  <1>5. ~as'.destroyed
    BY <1>4 DEF Like, OInv, Over
  <1>6. EndsIn(as, as', i, taken')
    BY <1>3, <1>4 DEF EndsIn
  <1>7. stream' = stream /\ taken' = taken /\ UNCHANGED sent /\ taken <= taken
    BY <1>1 DEF HandlerOnly
  <1> QED BY <1>1, <1>5, <1>6, <1>7, CloseStep

\* What the handlers do to an association before they respond.
LEMMA LikeWith ==
    ASSUME NEW a, IsAs(a), NEW v, NEW s
    PROVE  /\ Like(a, a) /\ Like(a, [a EXCEPT !.stale = FALSE]) /\ Like(a, [a EXCEPT !.version = 3])
           /\ Like(a, [a EXCEPT !.version = v, !.state = s])
           /\ Like(a, [a EXCEPT !.state = "dead"])
           /\ Like(a, [a EXCEPT !.state = "dead", !.getmask = FALSE])
           /\ [a EXCEPT !.stale = FALSE].state = a.state
  BY DEF Like, IsAs, Fields

LEMMA LikeOpened ==
    ASSUME NEW a, IsAs(a)
    PROVE  Like(a, OpenBackend(a)) /\ Like(a, NoBackend(a))
  BY DEF Like, IsAs, Fields, OpenBackend, NoBackend

LEMMA InitRequestOrdered == AInv /\ OInv /\ InitRequest => OInv'
  <1> SUFFICES ASSUME AInv, OInv, InitRequest PROVE OInv'
    OBVIOUS
  <1>1. HandlerOnly /\ as.cur # 0 /\ stream[as.cur] = "init"
    BY DEF InitRequest, Handling
  <1>2. taken \in Nat /\ Sane(as, taken) /\ IsAs(as) /\ as.cur \in Nat
    BY Start
  <1>3. Answer \in Item /\ Answer.req = as.cur /\ Answer.what = "response"
    BY <1>2 DEF Answer, Item
  <1>4. as.getmask
    <2>1. Handling({"init"}) /\ {"init"} \in SUBSET AllKinds /\ {"init"} \cap HttpKinds = {}
      BY DEF InitRequest, AllKinds, Z3950Kinds, HttpKinds
    <2> QED BY <2>1, HandlingIs
  <1> DEFINE o == OpenBackend(as)
             u == NoBackend(as)
  <1>5. Sane(o, taken) /\ Sane(u, taken) /\ o.getmask
    BY <1>2, <1>4, OpenBackendIs, NoBackendIs
  <1>6. Like(as, o) /\ Like(as, u)
    BY <1>2, LikeOpened
  <1>7. \/ \E v \in {2, 3}, s \in {"up", "dead"} :
             as' = Respond([o EXCEPT !.version = v, !.state = s], Answer)
        \/ as' = DoClose(u, as.cur)
    BY DEF InitRequest
  <1> HIDE DEF o, u
  <1>8. CASE as' = DoClose(u, as.cur)
    BY <1>1, <1>5, <1>6, <1>8, CloseOrdered
  <1>9. ASSUME NEW v \in {2, 3}, NEW s \in {"up", "dead"},
               as' = Respond([o EXCEPT !.version = v, !.state = s], Answer)
        PROVE  OInv'
    <2> DEFINE p == [o EXCEPT !.version = v]
               q == [o EXCEPT !.version = v, !.state = s]
    <2>1. IsAs(o)
      BY <1>5 DEF Sane
    <2>2. p = [o EXCEPT !.version = v] /\ q = [p EXCEPT !.state = s]
      BY <2>1 DEF IsAs, Fields
    <2>3. Like(o, q)
      BY <2>1, LikeWith
    <2>4. as' = Respond(q, Answer)
      BY <1>9
    <2> HIDE DEF p, q
    <2>5. Sane(p, taken) /\ p.getmask
      BY <1>2, <1>5, <2>2, SetVersion
    <2>6. s \in {"new", "up", "dead"}
      OBVIOUS
    <2>7. Sane(q, taken)
      BY <1>2, <2>2, <2>5, <2>6, SetState
    <2>8. Like(as, q)
      BY <1>6, <2>3 DEF Like
    <2>9. stream[as.cur] # "trigger" /\ stream[as.cur] # "search"
          /\ Answer.what \in {"response", "torn"}
      BY <1>1, <1>3
    <2> QED BY <1>1, <1>3, <2>4, <2>7, <2>8, <2>9, RespondOrdered
  <1> QED BY <1>7, <1>8, <1>9

LEMMA RequestOrdered == AInv /\ OInv /\ Request => OInv'
  <1> SUFFICES ASSUME AInv, OInv, Request PROVE OInv'
    OBVIOUS
  <1> DEFINE p == [as EXCEPT !.stale = FALSE]
             torn == [Answer EXCEPT !.what = "torn"]
  <1>1. HandlerOnly /\ as.cur # 0 /\ stream[as.cur] = "search"
    BY DEF Request, Handling
  <1>2. taken \in Nat /\ Sane(as, taken) /\ IsAs(as) /\ as.cur \in Nat
    BY Start
  <1>3. /\ Answer \in Item /\ Answer.req = as.cur /\ Answer.what \in {"response", "torn"}
        /\ torn \in Item /\ torn.req = as.cur /\ torn.what \in {"response", "torn"}
    BY <1>2 DEF Answer, Item
  <1>4. Like(as, p) /\ p.state = as.state /\ Like(as, as)
    BY <1>2, LikeWith
  <1>5. \/ as' = DoClose(as, as.cur) \/ as' = Respond(p, Answer)
        \/ as' = Respond(p, torn) \/ as' = DoClose(p, as.cur)
    BY DEF Request
  <1>6. p = [as EXCEPT !.stale = FALSE]
    OBVIOUS
  <1> HIDE DEF p, torn
  <1>7. Sane(p, taken)
    BY <1>2, <1>6, SetStale
  <1>8. stream[as.cur] # "trigger"
    BY <1>1
  <1>9. CASE as' = DoClose(as, as.cur) \/ as' = DoClose(p, as.cur)
    BY <1>1, <1>2, <1>4, <1>7, <1>9, CloseOrdered
  <1>10. CASE as' = Respond(p, Answer)
    BY <1>1, <1>3, <1>4, <1>7, <1>8, <1>10, RespondOrdered
  <1>11. CASE as' = Respond(p, torn)
    BY <1>1, <1>3, <1>4, <1>7, <1>8, <1>11, RespondOrdered
  <1> QED BY <1>5, <1>9, <1>10, <1>11

LEMMA UnsupportedOrdered == AInv /\ OInv /\ Unsupported => OInv'
  <1> SUFFICES ASSUME AInv, OInv, Unsupported PROVE OInv'
    OBVIOUS
  <1>1. HandlerOnly /\ as.cur # 0 /\ as' = DoClose(as, as.cur)
    BY DEF Unsupported, Handling
  <1>2. Sane(as, taken) /\ Like(as, as)
    BY Start DEF Like
  <1> QED BY <1>1, <1>2, CloseOrdered

LEMMA CloseRequestOrdered == AInv /\ OInv /\ CloseRequest => OInv'
  <1> SUFFICES ASSUME AInv, OInv, CloseRequest PROVE OInv'
    OBVIOUS
  <1> DEFINE p == [as EXCEPT !.version = 3]
  <1>1. /\ HandlerOnly /\ as.cur # 0
        /\ as' \in {DoClose(as, as.cur), DoClose(p, as.cur)}
    BY DEF CloseRequest, Handling
  <1>2. taken \in Nat /\ Sane(as, taken) /\ IsAs(as)
    BY Start
  <1>3. Like(as, p) /\ Like(as, as)
    BY <1>2, LikeWith
  <1>4. p = [as EXCEPT !.version = 3] /\ 3 \in {2, 3}
    OBVIOUS
  <1> HIDE DEF p
  <1>5. Sane(p, taken)
    BY <1>2, <1>4, SetVersion
  <1> QED BY <1>1, <1>2, <1>3, <1>5, CloseOrdered

LEMMA LikeChosen ==
    ASSUME NEW a, IsAs(a), NEW b \in ServerChosen(a)
    PROVE  Like(a, b)
  BY DEF ServerChosen, Like, IsAs, Fields

LEMMA LikeSru ==
    ASSUME NEW a, IsAs(a), IsAs(OpenBackend(a)), IsAs(NoBackend(a)), NEW b \in SruOpened(a)
    PROVE  Like(a, b)
  <1> DEFINE o == OpenBackend(a)
             u == NoBackend(a)
             od == [o EXCEPT !.state = "dead"]
             ud == [u EXCEPT !.state = "dead"]
  <1>1. b \in {a, o, od, ud}
    BY DEF SruOpened
  <1>2. Like(a, o) /\ Like(a, u) /\ Like(a, a)
    BY LikeOpened DEF Like
  <1> HIDE DEF o, u
  <1>3. Like(o, od) /\ Like(u, ud)
    BY LikeWith DEF o, u
  <1> HIDE DEF od, ud
  <1> QED BY <1>1, <1>2, <1>3 DEF Like

LEMMA HttpAnsweredOrdered ==
    ASSUME AInv, OInv, HandlerOnly, as.cur # 0,
           stream[as.cur] # "search", stream[as.cur] # "trigger",
           NEW a, Sane(a, taken), Like(as, a), as' = HttpAnswered(a)
    PROVE  OInv'
  <1>1. taken \in Nat /\ as.cur \in Nat
    BY Start
  <1>2. Answer \in Item /\ Answer.req = as.cur /\ Answer.what \in {"response", "torn"}
    BY <1>1 DEF Answer, Item
  <1> DEFINE c == [a EXCEPT !.state = "dead", !.getmask = FALSE]
  <1>3. IsAs(a)
    BY DEF Sane
  <1>4. Like(a, c)
    BY <1>3, LikeWith
  <1>5. Sane(c, taken)
    BY <1>1, SetDeaf
  <1>6. as' = Respond(c, Answer) \/ as' = Respond(a, Answer)
    BY DEF HttpAnswered
  <1> HIDE DEF c
  <1>7. Like(as, c)
    BY <1>4 DEF Like
  <1> QED BY <1>2, <1>5, <1>6, <1>7, RespondOrdered

LEMMA HttpRequestOrdered == AInv /\ OInv /\ HttpRequest => OInv'
  <1> SUFFICES ASSUME AInv, OInv, HttpRequest PROVE OInv'
    OBVIOUS
  <1>1. /\ HandlerOnly /\ as.cur # 0 /\ stream[as.cur] # "search" /\ stream[as.cur] # "trigger"
    BY DEF HttpRequest, Handling
  <1>2. taken \in Nat /\ Sane(as, taken) /\ IsAs(as)
    BY Start
  <1>3. PICK b \in ServerChosen(as) : \E a \in SruOpened(b) : as' = HttpAnswered(a)
    BY DEF HttpRequest
  <1>4. PICK a \in SruOpened(b) : as' = HttpAnswered(a)
    BY <1>3
  <1>5. Sane(b, taken) /\ Like(as, b)
    BY <1>2, LikeChosen, ServerChosenIs
  <1>6. Sane(OpenBackend(b), taken) /\ Sane(NoBackend(b), taken)
    BY <1>2, <1>5, OpenBackendIs, NoBackendIs
  <1>7. IsAs(b) /\ IsAs(OpenBackend(b)) /\ IsAs(NoBackend(b))
    BY <1>5, <1>6 DEF Sane
  <1>8. Sane(a, taken) /\ Like(b, a)
    BY <1>2, <1>5, <1>7, LikeSru, SruOpenedIs
  <1>9. Like(as, a)
    BY <1>5, <1>8 DEF Like
  <1> QED BY <1>1, <1>4, <1>8, <1>9, HttpAnsweredOrdered

LEMMA StrayInitOrdered == AInv /\ OInv /\ StrayInit => OInv'
  <1> SUFFICES ASSUME AInv, OInv, StrayInit PROVE OInv'
    OBVIOUS
  <1>1. HandlerOnly /\ as.cur # 0 /\ Handling({"strayinit"}) /\ stream[as.cur] = "strayinit"
    BY DEF StrayInit, Handling
  <1>2. taken \in Nat /\ Sane(as, taken) /\ IsAs(as) /\ as.cur \in Nat
    BY Start
  <1>3. Answer \in Item /\ Answer.req = as.cur /\ Answer.what \in {"response", "torn"}
    BY <1>2 DEF Answer, Item
  <1>4. PICK v \in {2, 3} :
          as' = Respond([as EXCEPT !.init = TRUE, !.control = FALSE, !.backend = FALSE,
                                   !.version = v, !.state = "dead"], Answer)
    BY DEF StrayInit
  <1> DEFINE b == [as EXCEPT !.init = TRUE, !.control = FALSE, !.backend = FALSE,
                             !.version = v, !.state = "dead"]
  <1>5. b = [as EXCEPT !.init = TRUE, !.control = FALSE, !.backend = FALSE,
                       !.version = v, !.state = "dead"]
    OBVIOUS
  <1>6. as' = Respond(b, Answer)
    BY <1>4
  <1> HIDE DEF b
  <1>7. Sane(b, taken)
    BY <1>1, <1>5, StrayInitIs
  <1>8. Like(as, b)
    BY <1>2, <1>5 DEF Like, IsAs, Fields
  <1> QED BY <1>1, <1>3, <1>6, <1>7, <1>8, RespondOrdered

LEMMA StrayRequestOrdered == AInv /\ OInv /\ StrayRequest => OInv'
  <1> SUFFICES ASSUME AInv, OInv, StrayRequest PROVE OInv'
    OBVIOUS
  <1> DEFINE b == [as EXCEPT !.control = FALSE]
  <1>1. /\ HandlerOnly /\ as.cur # 0 /\ Handling({"strayclose"}) /\ as' = HttpAnswered(b)
        /\ stream[as.cur] # "search" /\ stream[as.cur] # "trigger"
    BY DEF StrayRequest, Handling
  <1>2. taken \in Nat /\ Sane(as, taken) /\ IsAs(as)
    BY Start
  <1>3. /\ {"strayclose"} \in SUBSET AllKinds /\ {"strayclose"} \subseteq Stray
    BY DEF AllKinds, HttpKinds, Stray
  <1>4. ~Unstrayed(taken)
    BY <1>1, <1>3, HandlingIs
  <1>5. Like(as, b)
    BY <1>2 DEF Like, IsAs, Fields
  <1>6. Sane(b, taken)
    BY <1>2, <1>4, NoServerIs
  <1> HIDE DEF b
  <1> QED BY <1>1, <1>5, <1>6, HttpAnsweredOrdered

LEMMA CrashOrdered == AInv /\ OInv /\ Crash => OInv'
  <1> SUFFICES ASSUME AInv, OInv, Crash PROVE OInv'
    OBVIOUS
  <1> DEFINE p == [as EXCEPT !.control = FALSE]
  <1>1. as' = Destroyed(p) /\ todo' = {} /\ UNCHANGED <<stream, taken, sent>>
    BY DEF Crash
  <1>2. IsAs(as)
    BY Start
  <1>3. IsAs(p) /\ p.state = as.state
    BY <1>2 DEF IsAs, Fields
  <1> HIDE DEF p
  <1> QED BY <1>1, <1>3, DestroyedStep

LEMMA TriggerOrdered == AInv /\ OInv /\ Trigger => OInv'
  <1> SUFFICES ASSUME AInv, OInv, Trigger PROVE OInv'
    OBVIOUS
  <1> DEFINE p == [as EXCEPT !.cur = 0]
             r == NextRequest(as)
  <1>1. /\ HandlerOnly /\ as.cur # 0 /\ stream[as.cur] = "trigger"
        /\ as' \in {DoClose(as, as.cur), r, p}
    BY DEF Trigger, Handling
  <1>2. /\ taken \in Nat /\ Sane(as, taken) /\ IsAs(as) /\ sent \in Seq(Item)
        /\ Said \in Seq(Item) /\ Shown(Said, Len(sent), as, taken) /\ Len(sent) \in Nat
    BY Start
  <1>3. Like(as, as) /\ Rising(as) /\ ~as.destroyed
    BY <1>1 DEF Like, OInv, Over
  <1>4. ASSUME NEW b, as' = b, b.outgoing = as.outgoing, b.state = as.state,
               b.destroyed = as.destroyed, Rising(b), Pending(b) = Queued(as),
               as.incoming = <<>> => b.incoming = <<>>, as.incoming = <<>> => b.cur = 0
        PROVE  OInv'
    <2>1. PICK l \in Nat : l = Len(sent)
      BY <1>2
    <2>2. Weaker(Said, Said) /\ ~Finished(as)
      BY <1>1, <1>3 DEF Weaker, Finished
    <2>3. \A x \in Pending(as) : x \in Pending(b) \/ stream[x] = "trigger"
      BY <1>1, <1>4 DEF Pending
    <2>4. \A x \in Pending(b) : x \in Pending(as)
      BY <1>4 DEF Pending
    <2>5. \A t \in Nat : t <= t /\ (t + 1) .. t = {}
      OBVIOUS
    <2>6. taken <= taken /\ (taken + 1) .. taken = {}
      BY <1>2, <2>5
    <2>7. Shown(Said, l, b, taken)
      <3>1. Shown(Said, l, as, taken) /\ Said \in Seq(Item) /\ taken \in Nat
        BY <1>2, <2>1
      <3>2. as.state = "dead" /\ as.incoming = <<>> =>
              b.state = "dead" /\ b.incoming = <<>> /\ (b.cur # 0 => b.cur = as.cur /\ l <= l)
        BY <1>4
      <3> QED BY <2>2, <2>3, <2>4, <2>6, <3>1, <3>2, QuietShown
    <2>8. taken' = taken /\ sent' = sent /\ stream' = stream
      BY <1>1 DEF HandlerOnly
    <2>9. sent' \o b.outgoing = Said
      BY <1>4, <2>8 DEF Said
    <2>10. Shown(sent' \o b.outgoing, Len(sent'), b, taken')
      BY <2>1, <2>7, <2>8, <2>9
    <2> QED BY <1>1, <1>2, <1>3, <1>4, <2>6, <2>8, <2>10, OrderStep
  <1>5. CASE as' = DoClose(as, as.cur)
    BY <1>1, <1>2, <1>3, <1>5, CloseOrdered
  <1>6. CASE as' = r
    <2>1. /\ Rising(r) /\ Pending(r) = Queued(as)
          /\ as.incoming = <<>> => r.incoming = <<>> /\ r.cur = 0
      BY <1>2, <1>3, NextRequestTakes
    <2>2. Kept(as, r) /\ r.outgoing = as.outgoing
      BY <1>2, NextRequestIs
    <2> HIDE DEF r
    <2> QED BY <1>4, <1>6, <2>1, <2>2 DEF Kept
  <1>7. CASE as' = p
    <2>1. /\ p.cur = 0 /\ p.incoming = as.incoming /\ p.outgoing = as.outgoing
          /\ p.state = as.state /\ p.destroyed = as.destroyed
      BY <1>2 DEF IsAs, Fields
    <2> HIDE DEF p
    <2>2. Rising(p) /\ Pending(p) = Queued(as)
      BY <1>3, <2>1 DEF Rising, Pending, Queued
    <2> QED BY <1>4, <1>7, <2>1, <2>2
  <1> QED BY <1>1, <1>5, <1>6, <1>7

LEMMA IsAliveOrdered == AInv /\ OInv /\ IsAlive => OInv'
  <1> SUFFICES ASSUME AInv, OInv, IsAlive PROVE OInv'
    OBVIOUS
  <1>1. /\ as.cur # 0 /\ stream[as.cur] = "search" /\ as.state # "dead"
        /\ stream' = stream /\ sent' = sent /\ todo' = todo /\ as.getmask
    <2>1. Handling({"search"}) /\ {"search"} \in SUBSET AllKinds /\ {"search"} \cap HttpKinds = {}
      BY DEF IsAlive, AllKinds, Z3950Kinds, HttpKinds
    <2>2. as.getmask
      BY <2>1, HandlingIs
    <2> QED BY <2>1, <2>2 DEF IsAlive, Handling
  <1>2. /\ taken \in Nat /\ Sane(as, taken) /\ IsAs(as) /\ as.cur \in Nat /\ as.cur \in 1 .. taken
        /\ sent \in Seq(Item) /\ Said \in Seq(Item) /\ Shown(Said, Len(sent), as, taken)
        /\ Len(sent) \in Nat
    BY <1>1, Start
  <1>3. Rising(as) /\ ~as.destroyed
    BY <1>1 DEF OInv, Over
  <1>4. ASSUME NEW n \in Batches, taken' = taken + n, NEW more, NEW stale,
               as' = [ReadBatch(as, n) EXCEPT !.cur = as.cur, !.more = more, !.stale = stale]
        PROVE  OInv'
    <2> DEFINE a == ReadBatch(as, n)
               b == [a EXCEPT !.cur = as.cur, !.more = more, !.stale = stale]
    <2>1. PICK z : z = taken + n
      OBVIOUS
    <2>2. /\ z \in Nat /\ taken < z /\ taken <= z /\ taken # z /\ taken' = z /\ z \in 1 .. z
          /\ \A c \in 1 .. taken : c < z
          /\ z \in 1 .. Len(stream) /\ 1 \in 1 .. Len(stream)
          /\ \A c \in 1 .. taken : c \in 1 .. Len(stream)
      <3>1. taken + n \in Nat /\ taken < taken + n /\ taken + n \in taken + 1 .. Len(stream)
            /\ \A i \in 1 .. taken + n : i \in 1 .. Len(stream)
        BY BatchIs
      <3>2. \A t, y \in Nat : t < y => /\ t <= y /\ t # y /\ y \in 1 .. y /\ 1 \in 1 .. y
                                       /\ \A c \in 1 .. t : c < y /\ c \in 1 .. y
        OBVIOUS
      <3>3. z \in Nat /\ taken < z /\ \A i \in 1 .. z : i \in 1 .. Len(stream)
        BY <2>1, <3>1
      <3>4. /\ taken <= z /\ taken # z /\ z \in 1 .. z /\ 1 \in 1 .. z
            /\ \A c \in 1 .. taken : c < z /\ c \in 1 .. z
        BY <1>2, <3>2, <3>3
      <3> QED BY <1>4, <2>1, <3>3, <3>4
    <2>3. IsAs(a)
      <3>1. n \in Nat \ {0} /\ taken \in Nat
        BY <1>2, BatchIs
      <3> QED BY <1>1, <1>2, <3>1, ReadBatchIs DEF Sane
    <2>4. /\ b.cur = as.cur /\ b.incoming = a.incoming /\ b.outgoing = a.outgoing
          /\ b.state = a.state /\ b.destroyed = a.destroyed
      BY <2>3 DEF IsAs, Fields
    <2>5. as' = b
      BY <1>4
    <2> HIDE DEF b
    <2>6. CASE stream[z] = "malformed"
      <3>1. /\ a.incoming = <<>> /\ a.state = "dead" /\ a.destroyed = as.destroyed
            /\ a.outgoing = <<>> \/ a.outgoing = <<[req |-> z, what |-> "close"]>>
        BY <1>1, <2>1, <2>6, MalformedIs
      <3> HIDE DEF a
      <3>2. ~Decodes(z)
        BY <2>2, <2>6 DEF Decodes
      <3>3. EndsIn(as, b, z, z)
        BY <1>1, <1>2, <2>2, <2>4, <3>1, <3>2 DEF EndsIn
      <3>4. ~b.destroyed
        BY <1>3, <2>4, <3>1
      <3> QED BY <1>1, <2>2, <2>5, <3>3, <3>4, CloseStep
    <2>7. CASE stream[z] = "badhttp"
      <3>1. DOMAIN stream = 1 .. Len(stream)
        BY DEF AInv, Surroundings
      <3>2. z \in DOMAIN stream /\ as.cur \in DOMAIN stream
        BY <1>2, <2>2, <3>1
      <3>3. "badhttp" \in HttpKinds /\ "search" \notin HttpKinds
        BY DEF HttpKinds
      <3> QED BY <1>1, <2>7, <3>2, <3>3 DEF AInv, OneProtocol
    <2>8. CASE stream[z] \notin Malformed
      <3>1. /\ Rising(a) /\ Queued(a) = Queued(as) \cup (taken + 1 .. z)
            /\ a.outgoing = as.outgoing /\ a.state = as.state /\ a.cur = as.cur
            /\ a.destroyed = as.destroyed
        BY <1>1, <2>1, <2>8, QueuedIn
      <3> HIDE DEF a
      <3>2. Rising(b) /\ Queued(b) = Queued(a)
        BY <2>4, <3>1 DEF Rising, Queued
      <3>3. \A r : r \in Pending(b) <=> r \in Pending(as) \cup (taken + 1 .. z)
        BY <2>4, <3>1, <3>2 DEF Pending
      <3>4. Weaker(Said, Said) /\ ~Finished(as)
        BY <1>1, <1>3 DEF Weaker, Finished
      <3>5. PICK l \in Nat : l = Len(sent)
        BY <1>2
      <3>6. Shown(Said, l, as, taken) /\ Said \in Seq(Item) /\ taken \in Nat /\ z \in Nat /\ taken <= z
        BY <1>2, <2>2, <3>5
      <3>7. Shown(Said, l, b, z)
        BY <1>1, <3>3, <3>4, <3>6, QuietShown
      <3>8. sent' \o b.outgoing = Said /\ ~b.destroyed
        BY <1>1, <1>3, <2>4, <3>1 DEF Said
      <3>9. Shown(sent' \o b.outgoing, Len(sent'), b, taken')
        BY <1>1, <2>2, <3>5, <3>7, <3>8
      <3> QED BY <1>1, <1>2, <2>2, <2>5, <3>2, <3>8, <3>9, OrderStep
    <2> QED BY <2>6, <2>7, <2>8 DEF Malformed
  <1>5. ASSUME as' = [as EXCEPT !.state = "dead"], taken' = taken
        PROVE  OInv'
    BY <1>1, <1>3, <1>5, SameAsIs, SameStep
  <1> QED BY <1>4, <1>5 DEF IsAlive

-----------------------------------------------------------------------------
(* The client, the initial state, and the theorems.                        *)

\* What is put is not known to any PDU that was got.
LEMMA PutOrdered ==
    ASSUME "pipelinebad" \notin Habits, NEW kind \in Kinds
    PROVE  AInv /\ OInv /\ Put(kind) => OInv'
  <1> SUFFICES ASSUME AInv, OInv, Put(kind) PROVE OInv'
    OBVIOUS
  <1>1. /\ stream' = Append(stream, kind) /\ UNCHANGED <<taken, as, todo, sent>>
        /\ kind = "badhttp" => taken = Len(stream) /\ as.cur = 0
    BY DEF Put
  <1>2. /\ taken \in Nat /\ Len(stream) \in Nat /\ taken <= Len(stream)
    BY Basics
  <1>3. stream \in Seq(AllKinds) /\ kind \in AllKinds
    BY AssociationAssumption DEF AInv, Surroundings, AllKinds
  <1>4. /\ Len(stream') = Len(stream) + 1
        /\ \A i \in 1 .. Len(stream) : stream'[i] = stream[i]
        /\ stream'[Len(stream) + 1] = kind
    BY <1>1, <1>3, AppendProperties
  <1>5. \A i \in 1 .. taken : stream'[i] = stream[i]
    <2>1. \A i \in 1 .. taken : i \in 1 .. Len(stream)
      BY <1>2
    <2> QED BY <1>4, <2>1
  <1>6. BadNext'
    <2> SUFFICES ASSUME NEW i \in taken + 1 .. Len(stream'), stream'[i] = "badhttp"
                 PROVE  i = taken + 1 /\ as.cur = 0
      BY <1>1 DEF BadNext
    <2>1. i \in taken + 1 .. Len(stream) \/ i = Len(stream) + 1
      BY <1>2, <1>4
    <2>2. CASE i \in taken + 1 .. Len(stream)
      <3>1. i \in 1 .. Len(stream)
        BY <1>2, <2>2
      <3> QED BY <1>4, <2>2, <3>1 DEF OInv, BadNext
    <2>3. CASE i = Len(stream) + 1
      BY <1>1, <1>4, <2>3
    <2> QED BY <2>1, <2>2, <2>3
  <1>7. /\ \A r \in Pending(as) : r \in 1 .. taken
        /\ as.cur # 0 => as.cur \in 1 .. taken
        /\ Shown(Said, Len(sent), as, taken) /\ Said \in Seq(Item)
    BY Start
  <1>8. Said' = Said /\ Len(sent') = Len(sent)
    BY <1>1 DEF Said
  <1>9. Ordered(Said', as', taken')
    BY <1>1, <1>7, <1>8 DEF Shown
  <1>10. Closing(Said, Len(sent), as)'
    BY <1>1, <1>5, <1>7, <1>8 DEF Shown, Closing
  <1>11. Decodes(taken)' => Decodes(taken)
    BY <1>1, <1>5 DEF Decodes
  <1>12. \A M : (\A r \in M : r \in 1 .. taken) =>
            {i \in M : stream'[i] # "trigger"} = Answerable(M)
    <2> SUFFICES ASSUME NEW M, \A r \in M : r \in 1 .. taken
                 PROVE  {i \in M : stream'[i] # "trigger"} = Answerable(M)
      OBVIOUS
    <2>1. \A r \in M : stream[r] = stream'[r]
      BY <1>5
    <2> QED BY <2>1 DEF Answerable
  <1>13. ASSUME Decodes(taken) PROVE Chained(Said)'
    <2>1. ASSUME NEW k \in DOMAIN Said, AllResponses(Said, k)
          PROVE  {i \in 1 .. Said[k].req : stream'[i] # "trigger"} = Requested(Said, k)
      <3>1. k \in Nat /\ k \in 1 .. k /\ Said[k].req \in Nat
        <4>1. k \in 1 .. Len(Said) /\ k \in Nat /\ Said[k].req \in Nat /\ Len(Said) \in Nat
          BY <1>7, ItemsOf
        <4> QED BY <4>1
      <3>2. IsResponse(Said, k)
        BY <2>1, <3>1 DEF AllResponses, IsResponse
      <3>3. Said[k].req <= taken
        BY <1>7, <3>2 DEF Shown, Ordered
      <3>4. \A r \in 1 .. Said[k].req : r \in 1 .. taken
        BY <1>2, <3>1, <3>3
      <3>5. Answerable(1 .. Said[k].req) = Requested(Said, k)
        BY <1>7, <1>13, <2>1 DEF Shown, Chained
      <3> QED BY <1>12, <3>4, <3>5
    <2> QED BY <1>8, <2>1 DEF Chained, Answerable
  <1>14. ASSUME Decodes(taken) PROVE Complete(Said, as, taken)'
    <2>1. ASSUME AllResponses(Said, Len(Said)), ~Finished(as)
          PROVE  {i \in 1 .. taken : stream'[i] # "trigger"}
                   = Requested(Said, Len(Said)) \cup {i \in Pending(as) : stream'[i] # "trigger"}
      <3>1. Answerable(1 .. taken) = Requested(Said, Len(Said)) \cup Answerable(Pending(as))
        BY <1>7, <1>14, <2>1 DEF Shown, Complete
      <3>2. {i \in 1 .. taken : stream'[i] # "trigger"} = Answerable(1 .. taken)
        BY <1>12
      <3>3. {i \in Pending(as) : stream'[i] # "trigger"} = Answerable(Pending(as))
        BY <1>7, <1>12
      <3> QED BY <3>1, <3>2, <3>3
    <2> QED BY <1>1, <1>8, <2>1 DEF Complete, Answerable
  <1>15. Shown(Said, Len(sent), as, taken)'
    BY <1>7, <1>8, <1>9, <1>10, <1>11, <1>13, <1>14 DEF Shown
  <1> QED BY <1>1, <1>6, <1>15 DEF OInv, Rising, Over

LEMMA InitOrdered == Init => OInv
  <1> SUFFICES ASSUME Init PROVE OInv
    OBVIOUS
  <1>1. /\ stream = <<>> /\ taken = 0 /\ sent = <<>> /\ ~as.destroyed
        /\ as.incoming = <<>> /\ as.outgoing = <<>> /\ as.cur = 0
    BY DEF Init
  <1>2. <<>> \in Seq(Item) /\ Len(<<>>) = 0 /\ DOMAIN (<<>>) = {} /\ (<<>>) \o (<<>>) = <<>>
    OBVIOUS
  <1>3. Said = <<>>
    BY <1>1, <1>2 DEF Said
  <1>4. 1 .. 0 = {}
    OBVIOUS
  <1>5. Pending(as) = {}
    BY <1>1, <1>2 DEF Pending, Queued
  <1>6. Answerable(1 .. taken) = {} /\ Answerable(Pending(as)) = {} /\ Requested(Said, 0) = {}
    BY <1>1, <1>4, <1>5 DEF Answerable, Requested
  <1>7. Chained(Said) /\ Complete(Said, as, taken)
    BY <1>2, <1>3, <1>6 DEF Chained, Complete
  <1>8. Ordered(Said, as, taken) /\ Closing(Said, Len(sent), as)
    BY <1>2, <1>3 DEF Ordered, Closing
  <1>9. BadNext
    <2>1. taken + 1 .. Len(stream) = {}
      BY <1>1, <1>2
    <2> QED BY <2>1 DEF BadNext
  <1>10. Rising(as) /\ Over
    BY <1>1, <1>2 DEF Rising, Over
  <1> QED BY <1>1, <1>2, <1>3, <1>7, <1>8, <1>9, <1>10 DEF OInv, Shown

LEMMA NextOrdered ==
    ASSUME "pipelinebad" \notin Habits PROVE AInv /\ OInv /\ [Next]_vars => OInv'
  <1> SUFFICES ASSUME AInv, OInv, [Next]_vars PROVE OInv'
    OBVIOUS
  <1>1. CASE Poll \/ Idle
    BY <1>1, PollOrdered
  <1>2. CASE Session
    BY <1>2, EventsOrdered, InputOrdered, OutputOrdered, TimeoutOrdered DEF Session
  <1>3. CASE Handlers
    BY <1>3, InitRequestOrdered, RequestOrdered, UnsupportedOrdered, TriggerOrdered,
       CloseRequestOrdered, HttpRequestOrdered, StrayInitOrdered, StrayRequestOrdered,
       CrashOrdered DEF Handlers
  <1>4. CASE IsAlive
    BY <1>4, IsAliveOrdered
  <1>5. CASE Client
    BY <1>5, PutOrdered, LeaveOrReadsOrdered DEF Client
  <1>6. CASE UNCHANGED vars
    <2>1. UNCHANGED <<stream, client, taken, as, todo, sock, sent>>
      BY <1>6 DEF vars
    <2>2. Said' = Said
      BY <2>1 DEF Said
    <2> QED BY <2>1, <2>2 DEF OInv, Over, BadNext, Shown, Ordered, Closing, Decodes, Chained,
              Complete, Answerable
  <1> QED BY <1>1, <1>2, <1>3, <1>4, <1>5, <1>6 DEF Next

LEMMA OInvImplies == AInv /\ OInv => AnswersInOrder /\ CloseIsLast
  <1> SUFFICES ASSUME AInv, OInv PROVE AnswersInOrder /\ CloseIsLast
    OBVIOUS
  <1>1. /\ taken \in Nat /\ sent \in Seq(Item) /\ Weaker(sent, Said)
        /\ Shown(Said, Len(sent), as, taken)
    BY Start, SentIsWeaker
  <1>2. \A k \in DOMAIN sent : k \in Nat
    BY <1>1, ItemsOf
  <1>3. \A k : IsResponse(sent, k) <=> k \in Responses
    BY DEF IsResponse, Responses
  <1>4. /\ \A k : IsResponse(sent, k) => IsResponse(Said, k)
        /\ \A k : IsClose(sent, k) => IsClose(Said, k)
        /\ \A k \in DOMAIN sent : k \in DOMAIN Said /\ sent[k].req = Said[k].req
    BY <1>1, WeakerIs
  <1>5. \A j, k \in Responses : j < k => sent[j].req < sent[k].req
    <2> SUFFICES ASSUME NEW j \in Responses, NEW k \in Responses, j < k
                 PROVE  sent[j].req < sent[k].req
      OBVIOUS
    <2>1. j \in DOMAIN sent /\ k \in DOMAIN sent /\ IsResponse(Said, j) /\ IsResponse(Said, k)
      BY <1>3, <1>4 DEF Responses
    <2> QED BY <1>1, <1>4, <2>1 DEF Shown, Ordered
  <1>6. ASSUME NEW k \in Responses, Unbroken(k), \A i \in 1 .. taken : stream[i] # "malformed"
        PROVE  {i \in 1 .. sent[k].req : stream[i] # "trigger"} = {sent[j].req : j \in 1 .. k}
    <2>1. Chained(sent)
      <3>1. Chained(Said)
        BY <1>1, <1>6 DEF Shown, Decodes
      <3> QED BY <1>1, <3>1, ChainKept
    <2>2. AllResponses(sent, k) /\ k \in DOMAIN sent
      BY <1>6 DEF Unbroken, AllResponses, Responses
    <2> QED BY <2>1, <2>2 DEF Chained, Answerable, Requested
  <1>7. CloseIsLast
    <2> SUFFICES ASSUME NEW j \in DOMAIN sent, NEW k \in DOMAIN sent, j < k,
                        sent[j].what = "close"
                 PROVE  sent[k].req < sent[j].req
      BY DEF CloseIsLast
    <2>1. IsClose(Said, j) /\ j \in DOMAIN Said /\ k \in DOMAIN Said
      BY <1>4 DEF IsClose
    <2>2. Said[k].req < Said[j].req
      BY <1>1, <2>1 DEF Shown, Closing
    <2> QED BY <1>4, <2>2
  <1> QED BY <1>5, <1>6, <1>7 DEF AnswersInOrder

\* OInv holds always, beside AInv: the inductive invariant of the order.
LEMMA AlwaysOInv == ASSUME "pipelinebad" \notin Habits PROVE Spec => []OInv
  <1>1. Init => OInv
    BY InitOrdered
  <1>2. AInv /\ OInv /\ [Next]_vars => OInv'
    BY NextOrdered
  <1> QED BY <1>1, <1>2, AlwaysAInv, PTL DEF Spec

\* Of a client that does not put a malformed HTTP request while others wait: its
\* requests are answered once each, in their order and without a gap, whatever
\* was pipelined, read from within a search, torn or cut short by the other
\* events (process_gdu_request, process_gdu_response and ir_read in seshigh.c).
THEOREM AnsweredInOrder ==
    ASSUME "pipelinebad" \notin Habits PROVE Spec => []AnswersInOrder
  <1>1. AInv /\ OInv => AnswersInOrder
    BY OInvImplies
  <1> QED BY <1>1, AlwaysAInv, AlwaysOInv, PTL

\* Of the same clients: nothing is sent after a Close but the answer to the
\* search that was handled when the Close was queued from within it
\* (do_close_req, which purges what waits).
THEOREM NothingAfterClose ==
    ASSUME "pipelinebad" \notin Habits PROVE Spec => []CloseIsLast
  <1>1. AInv /\ OInv => CloseIsLast
    BY OInvImplies
  <1> QED BY <1>1, AlwaysAInv, AlwaysOInv, PTL
=============================================================================
