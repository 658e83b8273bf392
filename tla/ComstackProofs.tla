--------------------------- MODULE ComstackProofs ---------------------------
(***************************************************************************)
(* The safety properties of ComstackProperties, for chunks, PDUs, buffers  *)
(* and networks of every size.                                             *)
(***************************************************************************)
EXTENDS ComstackProperties, Integers, SequenceTheorems, TLAPS

States == {"unbnd", "resolving", "connecting", "dataxfer", "failed", "closed"}
Links == {"none", "coming", "up", "refused", "closed", "reset"}

ClientType == [state : States, addr : Nat, addrs : Nat, towrite : Nat, written : Nat]
LinkType == [up : Links, lo : Nat, hi : Nat]
ServerType == [pc : {"select", "recv", "more", "gone"}, buf : Buffer,
               bufsize : Nat, alt : Buffer, altsize : Nat]

ClientOK(c) == /\ c \in ClientType
               /\ c.addr <= c.addrs /\ c.towrite <= MaxSize /\ c.written <= MaxSize
               /\ c.towrite > 0 => c.written < c.towrite
LinkOK(l) == l \in LinkType /\ l.lo <= l.hi

\* A buffer that was ever allocated has room for a chunk, and doubling it makes
\* room for another: this is what a test of NoOverrun does not see.
Fits(b, size) == /\ b.lo <= b.hi /\ Size(b) <= size
                 /\ size = 0 \/ Chunk <= size
ServerOK(r) == /\ r \in ServerType
               /\ Fits(r.buf, r.bufsize) /\ Fits(r.alt, r.altsize)

BInv == /\ ClientOK(cl) /\ LinkOK(nt) /\ ServerOK(rx)
        /\ ends \in Seq(Nat) /\ got \in Seq(Buffer)

-----------------------------------------------------------------------------
(* Buffers.                                                                *)

LEMMA SizeOf == ASSUME NEW b \in Buffer, b.lo <= b.hi PROVE Size(b) \in Nat
  BY DEF Size, Buffer

LEMMA EmptyIs == /\ Empty \in Buffer /\ Empty.lo <= Empty.hi
                 /\ Size(Empty) = 0 /\ ~Empty.torn
  BY DEF Empty, Buffer, Size

LEMMA FilledIs ==
    ASSUME NEW b \in Buffer, b.lo <= b.hi, NEW lo \in Nat, NEW n \in Nat
    PROVE  /\ Filled(b, lo, n) \in Buffer /\ Filled(b, lo, n).lo <= Filled(b, lo, n).hi
           /\ Size(Filled(b, lo, n)) = Size(b) + n
  <1> DEFINE f == Filled(b, lo, n)
  <1>0. b.lo \in Nat /\ b.hi \in Nat /\ b.torn \in BOOLEAN
    BY DEF Buffer
  <1>1. CASE Size(b) = 0
    <2>1. f = [lo |-> lo, hi |-> lo + n, torn |-> FALSE]
      BY <1>1 DEF Filled
    <2>2. f \in Buffer /\ f.lo = lo /\ f.hi = lo + n
      BY <2>1 DEF Buffer
    <2>3. Size(f) = n /\ f.lo <= f.hi
      BY <2>2 DEF Size
    <2> QED BY <1>1, <2>2, <2>3
  <1>2. CASE Size(b) # 0
    <2>1. f = [b EXCEPT !.hi = @ + n, !.torn = @ \/ b.hi # lo]
      BY <1>2 DEF Filled
    <2>2. f.lo = b.lo /\ f.hi = b.hi + n /\ f \in Buffer
      <3>1. b.hi + n \in Nat /\ (b.torn \/ b.hi # lo) \in BOOLEAN
        BY <1>0
      <3> QED BY <2>1, <3>1 DEF Buffer
    <2>3. Size(f) = Size(b) + n /\ f.lo <= f.hi
      BY <1>0, <2>2 DEF Size
    <2> QED BY <2>2, <2>3
  <1> QED BY <1>1, <1>2

LEMMA FilledFirst ==
    ASSUME NEW b \in Buffer, NEW lo \in Nat, NEW n \in Nat, Size(b) = 0
    PROVE  /\ Filled(b, lo, n).lo = lo /\ Filled(b, lo, n).hi = lo + n
           /\ ~Filled(b, lo, n).torn
  BY DEF Filled

LEMMA FilledNext ==
    ASSUME NEW b \in Buffer, NEW n \in Nat, Size(b) # 0, ~b.torn
    PROVE  /\ Filled(b, b.hi, n).lo = b.lo /\ Filled(b, b.hi, n).hi = b.hi + n
           /\ ~Filled(b, b.hi, n).torn
  BY DEF Filled, Buffer

\* A PDU that is complete lies in the buffer.
LEMMA CompleteIs ==
    ASSUME NEW b \in Buffer, b.lo <= b.hi, ends \in Seq(Nat), Complete(b) # 0
    PROVE  /\ Complete(b) \in Int /\ Complete(b) <= Size(b)
           /\ \E i \in DOMAIN ends : /\ Start(i) = b.lo /\ ends[i] <= b.hi
                                     /\ Complete(b) = ends[i] - b.lo
  <1> DEFINE P(i) == Start(i) = b.lo /\ ends[i] <= b.hi
             c == CHOOSE i \in DOMAIN ends : P(i)
  <1>1. \E i \in DOMAIN ends : P(i)
    BY DEF Complete
  <1>2. c \in DOMAIN ends /\ P(c)
    BY <1>1
  <1>3. Complete(b) = ends[c] - b.lo
    BY <1>1, Size(b) # 0 \/ Size(b) = 0 DEF Complete
  <1>4. ends[c] \in Nat /\ b.lo \in Nat /\ b.hi \in Nat
    BY <1>2 DEF Buffer
  <1> HIDE DEF c
  <1>5. Complete(b) \in Int /\ Complete(b) <= Size(b)
    BY <1>2, <1>3, <1>4 DEF Size
  <1> QED BY <1>2, <1>3, <1>5

LEMMA GrowIs ==
    ASSUME NEW size \in Nat, NEW has \in Nat, has <= size
    PROVE  /\ Grow(size, has) \in Nat /\ size <= Grow(size, has)
           /\ (size = 0 \/ Chunk <= size =>
                 Chunk <= Grow(size, has) /\ has + Chunk <= Grow(size, has))
  BY ComstackAssumption DEF Grow

LEMMA Multiple ==
    ASSUME NEW c \in Nat, c > 0, NEW n \in Nat, n > 0, n % c = 0
    PROVE  c <= n
  BY SMTT(20)

LEMMA Remainder ==
    ASSUME NEW c \in Nat, c > 0, NEW n \in Nat
    PROVE  n % c <= n
  BY SMTT(20)

LEMMA RoundUpIs ==
    ASSUME NEW n \in Nat
    PROVE  RoundUp(n) \in Nat /\ n <= RoundUp(n) /\ (n > 0 => Chunk <= RoundUp(n))
  <1>1. Chunk \in Nat /\ Chunk > 0
    BY ComstackAssumption
  <1>2. n % Chunk \in 0 .. Chunk - 1
    BY <1>1
  <1>3. n % Chunk = 0 /\ n > 0 => Chunk <= n
    BY <1>1, Multiple
  <1>4. CASE n % Chunk = 0
    <2>1. RoundUp(n) = n
      BY <1>4 DEF RoundUp
    <2> QED BY <2>1, <1>3, <1>4
  <1>5. CASE n % Chunk # 0
    <2>1. RoundUp(n) = (n + Chunk) - (n % Chunk)
      BY <1>5 DEF RoundUp
    <2>2. PICK r \in 0 .. Chunk - 1 : r <= n /\ RoundUp(n) = (n + Chunk) - r
      BY <2>1, <1>1, <1>2, Remainder
    <2> QED BY <1>1, <2>2
  <1> QED BY <1>4, <1>5

LEMMA SwapIs ==
    ASSUME NEW r \in ServerType
    PROVE  /\ Swap(r) \in ServerType /\ Swap(r).pc = r.pc
           /\ Size(r.alt) = 0 =>
                /\ Swap(r).buf = Empty /\ Swap(r).bufsize = r.bufsize
                /\ Swap(r).alt = r.alt /\ Swap(r).altsize = r.altsize
           /\ Size(r.alt) # 0 =>
                /\ Swap(r).buf = r.alt /\ Swap(r).bufsize = r.altsize
                /\ Swap(r).alt = Empty /\ Swap(r).altsize = r.bufsize
  <1>1. CASE Size(r.alt) = 0
    BY <1>1, EmptyIs DEF Swap, ServerType
  <1>2. CASE Size(r.alt) # 0
    BY <1>2, EmptyIs DEF Swap, ServerType
  <1> QED BY <1>1, <1>2

LEMMA SurplusIs ==
    ASSUME NEW r \in ServerType, r.buf.lo <= r.buf.hi, NEW n \in Nat
    PROVE  /\ Surplus(r, n) \in ServerType /\ Surplus(r, n).pc = r.pc
           /\ Surplus(r, n).buf = r.buf /\ Surplus(r, n).bufsize = r.bufsize
           /\ Size(r.buf) <= n => /\ Surplus(r, n).alt = r.alt
                                  /\ Surplus(r, n).altsize = r.altsize
           /\ Size(r.buf) > n =>
                /\ Surplus(r, n).alt.lo = r.buf.lo + n /\ Surplus(r, n).alt.hi = r.buf.hi
                /\ Surplus(r, n).alt.torn = r.buf.torn
                /\ Fits(Surplus(r, n).alt, Surplus(r, n).altsize)
  <1> DEFINE s == Surplus(r, n)
  <1>1. CASE Size(r.buf) <= n
    BY <1>1, SizeOf DEF Surplus, ServerType
  <1>2. CASE ~(Size(r.buf) <= n)
    <2> DEFINE a == [r.buf EXCEPT !.lo = @ + n]
               k == Size(r.buf) - n
               z == Larger(r.altsize, RoundUp(k))
    <2>1. r.buf \in Buffer /\ r.buf.lo \in Nat /\ r.buf.hi \in Nat /\ r.altsize \in Nat
      BY DEF ServerType, Buffer
    <2>2. /\ a \in Buffer /\ a.lo = r.buf.lo + n /\ a.hi = r.buf.hi
          /\ a.torn = r.buf.torn
      BY <2>1 DEF Buffer
    <2>3. k \in Nat /\ k > 0 /\ Size(a) = k /\ a.lo <= a.hi
      BY <1>2, <2>1, <2>2 DEF Size
    <2>4. RoundUp(k) \in Nat /\ k <= RoundUp(k) /\ Chunk <= RoundUp(k)
      BY <2>3, RoundUpIs
    <2>5. z \in Nat /\ k <= z /\ Chunk <= z
      <3> HIDE DEF k
      <3> QED BY <2>1, <2>3, <2>4, ComstackAssumption DEF Larger
    <2>6. Fits(a, z)
      BY <2>3, <2>5 DEF Fits
    <2>7. s = [r EXCEPT !.alt = a, !.altsize = z]
      BY <1>2 DEF Surplus
    <2> HIDE DEF a, z
    <2>8. /\ s \in ServerType /\ s.alt = a /\ s.altsize = z /\ s.pc = r.pc
          /\ s.buf = r.buf /\ s.bufsize = r.bufsize
      BY <2>2, <2>5, <2>7 DEF ServerType
    <2> QED BY <1>2, <2>2, <2>6, <2>8
  <1> QED BY <1>1, <1>2

-----------------------------------------------------------------------------
(* Types and sizes.                                                        *)

LEMMA NewServerOK == ServerOK(NewServer) /\ ServerOK(Gone(rx))
  BY EmptyIs DEF ServerOK, NewServer, Gone, ServerType, Fits

LEMMA SwapOK ==
    ASSUME NEW r \in ServerType, ServerOK(r)
    PROVE  ServerOK(Swap(r)) /\ ServerOK([Swap(r) EXCEPT !.pc = "recv"])
  <1> DEFINE s == Swap(r)
             t == [s EXCEPT !.pc = "recv"]
  <1>0. /\ s \in ServerType /\ Fits(Empty, r.bufsize)
        /\ Fits(r.buf, r.bufsize) /\ Fits(r.alt, r.altsize)
    BY SwapIs, EmptyIs DEF ServerOK, Fits, ServerType
  <1>1. ServerOK(s)
    <2>1. CASE Size(r.alt) = 0
      BY <1>0, <2>1, SwapIs DEF ServerOK
    <2>2. CASE Size(r.alt) # 0
      <3>1. Fits(Empty, r.bufsize) /\ s.buf = r.alt /\ s.alt = Empty
            /\ s.bufsize = r.altsize /\ s.altsize = r.bufsize
        BY <1>0, <2>2, SwapIs
      <3> QED BY <1>0, <3>1 DEF ServerOK
    <2> QED BY <2>1, <2>2
  <1>2. /\ t \in ServerType /\ t.buf = s.buf /\ t.bufsize = s.bufsize
        /\ t.alt = s.alt /\ t.altsize = s.altsize
    BY <1>1 DEF ServerOK, ServerType
  <1>3. ServerOK(t)
    <2> HIDE DEF s, t
    <2> QED BY <1>1, <1>2 DEF ServerOK
  <1> QED BY <1>1, <1>3

LEMMA GrownOK ==
    ASSUME ServerOK(rx)
    PROVE  /\ ServerOK([rx EXCEPT !.bufsize = Grow(@, Size(rx.buf))])
           /\ \A n \in 0 .. Chunk :
                ServerOK([rx EXCEPT !.buf = Filled(@, nt.lo, n),
                                    !.bufsize = Grow(@, Size(rx.buf))]) \/ nt.lo \notin Nat
  <1> DEFINE has == Size(rx.buf)
             size == Grow(rx.bufsize, has)
  <1>1. /\ rx \in ServerType /\ rx.buf \in Buffer /\ rx.bufsize \in Nat
        /\ Fits(rx.buf, rx.bufsize) /\ Fits(rx.alt, rx.altsize)
    BY DEF ServerOK, ServerType
  <1>2. has \in Nat /\ has <= rx.bufsize /\ (rx.bufsize = 0 \/ Chunk <= rx.bufsize)
    BY <1>1, SizeOf DEF Fits
  <1>3. size \in Nat /\ rx.bufsize <= size /\ Chunk <= size /\ has + Chunk <= size
    BY <1>1, <1>2, GrowIs
  <1>4. Fits(rx.buf, size)
    <2> HIDE DEF size
    <2> QED BY <1>1, <1>2, <1>3 DEF Fits
  <1>5. ServerOK([rx EXCEPT !.bufsize = Grow(@, Size(rx.buf))])
    <2> DEFINE s == [rx EXCEPT !.bufsize = Grow(@, Size(rx.buf))]
    <2>1. /\ s \in ServerType /\ s.buf = rx.buf /\ s.bufsize = size
          /\ s.alt = rx.alt /\ s.altsize = rx.altsize
      BY <1>1, <1>3 DEF ServerType
    <2>2. ServerOK(s)
      <3> HIDE DEF s, size
      <3> QED BY <2>1, <1>1, <1>4 DEF ServerOK
    <2> QED BY <2>2
  <1>6. ASSUME NEW n \in 0 .. Chunk, nt.lo \in Nat
        PROVE  ServerOK([rx EXCEPT !.buf = Filled(@, nt.lo, n),
                                   !.bufsize = Grow(@, Size(rx.buf))])
    <2> DEFINE f == Filled(rx.buf, nt.lo, n)
               s == [rx EXCEPT !.buf = Filled(@, nt.lo, n),
                               !.bufsize = Grow(@, Size(rx.buf))]
    <2>1. n \in Nat /\ n <= Chunk /\ Chunk \in Nat
      BY ComstackAssumption
    <2>2. f \in Buffer /\ f.lo <= f.hi /\ Size(f) = has + n
      <3>1. rx.buf.lo <= rx.buf.hi /\ rx.buf \in Buffer /\ nt.lo \in Nat /\ n \in Nat
        BY <1>1, <2>1, <1>6 DEF Fits
      <3> QED BY <3>1, FilledIs
    <2>3. Fits(f, size)
      <3> HIDE DEF size, f, has
      <3> QED BY <1>2, <1>3, <2>1, <2>2 DEF Fits
    <2>4. /\ s \in ServerType /\ s.buf = f /\ s.bufsize = size
          /\ s.alt = rx.alt /\ s.altsize = rx.altsize
      BY <1>1, <1>3, <2>2 DEF ServerType
    <2>5. ServerOK(s)
      <3> HIDE DEF s, size, f
      <3> QED BY <2>3, <2>4, <1>1 DEF ServerOK
    <2> QED BY <2>5
  <1> QED BY <1>5, <1>6

\* A server that has emptied its buffer, the rest of it in the surplus.
LEMMA EmptiedOK ==
    ASSUME NEW r \in ServerType, ServerOK(r), NEW n \in Nat,
           NEW pc \in {"select", "more"}
    PROVE  ServerOK([Surplus(r, n) EXCEPT !.pc = pc, !.buf = Empty])
  <1> DEFINE s == Surplus(r, n)
             t == [s EXCEPT !.pc = pc, !.buf = Empty]
  <1>1. r.buf.lo <= r.buf.hi /\ Size(r.buf) \in Nat
    BY SizeOf DEF ServerOK, Fits, ServerType
  <1>2. /\ s \in ServerType /\ s.bufsize = r.bufsize /\ Fits(s.alt, s.altsize)
    BY <1>1, SurplusIs DEF ServerOK
  <1>3. /\ t \in ServerType /\ t.buf = Empty /\ t.bufsize = r.bufsize
        /\ t.alt = s.alt /\ t.altsize = s.altsize
    BY <1>2, EmptyIs DEF ServerType
  <1>4. Fits(Empty, r.bufsize)
    BY EmptyIs DEF Fits, ServerOK, ServerType
  <1>5. ServerOK(t)
    <2> HIDE DEF s, t
    <2> QED BY <1>2, <1>3, <1>4 DEF ServerOK
  <1> QED BY <1>5

\* What is left of the server at the end of the stream.
LEMMA RecvEndsOK ==
    ASSUME ServerOK(rx), RecvEnds
    PROVE  /\ ServerOK(rx') /\ rx'.buf = Empty
           /\ rx'.pc # "gone" => /\ rx'.alt = rx.alt /\ nt.up = "closed"
                                 /\ Size(rx.buf) > 0
  <1> DEFINE size == Grow(rx.bufsize, Size(rx.buf))
             s == [rx EXCEPT !.buf = Empty, !.bufsize = size]
  <1>1. /\ rx \in ServerType /\ Size(rx.buf) \in Nat /\ Size(rx.buf) <= rx.bufsize
        /\ rx.bufsize \in Nat /\ Fits(rx.alt, rx.altsize)
        /\ rx.bufsize = 0 \/ Chunk <= rx.bufsize
    BY SizeOf DEF ServerOK, Fits, ServerType
  <1>2. size \in Nat /\ Chunk <= size
    BY <1>1, GrowIs
  <1>3. ASSUME NEW pc \in {"select", "more"}
        PROVE  LET t == [s EXCEPT !.pc = pc]
               IN  ServerOK(t) /\ t.pc = pc /\ t.buf = Empty /\ t.alt = rx.alt
    <2> DEFINE t == [s EXCEPT !.pc = pc]
    <2>0. Empty \in Buffer
      BY EmptyIs
    <2> HIDE DEF size
    <2>1. /\ t \in ServerType /\ t.buf = Empty /\ t.bufsize = size /\ t.pc = pc
          /\ t.alt = rx.alt /\ t.altsize = rx.altsize
      BY <1>1, <1>2, <2>0 DEF ServerType
    <2>2. Fits(Empty, size)
      BY <1>2, EmptyIs DEF Fits
    <2>3. ServerOK(t)
      <3> HIDE DEF t
      <3> QED BY <1>1, <2>1, <2>2 DEF ServerOK
    <2> QED BY <2>1, <2>3
  <1>4. ServerOK(Gone(rx)) /\ Gone(rx).pc = "gone" /\ Gone(rx).buf = Empty
    BY NewServerOK DEF Gone, NewServer
  <1>5. \/ rx' = Gone(rx)
        \/ /\ rx' \in {[s EXCEPT !.pc = pc] : pc \in {"select", "more"}}
           /\ nt.up = "closed" /\ Size(rx.buf) > 0
    <2>1. CASE nt.up = "closed" /\ Size(rx.buf) = 1
      BY <2>1 DEF RecvEnds
    <2>2. CASE nt.up = "closed" /\ Size(rx.buf) > 1
      BY <1>1, <2>2 DEF RecvEnds
    <2>3. CASE nt.up = "closed" => Size(rx.buf) = 0
      BY <2>3 DEF RecvEnds
    <2> QED BY <1>1, <2>1, <2>2, <2>3
  <1> HIDE DEF s
  <1> QED BY <1>3, <1>4, <1>5

LEMMA TotalIs == ASSUME ends \in Seq(Nat) PROVE Total \in Nat
  BY DEF Total

\* The connection breaks and what is on its way is lost.
\* Bytes are sent or received.
LEMMA LinkMoves ==
    ASSUME NEW l, LinkOK(l), NEW n \in Nat
    PROVE  /\ LinkOK([l EXCEPT !.hi = l.hi + n])
           /\ l.lo + n <= l.hi => LinkOK([l EXCEPT !.lo = l.lo + n])
  <1>1. /\ DOMAIN l = {"up", "lo", "hi"} /\ l = [up |-> l.up, lo |-> l.lo, hi |-> l.hi]
        /\ l.up \in Links /\ l.lo \in Nat /\ l.hi \in Nat /\ l.lo <= l.hi
    BY DEF LinkOK, LinkType
  <1>2. LinkOK([l EXCEPT !.hi = l.hi + n])
    <2> DEFINE m == [l EXCEPT !.hi = l.hi + n]
               h == l.hi + n
    <2>1. h \in Nat /\ l.lo <= h
      BY <1>1
    <2> HIDE DEF h
    <2>2. [l EXCEPT !.hi = h] = [up |-> l.up, lo |-> l.lo, hi |-> h]
      BY <1>1
    <2>3. LinkOK([up |-> l.up, lo |-> l.lo, hi |-> h])
      BY <1>1, <2>1 DEF LinkOK, LinkType
    <2> QED BY <2>2, <2>3 DEF h
  <1>3. ASSUME l.lo + n <= l.hi PROVE LinkOK([l EXCEPT !.lo = l.lo + n])
    <2> DEFINE k == l.lo + n
    <2>1. k \in Nat /\ k <= l.hi
      BY <1>1, <1>3
    <2> HIDE DEF k
    <2>2. [l EXCEPT !.lo = k] = [up |-> l.up, lo |-> k, hi |-> l.hi]
      BY <1>1
    <2>3. LinkOK([up |-> l.up, lo |-> k, hi |-> l.hi])
      BY <1>1, <2>1 DEF LinkOK, LinkType
    <2> QED BY <2>2, <2>3 DEF k
  <1> QED BY <1>2, <1>3

LEMMA LostIs ==
    ASSUME LinkOK(nt)
    PROVE  LET lost == [nt EXCEPT !.up = "reset", !.lo = nt.hi]
           IN  LinkOK(lost) /\ lost.up = "reset" /\ lost.lo = nt.hi /\ lost.hi = nt.hi
  <1> DEFINE lost == [nt EXCEPT !.up = "reset", !.lo = nt.hi]
  <1>1. nt \in LinkType /\ nt.hi \in Nat
    BY DEF LinkOK, LinkType
  <1>2. lost \in LinkType
    BY <1>1 DEF LinkType, Links
  <1>3. lost.up = "reset" /\ lost.lo = nt.hi /\ lost.hi = nt.hi
    BY <1>1 DEF LinkType
  <1> QED BY <1>1, <1>2, <1>3 DEF LinkOK

LEMMA NextAddressOK ==
    ASSUME BInv, NextAddress
    PROVE  ClientOK(cl') /\ LinkOK(nt') /\ ServerOK(rx')
  <1>1. CASE cl.addr < cl.addrs
    <2>1. /\ cl' = [cl EXCEPT !.state = "connecting", !.addr = @ + 1]
          /\ nt' = [up |-> "coming", lo |-> nt.hi, hi |-> nt.hi] /\ rx' = NewServer
      BY <1>1 DEF NextAddress
    <2>2. ClientOK(cl')
      <3>1. cl \in ClientType /\ cl.addr \in Nat /\ cl.addrs \in Nat
        BY DEF BInv, ClientOK, ClientType
      <3>2. /\ cl' \in ClientType /\ cl'.addr = cl.addr + 1 /\ cl'.addrs = cl.addrs
            /\ cl'.towrite = cl.towrite /\ cl'.written = cl.written
        <4>1. "connecting" \in States /\ cl.addr + 1 \in Nat
          BY <3>1 DEF States
        <4>2. cl' = [cl EXCEPT !.state = "connecting", !.addr = cl.addr + 1]
          BY <2>1
        <4> QED BY <3>1, <4>1, <4>2 DEF ClientType
      <3> QED BY <1>1, <3>1, <3>2 DEF BInv, ClientOK
    <2>3. LinkOK(nt')
      BY <2>1 DEF BInv, LinkOK, LinkType, Links
    <2> QED BY <2>1, <2>2, <2>3, NewServerOK
  <1>2. CASE ~(cl.addr < cl.addrs)
    <2>1. /\ cl' = [cl EXCEPT !.state = "failed"] /\ rx' = rx
          /\ nt' = [nt EXCEPT !.up = "reset", !.lo = nt.hi]
      BY <1>2 DEF NextAddress
    <2>2. ClientOK(cl')
      BY <2>1 DEF BInv, ClientOK, ClientType, States
    <2>3. LinkOK(nt')
      BY <2>1, LostIs DEF BInv
    <2> QED BY <2>1, <2>2, <2>3 DEF BInv
  <1> QED BY <1>1, <1>2

LEMMA InitBounds == Init => BInv
  <1> SUFFICES ASSUME Init PROVE BInv
    OBVIOUS
  <1>1. ClientOK(cl)
    BY ComstackAssumption DEF Init, ClientOK, ClientType, States
  <1>2. LinkOK(nt)
    BY DEF Init, LinkOK, LinkType, Links
  <1>3. ServerOK(rx)
    BY NewServerOK DEF Init
  <1> QED BY <1>1, <1>2, <1>3 DEF Init, BInv

LEMMA NextBounds == BInv /\ [Next]_vars => BInv'
  <1> SUFFICES ASSUME BInv, [Next]_vars PROVE BInv'
    OBVIOUS
  <1> USE DEF BInv
  <1>1. CASE Connect
    <2>1. ClientOK(cl')
      BY <1>1 DEF Connect, ClientOK, ClientType, States
    <2> QED BY <1>1, <2>1 DEF Connect
  <1>2. CASE Resolved
    BY <1>2, NextAddressOK DEF Resolved
  <1>3. CASE RcvConnect
    <2>1. ClientOK(cl')
      BY <1>3 DEF RcvConnect, ClientOK, ClientType, States
    <2> QED BY <1>3, <2>1 DEF RcvConnect
  <1>4. ASSUME NEW size \in 1 .. MaxSize, Put(size) PROVE BInv'
    <2>1. ClientOK(cl')
      <3>1. cl \in ClientType /\ size \in Nat /\ 0 < size /\ size <= MaxSize
        BY ComstackAssumption DEF ClientOK
      <3>2. /\ cl' \in ClientType /\ cl'.addr = cl.addr /\ cl'.addrs = cl.addrs
            /\ cl'.towrite = size /\ cl'.written = 0
        BY <1>4, <3>1 DEF Put, ClientType
      <3> QED BY <3>1, <3>2, ComstackAssumption DEF ClientOK
    <2>2. Total + size \in Nat
      BY TotalIs, ComstackAssumption
    <2> QED BY <1>4, <2>1, <2>2 DEF Put
  <1>5. ASSUME NEW n \in 1 .. MaxSize, Send(n) PROVE BInv'
    <2>0. n \in Nat /\ n > 0
      BY ComstackAssumption
    <2>1. ClientOK(cl')
      <3> DEFINE left == IF cl.written + n = cl.towrite THEN 0 ELSE cl.towrite
      <3>1. cl \in ClientType /\ cl.written \in Nat /\ cl.towrite \in Nat /\ left \in Nat
        BY DEF ClientOK, ClientType
      <3>2. cl' = [cl EXCEPT !.written = cl.written + n, !.towrite = left]
        BY <1>5 DEF Send
      <3>3. /\ cl' \in ClientType /\ cl'.addr = cl.addr /\ cl'.addrs = cl.addrs
            /\ cl'.towrite = left /\ cl'.written = cl.written + n
        <4>1. cl.written + n \in Nat
          BY <2>0, <3>1
        <4> HIDE DEF left
        <4> QED BY <3>1, <3>2, <4>1 DEF ClientType
      <3>4. cl.written + n <= cl.towrite
        BY <1>5 DEF Send
      <3>5. MaxSize \in Nat /\ cl.towrite <= MaxSize /\ cl.addr <= cl.addrs
        BY ComstackAssumption DEF ClientOK
      <3>6. left > 0 => left = cl.towrite /\ cl.written + n # cl.towrite
        OBVIOUS
      <3>7. left <= MaxSize
        BY <3>1, <3>5
      <3> HIDE DEF left
      <3> QED BY <2>0, <3>1, <3>3, <3>4, <3>5, <3>6, <3>7 DEF ClientOK
    <2>2. LinkOK(nt')
      <3>1. nt' = [nt EXCEPT !.hi = nt.hi + n] /\ LinkOK(nt)
        BY <1>5 DEF Send
      <3> QED BY <2>0, <3>1, LinkMoves
    <2> QED BY <1>5, <2>1, <2>2 DEF Send
  <1>6. CASE SendFails
    BY <1>6, NextAddressOK DEF SendFails
  <1>7. CASE Close
    <2>1. ClientOK(cl') /\ LinkOK(nt')
      BY <1>7 DEF Close, ClientOK, ClientType, States, LinkOK, LinkType, Links
    <2> QED BY <1>7, <2>1 DEF Close
  <1>8. CASE Answer
    <2>1. LinkOK(nt')
      BY <1>8 DEF Answer, LinkOK, LinkType, Links
    <2> QED BY <1>8, <2>1 DEF Answer
  <1>9. CASE Reset
    <2>1. LinkOK(nt')
      BY <1>9, LostIs DEF Reset
    <2> QED BY <1>9, <2>1 DEF Reset
  <1>10. CASE Get
    <2>1. ServerOK(rx')
      BY <1>10, SwapOK DEF Get, ServerOK
    <2> QED BY <1>10, <2>1 DEF Get
  <1>11. ASSUME NEW n \in 1 .. Chunk, Recv(n) PROVE BInv'
    <2>0. n \in 0 .. Chunk /\ nt.lo \in Nat /\ n \in Nat
      BY ComstackAssumption DEF LinkOK, LinkType
    <2>1. ServerOK(rx')
      <3>1. CASE Size(rx.buf) + n > MaxRecv
        BY <1>11, <3>1, NewServerOK DEF Recv
      <3>2. CASE ~(Size(rx.buf) + n > MaxRecv)
        BY <1>11, <2>0, <3>2, GrownOK DEF Recv
      <3> QED BY <3>1, <3>2
    <2>2. LinkOK(nt')
      <3>1. nt' = [nt EXCEPT !.lo = nt.lo + n] /\ LinkOK(nt)
        BY <1>11 DEF Recv
      <3>2. nt.lo + n <= nt.hi
        BY <1>11, <2>0 DEF Recv, InFlight, LinkOK, LinkType
      <3> QED BY <2>0, <3>1, <3>2, LinkMoves
    <2> QED BY <1>11, <2>1, <2>2 DEF Recv
  <1>12. CASE RecvBlocks
    <2> DEFINE r == [rx EXCEPT !.bufsize = Grow(@, Size(rx.buf))]
    <2>1. ServerOK(r) /\ r \in ServerType
      BY GrownOK DEF ServerOK
    <2>2. rx' = [Surplus(r, 0) EXCEPT !.pc = "select", !.buf = Empty]
      BY <1>12 DEF RecvBlocks
    <2>3. ServerOK(rx')
      <3> HIDE DEF r
      <3> QED BY <2>1, <2>2, EmptiedOK
    <2> QED BY <1>12, <2>3 DEF RecvBlocks
  <1>13. CASE RecvEnds
    <2>1. ServerOK(rx')
      BY <1>13, RecvEndsOK
    <2>2. got' \in Seq(Buffer)
      <3>1. got' = got \/ got' = Append(got, rx.buf)
        BY <1>13 DEF RecvEnds
      <3>2. rx.buf \in Buffer
        BY DEF ServerOK, ServerType
      <3> QED BY <3>1, <3>2
    <2> QED BY <1>13, <2>1, <2>2 DEF RecvEnds
  <1>14. CASE Deliver
    <2> DEFINE n == Complete(rx.buf)
    <2>1. rx.buf \in Buffer /\ rx.buf.lo <= rx.buf.hi /\ rx \in ServerType
      BY DEF ServerOK, ServerType, Fits
    <2>2. n > 0 /\ rx' = [Surplus(rx, n) EXCEPT !.pc = "more", !.buf = Empty]
      BY <1>14 DEF Deliver
    <2>3. n \in Nat
      <3>1. n # 0 => n \in Int
        BY <2>1, CompleteIs
      <3> QED BY <2>2, <3>1
    <2>4. ServerOK(rx')
      <3> HIDE DEF n
      <3> QED BY <2>1, <2>2, <2>3, EmptiedOK
    <2>5. got' \in Seq(Buffer)
      <3>1. rx.buf.lo \in Nat /\ rx.buf.torn \in BOOLEAN
        BY <2>1 DEF Buffer
      <3>2. [lo |-> rx.buf.lo, hi |-> rx.buf.lo + n, torn |-> rx.buf.torn] \in Buffer
        BY <2>3, <3>1 DEF Buffer
      <3> QED BY <1>14, <3>2 DEF Deliver
    <2> QED BY <1>14, <2>4, <2>5 DEF Deliver
  <1>15. CASE More
    <2>1. CASE Size(rx.alt) > 0 /\ Complete(rx.alt) > 0
      <3>1. ServerOK(rx')
        BY <1>15, <2>1, SwapOK DEF More, ServerOK
      <3> QED BY <1>15, <3>1 DEF More
    <2>2. CASE ~(Size(rx.alt) > 0 /\ Complete(rx.alt) > 0)
      <3>1. ServerOK(rx')
        BY <1>15, <2>2 DEF More, ServerOK, ServerType
      <3> QED BY <1>15, <3>1 DEF More
    <2> QED BY <2>1, <2>2
  <1>16. CASE UNCHANGED vars
    BY <1>16 DEF vars
  <1> QED
    BY <1>1, <1>2, <1>3, <1>4, <1>5, <1>6, <1>7, <1>8, <1>9, <1>10, <1>11, <1>12,
       <1>13, <1>14, <1>15, <1>16 DEF Next, Sender, Network, Server

THEOREM BoundsAlways == Spec => []BInv
  BY InitBounds, NextBounds, PTL DEF Spec

\* Every variable keeps its type, and no more of a PDU is written than there is.
THEOREM TypeCorrect == Spec => []TypeOK
  <1>1. BInv => TypeOK
    <2> SUFFICES ASSUME BInv PROVE TypeOK
      OBVIOUS
    <2>1. /\ cl.state \in States /\ cl.addr \in Nat /\ cl.addrs \in Nat
          /\ cl.addr <= cl.addrs /\ cl.towrite \in Nat /\ cl.written \in Nat
          /\ cl.written <= MaxSize /\ (cl.towrite > 0 => cl.written < cl.towrite)
      BY DEF BInv, ClientOK, ClientType
    <2>2. nt.up \in Links /\ nt.lo \in Nat /\ nt.hi \in Nat /\ nt.lo <= nt.hi
      BY DEF BInv, LinkOK, LinkType
    <2>3. /\ rx.pc \in {"select", "recv", "more", "gone"}
          /\ rx.buf \in Buffer /\ rx.alt \in Buffer
          /\ rx.bufsize \in Nat /\ rx.altsize \in Nat
      BY DEF BInv, ServerOK, ServerType
    <2> QED BY <2>1, <2>2, <2>3, ComstackAssumption DEF BInv, TypeOK, States, Links
  <1> QED BY <1>1, BoundsAlways, PTL

\* The recv of tcpip_get never writes past its buffer, for any chunk size and
\* any sequence of PDUs, reads and swaps of the two buffers.
THEOREM NeverOverruns == Spec => []NoOverrun
  <1>1. BInv => NoOverrun
    <2> SUFFICES ASSUME BInv PROVE NoOverrun
      OBVIOUS
    <2>1. /\ rx.buf \in Buffer /\ rx.bufsize \in Nat
          /\ Fits(rx.buf, rx.bufsize) /\ Fits(rx.alt, rx.altsize)
      BY DEF BInv, ServerOK, ServerType
    <2>2. /\ Size(rx.buf) \in Nat /\ Size(rx.buf) <= rx.bufsize
          /\ (rx.bufsize = 0 \/ Chunk <= rx.bufsize)
      BY <2>1, SizeOf DEF Fits
    <2>3. Size(rx.buf) + Chunk <= Grow(rx.bufsize, Size(rx.buf))
      BY <2>1, <2>2, GrowIs
    <2> QED BY <2>1, <2>3 DEF NoOverrun, Fits
  <1> QED BY <1>1, BoundsAlways, PTL

-----------------------------------------------------------------------------
(* Order, while a connection does not fail before the last address.        *)

\* Where the next PDU to be got starts, and the buffer that holds its start.
Done == IF got = <<>> THEN 0 ELSE ends[Len(got)]
Held == IF rx.pc = "recv" THEN rx.buf ELSE rx.alt

Rising == \A i \in DOMAIN ends : ends[i] > 0 /\ \A j \in DOMAIN ends : i < j => ends[i] < ends[j]
Fresh == /\ cl.state \in {"unbnd", "resolving"} => nt.up = "none"
         /\ nt.up \in {"none", "coming", "refused"} =>
              rx = NewServer /\ nt.hi = 0 /\ got = <<>>
Lost == nt.up = "reset" => nt.lo = nt.hi /\ ~(cl.addr < cl.addrs)
OneHeld == Size(IF rx.pc = "recv" THEN rx.alt ELSE rx.buf) = 0
Placed ==
    rx.pc # "gone" =>
        /\ Size(Held) > 0 => /\ ~Held.torn /\ Held.lo = Done
                             /\ Held.hi = nt.lo \/ nt.up = "reset"
        /\ Size(Held) = 0 => \/ nt.lo = Done
                             \/ nt.lo = nt.hi /\ nt.up \in {"closed", "reset"}


\* What of the last PDU the client has not sent is all that is not sent.
Left == IF cl.towrite > 0 THEN cl.towrite - cl.written ELSE 0
Written == /\ nt.up # "reset" => nt.hi + Left = Total
           /\ nt.up = "closed" => cl.state = "closed"
           /\ cl.towrite > 0 =>
                ends # <<>> /\ Start(Len(ends)) + cl.towrite = Total

OInv == Rising /\ GotWhole /\ Fresh /\ Lost /\ OneHeld /\ Placed /\ Written

\* All that was got is whole, unless the client has closed and the last PDU was
\* the one it had not written completely.
LEMMA Uncut ==
    ASSUME GotWhole, cl.state # "closed" \/ Len(got) # Len(ends)
    PROVE  ~Cut /\ Whole = Len(got)
  BY DEF GotWhole, Whole

LEMMA InitOrder == Init => OInv
  <1> SUFFICES ASSUME Init PROVE OInv
    OBVIOUS
  <1>1. rx.pc = "select" /\ rx.buf = Empty /\ rx.alt = Empty
    BY DEF Init, NewServer
  <1>2. Rising /\ GotWhole
    BY DEF Init, Rising, GotWhole, Cut, Whole
  <1>3. Fresh /\ Lost
    BY DEF Init, Fresh, Lost
  <1>4. OneHeld
    BY <1>1, EmptyIs DEF OneHeld
  <1>5. Placed
    BY <1>1, EmptyIs DEF Init, Placed, Held, Done
  <1>6. Written
    <2>1. cl.towrite = 0 /\ nt.hi = 0 /\ nt.up = "none" /\ ends = <<>>
      BY DEF Init
    <2> QED BY <2>1 DEF Written, Left, Total
  <1> QED BY <1>2, <1>3, <1>4, <1>5, <1>6 DEF OInv

\* Only the sender, the network or the place in the stream changes.
LEMMA SameStream ==
    ASSUME OInv, UNCHANGED <<ends, got>>, cl.state = "closed" => cl' = cl
    PROVE  Rising' /\ GotWhole' /\ Done' = Done
  <1>1. Rising' /\ Done' = Done
    BY DEF OInv, Rising, Done
  <1>2. Cut' = Cut /\ Whole' = Whole /\ \A i : Pdu(i)' = Pdu(i) /\ Start(i)' = Start(i)
    BY DEF Cut, Whole, Pdu, Start
  <1>3. GotWhole'
    <2>1. Len(got') <= Len(ends') /\ \A i \in 1 .. Whole' : got'[i] = Pdu(i)'
      BY <1>2 DEF OInv, GotWhole
    <2>2. ASSUME Cut PROVE cl' = cl
      BY <2>2 DEF OInv, GotWhole
    <2> QED BY <1>2, <2>1, <2>2 DEF OInv, GotWhole
  <1> QED BY <1>1, <1>3

\* Nothing is put or sent.
LEMMA SameWritten ==
    ASSUME OInv, UNCHANGED ends, nt'.hi = nt.hi,
           cl'.towrite = cl.towrite, cl'.written = cl.written,
           nt.up = "reset" => nt'.up = "reset",
           nt'.up = "closed" => cl'.state = "closed"
    PROVE  Written'
  BY DEF OInv, Written, Left, Total, Start

\* A new server at the start of a stream.
LEMMA NextAddressOrder ==
    ASSUME BInv, OInv, NextAddress, UNCHANGED <<ends, got>>,
           nt.up \in {"none", "refused", "reset"},
           cl.state \notin {"unbnd", "closed"}
    PROVE  OInv'
  <1> USE DEF OInv
  <1>1. Rising' /\ GotWhole'
    BY SameStream
  <1>2. CASE cl.addr < cl.addrs
    <2>1. /\ nt' = [up |-> "coming", lo |-> nt.hi, hi |-> nt.hi] /\ rx' = NewServer
          /\ cl' = [cl EXCEPT !.state = "connecting", !.addr = @ + 1]
      BY <1>2 DEF NextAddress
    <2>2. nt.hi = 0 /\ got' = <<>>
      BY <1>2 DEF Fresh, Lost
    <2>3. cl'.state = "connecting"
      BY <2>1 DEF BInv, ClientOK, ClientType
    <2>4. Fresh' /\ Lost'
      BY <2>1, <2>2, <2>3 DEF Fresh, Lost, NewServer, Empty
    <2>5. rx'.pc = "select" /\ Size(rx'.buf) = 0 /\ Size(rx'.alt) = 0
      BY <2>1, EmptyIs DEF NewServer
    <2>6. OneHeld' /\ Placed'
      BY <2>1, <2>2, <2>5 DEF OneHeld, Placed, Held, Done, Size
    <2>7. Written'
      <3>1. cl'.towrite = cl.towrite /\ cl'.written = cl.written
        BY <2>1 DEF BInv, ClientOK, ClientType
      <3>2. nt'.hi = nt.hi /\ nt.up # "reset" /\ nt'.up = "coming"
        BY <1>2, <2>1 DEF Lost
      <3> QED BY <3>1, <3>2, SameWritten
    <2> QED BY <1>1, <2>4, <2>6, <2>7
  <1>3. CASE ~(cl.addr < cl.addrs)
    <2>1. /\ cl' = [cl EXCEPT !.state = "failed"] /\ rx' = rx
          /\ nt' = [nt EXCEPT !.up = "reset", !.lo = nt.hi]
      BY <1>3 DEF NextAddress
    <2>2. nt'.up = "reset" /\ nt'.lo = nt.hi /\ nt'.hi = nt.hi
      BY <2>1, LostIs DEF BInv
    <2>3. cl'.state = "failed" /\ cl'.addr = cl.addr /\ cl'.addrs = cl.addrs
      BY <2>1 DEF BInv, ClientOK, ClientType
    <2>4. Fresh' /\ Lost'
      BY <1>3, <2>2, <2>3 DEF Fresh, Lost
    <2>5. OneHeld' /\ Placed'
      BY <2>1, <2>2 DEF OneHeld, Placed, Held, Done, Size
    <2>6. Written'
      <3>1. cl'.towrite = cl.towrite /\ cl'.written = cl.written
        BY <2>1 DEF BInv, ClientOK, ClientType
      <3> QED BY <2>2, <3>1, SameWritten
    <2> QED BY <1>1, <2>4, <2>5, <2>6
  <1> QED BY <1>2, <1>3

LEMMA HeldIs == ASSUME BInv PROVE Held \in Buffer /\ Held.lo <= Held.hi
  BY DEF BInv, ServerOK, ServerType, Fits, Held

\* A PDU is put at the end of the stream.
LEMMA PutOrder ==
    ASSUME BInv, OInv, NEW size \in 1 .. MaxSize, Put(size)
    PROVE  OInv'
  <1> USE DEF OInv
  <1>1. /\ ends' = Append(ends, Total + size) /\ UNCHANGED <<nt, rx, got>>
        /\ cl' = [cl EXCEPT !.towrite = size, !.written = 0]
        /\ cl.state = "dataxfer" /\ cl.towrite = 0
    BY DEF Put
  <1>2. size \in Nat /\ size > 0 /\ Total \in Nat /\ ends \in Seq(Nat)
    BY TotalIs, ComstackAssumption DEF BInv
  <1>3. \A i \in DOMAIN ends : ends[i] <= Total
    <2>1. ASSUME NEW i \in DOMAIN ends PROVE ends[i] <= Total
      <3>1. /\ Len(ends) \in DOMAIN ends /\ Total = ends[Len(ends)] /\ i \in 1 .. Len(ends)
            /\ ends[i] \in Nat
        BY <1>2 DEF Total
      <3> QED BY <1>2, <3>1 DEF Rising
    <2> QED BY <2>1
  <1>4. /\ DOMAIN ends' = 1 .. Len(ends) + 1 /\ ends'[Len(ends) + 1] = Total + size
        /\ Len(ends') = Len(ends) + 1
        /\ \A i \in DOMAIN ends : ends'[i] = ends[i] /\ ends[i] \in Nat
        /\ DOMAIN ends = 1 .. Len(ends) /\ Len(ends) \in Nat
    BY <1>1, <1>2
  <1>5. Rising'
    <2> SUFFICES ASSUME NEW i \in DOMAIN ends'
                 PROVE  ends'[i] > 0 /\ \A j \in DOMAIN ends' : i < j => ends'[i] < ends'[j]
      BY DEF Rising
    <2>1. CASE i \in DOMAIN ends
      <3>1. ends'[i] > 0
        BY <2>1, <1>4 DEF Rising
      <3>2. ASSUME NEW j \in DOMAIN ends', i < j PROVE ends'[i] < ends'[j]
        <4>1. CASE j \in DOMAIN ends
          BY <2>1, <3>2, <4>1, <1>4 DEF Rising
        <4>2. CASE j = Len(ends) + 1
          <5>1. ends[i] <= Total /\ ends'[j] = Total + size
            BY <2>1, <4>2, <1>3, <1>4
          <5> QED BY <2>1, <1>2, <1>4, <5>1
        <4> QED BY <4>1, <4>2, <1>4
      <3> QED BY <3>1, <3>2
    <2>2. CASE i = Len(ends) + 1
      BY <2>2, <1>2, <1>4
    <2> QED BY <2>1, <2>2, <1>4
  <1>6. Len(got) <= Len(ends) /\ Len(got) \in Nat /\ DOMAIN got = 1 .. Len(got)
    BY DEF GotWhole, BInv
  <1>7. GotWhole'
    <2>1. ~Cut /\ Whole = Len(got)
      BY <1>1, Uncut
    <2>2. ASSUME NEW i \in DOMAIN got PROVE got[i] = Pdu(i)'
      <3>1. i \in DOMAIN ends /\ (i # 1 => i - 1 \in DOMAIN ends)
        BY <1>4, <1>6
      <3>2. ends'[i] = ends[i] /\ (i # 1 => ends'[i - 1] = ends[i - 1])
        BY <1>4, <3>1
      <3>3. got[i] = Pdu(i)
        BY <1>6, <2>1 DEF GotWhole
      <3> QED BY <3>2, <3>3 DEF Pdu, Start
    <2>3. ~Cut' /\ Whole' = Len(got)
      <3>1. got # <<>> => Len(got) \in DOMAIN ends
        BY <1>4, <1>6 DEF BInv
      <3> QED BY <1>1, <1>4, <2>1, <3>1 DEF Cut, Whole
    <2>4. Len(got') <= Len(ends') /\ Whole' = Len(got)
      BY <1>1, <1>4, <1>6, <2>3
    <2>5. \A i \in 1 .. Whole' : got'[i] = Pdu(i)'
      BY <1>1, <1>6, <2>2, <2>3
    <2> QED BY <2>3, <2>4, <2>5 DEF GotWhole
  <1>8. Done' = Done
    <2>1. got # <<>> => Len(got) \in DOMAIN ends
      BY <1>4, <1>6 DEF BInv
    <2> QED BY <1>1, <1>4, <2>1 DEF Done
  <1>9. cl'.state = cl.state /\ cl'.addr = cl.addr /\ cl'.addrs = cl.addrs
    BY <1>1 DEF BInv, ClientOK, ClientType
  <1>10. Fresh' /\ Lost' /\ OneHeld' /\ Placed'
    BY <1>1, <1>8, <1>9 DEF Fresh, Lost, OneHeld, Placed, Held, Size
  <1>11. Written'
    <2>1. cl'.towrite = size /\ cl'.written = 0
      BY <1>1 DEF BInv, ClientOK, ClientType
    <2>2. ends' # <<>> /\ Total' = Total + size
      BY <1>1, <1>2, <1>4 DEF Total
    <2>3. Start(Len(ends))' = Total
      <3>1. CASE ends = <<>>
        <4>1. Len(ends') = 1
          BY <1>4, <3>1
        <4> QED BY <3>1, <4>1 DEF Start, Total
      <3>2. CASE ends # <<>>
        <4>1. Len(ends) \in DOMAIN ends /\ Len(ends') # 1 /\ Len(ends') - 1 = Len(ends)
          BY <1>2, <1>4, <3>2
        <4> QED BY <1>4, <3>2, <4>1 DEF Start, Total
      <3> QED BY <3>1, <3>2
    <2>4. Left = 0 /\ Left' = size
      BY <1>1, <1>2, <2>1 DEF Left
    <2>5. nt.hi \in Nat
      BY DEF BInv, LinkOK, LinkType
    <2> QED BY <1>1, <1>2, <1>9, <2>1, <2>2, <2>3, <2>4, <2>5 DEF Written
  <1> QED BY <1>5, <1>7, <1>10, <1>11

\* A fresh connection has nothing for the server.
LEMMA NotFresh ==
    ASSUME BInv, OInv, InFlight > 0 \/ nt.up \in {"closed", "reset"}
    PROVE  nt.up \in {"up", "closed", "reset"}
  <1>1. nt.up \in Links /\ nt.lo \in Nat /\ nt.hi \in Nat /\ nt.lo <= nt.hi
    BY DEF BInv, LinkOK, LinkType
  <1> QED BY <1>1 DEF OInv, Fresh, InFlight, Links

LEMMA RecvOrder ==
    ASSUME BInv, OInv, NEW n \in 1 .. Chunk, Recv(n)
    PROVE  OInv'
  <1> USE DEF OInv
  <1>1. n \in Nat /\ n > 0
    BY ComstackAssumption
  <1>2. /\ rx.pc = "recv" /\ n <= nt.hi - nt.lo /\ UNCHANGED <<cl, ends, got>>
        /\ nt' = [nt EXCEPT !.lo = @ + n]
    BY DEF Recv, InFlight
  <1>3. nt \in LinkType /\ nt.lo \in Nat /\ nt.hi \in Nat
    BY DEF BInv, LinkOK, LinkType
  <1>4. nt'.lo = nt.lo + n /\ nt'.hi = nt.hi /\ nt'.up = nt.up
    BY <1>2, <1>3 DEF LinkType
  <1>5. nt.up \in {"up", "closed"}
    BY <1>1, <1>2, <1>3, NotFresh DEF Lost, InFlight
  <1>6. Rising' /\ GotWhole' /\ Done' = Done
    BY <1>2, SameStream
  <1>7. cl.state \notin {"unbnd", "resolving"}
    BY <1>5 DEF Fresh
  <1>8. Fresh' /\ Lost' /\ Written'
    <2>1. Written'
      BY <1>2, <1>4, SameWritten DEF Written
    <2> QED BY <1>2, <1>4, <1>5, <1>7, <2>1 DEF Fresh, Lost
  <1>9. CASE Size(rx.buf) + n > MaxRecv
    <2>1. rx'.pc = "gone" /\ Size(rx'.buf) = 0
      BY <1>2, <1>9, EmptyIs DEF Recv, Gone, NewServer
    <2> QED BY <1>6, <1>8, <2>1 DEF OneHeld, Placed
  <1>10. CASE ~(Size(rx.buf) + n > MaxRecv)
    <2> DEFINE f == Filled(rx.buf, nt.lo, n)
               size == Grow(rx.bufsize, Size(rx.buf))
    <2>1. rx' = [rx EXCEPT !.buf = f, !.bufsize = size]
      BY <1>10 DEF Recv
    <2>2. /\ rx \in ServerType /\ rx.buf \in Buffer /\ rx.buf.lo <= rx.buf.hi
          /\ Size(rx.buf) \in Nat
      BY SizeOf DEF BInv, ServerOK, ServerType, Fits
    <2>3. rx'.pc = "recv" /\ rx'.buf = f /\ rx'.alt = rx.alt
      <3> HIDE DEF f, size
      <3> QED BY <1>2, <2>1, <2>2 DEF ServerType
    <2>4. Held = rx.buf /\ Held' = f
      BY <1>2, <2>3 DEF Held
    <2>5. Size(f) = Size(rx.buf) + n
      BY <1>1, <1>3, <2>2, FilledIs
    <2>6. Size(f) > 0 /\ Size(f) # 0
      <3> HIDE DEF f
      <3> QED BY <1>1, <2>2, <2>5
    <2>7. ~f.torn /\ f.lo = Done /\ f.hi = nt.lo + n
      <3>1. CASE Size(rx.buf) = 0
        <4>1. nt.lo = Done
          BY <1>1, <1>2, <1>3, <2>4, <3>1 DEF Placed
        <4>2. /\ Filled(rx.buf, nt.lo, n).lo = nt.lo
              /\ Filled(rx.buf, nt.lo, n).hi = nt.lo + n
              /\ ~Filled(rx.buf, nt.lo, n).torn
          BY <1>1, <1>3, <2>2, <3>1, FilledFirst
        <4> QED BY <4>1, <4>2
      <3>2. CASE Size(rx.buf) # 0
        <4>1. ~rx.buf.torn /\ rx.buf.lo = Done /\ rx.buf.hi = nt.lo
          BY <1>2, <1>5, <2>2, <2>4, <3>2 DEF Placed
        <4>2. /\ Filled(rx.buf, rx.buf.hi, n).lo = rx.buf.lo
              /\ Filled(rx.buf, rx.buf.hi, n).hi = rx.buf.hi + n
              /\ ~Filled(rx.buf, rx.buf.hi, n).torn
          BY <1>1, <2>2, <3>2, <4>1, FilledNext
        <4> QED BY <4>1, <4>2
      <3> QED BY <3>1, <3>2
    <2>8. OneHeld'
      BY <1>2, <2>3 DEF OneHeld, Size
    <2>9. Placed'
      <3>1. Size(Held)' = Size(f)
        BY <2>4 DEF Size
      <3> QED BY <1>4, <1>6, <2>4, <2>6, <2>7, <3>1 DEF Placed
    <2> QED BY <1>6, <1>8, <2>8, <2>9
  <1> QED BY <1>9, <1>10

\* The server changes nothing but its own buffers.
LEMMA SameLink ==
    ASSUME BInv, OInv, UNCHANGED <<cl, ends, nt, got>>,
           InFlight > 0 \/ nt.up \notin {"none", "coming", "refused"}
    PROVE  Rising' /\ GotWhole' /\ Done' = Done /\ Fresh' /\ Lost' /\ Written'
  <1>1. nt.up \notin {"none", "coming", "refused"}
    BY NotFresh
  <1>2. Rising' /\ GotWhole' /\ Done' = Done
    BY SameStream
  <1>3. Written'
    BY SameWritten DEF OInv, Written
  <1> QED BY <1>1, <1>2, <1>3 DEF OInv, Fresh, Lost

LEMMA GetOrder == ASSUME BInv, OInv, Get PROVE OInv'
  <1> DEFINE s == Swap(rx)
  <1>1. /\ rx.pc = "select" /\ UNCHANGED <<cl, ends, nt, got>> /\ rx \in ServerType
        /\ InFlight > 0 \/ nt.up \in {"closed", "reset"}
        /\ rx' = [s EXCEPT !.pc = "recv"]
    BY DEF Get, BInv, ServerOK
  <1>2. Rising' /\ GotWhole' /\ Done' = Done /\ Fresh' /\ Lost' /\ Written'
    BY <1>1, SameLink, NotFresh
  <1>3. s \in ServerType
    BY <1>1, SwapIs
  <1>4. rx'.pc = "recv" /\ rx'.buf = s.buf /\ rx'.alt = s.alt
    <2> HIDE DEF s
    <2> QED BY <1>1, <1>3 DEF ServerType
  <1>5. Held = rx.alt /\ Held' = s.buf
    BY <1>1, <1>4 DEF Held
  <1>6. CASE Size(rx.alt) = 0
    <2>1. s.buf = Empty /\ s.alt = rx.alt
      BY <1>1, <1>6, SwapIs
    <2>2. OneHeld'
      BY <1>4, <1>6, <2>1 DEF OneHeld, Size
    <2>3. Size(Held)' = 0
      BY <1>5, <2>1, EmptyIs DEF Size
    <2>4. Placed'
      BY <1>1, <1>2, <1>5, <1>6, <2>3 DEF OInv, Placed
    <2> QED BY <1>2, <2>2, <2>4 DEF OInv
  <1>7. CASE Size(rx.alt) # 0
    <2>1. s.buf = rx.alt /\ s.alt = Empty
      BY <1>1, <1>7, SwapIs
    <2>2. OneHeld'
      BY <1>4, <2>1, EmptyIs DEF OneHeld, Size
    <2>3. Held' = Held /\ Size(Held)' = Size(Held)
      BY <1>5, <2>1 DEF Size
    <2>4. Placed'
      BY <1>1, <1>2, <2>3 DEF OInv, Placed
    <2> QED BY <1>2, <2>2, <2>4 DEF OInv
  <1> QED BY <1>6, <1>7

\* A server that is reading has an open or a broken connection.
LEMMA ReadingLink ==
    ASSUME OInv, rx.pc # "select"
    PROVE  nt.up \notin {"none", "coming", "refused"}
  BY DEF OInv, Fresh, NewServer

LEMMA RecvBlocksOrder == ASSUME BInv, OInv, RecvBlocks PROVE OInv'
  <1> DEFINE r == [rx EXCEPT !.bufsize = Grow(@, Size(rx.buf))]
             s == Surplus(r, 0)
  <1>1. /\ rx.pc = "recv" /\ UNCHANGED <<cl, ends, nt, got>> /\ nt.up = "up"
        /\ rx' = [s EXCEPT !.pc = "select", !.buf = Empty]
    BY DEF RecvBlocks
  <1>2. Rising' /\ GotWhole' /\ Done' = Done /\ Fresh' /\ Lost' /\ Written'
    BY <1>1, SameLink
  <1>3. rx \in ServerType /\ rx.buf.lo <= rx.buf.hi /\ rx.buf \in Buffer
    BY DEF BInv, ServerOK, Fits, ServerType
  <1>4. r \in ServerType /\ r.buf = rx.buf /\ r.alt = rx.alt
    <2>0. ServerOK(rx)
      BY DEF BInv
    <2>1. ServerOK(r)
      BY <2>0, GrownOK
    <2>2. r \in ServerType
      <3> HIDE DEF r
      <3> QED BY <2>1 DEF ServerOK
    <2> QED BY <1>3, <2>2 DEF ServerType
  <1>5. /\ s \in ServerType
        /\ Size(rx.buf) <= 0 => s.alt = rx.alt
        /\ Size(rx.buf) > 0 => /\ s.alt.lo = rx.buf.lo + 0 /\ s.alt.hi = rx.buf.hi
                               /\ s.alt.torn = rx.buf.torn
    <2> HIDE DEF r
    <2> QED BY <1>3, <1>4, SurplusIs
  <1>6. rx'.pc = "select" /\ rx'.buf = Empty /\ rx'.alt = s.alt
    <2> HIDE DEF s
    <2> QED BY <1>1, <1>5 DEF ServerType
  <1> HIDE DEF r, s
  <1>7. OneHeld'
    BY <1>6, EmptyIs DEF OneHeld, Size
  <1>8. Held = rx.buf /\ Held' = s.alt /\ Size(Held)' = Size(s.alt)
    BY <1>1, <1>6 DEF Held, Size
  <1>9. Placed'
    <2>1. CASE Size(rx.buf) <= 0
      <3>1. Size(rx.buf) = 0
        BY <1>3, <2>1, SizeOf
      <3>2. Size(s.alt) = 0
        BY <1>1, <1>5, <2>1 DEF OInv, OneHeld
      <3>3. nt.lo = Done
        BY <1>1, <1>8, <3>1 DEF OInv, Placed
      <3> QED BY <1>1, <1>2, <1>8, <3>2, <3>3 DEF Placed
    <2>2. CASE Size(rx.buf) > 0
      <3>1. ~rx.buf.torn /\ rx.buf.lo = Done /\ rx.buf.hi = nt.lo
        BY <1>1, <1>8, <2>2 DEF OInv, Placed
      <3>2. rx.buf.lo + 0 = rx.buf.lo
        BY <1>3 DEF Buffer
      <3>3. Size(s.alt) = Size(rx.buf)
        BY <1>5, <2>2, <3>2 DEF Size
      <3> QED BY <1>1, <1>2, <1>5, <1>8, <2>2, <3>1, <3>2, <3>3 DEF Placed
    <2>3. Size(rx.buf) \in Nat
      BY <1>3, SizeOf
    <2> QED BY <2>1, <2>2, <2>3
  <1> QED BY <1>2, <1>7, <1>9 DEF OInv

\* The PDU a buffer starts with, when the PDUs got end where it starts.
LEMMA NextPdu ==
    ASSUME BInv, Rising, GotWhole, NEW b \in Buffer, b.lo <= b.hi,
           Complete(b) # 0, b.lo = Done
    PROVE  /\ Len(got) + 1 \in DOMAIN ends /\ Start(Len(got) + 1) = b.lo
           /\ Complete(b) = ends[Len(got) + 1] - b.lo /\ Complete(b) <= Size(b)
           /\ Complete(b) > 0
  <1>1. /\ ends \in Seq(Nat) /\ DOMAIN ends = 1 .. Len(ends) /\ Len(ends) \in Nat
        /\ Len(got) \in Nat /\ Len(got) <= Len(ends)
        /\ got = <<>> <=> Len(got) = 0
    BY DEF BInv, GotWhole
  <1>2. PICK i \in DOMAIN ends : /\ Start(i) = b.lo /\ ends[i] <= b.hi
                                 /\ Complete(b) = ends[i] - b.lo
    BY <1>1, CompleteIs
  <1>3. Complete(b) <= Size(b)
    BY <1>1, CompleteIs
  <1>4. i = Len(got) + 1
    <2>1. CASE Len(got) = 0
      <3>1. b.lo = 0
        BY <1>1, <2>1 DEF Done
      <3>2. i # 1 => i - 1 \in DOMAIN ends /\ ends[i - 1] = 0
        BY <1>1, <1>2, <3>1 DEF Start
      <3> QED BY <1>1, <2>1, <3>2 DEF Rising
    <2>2. CASE Len(got) # 0
      <3>1. b.lo = ends[Len(got)] /\ Len(got) \in DOMAIN ends
        BY <1>1, <2>2 DEF Done
      <3>2. ends[Len(got)] > 0
        BY <3>1 DEF Rising
      <3>3. i # 1
        BY <1>2, <3>1, <3>2 DEF Start
      <3>4. i - 1 \in DOMAIN ends /\ ends[i - 1] = ends[Len(got)]
        BY <1>1, <1>2, <3>1, <3>3 DEF Start
      <3>5. ~(i - 1 < Len(got)) /\ ~(Len(got) < i - 1)
        <4>1. ends[i - 1] \in Nat
          BY <1>1, <3>4
        <4> QED BY <3>1, <3>4, <4>1 DEF Rising
      <3> QED BY <1>1, <3>5
    <2> QED BY <2>1, <2>2
  <1>5. Complete(b) > 0
    <2>1. ends[i] \in Nat /\ b.lo \in Nat
      BY <1>1 DEF Buffer
    <2>2. b.lo < ends[i]
      <3>1. CASE Len(got) = 0
        BY <1>1, <3>1 DEF Done, Rising
      <3>2. CASE Len(got) # 0
        <4>1. Len(got) \in DOMAIN ends /\ Len(got) < i /\ b.lo = ends[Len(got)]
          BY <1>1, <1>4, <3>2 DEF Done
        <4> QED BY <4>1 DEF Rising
      <3> QED BY <3>1, <3>2
    <2> QED BY <1>2, <2>1, <2>2
  <1> QED BY <1>2, <1>3, <1>4, <1>5

\* A beginning of a PDU that is held at the end of the stream is of the last one,
\* which the client had not written completely.
LEMMA HeldAtEnd ==
    ASSUME BInv, OInv, NEW b \in Buffer, b.lo < b.hi, Complete(b) = 0,
           b.lo = Done, b.hi = nt.hi, nt.up = "closed"
    PROVE  /\ cl.state = "closed" /\ cl.towrite > 0 /\ Len(got) + 1 = Len(ends)
           /\ Start(Len(ends)) = Done /\ b.hi < ends[Len(ends)]
  <1> DEFINE e == Len(ends)
             k == Len(got) + 1
  <1>1. /\ ends \in Seq(Nat) /\ DOMAIN ends = 1 .. e /\ e \in Nat /\ Total \in Nat
        /\ Len(got) \in Nat /\ Len(got) <= e /\ (got = <<>> <=> Len(got) = 0)
    BY TotalIs DEF BInv, OInv, GotWhole
  <1>2. /\ b.lo \in Nat /\ b.hi \in Nat /\ cl.towrite \in Nat /\ cl.written \in Nat
        /\ cl.towrite > 0 => cl.written < cl.towrite
    BY DEF BInv, ClientOK, ClientType, Buffer
  <1>3. cl.state = "closed" /\ b.hi + Left = Total /\ Left \in Nat
    BY <1>2 DEF OInv, Written, Left
  <1>4. Len(got) # e
    <2> SUFFICES ASSUME Len(got) = e PROVE FALSE
      OBVIOUS
    <2>1. Done = Total
      BY <1>1 DEF Done, Total
    <2> QED BY <1>1, <1>2, <1>3, <2>1
  <1>5. k \in 1 .. e /\ Start(k) = Done
    BY <1>1, <1>4 DEF Start, Done
  <1>6. b.hi < ends[k]
    <2>1. ends[k] \in Nat
      BY <1>1, <1>5
    <2>2. Size(b) > 0 /\ ~(Start(k) = b.lo /\ ends[k] <= b.hi)
      <3>1. Size(b) > 0
        BY <1>2 DEF Size
      <3>2. ASSUME Start(k) = b.lo, ends[k] <= b.hi PROVE FALSE
        <4> DEFINE P(i) == Start(i) = b.lo /\ ends[i] <= b.hi
                   c == CHOOSE i \in DOMAIN ends : P(i)
        <4>1. \E i \in DOMAIN ends : P(i)
          BY <1>1, <1>5, <3>2
        <4>2. c \in DOMAIN ends /\ P(c)
          BY <4>1
        <4>3. Complete(b) = ends[c] - b.lo
          BY <3>1, <4>1 DEF Complete
        <4> HIDE DEF c
        <4>4. ends[c] = b.lo /\ c \in 1 .. e
          <5>1. ends[c] \in Nat /\ c \in 1 .. e
            BY <1>1, <4>2
          <5>2. ends[c] - b.lo = 0
            BY <4>3
          <5> QED BY <1>2, <5>1, <5>2
        <4>5. Start(c) = ends[c] /\ ends[c] > 0
          BY <1>1, <4>2, <4>4 DEF OInv, Rising
        <4>6. c # 1 /\ ends[c - 1] = ends[c]
          BY <4>5 DEF Start
        <4>7. c - 1 \in DOMAIN ends /\ c - 1 < c
          BY <1>1, <4>4, <4>6
        <4>8. ends[c - 1] < ends[c] /\ ends[c] \in Nat
          BY <1>1, <4>2, <4>7 DEF OInv, Rising
        <4> QED BY <4>6, <4>8
      <3> QED BY <3>1, <3>2
    <2> QED BY <1>2, <1>5, <2>1, <2>2
  <1>7. /\ k \in Nat /\ k <= e /\ ends[k] \in Nat /\ k \in DOMAIN ends
        /\ e \in Nat /\ e \in DOMAIN ends /\ k > 0
    BY <1>1, <1>5
  <1>8. Total = ends[e] /\ ends[e] \in Nat /\ ends \in Seq(Nat) /\ DOMAIN ends = 1 .. e
    BY <1>1, <1>7 DEF Total
  <1>9. /\ e # 1 => Start(e) = ends[e - 1]
        /\ \A i \in DOMAIN ends : ends[i] \in Nat
    BY <1>1 DEF Start
  <1> HIDE DEF k, e
  <1>10. ends[k] <= Total
    <2>1. k = e \/ k < e
      BY <1>7
    <2> QED BY <1>7, <1>8, <2>1 DEF OInv, Rising
  <1>11. cl.towrite > 0
    BY <1>1, <1>2, <1>3, <1>6, <1>7, <1>10 DEF Left
  <1>12. k = e
    <2> SUFFICES ASSUME k < e PROVE FALSE
      BY <1>7
    <2>1. Start(e) = ends[e - 1] /\ e - 1 \in DOMAIN ends /\ k <= e - 1
      <3>1. e # 1 /\ k # 0
        BY <1>7
      <3> QED BY <1>7, <1>8, <1>9, <3>1
    <2>2. ends[e - 1] \in Nat /\ ends[k] <= ends[e - 1]
      <3>1. k = e - 1 \/ k < e - 1
        BY <1>7, <2>1
      <3>2. ends[e - 1] \in Nat
        BY <1>9, <2>1
      <3> QED BY <1>7, <2>1, <3>1, <3>2 DEF OInv, Rising
    <2>3. ends[e - 1] + cl.towrite = Total
      BY <1>11, <2>1 DEF OInv, Written, e
    <2>4. Left <= cl.towrite
      BY <1>2 DEF Left
    <2> QED BY <1>1, <1>2, <1>3, <1>6, <1>7, <2>2, <2>3, <2>4
  <1> QED BY <1>3, <1>5, <1>6, <1>11, <1>12 DEF k, e

\* The incomplete PDU the server holds at the end of the stream is given to it.
LEMMA FragmentOrder ==
    ASSUME BInv, OInv, RecvEnds, got' = Append(got, rx.buf),
           nt.up = "closed", Size(rx.buf) > 1
    PROVE  Rising' /\ GotWhole' /\ Cut' /\ Whole' = Len(got) /\ Done' = ends[Len(ends)]
  <1>1. /\ rx.pc = "recv" /\ UNCHANGED <<cl, ends, nt>> /\ InFlight = 0
        /\ Complete(rx.buf) = 0
    BY DEF RecvEnds
  <1>2. /\ rx.buf \in Buffer /\ rx.buf.lo \in Nat /\ rx.buf.hi \in Nat
        /\ nt.lo \in Nat /\ nt.hi \in Nat /\ got \in Seq(Buffer)
    BY DEF BInv, ServerOK, ServerType, LinkOK, LinkType, Buffer
  <1>3. nt.lo = nt.hi /\ Size(rx.buf) > 0 /\ rx.buf.lo < rx.buf.hi
    BY <1>1, <1>2 DEF InFlight, Size
  <1>4. ~rx.buf.torn /\ rx.buf.lo = Done /\ rx.buf.hi = nt.hi
    BY <1>1, <1>3 DEF OInv, Placed, Held
  <1>5. /\ cl.state = "closed" /\ cl.towrite > 0 /\ Len(got) + 1 = Len(ends)
        /\ Start(Len(ends)) = Done /\ rx.buf.hi < ends[Len(ends)]
    BY <1>1, <1>2, <1>3, <1>4, HeldAtEnd
  <1>6. ~Cut /\ Whole = Len(got)
    <2>1. Len(got) # Len(ends)
      BY <1>2, <1>5
    <2> QED BY <2>1, Uncut DEF OInv
  <1>7. /\ Len(got') = Len(ends) /\ got' # <<>> /\ got'[Len(ends)] = rx.buf
        /\ \A i \in 1 .. Len(got) : got'[i] = got[i]
    BY <1>2, <1>5
  <1>8. Cut' /\ Whole' = Len(got)
    BY <1>1, <1>2, <1>5, <1>7 DEF Cut, Whole
  <1>9. \A i : Pdu(i)' = Pdu(i) /\ Start(i)' = Start(i)
    BY <1>1 DEF Pdu, Start
  <1>10. GotWhole'
    <2>1. \A i \in 1 .. Len(got) : got'[i] = Pdu(i)
      BY <1>6, <1>7 DEF OInv, GotWhole
    <2>2. Len(got') <= Len(ends)
      BY <1>2, <1>5, <1>7
    <2> QED BY <1>1, <1>4, <1>5, <1>7, <1>8, <1>9, <2>1, <2>2 DEF GotWhole
  <1>11. Rising' /\ Done' = ends[Len(ends)]
    BY <1>1, <1>7 DEF OInv, Rising, Done
  <1> QED BY <1>8, <1>10, <1>11

LEMMA RecvEndsOrder == ASSUME BInv, OInv, RecvEnds PROVE OInv'
  <1>1. /\ rx.pc = "recv" /\ UNCHANGED <<cl, ends, nt>> /\ InFlight = 0
        /\ nt.up \in {"closed", "reset"} /\ nt.lo = nt.hi
    BY DEF RecvEnds, InFlight, BInv, LinkOK, LinkType
  <1>2. Fresh' /\ Lost' /\ Written'
    <2>1. Written'
      BY <1>1, SameWritten DEF OInv, Written
    <2> QED BY <1>1, <2>1 DEF OInv, Fresh, Lost
  <1>3. /\ rx'.buf = Empty /\ Size(rx'.buf) = 0
        /\ rx'.pc # "gone" => rx'.alt = rx.alt
        /\ rx'.pc \in {"select", "more", "gone"}
    <2>1. rx'.buf = Empty /\ (rx'.pc # "gone" => rx'.alt = rx.alt)
      BY RecvEndsOK DEF BInv
    <2>2. rx'.pc \in {"select", "more", "gone"}
      BY <1>1 DEF RecvEnds, Gone, NewServer, BInv, ServerOK, ServerType
    <2> QED BY <2>1, <2>2, EmptyIs
  <1>4. OneHeld'
    BY <1>3 DEF OneHeld, Size
  <1>5. Placed'
    <2> SUFFICES ASSUME rx'.pc # "gone" PROVE Placed'
      BY DEF Placed
    <2>1. Size(rx.alt) = 0
      BY <1>1 DEF OInv, OneHeld
    <2>2. Size(Held)' = 0
      BY <1>3, <2>1 DEF Held, Size
    <2> QED BY <1>1, <2>2 DEF Placed
  <1>6. Rising' /\ GotWhole'
    <2>1. CASE got' = got
      BY <1>1, <2>1, SameStream
    <2>2. CASE nt.up = "closed" /\ Size(rx.buf) > 1 /\ got' = Append(got, rx.buf)
      BY <2>2, FragmentOrder
    <2> QED BY <2>1, <2>2 DEF RecvEnds
  <1> QED BY <1>2, <1>4, <1>5, <1>6 DEF OInv

LEMMA DeliverOrder == ASSUME BInv, OInv, Deliver PROVE OInv' /\ ~Cut'
  <1> DEFINE n == Complete(rx.buf)
             s == Surplus(rx, n)
             k == Len(got) + 1
  <1>1. /\ rx.pc = "recv" /\ UNCHANGED <<cl, ends, nt>> /\ n > 0
        /\ got' = Append(got, [lo |-> rx.buf.lo, hi |-> rx.buf.lo + n,
                               torn |-> rx.buf.torn])
        /\ rx' = [s EXCEPT !.pc = "more", !.buf = Empty]
    BY DEF Deliver
  <1>2. rx \in ServerType /\ rx.buf.lo <= rx.buf.hi /\ rx.buf \in Buffer
    BY DEF BInv, ServerOK, Fits, ServerType
  <1>3. n # 0 /\ n \in Int /\ n <= Size(rx.buf)
    <2>1. n # 0
      BY <1>1
    <2> QED BY <1>2, <2>1, CompleteIs DEF BInv
  <1>4. /\ rx.buf.lo = Done /\ ~rx.buf.torn
        /\ rx.buf.hi = nt.lo \/ nt.up = "reset"
    <2>1. Size(rx.buf) > 0
      <3> HIDE DEF n
      <3> QED BY <1>1, <1>2, <1>3, SizeOf
    <2> QED BY <1>1, <2>1 DEF OInv, Placed, Held
  <1>5. /\ k \in DOMAIN ends /\ Start(k) = rx.buf.lo /\ n = ends[k] - rx.buf.lo
    BY <1>2, <1>3, <1>4, NextPdu DEF OInv
  <1>6. /\ n \in Nat /\ rx.buf.lo + n = ends[k] /\ Done \in Nat /\ ends[k] \in Nat
        /\ rx.buf.hi \in Nat /\ Size(rx.buf) = rx.buf.hi - rx.buf.lo
    <2>1. ends[k] \in Nat /\ rx.buf.lo \in Nat /\ rx.buf.hi \in Nat
      BY <1>2, <1>5 DEF BInv, Buffer
    <2>2. n \in Nat
      <3> HIDE DEF n
      <3> QED BY <1>1, <1>3
    <2> HIDE DEF n, k
    <2> QED BY <1>4, <1>5, <2>1, <2>2 DEF Size
  <1>7. /\ s \in ServerType
        /\ Size(rx.buf) <= n => s.alt = rx.alt
        /\ Size(rx.buf) > n => /\ s.alt.lo = rx.buf.lo + n /\ s.alt.hi = rx.buf.hi
                               /\ s.alt.torn = rx.buf.torn
    <2> HIDE DEF n
    <2> QED BY <1>2, <1>6, SurplusIs
  <1>8. rx'.pc = "more" /\ rx'.buf = Empty /\ rx'.alt = s.alt
    <2> HIDE DEF s
    <2> QED BY <1>1, <1>7 DEF ServerType
  <1> HIDE DEF n, s
  <1>9. got' = Append(got, Pdu(k)) /\ got \in Seq(Buffer) /\ Len(got') = k
    <2>1. rx.buf.torn = FALSE
      BY <1>2, <1>4 DEF Buffer
    <2>2. [lo |-> rx.buf.lo, hi |-> rx.buf.lo + n, torn |-> rx.buf.torn] = Pdu(k)
      BY <1>5, <1>6, <2>1 DEF Pdu
    <2>3. got \in Seq(Buffer)
      BY DEF BInv
    <2> QED BY <1>1, <2>2, <2>3
  <1>10. Rising' /\ GotWhole' /\ ~Cut'
    <2>0. Whole = Len(got)
      <3>1. Len(got) # Len(ends)
        BY <1>5, <1>9 DEF BInv
      <3> QED BY <3>1, Uncut DEF OInv
    <2>1. Rising'
      BY <1>1 DEF OInv, Rising
    <2>2. Len(got') <= Len(ends)
      BY <1>5, <1>9 DEF BInv
    <2>3. ASSUME NEW i \in DOMAIN got' PROVE got'[i] = Pdu(i)
      <3>1. i \in 1 .. k /\ Len(got) \in Nat
        BY <1>9
      <3>2. CASE i = k
        BY <1>9, <3>2
      <3>3. CASE i # k
        <4>1. i \in 1 .. Len(got) /\ got'[i] = got[i]
          BY <1>9, <3>1, <3>3
        <4>2. got[i] = Pdu(i)
          BY <2>0, <4>1 DEF OInv, GotWhole
        <4> QED BY <4>1, <4>2
      <3> QED BY <3>2, <3>3
    <2>4. \A i : Pdu(i)' = Pdu(i)
      BY <1>1 DEF Pdu, Start
    <2>5. ~Cut' /\ Whole' = k
      <3>1. got'[k] = Pdu(k) /\ Len(got') = k
        BY <1>9
      <3>2. got'[k].hi = ends[k] /\ ends[k] \in Nat
        BY <1>6, <3>1 DEF Pdu
      <3> HIDE DEF k
      <3>3. ~Cut'
        BY <1>1, <3>1, <3>2 DEF Cut
      <3> QED BY <3>1, <3>3 DEF Whole
    <2>6. \A i \in 1 .. k : got'[i] = Pdu(i)
      BY <1>9, <2>3
    <2> QED BY <1>1, <2>1, <2>2, <2>4, <2>5, <2>6 DEF GotWhole
  <1>11. Done' = ends[k]
    <2>1. got' # <<>>
      BY <1>9
    <2> QED BY <1>1, <1>9, <2>1 DEF Done
  <1>12. nt.up \notin {"none", "coming", "refused"} /\ Fresh' /\ Lost' /\ Written'
    <2>1. Written'
      BY <1>1, SameWritten DEF OInv, Written
    <2> QED BY <1>1, <2>1, ReadingLink DEF OInv, Fresh, Lost
  <1>13. OneHeld'
    BY <1>8, EmptyIs DEF OneHeld, Size
  <1>14. Held' = s.alt /\ Size(Held)' = Size(s.alt)
    BY <1>8 DEF Held, Size
  <1>15. nt.up \in Links /\ (nt.up = "reset" => nt.lo = nt.hi)
    BY DEF BInv, LinkOK, LinkType, OInv, Lost
  <1>16. Placed'
    <2>1. CASE Size(rx.buf) <= n
      <3>1. Size(s.alt) = 0
        BY <1>1, <1>7, <2>1 DEF OInv, OneHeld
      <3>2. rx.buf.hi = ends[k]
        BY <1>3, <1>4, <1>6, <2>1
      <3>3. nt.lo = ends[k] \/ (nt.lo = nt.hi /\ nt.up = "reset")
        BY <1>4, <1>15, <3>2
      <3> QED BY <1>1, <1>11, <1>14, <3>1, <3>3 DEF Placed
    <2>2. CASE Size(rx.buf) > n
      <3>1. s.alt.lo = ends[k] /\ s.alt.hi = rx.buf.hi /\ ~s.alt.torn
        BY <1>4, <1>6, <1>7, <2>2
      <3>2. Size(s.alt) > 0
        BY <1>4, <1>6, <2>2, <3>1 DEF Size
      <3>3. ~(Size(s.alt) = 0)
        BY <3>2
      <3> QED BY <1>1, <1>4, <1>11, <1>14, <3>1, <3>3 DEF Placed
    <2>3. n \in Int /\ Size(rx.buf) \in Int
      BY <1>3, <1>2, SizeOf
    <2> QED BY <2>1, <2>2, <2>3
  <1> QED BY <1>10, <1>12, <1>13, <1>16 DEF OInv

LEMMA MoreOrder == ASSUME BInv, OInv, More PROVE OInv'
  <1> DEFINE s == Swap(rx)
  <1>1. rx.pc = "more" /\ UNCHANGED <<cl, ends, nt, got>> /\ rx \in ServerType
    BY DEF More, BInv, ServerOK
  <1>2. Rising' /\ GotWhole' /\ Done' = Done /\ Fresh' /\ Lost' /\ Written'
    BY <1>1, SameLink, ReadingLink
  <1>3. Held = rx.alt /\ Size(rx.buf) = 0
    BY <1>1 DEF Held, OInv, OneHeld
  <1>4. CASE Size(rx.alt) > 0 /\ Complete(rx.alt) > 0
    <2>1. Size(rx.alt) # 0
      BY <1>4
    <2>2. s \in ServerType /\ s.buf = rx.alt /\ s.alt = Empty
      BY <1>1, <2>1, SwapIs
    <2>3. rx' = [s EXCEPT !.pc = "recv"]
      BY <1>4 DEF More
    <2>4. rx'.pc = "recv" /\ rx'.buf = s.buf /\ rx'.alt = s.alt
      <3> HIDE DEF s
      <3> QED BY <2>2, <2>3 DEF ServerType
    <2>5. OneHeld'
      BY <2>2, <2>4, EmptyIs DEF OneHeld, Size
    <2>6. Held' = Held /\ Size(Held)' = Size(Held)
      BY <1>3, <2>2, <2>4 DEF Held, Size
    <2>7. Placed'
      BY <1>1, <1>2, <2>6 DEF OInv, Placed
    <2> QED BY <1>2, <2>5, <2>7 DEF OInv
  <1>5. CASE ~(Size(rx.alt) > 0 /\ Complete(rx.alt) > 0)
    <2>1. rx' = [rx EXCEPT !.pc = "select"]
      BY <1>5 DEF More
    <2>2. rx'.pc = "select" /\ rx'.buf = rx.buf /\ rx'.alt = rx.alt
      BY <1>1, <2>1 DEF ServerType
    <2>3. OneHeld' /\ Held' = Held /\ Size(Held)' = Size(Held)
      BY <1>3, <2>2 DEF OneHeld, Held, Size
    <2>4. Placed'
      BY <1>1, <1>2, <2>3 DEF OInv, Placed
    <2> QED BY <1>2, <2>3, <2>4 DEF OInv
  <1> QED BY <1>4, <1>5

\* The server and the place in the stream stay as they are.
LEMMA SameServer ==
    ASSUME OInv, UNCHANGED <<ends, got, rx>>, nt'.lo = nt.lo,
           nt'.up = "reset" => nt.up = "reset",
           nt.up \in {"closed", "reset"} => nt'.up = nt.up /\ nt'.hi = nt.hi,
           cl.state = "closed" => cl' = cl
    PROVE  Rising' /\ GotWhole' /\ OneHeld' /\ Placed'
  <1>1. Rising' /\ GotWhole' /\ Done' = Done
    BY SameStream
  <1>2. Held' = Held /\ Size(Held)' = Size(Held)
    BY DEF Held, Size
  <1>3. OneHeld'
    BY DEF OInv, OneHeld, Size
  <1>4. Placed'
    BY <1>1, <1>2 DEF OInv, Placed
  <1> QED BY <1>1, <1>3, <1>4

\* The client connects, writes or closes.
LEMMA SenderOrder ==
    ASSUME BInv, OInv,
           \/ Connect \/ RcvConnect \/ Close
           \/ \E n \in 1 .. MaxSize : Send(n)
    PROVE  OInv'
  <1> USE DEF OInv
  <1>1. /\ cl \in ClientType /\ nt \in LinkType /\ nt.up \in Links
    BY DEF BInv, ClientOK, LinkOK, LinkType
  <1>2. CASE Connect
    <2>1. UNCHANGED <<ends, nt, rx, got>> /\ cl' = [cl EXCEPT !.state = "resolving"]
      BY <1>2 DEF Connect
    <2>2. nt.up = "none"
      BY <1>2 DEF Connect, Fresh
    <2>3. Fresh' /\ Lost' /\ Written'
      <3>1. cl'.towrite = cl.towrite /\ cl'.written = cl.written
        BY <1>1, <2>1 DEF ClientType
      <3>2. Written'
        BY <2>1, <2>2, <3>1, SameWritten
      <3> QED BY <2>1, <2>2, <3>2 DEF Fresh, Lost
    <2>4. cl.state # "closed"
      BY <1>2 DEF Connect
    <2> QED BY <2>1, <2>3, <2>4, SameServer
  <1>3. CASE RcvConnect
    <2>1. UNCHANGED <<ends, nt, rx, got>> /\ cl' = [cl EXCEPT !.state = "dataxfer"]
      BY <1>3 DEF RcvConnect
    <2>2. cl'.state = "dataxfer" /\ cl'.addr = cl.addr /\ cl'.addrs = cl.addrs
      BY <1>1, <2>1 DEF ClientType
    <2>3. Fresh' /\ Lost'
      BY <2>1, <2>2 DEF Fresh, Lost
    <2>4. cl.state = "connecting"
      BY <1>3 DEF RcvConnect
    <2>5. Written'
      <3>1. cl'.towrite = cl.towrite /\ cl'.written = cl.written
        BY <1>1, <2>1 DEF ClientType
      <3> QED BY <2>1, <2>4, <3>1, SameWritten DEF Written
    <2> QED BY <2>1, <2>3, <2>4, <2>5, SameServer
  <1>4. CASE Close
    <2>1. /\ UNCHANGED <<ends, rx, got>> /\ cl' = [cl EXCEPT !.state = "closed"]
          /\ nt' = [nt EXCEPT !.up = "closed"] /\ nt.up = "up"
      BY <1>4 DEF Close
    <2>2. /\ cl'.state = "closed" /\ nt'.up = "closed" /\ nt'.lo = nt.lo
          /\ cl'.towrite = cl.towrite /\ cl'.written = cl.written /\ nt'.hi = nt.hi
      BY <1>1, <2>1 DEF ClientType, LinkType
    <2>3. Fresh' /\ Lost'
      BY <2>1, <2>2 DEF Fresh, Lost
    <2>4. Written'
      BY <2>1, <2>2, SameWritten
    <2>5. cl.state # "closed"
      BY <1>4 DEF Close
    <2> QED BY <2>1, <2>2, <2>3, <2>4, <2>5, SameServer
  <1>5. ASSUME NEW n \in 1 .. MaxSize, Send(n) PROVE OInv'
    <2>1. /\ UNCHANGED <<ends, rx, got>> /\ nt' = [nt EXCEPT !.hi = @ + n]
          /\ nt.up = "up" /\ cl'.state = cl.state /\ cl.state = "dataxfer"
      BY <1>1, <1>5 DEF Send, ClientType
    <2>2. nt'.up = "up" /\ nt'.lo = nt.lo /\ nt'.hi = nt.hi + n
      BY <1>1, <2>1 DEF LinkType
    <2>3. Fresh' /\ Lost'
      BY <2>1, <2>2 DEF Fresh, Lost
    <2>4. Written'
      <3> DEFINE left == IF cl.written + n = cl.towrite THEN 0 ELSE cl.towrite
      <3>1. /\ n \in Nat /\ n > 0 /\ cl.written \in Nat /\ cl.towrite \in Nat
            /\ cl.towrite > 0 => cl.written < cl.towrite
            /\ nt.hi \in Nat /\ Total \in Nat
        BY <1>1, TotalIs, ComstackAssumption
           DEF BInv, ClientOK, ClientType, LinkOK, LinkType
      <3>2. cl.written + n <= cl.towrite
        BY <1>5 DEF Send
      <3>3. cl'.written = cl.written + n /\ cl'.towrite = left
        <4>1. cl' = [cl EXCEPT !.written = cl.written + n, !.towrite = left]
          BY <1>5 DEF Send
        <4> HIDE DEF left
        <4> QED BY <1>1, <4>1 DEF ClientType
      <3>4. nt.hi + (cl.towrite - cl.written) = Total
        <4>1. cl.towrite > 0
          BY <3>1, <3>2
        <4> QED BY <2>1, <4>1 DEF Written, Left
      <3>5. nt'.hi + Left' = Total
        BY <2>2, <3>1, <3>2, <3>3, <3>4 DEF Left
      <3>6. Total' = Total /\ Start(Len(ends))' = Start(Len(ends))
        BY <2>1 DEF Total, Start
      <3>7. cl'.towrite > 0 => cl'.towrite = cl.towrite
        BY <3>3
      <3> HIDE DEF left
      <3> QED BY <2>1, <2>2, <3>5, <3>6, <3>7 DEF Written
    <2> QED BY <2>1, <2>2, <2>3, <2>4, SameServer
  <1> QED BY <1>2, <1>3, <1>4, <1>5

\* The network answers, or breaks the connection to the last address.
LEMMA NetworkOrder ==
    ASSUME BInv, OInv, ~FailsOver, Network
    PROVE  OInv'
  <1> USE DEF OInv
  <1>1. nt \in LinkType /\ cl \in ClientType /\ cl.addrs \in Nat /\ LinkOK(nt)
    BY DEF BInv, ClientOK, ClientType, LinkOK
  <1>2. CASE Answer
    <2>1. /\ UNCHANGED <<cl, ends, rx, got>> /\ nt.up = "coming"
          /\ nt'.up \in {"up", "refused"} /\ nt'.lo = nt.lo /\ nt'.hi = nt.hi
      BY <1>2 DEF Answer
    <2>2. Fresh' /\ Lost'
      BY <2>1 DEF Fresh, Lost
    <2>3. Written'
      BY <2>1, SameWritten
    <2> QED BY <2>1, <2>2, <2>3, SameServer
  <1>3. CASE Reset
    <2>1. UNCHANGED <<cl, ends, rx, got>> /\ cl.addr = cl.addrs /\ nt.up \in {"up", "closed"}
      BY <1>3 DEF Reset
    <2>2. nt'.up = "reset" /\ nt'.lo = nt'.hi /\ nt'.hi = nt.hi
      BY <1>1, <1>3, LostIs DEF Reset
    <2>3. Fresh' /\ Lost'
      BY <1>1, <2>1, <2>2 DEF Fresh, Lost
    <2>4. Rising' /\ GotWhole' /\ Done' = Done
      BY <2>1, SameStream
    <2>5. Held' = Held /\ Size(Held)' = Size(Held) /\ OneHeld'
      BY <2>1 DEF Held, Size, OneHeld
    <2>6. Placed'
      BY <2>1, <2>2, <2>4, <2>5 DEF Placed
    <2>7. Written'
      BY <2>1, <2>2, SameWritten
    <2> QED BY <2>3, <2>4, <2>5, <2>6, <2>7
  <1> QED BY <1>2, <1>3 DEF Network

LEMMA NextOrder == ASSUME ~FailsOver, BInv, OInv, [Next]_vars PROVE OInv'
  <1>1. CASE Resolved
    <2>1. cl.state = "resolving" /\ NextAddress /\ UNCHANGED <<ends, got>>
      BY <1>1 DEF Resolved
    <2>2. nt.up \in {"none", "refused", "reset"} /\ cl.state \notin {"unbnd", "closed"}
      BY <2>1 DEF OInv, Fresh
    <2> QED BY <2>1, <2>2, NextAddressOrder
  <1>2. CASE SendFails
    <2>1. /\ cl.state = "dataxfer" /\ NextAddress /\ UNCHANGED <<ends, got>>
          /\ nt.up \in {"none", "refused", "reset"}
      BY <1>2 DEF SendFails
    <2> QED BY <2>1, NextAddressOrder
  <1>3. CASE Connect \/ RcvConnect \/ Close \/ \E n \in 1 .. MaxSize : Send(n)
    BY <1>3, SenderOrder
  <1>4. CASE \E size \in 1 .. MaxSize : Put(size)
    BY <1>4, PutOrder
  <1>5. CASE Network
    BY <1>5, NetworkOrder
  <1>6. CASE Get
    BY <1>6, GetOrder
  <1>7. CASE RecvBlocks
    BY <1>7, RecvBlocksOrder
  <1>8. CASE RecvEnds
    BY <1>8, RecvEndsOrder
  <1>9. CASE Deliver
    BY <1>9, DeliverOrder
  <1>10. CASE More
    BY <1>10, MoreOrder
  <1>11. CASE \E n \in 1 .. Chunk : Recv(n)
    BY <1>11, RecvOrder
  <1>12. CASE UNCHANGED vars
    <2>1. UNCHANGED <<cl, ends, nt, rx, got>>
      BY <1>12 DEF vars
    <2>2. Rising' /\ GotWhole' /\ OneHeld' /\ Placed'
      BY <2>1, SameServer
    <2>3. Fresh' /\ Lost' /\ Written'
      <3>1. Written'
        BY <2>1, SameWritten DEF OInv, Written
      <3> QED BY <2>1, <3>1 DEF OInv, Fresh, Lost
    <2> QED BY <2>2, <2>3 DEF OInv
  <1> QED
    BY <1>1, <1>2, <1>3, <1>4, <1>5, <1>6, <1>7, <1>8, <1>9, <1>10, <1>11, <1>12
       DEF Next, Sender, Server

LEMMA OrderAlways == ASSUME ~FailsOver PROVE Spec => [](BInv /\ OInv)
  <1>1. Init => BInv /\ OInv
    BY InitBounds, InitOrder
  <1>2. (BInv /\ OInv) /\ [Next]_vars => (BInv /\ OInv)'
    BY NextBounds, NextOrder
  <1> QED BY <1>1, <1>2, PTL DEF Spec

\* What the server is given are the PDUs the client put, whole, in order and
\* once, wherever the network cuts the stream and however much it reads at once,
\* as long as no connection fails while there is another address.
THEOREM PdusWhole == ASSUME ~FailsOver PROVE Spec => []GotWhole
  <1>1. BInv /\ OInv => GotWhole
    BY DEF OInv
  <1> QED BY <1>1, OrderAlways, PTL

\* The surplus, the buffer and the network hold the rest of the stream in this
\* order, without a gap.
THEOREM BytesInOrder == ASSUME ~FailsOver PROVE Spec => []InOrder
  <1>1. BInv /\ OInv => InOrder
    <2> SUFFICES ASSUME BInv, OInv, rx.pc # "gone", nt.up \in {"up", "closed"}
                 PROVE  InOrder
      BY DEF InOrder
    <2> DEFINE held == IF Size(rx.buf) > 0 THEN rx.buf ELSE rx.alt
    <2>1. /\ rx.buf \in Buffer /\ rx.alt \in Buffer
          /\ Size(rx.buf) \in Nat /\ Size(rx.alt) \in Nat
      BY SizeOf DEF BInv, ServerOK, ServerType, Fits
    <2>2. Size(rx.buf) = 0 \/ Size(rx.alt) = 0
      BY DEF OInv, OneHeld
    <2>3. Size(held) > 0 => held = Held
      BY <2>1 DEF OInv, OneHeld, Held
    <2>4. Size(held) > 0 => ~held.torn /\ held.hi = nt.lo
      <3> HIDE DEF held
      <3> QED BY <2>3 DEF OInv, Placed
    <2> QED BY <2>2, <2>4 DEF InOrder
  <1> QED BY <1>1, OrderAlways, PTL

-----------------------------------------------------------------------------
(* The channel.                                                            *)

Queue == [i \in 1 .. Len(ends) - Whole |-> Pdu(Whole + i)]
Rest == [i \in 1 .. Len(ends) - Len(got) |-> Pdu(Len(got) + i)]
Sized == /\ Len(ends) <= MaxPdus
         /\ \A i \in DOMAIN ends : ends[i] <= MaxSize * i

LEMMA Times ==
    ASSUME NEW a \in Nat, NEW i \in Nat, NEW j \in Nat, i <= j
    PROVE  a * i <= a * j /\ a * (i + 1) = a * i + a /\ a * i \in Nat
  BY SMTT(20)

LEMMA PutSized ==
    ASSUME BInv, Sized, NEW size \in 1 .. MaxSize, Put(size)
    PROVE  Sized'
  <1>1. /\ ends' = Append(ends, Total + size) /\ Len(ends) < MaxPdus
        /\ ends \in Seq(Nat) /\ Total \in Nat /\ size \in Nat /\ size <= MaxSize
        /\ MaxSize \in Nat /\ Len(ends) \in Nat /\ MaxPdus \in Nat
    BY TotalIs, ComstackAssumption DEF Put, BInv
  <1>2. Total <= MaxSize * Len(ends)
    <2>1. CASE ends = <<>>
      <3>1. MaxSize * 0 \in Nat /\ Len(ends) = 0 /\ Total = 0
        BY <1>1, <2>1, Times DEF Total
      <3> QED BY <3>1
    <2>2. CASE ends # <<>>
      <3>1. Len(ends) \in DOMAIN ends /\ Total = ends[Len(ends)]
        BY <1>1, <2>2 DEF Total
      <3> QED BY <3>1 DEF Sized
    <2> QED BY <2>1, <2>2
  <1>3. Total + size <= MaxSize * (Len(ends) + 1)
    <2>1. /\ MaxSize * (Len(ends) + 1) = MaxSize * Len(ends) + MaxSize
          /\ MaxSize * Len(ends) \in Nat
      BY <1>1, Times
    <2> QED BY <1>1, <1>2, <2>1
  <1>4. ASSUME NEW i \in DOMAIN ends' PROVE ends'[i] <= MaxSize * i
    <2>1. i \in 1 .. Len(ends) + 1
      BY <1>1
    <2>2. CASE i = Len(ends) + 1
      <3>1. ends'[i] = Total + size
        BY <1>1, <2>2
      <3> QED BY <1>3, <2>2, <3>1
    <2>3. CASE i # Len(ends) + 1
      <3>1. i \in DOMAIN ends /\ ends'[i] = ends[i]
        BY <1>1, <2>1, <2>3
      <3> QED BY <3>1 DEF Sized
    <2> QED BY <2>2, <2>3
  <1>5. Len(ends') <= MaxPdus
    BY <1>1
  <1> QED BY <1>4, <1>5 DEF Sized

\* Putting a PDU sends it into the channel.
LEMMA PutSends ==
    ASSUME BInv, OInv, Sized, NEW size \in 1 .. MaxSize, Put(size)
    PROVE  Channel!Send
  <1> DEFINE k == Len(ends) + 1
             p == [lo |-> Total, hi |-> Total + size, torn |-> FALSE]
  <1>1. /\ ends' = Append(ends, Total + size) /\ UNCHANGED <<nt, rx, got>>
        /\ cl' = [cl EXCEPT !.towrite = size, !.written = 0]
        /\ cl.state = "dataxfer"
    BY DEF Put
  <1>2. /\ ends \in Seq(Nat) /\ got \in Seq(Buffer) /\ Len(got) <= Len(ends)
        /\ Len(ends) \in Nat /\ Len(got) \in Nat /\ Total \in Nat /\ size \in Nat
    BY TotalIs, ComstackAssumption DEF BInv, OInv, GotWhole
  <1>3. /\ Len(ends') = k /\ ends'[k] = Total + size /\ ends' \in Seq(Nat)
        /\ \A i \in 1 .. Len(ends) : ends'[i] = ends[i]
    BY <1>1, <1>2
  <1>4. Rest' = Append(Rest, p)
    <2>1. ASSUME NEW i \in 1 .. k PROVE Pdu(i)' = IF i = k THEN p ELSE Pdu(i)
      <3>1. i - 1 \in 1 .. Len(ends) \/ i = 1
        BY <1>2
      <3>2. i # 1 => ends'[i - 1] = ends[i - 1]
        BY <1>3, <3>1
      <3>3. Start(i)' = Start(i)
        BY <3>2 DEF Start
      <3>4. CASE i = k
        <4>1. Start(i) = Total
          BY <1>2, <3>4 DEF Start, Total
        <4> QED BY <1>3, <3>3, <3>4, <4>1 DEF Pdu
      <3>5. CASE i # k
        <4>1. i \in 1 .. Len(ends)
          BY <1>2, <3>5
        <4>2. ends'[i] = ends[i]
          BY <1>3, <4>1
        <4> QED BY <3>3, <3>5, <4>2 DEF Pdu
      <3> QED BY <3>4, <3>5
    <2>2. Rest' = [i \in 1 .. (Len(ends) - Len(got)) + 1 |-> Pdu(Len(got) + i)']
      <3>1. got' = got /\ Len(ends') - Len(got) = (Len(ends) - Len(got)) + 1
        BY <1>1, <1>2, <1>3
      <3> QED BY <3>1 DEF Rest
    <2>3. Append(Rest, p) = [i \in 1 .. (Len(ends) - Len(got)) + 1 |->
                                IF i = (Len(ends) - Len(got)) + 1 THEN p ELSE Rest[i]]
      <3>1. Len(ends) - Len(got) \in Nat
        BY <1>2
      <3>2. Len(Rest) = Len(ends) - Len(got)
        BY <3>1 DEF Rest
      <3> QED BY <3>1, <3>2
    <2>4. ASSUME NEW i \in 1 .. (Len(ends) - Len(got)) + 1
          PROVE  Pdu(Len(got) + i)' =
                   IF i = (Len(ends) - Len(got)) + 1 THEN p ELSE Rest[i]
      <3> DEFINE j == Len(got) + i
      <3>1. j \in 1 .. k /\ Len(got)' = Len(got)
        BY <1>1, <1>2
      <3>2. Pdu(j)' = IF j = k THEN p ELSE Pdu(j)
        <4>1. PICK c \in 1 .. k : c = j
          BY <3>1
        <4>2. Pdu(j)' = Pdu(c)'
          BY <3>1, <4>1 DEF Pdu, Start
        <4> QED BY <2>1, <4>1, <4>2
      <3>3. CASE i = (Len(ends) - Len(got)) + 1
        <4>1. j = k
          BY <1>2, <3>3
        <4> QED BY <3>2, <3>3, <4>1
      <3>4. CASE i # (Len(ends) - Len(got)) + 1
        <4>1. i \in 1 .. Len(ends) - Len(got) /\ j # k
          BY <1>2, <3>4
        <4>2. Rest[i] = Pdu(j)
          BY <4>1 DEF Rest
        <4> QED BY <3>2, <3>4, <4>1, <4>2
      <3> QED BY <3>3, <3>4
    <2> QED BY <2>2, <2>3, <2>4
  <1>5. p \in [lo : 0 .. MaxSize * MaxPdus, hi : 0 .. MaxSize * MaxPdus, torn : {FALSE}]
    <2>1. Sized'
      BY PutSized
    <2>2. ASSUME NEW i \in DOMAIN ends' PROVE ends'[i] \in 0 .. MaxSize * MaxPdus
      <3>1. /\ i \in Nat /\ i <= MaxPdus /\ ends'[i] <= MaxSize * i /\ ends'[i] \in Nat
            /\ MaxSize \in Nat /\ MaxPdus \in Nat
        BY <1>2, <1>3, <2>1, ComstackAssumption DEF Sized
      <3>2. MaxSize * i <= MaxSize * MaxPdus /\ MaxSize * i \in Nat /\ MaxSize * MaxPdus \in Nat
        BY <3>1, Times
      <3> QED BY <3>1, <3>2
    <2>3. k \in DOMAIN ends' /\ (k # 1 => k - 1 \in DOMAIN ends')
      BY <1>2, <1>3
    <2>4. Total \in 0 .. MaxSize * MaxPdus
      <3>1. ends = <<>> => Total = 0
        BY DEF Total
      <3>2. ends # <<>> => Total = ends'[Len(ends)] /\ Len(ends) \in DOMAIN ends'
        <4>1. ends # <<>> => Total = ends[Len(ends)]
          BY DEF Total
        <4>2. ends # <<>> => Len(ends) \in DOMAIN ends
          BY <1>2, LenProperties, EmptySeq
        <4> HIDE DEF Total
        <4>3. ends # <<>> => Len(ends) \in 1 .. Len(ends)
          BY <1>2, <4>2, LenProperties
        <4>4. DOMAIN ends' = 1 .. Len(ends) + 1
          BY <1>3, LenProperties
        <4>5. \A m \in Nat : \A i \in 1 .. m : i \in 1 .. m + 1
          OBVIOUS
        <4>6. ends # <<>> => ends'[Len(ends)] = ends[Len(ends)]
          BY <1>3, <4>3
        <4>7. ends # <<>> => Len(ends) \in DOMAIN ends'
          BY <1>2, <4>3, <4>4, <4>5
        <4> QED BY <4>1, <4>6, <4>7
      <3>3. 0 \in 0 .. MaxSize * MaxPdus
        <4>1. MaxSize \in Nat /\ MaxPdus \in Nat
          BY ComstackAssumption
        <4>2. MaxSize * MaxPdus \in Nat
          BY <4>1, Times
        <4>3. \A m \in Nat : 0 \in 0 .. m
          OBVIOUS
        <4> QED BY <4>2, <4>3
      <3>4. CASE ends = <<>>
        BY <3>1, <3>3, <3>4
      <3>5. CASE ends # <<>>
        <4>1. ends'[Len(ends)] \in 0 .. MaxSize * MaxPdus
          BY <2>2, <3>2, <3>5
        <4> HIDE DEF Total
        <4> QED BY <3>2, <3>5, <4>1
      <3> QED BY <3>4, <3>5
    <2> QED BY <1>3, <2>2, <2>3, <2>4
  <1>6. Dead' = Dead
    <2>1. cl'.state = "dataxfer"
      BY <1>1 DEF BInv, ClientOK, ClientType
    <2> QED BY <1>1, <2>1 DEF Dead
  <1>7. Queue = Rest /\ Queue' = Rest'
    <2>1. ~Cut /\ Whole = Len(got)
      BY <1>1, Uncut DEF OInv
    <2>2. got # <<>> => Len(got) \in 1 .. Len(ends)
      BY <1>2
    <2>3. ~Cut' /\ Whole' = Len(got')
      BY <1>1, <1>3, <2>1, <2>2 DEF Cut, Whole
    <2> QED BY <2>1, <2>3 DEF Queue, Rest
  <1>8. Queue' = Append(Queue, p) /\ Dead' = Dead
    BY <1>4, <1>6, <1>7
  <1> HIDE DEF p
  <1> QED BY <1>5, <1>8 DEF Channel!Send, Queue

LEMMA TailIs ==
    ASSUME NEW S, NEW q \in Seq(S), q # <<>>
    PROVE  Tail(q) = [i \in 1 .. Len(q) - 1 |-> q[i + 1]]
  <1>1. /\ Tail(q) \in Seq(S) /\ Len(Tail(q)) = Len(q) - 1
        /\ \A i \in 1 .. Len(Tail(q)) : Tail(q)[i] = q[i + 1]
    BY HeadTailProperties
  <1>2. Tail(q) \in [1 .. Len(q) - 1 -> S]
    BY <1>1, LenProperties
  <1> QED BY <1>1, <1>2

\* Delivering a PDU receives it from the channel.
LEMMA DeliverReceives == ASSUME BInv, OInv, Deliver PROVE Channel!Receive
  <1> DEFINE n == Complete(rx.buf)
             p == [lo |-> rx.buf.lo, hi |-> rx.buf.lo + n, torn |-> rx.buf.torn]
             d == Len(ends) - Len(got)
  <1>1. /\ rx.pc = "recv" /\ UNCHANGED <<cl, ends, nt>> /\ n # 0
        /\ got' = Append(got, p)
    BY DEF Deliver
  <1>2. rx'.pc = "more"
    <2> DEFINE s == Surplus(rx, n)
    <2>1. rx' = [s EXCEPT !.pc = "more", !.buf = Empty]
      BY DEF Deliver
    <2>2. rx \in ServerType /\ rx.buf.lo <= rx.buf.hi /\ rx.buf \in Buffer
      BY DEF BInv, ServerOK, Fits, ServerType
    <2>3. n \in Int /\ n > 0
      <3>1. n \in Int
        BY <1>1, <2>2, CompleteIs DEF BInv
      <3> QED BY <3>1 DEF Deliver
    <2>4. s \in ServerType
      <3> HIDE DEF n
      <3> QED BY <2>2, <2>3, SurplusIs
    <2> HIDE DEF s
    <2> QED BY <2>1, <2>4 DEF ServerType
  <1> HIDE DEF n, p
  <1>3. /\ got \in Seq(Buffer) /\ Len(got) \in Nat /\ Len(ends) \in Nat
        /\ Len(got') = Len(got) + 1 /\ ends' = ends
    BY <1>1 DEF BInv
  <1>4. Len(got') <= Len(ends)
    <2>1. OInv'
      BY DeliverOrder
    <2> QED BY <1>3, <2>1 DEF OInv, GotWhole
  <1>5. d \in Nat /\ d > 0
    BY <1>3, <1>4
  <1>6. Rest # <<>> /\ Len(Rest) = d /\ Rest \in Seq({Pdu(i) : i \in Nat})
    <2>1. Rest = [i \in 1 .. d |-> Pdu(Len(got) + i)]
      BY DEF Rest
    <2>2. ASSUME NEW i \in 1 .. d PROVE Pdu(Len(got) + i) \in {Pdu(j) : j \in Nat}
      BY <1>3
    <2> HIDE DEF d
    <2>3. Rest \in Seq({Pdu(i) : i \in Nat}) /\ Len(Rest) = d
      BY <1>5, <2>1, <2>2
    <2> QED BY <1>5, <2>3
  <1>7. Rest' = Tail(Rest)
    <2>1. Tail(Rest) = [i \in 1 .. d - 1 |-> Rest[i + 1]]
      <3> HIDE DEF d
      <3> QED BY <1>6, TailIs
    <2>2. Rest' = [i \in 1 .. d - 1 |-> Pdu(Len(got) + 1 + i)]
      <3>1. Len(ends') - Len(got') = d - 1 /\ \A i : Pdu(i)' = Pdu(i)
        BY <1>3 DEF Pdu, Start
      <3>2. \A i \in 1 .. d - 1 : Pdu(Len(got) + i)' = Pdu(Len(got) + 1 + i)
        BY <1>3 DEF Pdu, Start
      <3> QED BY <3>1, <3>2 DEF Rest
    <2>3. ASSUME NEW i \in 1 .. d - 1 PROVE Rest[i + 1] = Pdu(Len(got) + 1 + i)
      <3>1. i + 1 \in 1 .. d /\ Len(got) + (i + 1) = Len(got) + 1 + i
        BY <1>3, <1>5
      <3> QED BY <3>1 DEF Rest
    <2> QED BY <2>1, <2>2, <2>3
  <1>8. Dead' = Dead
    BY <1>1, <1>2 DEF Dead
  <1>9. Queue = Rest /\ Queue' = Rest'
    <2>1. Len(got) # Len(ends)
      BY <1>3, <1>4
    <2>2. Whole = Len(got)
      BY <2>1, Uncut DEF OInv
    <2>3. Whole' = Len(got')
      BY DeliverOrder DEF Whole
    <2> QED BY <2>2, <2>3 DEF Queue, Rest
  <1> HIDE DEF d
  <1>10. Queue # <<>> /\ Queue' = Tail(Queue) /\ Dead' = Dead
    BY <1>6, <1>7, <1>8, <1>9
  <1> QED BY <1>10 DEF Channel!Receive, Queue

LEMMA QueueKept ==
    ASSUME UNCHANGED <<ends, got>>
    PROVE  Queue' = Queue /\ (Sized => Sized')
  BY DEF Queue, Whole, Cut, Pdu, Start, Sized

\* Every other step of the sender and the network.
LEMMA SenderQuiet ==
    ASSUME ~FailsOver, BInv, OInv,
           \/ Connect \/ Resolved \/ RcvConnect \/ SendFails \/ Close \/ Network
           \/ \E n \in 1 .. MaxSize : Send(n)
    PROVE  /\ UNCHANGED <<ends, got>>
           /\ Dead' = Dead \/ Dead' = TRUE
  <1>0. /\ cl \in ClientType /\ nt \in LinkType
        /\ cl.towrite \in Nat /\ cl.addr \in Nat
    BY DEF BInv, ClientOK, ClientType, LinkOK
  <1>1. /\ UNCHANGED <<ends, got>>
        /\ Dead => Dead'
    <2>1. CASE Connect
      <3>1. /\ cl' = [cl EXCEPT !.state = "resolving"] /\ UNCHANGED <<ends, nt, rx, got>>
            /\ cl.state = "unbnd"
        BY <2>1 DEF Connect
      <3> QED BY <1>0, <3>1 DEF Dead, ClientType
    <2>2. CASE Resolved \/ SendFails
      <3>1. /\ NextAddress /\ UNCHANGED <<ends, got>>
            /\ cl.state \notin {"closed", "failed"}
        BY <2>2 DEF Resolved, SendFails
      <3>2. CASE cl.addr < cl.addrs
        <4>1. nt.up # "reset"
          BY <3>2 DEF OInv, Lost
        <4>2. nt.up \in {"none", "refused"}
          BY <2>2, <4>1 DEF Resolved, SendFails, OInv, Fresh
        <4>3. rx.pc # "gone"
          BY <4>2 DEF OInv, Fresh, NewServer
        <4> QED BY <3>1, <4>1, <4>3 DEF Dead
      <3>3. CASE ~(cl.addr < cl.addrs)
        <4>1. nt'.up = "reset"
          BY <3>1, <3>3, LostIs DEF NextAddress, BInv
        <4> QED BY <3>1, <4>1 DEF Dead
      <3> QED BY <3>2, <3>3
    <2>3. CASE RcvConnect
      <3>1. /\ UNCHANGED <<ends, nt, rx, got>> /\ cl.state = "connecting"
        BY <2>3 DEF RcvConnect
      <3> QED BY <3>1 DEF Dead
    <2>4. CASE Close
      <3>1. UNCHANGED <<ends, rx, got>> /\ nt.up = "up" /\ cl.state = "dataxfer"
        BY <2>4 DEF Close
      <3> QED BY <3>1 DEF Dead
    <2>5. CASE Answer
      <3>1. UNCHANGED <<cl, ends, rx, got>> /\ nt.up = "coming"
        BY <2>5 DEF Answer
      <3> QED BY <3>1 DEF Dead
    <2>6. CASE Reset
      <3>1. UNCHANGED <<cl, ends, rx, got>> /\ nt.up \in {"up", "closed"}
        BY <2>6 DEF Reset
      <3> QED BY <3>1 DEF Dead
    <2>7. ASSUME NEW n \in 1 .. MaxSize, Send(n)
          PROVE  UNCHANGED <<ends, got>> /\ (Dead => Dead')
      <3>1. UNCHANGED <<ends, rx, got>> /\ nt.up = "up" /\ cl.state = "dataxfer"
        BY <2>7 DEF Send
      <3> QED BY <3>1 DEF Dead
    <2> QED BY <2>1, <2>2, <2>3, <2>4, <2>5, <2>6, <2>7 DEF Network
  <1>2. Dead \in BOOLEAN /\ Dead' \in BOOLEAN
    BY DEF Dead
  <1> QED BY <1>1, <1>2

\* Every other step of the server: it goes on reading, or is gone.
LEMMA ServerQuiet ==
    ASSUME BInv, OInv,
           \/ Get \/ RecvBlocks \/ More
           \/ \E n \in 1 .. Chunk : Recv(n)
    PROVE  /\ UNCHANGED <<ends, got>>
           /\ Dead' = Dead \/ Dead' = TRUE
  <1>1. UNCHANGED <<cl, ends, got>> /\ rx.pc # "gone"
    BY DEF Get, RecvBlocks, More, Recv
  <1>2. nt'.up = nt.up
    <2>1. ASSUME NEW n \in 1 .. Chunk, Recv(n) PROVE nt'.up = nt.up
      BY <2>1 DEF Recv, BInv, LinkOK, LinkType
    <2> QED BY <2>1 DEF Get, RecvBlocks, More
  <1>3. Dead => Dead'
    BY <1>1, <1>2 DEF Dead
  <1>4. Dead \in BOOLEAN /\ Dead' \in BOOLEAN
    BY DEF Dead
  <1> QED BY <1>1, <1>3, <1>4

\* The end of the stream: an incomplete PDU is given to the server when the
\* channel is broken, and leaves its queue as it was.
LEMMA EndQuiet ==
    ASSUME BInv, OInv, RecvEnds
    PROVE  /\ Queue' = Queue /\ ends' = ends
           /\ Dead' = Dead \/ Dead' = TRUE
  <1>1. UNCHANGED <<cl, ends, nt>> /\ rx.pc # "gone"
    BY DEF RecvEnds
  <1>2. Dead => Dead'
    BY <1>1 DEF Dead
  <1>3. Dead' = Dead \/ Dead' = TRUE
    BY <1>2 DEF Dead
  <1>4. CASE got' = got
    BY <1>1, <1>3, <1>4, QueueKept
  <1>5. CASE nt.up = "closed" /\ Size(rx.buf) > 1 /\ got' = Append(got, rx.buf)
    <2>1. Whole' = Len(got) /\ Cut' /\ GotWhole'
      BY <1>5, FragmentOrder
    <2>2. Len(got') = Len(got) + 1 /\ Len(got) # Len(ends)
      <3>1. got \in Seq(Buffer) /\ rx.buf \in Buffer /\ Len(got) \in Nat
        BY DEF BInv, ServerOK, ServerType
      <3>2. Len(got') = Len(got) + 1
        BY <1>5, <3>1
      <3> QED BY <1>1, <2>1, <3>1, <3>2 DEF GotWhole
    <2>3. Whole = Len(got)
      BY <2>2, Uncut DEF OInv
    <2>4. \A i : Pdu(i)' = Pdu(i)
      BY <1>1 DEF Pdu, Start
    <2> QED BY <1>1, <1>3, <2>1, <2>3, <2>4 DEF Queue
  <1> QED BY <1>1, <1>4, <1>5 DEF RecvEnds

LEMMA NextChannel ==
    ASSUME ~FailsOver, BInv, OInv, Sized, [Next]_vars
    PROVE  Sized' /\ [Channel!Next]_(Channel!vars)
  <1>1. CASE \E size \in 1 .. MaxSize : Put(size)
    BY <1>1, PutSized, PutSends DEF Channel!Next
  <1>2. CASE Deliver
    <2>1. Channel!Receive
      BY <1>2, DeliverReceives
    <2>2. Sized'
      BY <1>2 DEF Deliver, Sized
    <2> QED BY <2>1, <2>2 DEF Channel!Next
  <1>3. ASSUME Queue' = Queue, ends' = ends, Dead' = Dead \/ Dead' = TRUE
        PROVE  Sized' /\ [Channel!Next]_(Channel!vars)
    <2>1. Queue' = Queue /\ Sized'
      BY <1>3 DEF Sized
    <2>2. CASE Dead' = Dead
      BY <2>1, <2>2 DEF Channel!vars, Queue
    <2>3. CASE Dead' = TRUE
      <3>1. Channel!Break
        BY <2>1, <2>3 DEF Channel!Break, Queue
      <3> QED BY <2>1, <3>1 DEF Channel!Next
    <2> QED BY <1>3, <2>2, <2>3
  <1>4. CASE \/ Connect \/ Resolved \/ RcvConnect \/ SendFails \/ Close \/ Network
             \/ \E n \in 1 .. MaxSize : Send(n)
    BY <1>3, <1>4, SenderQuiet, QueueKept
  <1>5. CASE \/ Get \/ RecvBlocks \/ More
             \/ \E n \in 1 .. Chunk : Recv(n)
    BY <1>3, <1>5, ServerQuiet, QueueKept
  <1>7. CASE RecvEnds
    BY <1>3, <1>7, EndQuiet
  <1>6. CASE UNCHANGED vars
    <2>1. UNCHANGED <<ends, got>> /\ Dead' = Dead
      BY <1>6 DEF vars, Dead
    <2> QED BY <1>3, <2>1, QueueKept
  <1> QED BY <1>1, <1>2, <1>4, <1>5, <1>6, <1>7 DEF Next, Sender, Server

\* Putting and getting PDUs is sending and receiving on a channel that keeps
\* their order, and loses none but by breaking.
THEOREM ChannelOrder == ASSUME ~FailsOver PROVE Spec => Channel!InOrderOnce
  <1>1. Init => Sized /\ Channel!Init
    <2> SUFFICES ASSUME Init PROVE Sized /\ Channel!Init
      OBVIOUS
    <2>1. ends = <<>> /\ got = <<>> /\ ~Dead
      BY DEF Init, Dead, NewServer
    <2>2. Sized
      BY <2>1, ComstackAssumption DEF Sized
    <2>3. Queue = <<>>
      <3>1. Len(ends) - Whole = 0
        BY <2>1 DEF Whole, Cut
      <3>2. 1 .. 0 = {}
        OBVIOUS
      <3> QED BY <3>1, <3>2 DEF Queue
    <2>4. Dead = FALSE
      BY <2>1 DEF Dead
    <2> QED BY <2>2, <2>3, <2>4 DEF Channel!Init, Queue
  <1>2. (BInv /\ OInv /\ Sized) /\ [Next]_vars => Sized' /\ [Channel!Next]_(Channel!vars)
    BY NextChannel
  <1> QED BY <1>1, <1>2, OrderAlways, PTL DEF Spec, Channel!InOrderOnce
=============================================================================
