------------------------------ MODULE Comstack ------------------------------
(***************************************************************************)
(* One direction of a TCP COMSTACK in non-blocking mode (src/tcpip.c): the *)
(* client resolves and tries the addresses of a host and puts PDUs, the    *)
(* server gets them.  The bytes put on a connection are numbered from 0; a *)
(* buffer is known by the range of them it holds.                          *)
(***************************************************************************)
EXTENDS Naturals, Sequences

CONSTANTS Chunk,       \* CS_TCPIP_BUFCHUNK, 4096
          MaxSize,     \* bound on the size of a PDU
          MaxRecv,     \* max_recv_bytes of the receiver
          MaxPdus,     \* bound on the PDUs put
          Capacity,    \* bound on the bytes the network holds
          Addresses,   \* most addresses a host name may have
          FailsOver    \* whether a connection may fail while there are others

ASSUME ComstackAssumption ==
    /\ Chunk \in Nat \ {0} /\ MaxSize \in Nat /\ MaxRecv \in Nat
    /\ MaxPdus \in Nat /\ Capacity \in Nat \ {0} /\ Addresses \in Nat \ {0}
    /\ FailsOver \in BOOLEAN
    /\ MaxSize + Chunk <= MaxRecv + 1

VARIABLES cl,      \* the client's comstack
          ends,    \* for each PDU put, the number of the byte after it
          nt,      \* the connection: its state and the bytes on their way
          rx,      \* the server's comstack
          got      \* the ranges the server was given as PDUs

vars == <<cl, ends, nt, rx, got>>

Start(i) == IF i = 1 THEN 0 ELSE ends[i - 1]
Total == IF ends = <<>> THEN 0 ELSE ends[Len(ends)]

-----------------------------------------------------------------------------
(* Buffers.                                                                *)

Empty == [lo |-> 0, hi |-> 0, torn |-> FALSE]
Size(b) == b.hi - b.lo

\* The n bytes from lo on are added to a buffer.
Filled(b, lo, n) ==
    IF Size(b) = 0 THEN [lo |-> lo, hi |-> lo + n, torn |-> FALSE]
    ELSE [b EXCEPT !.hi = @ + n, !.torn = @ \/ b.hi # lo]

\* (*sp->complete): the length of the PDU a buffer starts with, 0 when there
\* is none yet.
Complete(b) ==
    IF \E i \in DOMAIN ends : Start(i) = b.lo /\ ends[i] <= b.hi /\ Size(b) > 0
    THEN LET i == CHOOSE i \in DOMAIN ends :
                      Start(i) = b.lo /\ ends[i] <= b.hi
         IN  ends[i] - b.lo
    ELSE 0

\* Room for a whole chunk, before each recv.
GrowLate(size, has) == IF size = 0 THEN Chunk ELSE IF size = has THEN 2 * size ELSE size
Grow(size, has) ==
    IF size = 0 THEN Chunk ELSE IF size - has < Chunk THEN 2 * size ELSE size

RoundUp(n) == IF n % Chunk = 0 THEN n ELSE (n + Chunk) - (n % Chunk)
Larger(a, b) == IF a < b THEN b ELSE a

\* What is in the surplus buffer is read first; the two change places.
SwapKeepsAlt(r) ==
    IF Size(r.alt) = 0 THEN [r EXCEPT !.buf = Empty]
    ELSE [r EXCEPT !.buf = r.alt, !.bufsize = r.altsize, !.altsize = r.bufsize]
Swap(r) ==
    IF Size(r.alt) = 0 THEN [r EXCEPT !.buf = Empty]
    ELSE [r EXCEPT !.buf = r.alt, !.bufsize = r.altsize,
                   !.alt = Empty, !.altsize = r.bufsize]

\* What comes after the first n bytes is moved to the surplus buffer.
SurplusDropped(r, n) ==
    IF Size(r.buf) <= n THEN r
    ELSE [r EXCEPT !.altsize = Larger(@, RoundUp(Size(r.buf) - n))]
Surplus(r, n) ==
    IF Size(r.buf) <= n THEN r
    ELSE [r EXCEPT !.alt = [r.buf EXCEPT !.lo = @ + n],
                   !.altsize = Larger(@, RoundUp(Size(r.buf) - n))]

-----------------------------------------------------------------------------
(* Connecting.                                                             *)

NewServer == [pc |-> "select", buf |-> Empty, bufsize |-> 0, alt |-> Empty,
              altsize |-> 0]

Init ==
    /\ cl \in [state : {"unbnd"}, addr : {0}, addrs : 1 .. Addresses,
               towrite : {0}, written : {0}]
    /\ ends = <<>> /\ got = <<>>
    /\ nt = [up |-> "none", lo |-> 0, hi |-> 0]
    /\ rx = NewServer

\* connect() to the next address; none is left: -1.
NextAddress ==
    IF cl.addr < cl.addrs
    THEN /\ cl' = [cl EXCEPT !.state = "connecting", !.addr = @ + 1]
         /\ nt' = [up |-> "coming", lo |-> nt.hi, hi |-> nt.hi]
         /\ rx' = NewServer
    ELSE /\ cl' = [cl EXCEPT !.state = "failed"]
         /\ nt' = [nt EXCEPT !.up = "reset", !.lo = nt.hi]
         /\ UNCHANGED rx

\* cs_connect: a thread resolves the name.
Connect ==
    /\ cl.state = "unbnd"
    /\ cl' = [cl EXCEPT !.state = "resolving"]
    /\ UNCHANGED <<ends, nt, rx, got>>

\* The pipe of the resolver thread can be read.
Resolved ==
    /\ cl.state = "resolving"
    /\ NextAddress
    /\ UNCHANGED <<ends, got>>

\* The network accepts or refuses the connection.
Answer ==
    /\ nt.up = "coming"
    /\ nt' \in [up : {"up", "refused"}, lo : {nt.lo}, hi : {nt.hi}]
    /\ UNCHANGED <<cl, ends, rx, got>>

\* The socket can be written, or has an error: tcpip_rcvconnect does not ask.
RcvConnect ==
    /\ cl.state = "connecting" /\ nt.up # "coming"
    /\ cl' = [cl EXCEPT !.state = "dataxfer"]
    /\ UNCHANGED <<ends, nt, rx, got>>

-----------------------------------------------------------------------------
(* tcpip_put.                                                              *)

\* A new PDU: the one before was written completely.
Put(size) ==
    /\ cl.state = "dataxfer" /\ cl.towrite = 0 /\ Len(ends) < MaxPdus
    /\ cl' = [cl EXCEPT !.towrite = size, !.written = 0]
    /\ ends' = Append(ends, Total + size)
    /\ UNCHANGED <<nt, rx, got>>

\* send() takes n bytes; tcpip_put is called again with the same buffer until
\* all are written.
Send(n) ==
    /\ cl.state = "dataxfer" /\ nt.up = "up"
    /\ cl.written + n <= cl.towrite /\ nt.hi - nt.lo + n <= Capacity
    /\ cl' = [cl EXCEPT !.written = @ + n,
                        !.towrite = IF cl.written + n = @ THEN 0 ELSE @]
    /\ nt' = [nt EXCEPT !.hi = @ + n]
    /\ UNCHANGED <<ends, rx, got>>

\* send() fails: the next address is tried with what is still to be written.
SendFails ==
    /\ cl.state = "dataxfer" /\ cl.towrite > 0
    /\ nt.up \in {"refused", "reset"}
    /\ NextAddress
    /\ UNCHANGED <<ends, got>>

\* The client closes its comstack.
Close ==
    /\ cl.state = "dataxfer" /\ nt.up = "up"
    /\ cl' = [cl EXCEPT !.state = "closed"]
    /\ nt' = [nt EXCEPT !.up = "closed"]
    /\ UNCHANGED <<ends, rx, got>>

\* The connection breaks, and what is on its way is lost.
Reset ==
    /\ nt.up \in {"up", "closed"}
    /\ cl.addr = cl.addrs \/ FailsOver
    /\ nt' = [nt EXCEPT !.up = "reset", !.lo = nt.hi]
    /\ UNCHANGED <<cl, ends, rx, got>>

-----------------------------------------------------------------------------
(* tcpip_get, and the server that calls it until cs_more says no.          *)

Gone(r) == [NewServer EXCEPT !.pc = "gone"]
InFlight == nt.hi - nt.lo

Get ==
    /\ rx.pc = "select"
    /\ InFlight > 0 \/ nt.up \in {"closed", "reset"}
    /\ rx' = [Swap(rx) EXCEPT !.pc = "recv"]
    /\ UNCHANGED <<cl, ends, nt, got>>

Recv(n) ==
    /\ rx.pc = "recv" /\ Complete(rx.buf) = 0
    /\ n <= InFlight /\ n <= Chunk
    /\ rx' = IF Size(rx.buf) + n > MaxRecv THEN Gone(rx)
             ELSE [rx EXCEPT !.buf = Filled(@, nt.lo, n),
                             !.bufsize = Grow(@, Size(rx.buf))]
    /\ nt' = [nt EXCEPT !.lo = @ + n]
    /\ UNCHANGED <<cl, ends, got>>

\* EWOULDBLOCK: everything is kept for the next call; 1 is returned.
RecvBlocks ==
    /\ rx.pc = "recv" /\ Complete(rx.buf) = 0
    /\ InFlight = 0 /\ nt.up = "up"
    /\ rx' = [Surplus([rx EXCEPT !.bufsize = Grow(@, Size(rx.buf))], 0)
                EXCEPT !.pc = "select", !.buf = Empty]
    /\ UNCHANGED <<cl, ends, nt, got>>

\* recv() returns 0 or fails.  What is held at the end of the stream is returned
\* by its length: one byte looks like 1, an incomplete PDU, and is dropped; more
\* are a PDU to the server, which closes when they do not decode.  HTTP does: all
\* that follows a head is its body.
RecvEnds ==
    /\ rx.pc = "recv" /\ Complete(rx.buf) = 0
    /\ InFlight = 0 /\ nt.up \in {"closed", "reset"}
    /\ LET emptied == [rx EXCEPT !.buf = Empty, !.bufsize = Grow(@, Size(rx.buf))]
       IN  \/ /\ nt.up = "closed" /\ Size(rx.buf) = 1
              /\ rx' = [emptied EXCEPT !.pc = "select"]
              /\ UNCHANGED got
           \/ /\ nt.up = "closed" /\ Size(rx.buf) > 1
              /\ rx' \in {Gone(rx), [emptied EXCEPT !.pc = "more"]}
              /\ got' = Append(got, rx.buf)
           \/ /\ nt.up = "closed" => Size(rx.buf) = 0
              /\ rx' = Gone(rx)
              /\ UNCHANGED got
    /\ UNCHANGED <<cl, ends, nt>>

\* A whole PDU is returned, and the rest kept.
Deliver ==
    /\ rx.pc = "recv"
    /\ LET n == Complete(rx.buf)
       IN  /\ n > 0
           /\ got' = Append(got, [lo |-> rx.buf.lo, hi |-> rx.buf.lo + n,
                                  torn |-> rx.buf.torn])
           /\ rx' = [Surplus(rx, n) EXCEPT !.pc = "more", !.buf = Empty]
    /\ UNCHANGED <<cl, ends, nt>>

\* cs_more: a whole PDU is left, and no event of the socket will tell of it.
MoreForgotten ==
    /\ rx.pc = "more"
    /\ rx' = [rx EXCEPT !.pc = "select"]
    /\ UNCHANGED <<cl, ends, nt, got>>
More ==
    /\ rx.pc = "more"
    /\ rx' = IF Size(rx.alt) > 0 /\ Complete(rx.alt) > 0
             THEN [Swap(rx) EXCEPT !.pc = "recv"]
             ELSE [rx EXCEPT !.pc = "select"]
    /\ UNCHANGED <<cl, ends, nt, got>>

Sender == \/ Connect \/ Resolved \/ RcvConnect \/ SendFails \/ Close
          \/ \E size \in 1 .. MaxSize : Put(size)
          \/ \E n \in 1 .. MaxSize : Send(n)
Network == Answer \/ Reset
Server == \/ Get \/ RecvBlocks \/ RecvEnds \/ Deliver \/ More
          \/ \E n \in 1 .. Chunk : Recv(n)

Next == Sender \/ Network \/ Server

Spec == Init /\ [][Next]_vars

\* Each side calls its comstack when its socket is ready.
FairSpec == /\ Spec /\ WF_vars(Resolved) /\ WF_vars(Answer) /\ WF_vars(RcvConnect)
            /\ WF_vars(SendFails) /\ WF_vars(\E n \in 1 .. MaxSize : Send(n))
            /\ WF_vars(Server)
=============================================================================
