------------------------- MODULE ComstackProperties -------------------------
(***************************************************************************)
(* That the buffers of tcpip_get and the partial writes of tcpip_put make  *)
(* the channel of whole PDUs that PduChannel promises.                     *)
(***************************************************************************)
EXTENDS Comstack

Buffer == [lo : Nat, hi : Nat, torn : BOOLEAN]

\* Every field has its type, and the counters of a write stay within the PDU.
TypeOK ==
    /\ cl.state \in {"unbnd", "resolving", "connecting", "dataxfer", "failed",
                     "closed"}
    /\ cl.addr \in 0 .. cl.addrs /\ cl.addrs \in Nat
    /\ cl.towrite \in Nat /\ cl.written \in 0 .. MaxSize
    /\ cl.towrite > 0 => cl.written < cl.towrite
    /\ nt.up \in {"none", "coming", "up", "refused", "closed", "reset"}
    /\ nt.lo \in Nat /\ nt.hi \in Nat /\ nt.lo <= nt.hi
    /\ ends \in Seq(Nat) /\ got \in Seq(Buffer)
    /\ rx.pc \in {"select", "recv", "more", "gone"}
    /\ rx.buf \in Buffer /\ rx.alt \in Buffer
    /\ rx.bufsize \in Nat /\ rx.altsize \in Nat

\* The next recv, of up to a chunk, stays within the buffer, and so does what
\* either buffer holds, however often they have changed places and grown.
NoOverrun ==
    /\ Size(rx.buf) <= rx.bufsize /\ Size(rx.alt) <= rx.altsize
    /\ rx.pc = "recv" =>
         Size(rx.buf) + Chunk <= Grow(rx.bufsize, Size(rx.buf))

\* Bytes of the stream that were sent and are not in a PDU got are in the
\* surplus, in the buffer or on their way, in this order and without a gap.
InOrder ==
    LET held == IF Size(rx.buf) > 0 THEN rx.buf ELSE rx.alt
    IN  rx.pc # "gone" /\ nt.up \in {"up", "closed"} =>
          /\ Size(rx.buf) = 0 \/ Size(rx.alt) = 0
          /\ Size(held) > 0 => ~held.torn /\ held.hi = nt.lo

Dead == \/ nt.up = "reset" \/ rx.pc = "gone"
        \/ cl.state = "closed" /\ cl.towrite > 0

Pdu(i) == [lo |-> Start(i), hi |-> ends[i], torn |-> FALSE]

\* The last thing got is not the whole of its PDU.
Cut == got # <<>> /\ got[Len(got)].hi < ends[Len(got)]
Whole == IF Cut THEN Len(got) - 1 ELSE Len(got)

\* Each thing the server is given as a PDU is the next one that was put, and the
\* whole of it, but for one case: of the PDU a client had not written completely
\* when it closed, the last of all, the server is given the beginning.
GotWhole ==
    /\ Len(got) <= Len(ends)
    /\ \A i \in 1 .. Whole : got[i] = Pdu(i)
    /\ Cut => /\ cl.state = "closed" /\ cl.towrite > 0 /\ Len(got) = Len(ends)
              /\ got[Len(got)].lo = Start(Len(got)) /\ ~got[Len(got)].torn

Channel == INSTANCE PduChannel WITH
    Message <- [lo : 0 .. MaxSize * MaxPdus, hi : 0 .. MaxSize * MaxPdus,
                torn : {FALSE}],
    queue <- [i \in 1 .. Len(ends) - Whole |-> Pdu(Whole + i)],
    broken <- Dead

\* The comstack implements the channel: PDUs arrive in order, whole and once,
\* and each one put arrives unless the link breaks.  The beginning of a PDU the
\* client left unfinished is no receipt: the channel is broken by then.
ImplementsChannel == Channel!Spec
=============================================================================
