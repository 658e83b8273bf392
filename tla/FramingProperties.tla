------------------------- MODULE FramingProperties -------------------------
(* What the framing of messages and the BER primitives promise.            *)
EXTENDS Framing

-----------------------------------------------------------------------------
(* The elements of BER, as X.690 has them, nested at most so deep.         *)

IsTag(s) ==
    IF s[1] % 32 # 31 THEN Len(s) = 1
    ELSE Len(s) > 1 /\ \A k \in 2..Len(s) : s[k] < 128 <=> k = Len(s)

RECURSIVE IsElement(_, _), AreElements(_, _)
IsElement(s, depth) ==
    \E t \in 1..(Len(s) - 1) :
        /\ IsTag(SubSeq(s, 1, t))
        /\ \/ s[t + 1] < 128 /\ Len(s) = t + 1 + s[t + 1]
           \/ /\ s[t + 1] \in 129..254
              /\ LET n == s[t + 1] - 128
                 IN  /\ Len(s) > t + n
                     /\ Len(s) = t + 1 + n + Number(SubSeq(s, t + 2, t + 1 + n), 256, LenBytes)
           \/ /\ s[t + 1] = 128 /\ (s[1] \div 32) % 2 = 1
              /\ Len(s) >= t + 3 /\ s[Len(s) - 1] = 0 /\ s[Len(s)] = 0
              /\ AreElements(SubSeq(s, t + 2, Len(s) - 2), depth - 1)
AreElements(s, depth) ==
    \/ s = <<>>
    \/ \E n \in 2..Len(s) : /\ depth >= 0
                            /\ ~IsPrefix(<<0, 0>>, s)
                            /\ IsElement(SubSeq(s, 1, n), depth)
                            /\ AreElements(From(s, n + 1), depth)

\* completeBER_n answers a length exactly when the buffer starts with an
\* element of that length: no PDU is cut short, run into the next one, or
\* waited for although it is there, whatever octets a peer sends.
FindsElement ==
    what.kind = "raw" =>
        LET n == CompleteN(buf, 0)
            elements == {k \in 2..Len(buf) : IsElement(SubSeq(buf, 1, k), MaxLevel)}
        IN  IF IsPrefix(<<0, 0>>, buf) THEN n = -2
            ELSE IF elements = {} THEN n <= 0 ELSE elements = {n}

-----------------------------------------------------------------------------

\* Where the first message of the buffer ends: a head longer than MaxHead is
\* cut at its first octet past the bound.
Framed == IF what.kind = "http" /\ Len(HeadOf(what.val)) > MaxHead + 2
          THEN [needs |-> MaxHead + 3, is |-> MaxHead + 1]
          ELSE [needs |-> Len(Whole), is |-> Len(Whole)]

\* cs_complete_auto finds a Z39.50 PDU or an HTTP message when its last octet
\* has arrived, not before, and it is not led astray by what follows.
WholeOnly ==
    what.kind \in {"package", "http"} =>
        CompleteAuto(buf) = IF Len(buf) < Framed.needs THEN 0 ELSE Framed.is

\* Once the code has found a message or an error in the buffer, more octets
\* do not change its mind: tcpip_get may look late, after a long recv.
Answer(s) == IF what.kind = "http" THEN CompleteHttp(s) ELSE CompleteN(s, 0)
Settled ==
    buf # <<>> => LET earlier == Answer(Front(buf))
                  IN  earlier # 0 => Answer(buf) = earlier

-----------------------------------------------------------------------------

\* What the decoder of the value makes of the buffer.
Decoded ==
    CASE what.kind = "integer" -> DecInteger(buf)
      [] what.kind = "oid"     -> DecOid(buf)
      [] what.kind = "tag"     -> DecTag(buf)
      [] what.kind = "length"  -> DecLen(buf)
Expected ==
    CASE what.kind \in {"integer", "oid"} -> [n |-> Len(Whole), val |-> what.val]
      [] what.kind = "tag"     -> [n |-> Len(Whole), zclass |-> what.val[1],
                                   tag |-> what.val[2], cons |-> what.val[3]]
      [] what.kind = "length"  -> [n |-> Len(Whole), len |-> what.val[1]]

\* A decoder gives back the value that was encoded, from exactly its octets,
\* and refuses an encoding that is cut short.
RoundTrip ==
    what.kind \in {"integer", "oid", "tag", "length"} =>
        IF Len(buf) < Len(Whole) THEN Decoded.n < 0 ELSE Decoded = Expected
=============================================================================
