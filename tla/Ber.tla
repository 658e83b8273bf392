-------------------------------- MODULE Ber --------------------------------
(***************************************************************************)
(* The BER primitives of ODR (src/ber_*.c, src/odr_cons.c): identifier and *)
(* length octets, INTEGER, OBJECT IDENTIFIER, OCTET STRING, packages, and  *)
(* the test for a whole element that frames Z39.50 PDUs.  Octets are       *)
(* numbers; a decoder is given the octets from its position to the end of  *)
(* the buffer and answers n, the octets it took, or Failed.                *)
(***************************************************************************)
EXTENDS Integers, SequencesExt

CONSTANTS IntBytes,    \* sizeof(Odr_int), 8
          LenBytes,    \* sizeof(int), 4
          MaxOid,      \* OID_SIZE, 20
          MaxLevel     \* the deepest nesting completeBER follows, 1000

ASSUME BerAssumption ==
    {IntBytes, LenBytes, MaxOid} \subseteq Nat \ {0} /\ MaxLevel \in Nat

Failed == [n |-> -1]

From(s, i) == SubSeq(s, i, Len(s))
\* What shifting groups into a machine integer of w octets leaves there, and
\* its two's complement value.
Number(s, base, w) ==
    FoldLeft(LAMBDA a, b : (base * a + (b % base)) % 256^w, 0, s)
Signed(u, w) == IF u < 128 * 256^(w - 1) THEN u ELSE u - 256^w

\* A number in groups of seven bits, all but the last marked.
RECURSIVE Marked(_)
Marked(n) == IF n = 0 THEN <<>> ELSE Append(Marked(n \div 128), 128 + (n % 128))
Groups(n) == Append(Marked(n \div 128), n % 128)

\* How many octets the group at the start of s takes, 0 if its last is not there.
GroupLen(s) ==
    LET last == {k \in DOMAIN s : s[k] < 128} IN IF last = {} THEN 0 ELSE Min(last)

-----------------------------------------------------------------------------
(* Identifier octets.                                                      *)

EncTag(zclass, tag, cons) ==
    LET first == (zclass % 4) * 64 + (IF cons THEN 32 ELSE 0)
    IN  IF tag <= 30 THEN <<first + tag>> ELSE <<first + 31>> \o Groups(tag)

DecTag(s) ==
    LET more == GroupLen(From(s, 2))
        tag(n, t) == [n |-> n, zclass |-> s[1] \div 64,
                      cons |-> (s[1] \div 32) % 2 = 1, tag |-> t]
    IN  IF s = <<>> THEN Failed
        ELSE IF s[1] % 32 <= 30 THEN tag(1, s[1] % 32)
        ELSE IF more = 0 THEN Failed
        ELSE tag(1 + more, Number(SubSeq(s, 2, 1 + more), 128, LenBytes))

-----------------------------------------------------------------------------
(* Length octets.  EncLen answers <<>> when the length does not fit.       *)

RECURSIVE Big(_)
Big(n) == IF n < 256 THEN <<n>> ELSE Append(Big(n \div 256), n % 256)

EncLen(len, lenlen, exact) ==
    LET octs == Big(len)
        pad == IF exact THEN [k \in 1..(lenlen - 1 - Len(octs)) |-> 0] ELSE <<>>
    IN  IF len <= 127 /\ (lenlen = 1 \/ ~exact) THEN <<len>>
        ELSE IF lenlen = 1 THEN <<128>>
        ELSE IF Len(octs) >= lenlen THEN <<>>
        ELSE <<128 + Len(pad) + Len(octs)>> \o pad \o octs

\* n is -1 when octets are missing and -2 on any other error; len is -1 for
\* the indefinite form.
DecLen(s) ==
    LET k == s[1] % 128
        len == Signed(Number(SubSeq(s, 2, 1 + k), 256, LenBytes), LenBytes)
    IN  IF s = <<>> THEN Failed
        ELSE IF s[1] = 128 THEN [n |-> 1, len |-> -1]
        ELSE IF s[1] < 128 THEN [n |-> 1, len |-> s[1]]
        ELSE IF s[1] = 255 THEN [n |-> -2]
        ELSE IF k >= Len(s) THEN Failed
        ELSE IF len < 0 THEN [n |-> -2]
        ELSE [n |-> 1 + k, len |-> len]

-----------------------------------------------------------------------------
(* Contents.                                                               *)

\* An octet of an INTEGER that only repeats the sign of the one after it.
SpareUnsigned(octet, after) == octet = 0 \/ (octet = 255 /\ after >= 128)
Spare(octet, after) ==
    (octet = 0 /\ after < 128) \/ (octet = 255 /\ after >= 128)

EncInteger(v) ==
    LET tmp == [k \in 1..IntBytes |-> (v \div 256^(IntBytes - k)) % 256]
        first == Min({k \in 1..IntBytes : k = IntBytes \/ ~Spare(tmp[k], tmp[k + 1])})
    IN  EncLen(IntBytes - first + 1, 1, TRUE) \o From(tmp, first)

DecInteger(s) ==
    LET l == DecLen(s)
        content == SubSeq(s, l.n + 1, l.n + l.len)
        sign == IF s[l.n + 1] >= 128 THEN [k \in 1..(IntBytes - l.len) |-> 255]
                ELSE <<>>
    IN  IF l.n < 0 THEN Failed
        ELSE IF l.len < 0 \/ l.n + l.len > Len(s) \/ l.len > IntBytes THEN Failed
        ELSE [n |-> l.n + l.len,
              val |-> Signed(Number(sign \o content, 256, IntBytes), IntBytes)]

\* An OBJECT IDENTIFIER, its first two arcs in one group.
EncOid(arcs) ==
    LET content == Groups(arcs[1] * 40 + arcs[2])
                   \o FlattenSeq([k \in 1..(Len(arcs) - 2) |-> Groups(arcs[k + 2])])
        len == EncLen(Len(content), 1, TRUE)
    IN  IF len = <<128>> THEN <<>> ELSE len \o content

RECURSIVE Arcs(_, _)
Arcs(s, arcs) ==
    LET k == GroupLen(s)
        id == Signed(Number(SubSeq(s, 1, k), 128, LenBytes), LenBytes)
        first == IF id \div 40 > 2 THEN 2 ELSE id \div 40
        more == IF arcs = <<>> THEN <<first, id - first * 40>> ELSE Append(arcs, id)
    IN  IF s = <<>> THEN arcs
        ELSE IF k = 0 THEN <<>>
        ELSE IF id < 0 \/ Len(more) >= MaxOid THEN <<>>
        ELSE Arcs(From(s, k + 1), more)

DecOid(s) ==
    LET l == DecLen(s)
        arcs == Arcs(SubSeq(s, l.n + 1, l.n + l.len), <<>>)
    IN  IF l.n < 1 THEN Failed
        ELSE IF l.len < 0 \/ l.n + l.len > Len(s) \/ Len(arcs) < 2 THEN Failed
        ELSE [n |-> l.n + l.len, val |-> arcs]

EncOctets(content) == EncLen(Len(content), 5, FALSE) \o content

\* odr_constructed_begin and _end around contents: lenlen octets are kept for
\* the length, and with one octet a long package is given the indefinite form.
EncConstructed(zclass, tag, lenlen, content) ==
    LET len == EncLen(Len(content), lenlen, TRUE)
        eoc == IF len = <<128>> THEN <<0, 0>> ELSE <<>>
    IN  IF len = <<>> THEN <<>>
        ELSE EncTag(zclass, tag, TRUE) \o len \o content \o eoc

-----------------------------------------------------------------------------
(* completeBER: the length of the element a buffer starts with, 0 when it  *)
(* is not all there.                                                       *)

RECURSIVE CompleteN(_, _), Children(_, _)
CompleteN(s, level) ==
    LET t == DecTag(s)
        l == DecLen(From(s, t.n + 1))
        head == t.n + l.n
        end == Children(From(s, head + 1), level)
    IN  IF level > MaxLevel THEN -2
        ELSE IF Len(s) < 2 THEN 0
        ELSE IF s[1] = 0 /\ s[2] = 0 THEN -2
        ELSE IF t.n <= 0 \/ l.n = -1 THEN 0
        ELSE IF l.n = -2 THEN -1
        ELSE IF l.len >= 0 THEN IF Len(s) < head + l.len THEN 0 ELSE head + l.len
        ELSE IF ~t.cons THEN -1
        ELSE IF end <= 0 THEN end ELSE head + end

ChildrenOneZero(s, level) ==
    LET child == CompleteN(s, level + 1)
        rest == Children(From(s, child + 1), level)
    IN  IF Len(s) < 2 THEN 0
        ELSE IF s[1] = 0 THEN 2
        ELSE IF child <= 0 THEN child
        ELSE IF rest <= 0 THEN rest ELSE child + rest

\* The children of an indefinite element and the two octets that end it.
Children(s, level) ==
    LET child == CompleteN(s, level + 1)
        rest == Children(From(s, child + 1), level)
    IN  IF Len(s) < 2 THEN 0
        ELSE IF s[1] = 0 /\ s[2] = 0 THEN 2
        ELSE IF child <= 0 THEN child
        ELSE IF rest <= 0 THEN rest ELSE child + rest

\* On an error all there is counts as an element, for the decoder to refuse.
CompleteBER(s) ==
    LET n == CompleteN(s, 0) IN IF n < 0 THEN Len(s) ELSE n
=============================================================================
