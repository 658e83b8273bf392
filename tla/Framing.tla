------------------------------ MODULE Framing ------------------------------
(***************************************************************************)
(* A COMSTACK's input buffer while octets arrive (tcpip_get, src/tcpip.c): *)
(* after each of them the code asks whether the buffer starts with a whole *)
(* message.  The peer sends one encoded value or message and then the      *)
(* octets of whatever comes next, or any octets at all.                    *)
(***************************************************************************)
EXTENDS HttpFraming

CONSTANTS Integers,    \* INTEGERs encoded
          Oids,        \* OBJECT IDENTIFIERs encoded
          Tags,        \* <<class, tag, constructed>> of identifier octets
          Lengths,     \* <<length, lenlen, exact>> of length octets
          Packages,    \* <<tag, lenlen, octets>> of packages, PDUs for instance
          Messages,    \* HTTP messages, as records of their parts
          Raw,         \* <<octets, bound>>: octets sent without sense, so many
          Following    \* octets that follow a whole message

VARIABLES what,    \* what is sent
          buf      \* the octets that have arrived

vars == <<what, buf>>

-----------------------------------------------------------------------------
(* HTTP messages: how lines end, status (of a response), headers, body and *)
(* headers after those the body needs.  A body is <<"none">>,              *)
(* <<"length", octets>> or <<"chunked", chunks, trailer>>.                 *)

Text(n) == [k \in 1..n |-> 46]
Digits(n) == IF n < 10 THEN <<48 + n>> ELSE <<48 + (n \div 10), 48 + (n % 10)>>

FirstLine(msg) ==
    IF msg.status = <<>> THEN Text(3) ELSE <<Http, 46, SP>> \o msg.status
BodyHeader(body) ==
    CASE body[1] = "length"  -> <<<<ContentLength, SP>> \o Digits(body[2])>>
      [] body[1] = "chunked" -> <<<<TransferEncoding, SP, Chunked>>>>
      [] OTHER -> <<>>
Lines(msg, lines) == FlattenSeq([k \in DOMAIN lines |-> lines[k] \o msg.eol])
ChunkLines(sizes) == FlattenSeq([k \in DOMAIN sizes |-> <<Digits(sizes[k]), Text(sizes[k])>>])
Body(msg) ==
    CASE msg.body[1] = "length"  -> Text(msg.body[2])
      [] msg.body[1] = "chunked" ->
             Lines(msg, ChunkLines(msg.body[2]) \o <<<<48>>>> \o msg.body[3] \o <<<<>>>>)
      [] OTHER -> <<>>

HeadOf(msg) == Lines(msg, <<FirstLine(msg)>> \o msg.before \o BodyHeader(msg.body)
                          \o msg.after \o <<<<>>>>)
EncHttp(msg) == HeadOf(msg) \o Body(msg)

-----------------------------------------------------------------------------

\* The octets of what is sent, <<>> for octets without sense.
Whole ==
    CASE what.kind = "integer" -> EncInteger(what.val)
      [] what.kind = "oid"     -> EncOid(what.val)
      [] what.kind = "tag"     -> EncTag(what.val[1], what.val[2], what.val[3])
      [] what.kind = "length"  -> EncLen(what.val[1], what.val[2], what.val[3])
      [] what.kind = "package" ->
             EncConstructed(2, what.val[1], what.val[2],
                            EncTag(0, 4, FALSE) \o EncOctets(what.val[3]))
      [] what.kind = "http"    -> EncHttp(what.val)
      [] OTHER -> <<>>

Sending(kind, values) == \E v \in values : what = [kind |-> kind, val |-> v]

Init ==
    /\ \/ Sending("integer", Integers)
       \/ Sending("oid", Oids)
       \/ Sending("tag", Tags)
       \/ Sending("length", Lengths)
       \/ Sending("package", Packages)
       \/ Sending("http", Messages)
       \/ Sending("raw", Raw)
    /\ buf = <<>>

Arrive(octet) == buf' = Append(buf, octet) /\ UNCHANGED what

Meant == Len(buf) < Len(Whole) /\ Arrive(Whole[Len(buf) + 1])
Further ==
    /\ what.kind # "raw" /\ Len(buf) \in {Len(Whole), Len(Whole) + 1}
    /\ \E octet \in Following : Arrive(octet)
Senseless ==
    what.kind = "raw" /\ Len(buf) < what.val[2] /\ \E octet \in what.val[1] : Arrive(octet)

Next == Meant \/ Further \/ Senseless

Spec == Init /\ [][Next]_vars
=============================================================================
