----------------------------- MODULE MCFraming -----------------------------
EXTENDS FramingProperties

MCIntegers == {-32768, -32767, -257, -256, -129, -128, -127, -1,
               0, 1, 127, 128, 129, 255, 256, 32767}
MCOids == {<<0, 0>>, <<0, 39>>, <<1, 39>>, <<2, 0>>, <<2, 999>>,
           <<1, 2, 840, 10003, 5, 10>>, <<2, 48, 0, 127, 128, 16383, 16384>>}
MCTags == {<<c, t, k>> : c \in 0..3, t \in {0, 4, 30, 31, 127, 128, 16384},
                         k \in BOOLEAN}
MCLengths == {<<n, 1, TRUE>> : n \in {0, 1, 127}}
             \cup {<<n, l, TRUE>> : n \in {0, 127, 128, 255, 256}, l \in {4, 5}}
             \cup {<<n, 5, FALSE>> : n \in {0, 127, 128, 255, 256, 32767}}
\* Packages with a definite length, of one octet and of more, and those long
\* enough to be given the indefinite form; octets of all zeros look like its end.
MCPackages == {<<20, l, [k \in 1..n |-> c]>> : l \in {1, 3}, n \in {0, 3, 125, 126, 130}, c \in {0, 128}}

Crlf == <<CR, LF>>
Other == <<46, SP, 46>>
Msg(eol, status, before, body, after) ==
    [eol |-> eol, status |-> status, before |-> before, body |-> body, after |-> after]
Bodies == {<<"none">>, <<"length", 0>>, <<"length", 3>>, <<"length", 12>>,
           <<"chunked", <<>>, <<>>>>, <<"chunked", <<3, 1>>, <<>>>>,
           <<"chunked", <<2>>, <<Other>>>>}
Requests == {Msg(Crlf, <<>>, b, body, a) :
                b \in {<<>>, <<Other>>}, a \in {<<>>, <<Other>>}, body \in Bodies}
Responses == {Msg(Crlf, <<50, 48, 48>>, <<Other>>, body, <<>>) : body \in Bodies \ {<<"none">>}}
             \cup {Msg(Crlf, s, <<Other>>, <<"none">>, <<>>) :
                       s \in {<<50, 48, 52>>, <<51, 48, 52>>, <<49, 48, 48>>}}
\* Lines that end in LF alone: the code misses the end of a chunked body of
\* such lines by an octet, and a last digit in the last line of the head.
LfRequests == {Msg(<<LF>>, <<>>, <<>>, body, <<Other>>) :
                  body \in {b \in Bodies : b[1] # "chunked"}}
MCMessages == Requests \cup Responses \cup LfRequests
              \cup {Msg(Crlf, <<>>, [k \in 1..12 |-> Other], <<"none">>, <<>>)}
\* Of the few octets that nest packages, more are sent.
MCRaw == {<<{0, 1, 31, 48, 128, 130}, 7>>, <<{0, 48, 128}, 11>>}
MCFollowing == {0, 13, 46, 48, 180}
=============================================================================
