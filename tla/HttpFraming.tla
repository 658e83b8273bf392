---------------------------- MODULE HttpFraming ----------------------------
(***************************************************************************)
(* How a COMSTACK finds the end of an HTTP message, and which of the two   *)
(* protocols a buffer holds (src/comstack.c).  The names the code compares *)
(* (HTTP/, Content-Length:, Transfer-Encoding:, chunked) are one octet     *)
(* here, so the room the code asks for after a name is less by its length. *)
(* Positions count from 0, as in the code.                                 *)
(***************************************************************************)
EXTENDS Ber

CONSTANT MaxHead       \* the longest head of an HTTP message, 8192

CR == 13
LF == 10
SP == 32
Http == 72             \* "HTTP/"
ContentLength == 67    \* "Content-Length:"
TransferEncoding == 84 \* "Transfer-Encoding:"
Chunked == 75          \* "chunked"

At(s, i) == IF i < Len(s) THEN s[i + 1] ELSE 0
IsDigit(c) == c \in 48..57
Incomplete == 0

\* The position after a line end at i, or i.
SkipCrlf(s, i) ==
    IF At(s, i) = CR /\ At(s, i + 1) = LF THEN i + 2
    ELSE IF At(s, i) = LF THEN i + 1 ELSE i

SkipWhile(s, i, last, Test(_)) ==
    Min({k \in i..Len(s) : k > last \/ ~Test(At(s, k))} \cup {Len(s)})

\* The value of the digits from i up to j.
Value(s, i, j, base, Digit(_)) ==
    FoldLeft(LAMBDA a, c : base * a + Digit(c), 0, SubSeq(s, i + 1, j))

-----------------------------------------------------------------------------
(* A chunked body, from position i.                                        *)

HexDigit(c) == IF IsDigit(c) THEN c - 48
               ELSE IF c \in 65..90 THEN c - 55 ELSE c - 87
IsHexDigit(c) == c \in (48..57) \cup (65..90) \cup (97..122)

TrailerOneLine(s, from) ==
    LET ends == {i \in from..(Len(s) - 1) : SkipCrlf(s, i) > i}
    IN  IF ends = {} THEN Incomplete ELSE SkipCrlf(s, Min(ends))

\* The headers after the last chunk, up to an empty line.
Trailer(s, from) ==
    LET line[i \in Nat] ==
            LET j == SkipCrlf(s, i)
                k == SkipCrlf(s, j)
            IN  IF i >= Len(s) THEN Incomplete
                ELSE IF j = i THEN line[i + 1]
                ELSE IF k = j THEN line[j] ELSE k
    IN  line[from]

ReadChunk(s, from) ==
    LET len == Len(s)
        chunk[i \in Nat] ==
            LET j == SkipWhile(s, i, len - 3, IsHexDigit)
                size == Value(s, i, j, 16, HexDigit)
                lines == {k \in j..(len - 2) : SkipCrlf(s, k) > k}
                end == SkipCrlf(s, Min(lines)) + size
            IN  IF j >= len - 2 THEN Incomplete
                ELSE IF size = 0 THEN Trailer(s, j)
                ELSE IF lines = {} THEN Incomplete
                ELSE IF end >= len - 2 \/ SkipCrlf(s, end) = end THEN Incomplete
                ELSE chunk[SkipCrlf(s, end)]
    IN  chunk[from]

-----------------------------------------------------------------------------
(* A message.  contentLen is -1 for a body that ends with the connection.  *)

\* A response has a body unless its status says otherwise.
FirstContentLen(s, line) ==
    LET spaces == {j \in 1..(line - 1) : At(s, j) = SP}
        status == Min(spaces) + 1
    IN  IF At(s, 0) # Http \/ spaces = {} THEN 0
        ELSE IF \/ At(s, status) = 49
                \/ SubSeq(s, status + 1, status + 3) \in {<<50, 48, 52>>, <<51, 48, 52>>}
             THEN 0 ELSE -1

LastDigitEarly(s) == Len(s) - 6
\* How far the digits of a Content-Length are read.
LastDigit(s) == Len(s) - 4

\* The head from its third octet on, and what follows it.
ScanHead(s, bodyLen) ==
    LET len == Len(s)
        scan[i \in Nat, contentLen \in Int, chunked \in BOOLEAN] ==
            LET j == SkipCrlf(s, i)
                k == SkipCrlf(s, j)
                value == SkipWhile(s, j + 1, len, LAMBDA c : c = SP)
                stop == SkipWhile(s, value, LastDigit(s), IsDigit)
                isNamed(name) == j < len - 3 /\ At(s, j) = name
            IN  IF i > len - 2 THEN Incomplete
                ELSE IF i > MaxHead THEN i
                ELSE IF j = i THEN scan[i + 1, contentLen, chunked]
                ELSE IF k > j
                     THEN IF chunked THEN ReadChunk(s, k)
                          ELSE IF contentLen = -1 \/ len < k + contentLen THEN Incomplete
                          ELSE k + contentLen
                ELSE IF isNamed(TransferEncoding)
                     THEN scan[value, contentLen, chunked \/
                               (value < len - 2 /\ At(s, value) = Chunked)]
                ELSE IF isNamed(ContentLength)
                     THEN scan[stop, Value(s, value, stop, 10, LAMBDA c : c - 48), chunked]
                ELSE scan[j + 1, contentLen, chunked]
    IN  scan[2, bodyLen, FALSE]

CompleteHttp(s) ==
    LET ends == {i \in 0..(Len(s) - 1) : At(s, i) \in {CR, LF}}
    IN  IF ends = {} THEN Incomplete
        ELSE ScanHead(s, FirstContentLen(s, Min(ends)))

\* cs_complete_auto: three printable octets start an HTTP message.
CompleteAuto(s) ==
    IF Len(s) > 5 /\ \A k \in 1..3 : s[k] \in 32..126
    THEN CompleteHttp(s) ELSE CompleteBER(s)
=============================================================================
