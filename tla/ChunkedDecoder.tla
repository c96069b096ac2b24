--------------------------- MODULE ChunkedDecoder ---------------------------
(***************************************************************************)
(* HttpChunkedDecoder (src/src/http/http_chunked_decoder.cpp), which takes *)
(* the chunk markers out of a body that may arrive in pieces.  Everything  *)
(* it remembers between two calls of FilterBuf is in the record d, so the  *)
(* algorithm is a function of d and of the bytes of the piece.             *)
(*                                                                         *)
(* A byte is a number: the digits of chunk sizes are 0 .. Radix - 1 (in    *)
(* the code Radix = 16), the others have the names below.                  *)
(***************************************************************************)
EXTENDS Naturals, Sequences, SequencesExt

CONSTANTS
    Radix,       \* the base chunk sizes are written in
    MaxInt,      \* the largest chunk size: 2^63 - 1 in the code
    MaxLineBuf   \* kMaxLineBufLen

ASSUME DecoderAssumption ==
    /\ Radix \in 2 .. 100    \* the digits are not among the bytes below
    /\ MaxInt \in Nat
    /\ MaxLineBuf \in Nat

CR == 100
LF == 101
SEMICOLON == 102
SPACE == 103
LETTER == 104    \* any byte that means nothing to the decoder

NewDecoder ==
    [remaining |-> 0, line |-> <<>>, terminator |-> FALSE, last |-> FALSE,
     eof |-> FALSE, after |-> 0, out |-> <<>>, error |-> FALSE]

Byte == Nat

\* The position of byte b in s, 0 when it is not there.
Find(s, b) == SelectInSeq(s, LAMBDA x : x = b)

UpTo(s, n) == SubSeq(s, 1, n)

NumberOf(digits) == FoldLeft(LAMBDA n, d : n * Radix + d, 0, digits)

\* ParseChunkSize: digits, then spaces.
Refused == MaxInt + 1   \* stands for a line that is refused
ParseChunkSize[line \in Seq(Byte)] ==
    LET len == SelectLastInSeq(line, LAMBDA x : x # SPACE)
        digits == UpTo(line, len)
    IN IF \/ digits = <<>>
          \/ \E i \in DOMAIN digits : digits[i] >= Radix
       THEN Refused
       ELSE NumberOf(digits)

\* What a complete line means to the decoder.
TakeLine(d, line) ==
    IF d.last
    THEN [d EXCEPT !.eof = (line = <<>>)]
    ELSE IF d.terminator
    THEN [d EXCEPT !.terminator = FALSE, !.error = (line # <<>>)]
    ELSE LET semicolon == Find(line, SEMICOLON)
             size == ParseChunkSize[IF semicolon = 0 THEN line ELSE UpTo(line, semicolon - 1)]
         IN IF line = <<>> \/ size \notin 0 .. MaxInt
            THEN [d EXCEPT !.error = TRUE]
            ELSE [d EXCEPT !.remaining = size, !.last = (size = 0)]

DropCR(s) == IF s # <<>> /\ s[Len(s)] = CR THEN Front(s) ELSE s

\* Fault: the CR at the end of a piece stays in the buffered line.
SavePartial_KeepCR(d, buf) ==
    IF Len(d.line) + Len(buf) > MaxLineBuf
    THEN [d EXCEPT !.error = TRUE]
    ELSE [d EXCEPT !.line = @ \o buf]

\* No line feed: the partial line is kept for the next piece.
SavePartial(d, buf) ==
    IF Len(d.line) + Len(DropCR(buf)) > MaxLineBuf
    THEN [d EXCEPT !.error = TRUE]
    ELSE [d EXCEPT !.line = @ \o DropCR(buf)]

\* ScanForChunkRemaining: the decoder after the first line of buf, or after
\* all of buf when no line ends in it.
ScanForChunkRemaining(d, buf) ==
    LET lf == Find(buf, LF) IN
    IF lf = 0
    THEN SavePartial(d, buf)
    ELSE [TakeLine(d, d.line \o DropCR(UpTo(buf, lf - 1))) EXCEPT !.line = <<>>]

Consumed(buf) == LET lf == Find(buf, LF) IN IF lf = 0 THEN Len(buf) ELSE lf

From(s, n) == SubSeq(s, n + 1, Len(s))

Decoder ==
    [remaining : Nat, line : Seq(Byte), terminator : BOOLEAN, last : BOOLEAN,
     eof : BOOLEAN, after : Nat, out : Seq(Byte), error : BOOLEAN]

\* The bytes num of the chunk go to the caller.
TakeData(d, buf, num) ==
    [d EXCEPT !.remaining = @ - num,
              !.out = @ \o UpTo(buf, num),
              !.terminator = (d.remaining = num)]

\* One turn of the loop of FilterBuf: the decoder and the bytes that are left.
Turn(d, buf) ==
    IF d.remaining > 0
    THEN LET num == IF d.remaining < Len(buf) THEN d.remaining ELSE Len(buf)
         IN <<TakeData(d, buf, num), From(buf, num)>>
    ELSE <<ScanForChunkRemaining(d, buf), From(buf, Consumed(buf))>>

\* The loop, for a decoder and the bytes that are left.
Filter[s \in Decoder \X Seq(Byte)] ==
    LET d == s[1]
        buf == s[2]
    IN IF buf = <<>> \/ d.error
       THEN d
       ELSE IF d.remaining = 0 /\ d.eof
       THEN [d EXCEPT !.after = @ + Len(buf)]
       ELSE Filter[Turn(d, buf)]

\* The decoder after one call with the bytes buf; out gathers what the calls
\* leave in their buffers.
FilterBuf(d, buf) == Filter[<<d, buf>>]

(***************************************************************************)
(* The transfer coding, to say what the decoder has to undo: the coded     *)
(* bytes fall into parts.  A part [kind, from, to, done] is made of the    *)
(* bytes from + 1 .. to and comes after done bytes of the body.            *)
(***************************************************************************)
Part == [kind : {"size", "data", "end", "trailer"}, from : Nat, to : Nat, done : Nat]

\* Where the line that begins after from and is known up to p ends: a CR there
\* is not of the line.
LineEnd(wire, from, p) == IF p > from /\ wire[p] = CR THEN p - 1 ELSE p

\* The line without what ends it.
Line(wire, x) == SubSeq(wire, x.from + 1, LineEnd(wire, x.from, x.to - 1))

IsLine(wire, x) ==
    /\ wire[x.to] = LF
    /\ \A i \in x.from + 1 .. x.to - 1 :
          wire[i] # LF /\ (wire[i] = CR => i = x.to - 1)
    /\ Len(Line(wire, x)) <= MaxLineBuf

\* The line of a chunk of n bytes: digits, then spaces, then an extension.
IsSize(line, n) ==
    \E k \in 1 .. Len(line) : \E m \in k .. Len(line) :
        /\ \A i \in 1 .. k : line[i] < Radix
        /\ \A i \in k + 1 .. m : line[i] = SPACE
        /\ m < Len(line) => line[m + 1] = SEMICOLON
        /\ NumberOf(UpTo(line, k)) = n

\* The part y may come after the part x.
Follows(wire, x, y) ==
    /\ y.from = x.to
    /\ y.done = IF x.kind = "data" THEN x.done + (x.to - x.from) ELSE x.done
    /\ \/ x.kind = "size" /\ y.kind = "data" /\ IsSize(Line(wire, x), y.to - y.from)
       \/ x.kind = "size" /\ y.kind = "trailer" /\ IsSize(Line(wire, x), 0)
       \/ x.kind = "data" /\ y.kind = "end"
       \/ x.kind = "end" /\ y.kind = "size" /\ Line(wire, x) = <<>>
       \/ x.kind = "trailer" /\ y.kind = "trailer" /\ Line(wire, x) # <<>>

\* The part x is a line, or the next bytes of the body.
IsPart(wire, body, x) ==
    /\ x.from < x.to /\ x.to <= Len(wire) /\ x.done <= Len(body)
    /\ IF x.kind = "data"
       THEN /\ x.to - x.from <= MaxInt
            /\ x.done + (x.to - x.from) <= Len(body)
            /\ \A j \in 1 .. x.to - x.from : wire[x.from + j] = body[x.done + j]
       ELSE IsLine(wire, x)

IsFirst(x) == x.kind = "size" /\ x.from = 0 /\ x.done = 0

IsLast(wire, body, x) ==
    /\ x.kind = "trailer" /\ Line(wire, x) = <<>>
    /\ x.to = Len(wire) /\ x.done = Len(body)

\* wire is the body in chunks, and parts are its parts.
IsCoding(wire, body, parts) ==
    /\ parts # <<>>
    /\ IsFirst(parts[1])
    /\ \A i \in DOMAIN parts :
          /\ IsPart(wire, body, parts[i])
          /\ IF i = Len(parts) THEN IsLast(wire, body, parts[i])
                               ELSE Follows(wire, parts[i], parts[i + 1])
=============================================================================
