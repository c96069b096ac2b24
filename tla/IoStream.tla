------------------------------ MODULE IoStream ------------------------------
(***************************************************************************)
(* Messages over a byte stream: the framing of JSON-RPC                    *)
(* (src/src/protocols/json_rpc/protocol_client.cpp) on the loops of        *)
(* IoClient::Write and IoClient::Read (src/src/libev/io_client.cpp), from  *)
(* one end of a connection to the other.                                   *)
(*                                                                         *)
(* Message number m is its frame: HeaderLen bytes that hold its length and *)
(* then its (encoded) payload.  A byte is known by the message and the     *)
(* place in the frame it comes from.  The owner of a client closes it when *)
(* a call fails, as the observers in the repository do.                    *)
(***************************************************************************)
EXTENDS Naturals, Sequences

CONSTANTS
    HeaderLen,     \* sizeof(protocoled_size_t)
    MaxLen,        \* MAX_COMMAND_LENGTH
    Sizes,         \* the payload sizes offered, legal or not
    MaxMsgs,       \* bound on the messages accepted for sending
    Word,          \* size_t is 0 .. Word - 1
    ShortWrites    \* the socket may take a part of what it is given

ASSUME StreamAssumption ==
    /\ HeaderLen \in Nat \ {0}
    /\ MaxLen \in Nat
    /\ Sizes \subseteq Nat
    /\ MaxMsgs \in Nat
    /\ Word \in Nat /\ Word > HeaderLen + MaxLen
    /\ ShortWrites \in BOOLEAN

VARIABLES
    msgs,       \* payload size of each message given to WriteMessage
    wst,        \* the writing end: "idle", "writing" or "closed"
    total,      \* total and bytes_left of IoClient::Write
    bytes_left,
    out,        \* history: what this Write has put on the wire
    wire,       \* the bytes on their way
    rst,        \* the reading end: "idle", "size", "body", "closed"
                \* or "refused", which is closed because of the header
    want,       \* max_size of IoClient::Read
    buf,        \* out_data of IoClient::Read, up to its total
    received    \* the commands ReadCommand returned

writer == <<msgs, wst, total, bytes_left, out>>
reader == <<rst, want, buf, received>>
vars == <<writer, wire, reader>>

Msg == 1 .. MaxMsgs
Garbage == 0
Byte == [m : Msg, i : 1 .. HeaderLen + MaxLen]

TypeOK ==
    /\ msgs \in Seq(1 .. MaxLen) /\ Len(msgs) <= MaxMsgs
    /\ wst \in {"idle", "writing", "closed"}
    /\ total \in Nat
    /\ bytes_left \in 0 .. Word - 1
    /\ out \in Seq(Byte)
    /\ wire \in Seq(Byte)
    /\ rst \in {"idle", "size", "body", "closed", "refused"}
    /\ want \in 0 .. HeaderLen + MaxLen
    /\ buf \in Seq(Byte) /\ Len(buf) <= want
    /\ received \in Seq(Msg \cup {Garbage})

Init ==
    /\ msgs = <<>>
    /\ wst = "idle"
    /\ total = 0
    /\ bytes_left = 0
    /\ out = <<>>
    /\ wire = <<>>
    /\ rst = "idle"
    /\ want = 0
    /\ buf = <<>>
    /\ received = <<>>

\* The message being written, its frame, and its header and payload.
Last == Len(msgs)
FrameLen(m) == HeaderLen + msgs[m]
Frame(m) == [i \in 1 .. FrameLen(m) |-> [m |-> m, i |-> i]]
Header(m) == SubSeq(Frame(m), 1, HeaderLen)
Payload(m) == SubSeq(Frame(m), HeaderLen + 1, FrameLen(m))

(***************************************************************************)
(* The writing end.                                                        *)
(***************************************************************************)

\* WriteMessage with an encoded message of size bytes: an empty one and one
\* over the limit are errors that leave the connection as it is.
WriteMessage(size) ==
    /\ wst = "idle"
    /\ Len(msgs) < MaxMsgs
    /\ size # 0 /\ ~(size > MaxLen)
    /\ msgs' = Append(msgs, size)
    /\ wst' = "writing"
    /\ total' = 0
    /\ bytes_left' = HeaderLen + size
    /\ out' = <<>>
    /\ UNCHANGED <<wire, reader>>

\* The state after Write has sent sum bytes: WriteMessage takes a number other
\* than the size of the frame for an error.
AfterWrite(sum) ==
    IF sum < FrameLen(Last) THEN "writing"
    ELSE IF sum = FrameLen(Last) THEN "idle" ELSE "closed"

\* Fault: the last byte is left out.
SingleWrite_Truncated(n) ==
    /\ wst = "writing"
    /\ n \in 1 .. FrameLen(Last)
    /\ ~ShortWrites => n = FrameLen(Last)
    /\ wire' = wire \o SubSeq(Frame(Last), 1, n - 1)
    /\ out' = out \o SubSeq(Frame(Last), 1, n - 1)
    /\ total' = total + n
    /\ bytes_left' = (bytes_left + Word - n) % Word
    /\ wst' = AfterWrite(total + n)
    /\ UNCHANGED <<msgs, reader>>

\* One turn of the loop in IoClient::Write.  SingleWrite is given data and
\* size in every turn, and takes n bytes of it.
SingleWrite(n) ==
    /\ wst = "writing"
    /\ n \in 1 .. FrameLen(Last)
    /\ ~ShortWrites => n = FrameLen(Last)
    /\ wire' = wire \o SubSeq(Frame(Last), 1, n)
    /\ out' = out \o SubSeq(Frame(Last), 1, n)
    /\ total' = total + n
    /\ bytes_left' = (bytes_left + Word - n) % Word
    /\ wst' = AfterWrite(total + n)
    /\ UNCHANGED <<msgs, reader>>

\* SingleWrite fails, or writes nothing: Write returns with nwrite_out = 0
\* and WriteMessage with an error.
WriteFails ==
    /\ wst = "writing"
    /\ wst' = "closed"
    /\ UNCHANGED <<msgs, total, bytes_left, out, wire, reader>>

(***************************************************************************)
(* The reading end.                                                        *)
(***************************************************************************)

\* DataReceived: ReadCommand begins to read the length.
ReadCommand ==
    /\ rst = "idle"
    /\ wire # <<>>
    /\ rst' = "size"
    /\ want' = HeaderLen
    /\ buf' = <<>>
    /\ UNCHANGED <<writer, wire, received>>

\* One turn of the loop in IoClient::Read: n bytes go to out_data + total.
SingleRead(n) ==
    /\ rst \in {"size", "body"}
    /\ n \in 1 .. want - Len(buf)
    /\ n <= Len(wire)
    /\ buf' = buf \o SubSeq(wire, 1, n)
    /\ wire' = SubSeq(wire, n + 1, Len(wire))
    /\ UNCHANGED <<writer, rst, want, received>>

\* SingleRead fails, or reads nothing: what was read so far is lost.
ReadFails ==
    /\ rst \in {"size", "body"}
    /\ Len(buf) < want
    /\ rst' = "closed"
    /\ UNCHANGED <<writer, wire, want, buf, received>>

\* The number in a header: bytes that are no header may be any number.
HeaderValues(b) ==
    IF \E m \in 1 .. Len(msgs) : b = Header(m)
    THEN {msgs[b[1].m]}
    ELSE 0 .. MaxLen + 1

\* Fault: the limit itself is refused.
ReadDataSize_Limit ==
    /\ rst = "size"
    /\ Len(buf) = want
    /\ \E message_size \in HeaderValues(buf) :
          IF message_size >= MaxLen \/ message_size = 0
          THEN rst' = "refused" /\ UNCHANGED <<want, buf>>
          ELSE rst' = "body" /\ want' = message_size /\ buf' = <<>>
    /\ UNCHANGED <<writer, wire, received>>

\* The length is there: over the limit, or zero, it is an error.
ReadDataSize ==
    /\ rst = "size"
    /\ Len(buf) = want
    /\ \E message_size \in HeaderValues(buf) :
          IF message_size > MaxLen \/ message_size = 0
          THEN rst' = "refused" /\ UNCHANGED <<want, buf>>
          ELSE rst' = "body" /\ want' = message_size /\ buf' = <<>>
    /\ UNCHANGED <<writer, wire, received>>

\* Fault: the loop of Read ends one byte early.
ReadMessage_Short ==
    /\ rst = "body"
    /\ Len(buf) = IF want > 1 THEN want - 1 ELSE want
    /\ rst' = "idle"
    /\ received' = Append(received, buf[1].m)
    /\ UNCHANGED <<writer, wire, want, buf>>

\* The payload is there and is decoded: it is a message, or nonsense.
ReadMessage ==
    /\ rst = "body"
    /\ Len(buf) = want
    /\ rst' = "idle"
    /\ received' = Append(received,
                          IF \E m \in 1 .. Len(msgs) : buf = Payload(m)
                          THEN buf[1].m ELSE Garbage)
    /\ UNCHANGED <<writer, wire, want, buf>>

Next ==
    \/ \E size \in Sizes : WriteMessage(size)
    \/ \E n \in 1 .. HeaderLen + MaxLen : SingleWrite(n) \/ SingleRead(n)
    \/ WriteFails
    \/ ReadCommand
    \/ ReadFails
    \/ ReadDataSize
    \/ ReadMessage

Spec == Init /\ [][Next]_vars

Progress ==
    \/ ReadCommand
    \/ \E n \in 1 .. HeaderLen + MaxLen : SingleRead(n)
    \/ ReadDataSize
    \/ ReadMessage

\* The loop calls DataReceived as long as there are bytes, and a Read that
\* can go on does.
FairSpec == Spec /\ WF_vars(Progress)

(***************************************************************************)
(* Properties.                                                             *)
(***************************************************************************)

\* IoClient::Write: total is "how many bytes we've sent" of the caller's
\* data, and bytes_left "how many we have left to send".
WriteSendsTheData ==
    wst = "writing" =>
        /\ out = SubSeq(Frame(Last), 1, total)
        /\ total + bytes_left = FrameLen(Last)

\* ReadCommand finds the boundaries of the frames whatever the sizes of the
\* reads: it refuses no header of a peer that keeps to the protocol, at the
\* limit of MAX_COMMAND_LENGTH as well, and returns no nonsense.
NothingRefused ==
    /\ rst # "refused"
    /\ \A i \in 1 .. Len(received) : received[i] # Garbage

\* The messages that were written, as WriteMessage reports it.
Sent == IF wst = "idle" THEN Len(msgs) ELSE Len(msgs) - 1

\* The byte after the first i bytes of frame m, and the next byte to be read.
After(m, i) ==
    IF i = 0 \/ i < FrameLen(m) THEN [m |-> m, i |-> i + 1] ELSE [m |-> m + 1, i |-> 1]
NextByte == IF wire # <<>> THEN wire[1] ELSE [m |-> Sent + 1, i |-> 1]

\* The bytes of the current frame that the reading end has taken.
Taken ==
    IF rst = "size" THEN Len(buf) ELSE IF rst = "body" THEN HeaderLen + Len(buf) ELSE 0

\* With writes that are not short the wire has frames of Sent in a row, each to
\* its end.
WireIsFrames ==
    \A j \in 1 .. Len(wire) :
        LET b == wire[j]
            end == j + FrameLen(b.m) - b.i
        IN  /\ b.m <= Sent /\ b.i <= FrameLen(b.m)
            /\ end <= Len(wire)
            /\ \A k \in j .. end : wire[k] = [m |-> b.m, i |-> b.i + (k - j)]
            /\ end < Len(wire) => wire[end + 1] = [m |-> b.m + 1, i |-> 1]
            /\ end = Len(wire) => b.m = Sent

\* A write that is under way has sent nothing yet.
WriteIsWhole ==
    /\ wst # "idle" => Len(msgs) > 0
    /\ wst = "writing" => out = <<>> /\ total = 0 /\ bytes_left = FrameLen(Last)

\* The reading end is never ahead of the frames or behind: at every moment of
\* ReadCommand, whatever the sizes of the reads, the next byte on the wire is the
\* one after those it has taken of the next message to be returned.
InStep ==
    rst \in {"idle", "size", "body"} => NextByte = After(Len(received) + 1, Taken)

\* And these are the header, or the payload, of that message.
BufIsOfFrame ==
    LET m == Len(received) + 1
        Holds(first) == \A k \in 1 .. Len(buf) : buf[k] = [m |-> m, i |-> first + k]
    IN  /\ rst = "size" => m <= Sent /\ want = HeaderLen /\ Holds(0)
        /\ rst = "body" => m <= Sent /\ want = msgs[m] /\ Holds(HeaderLen)

\* What ReadCommand returned.
ReceivedInOrder ==
    Len(received) <= Sent /\ \A i \in 1 .. Len(received) : received[i] = i

\* Both ends agree on where the frames start.
StreamInv ==
    /\ TypeOK /\ NothingRefused /\ WireIsFrames /\ WriteIsWhole
    /\ InStep /\ BufIsOfFrame /\ ReceivedInOrder

\* ReadCommand returns the messages in the order of WriteMessage, each at
\* most once, none left out.
Queue == INSTANCE WorkQueue WITH
    Item <- Msg,
    accepted <- [k \in 1 .. Len(msgs) |-> k],
    delivered <- received

QueueSpec == Queue!WQSpec

\* A message that WriteMessage reported as sent is returned by ReadCommand
\* unless the reading end fails.
SentIsReceived ==
    \A k \in Msg : (Sent >= k) ~> (Len(received) >= k \/ rst = "closed")

=============================================================================
