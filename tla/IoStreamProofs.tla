--------------------------- MODULE IoStreamProofs ---------------------------
(***************************************************************************)
(* The framing of JSON-RPC for any header, sizes and numbers of messages,  *)
(* on a socket that takes what it is given: ReadCommand finds the frames   *)
(* whatever the pieces in which it reads them, and the connection is a     *)
(* queue of messages.                                                      *)
(***************************************************************************)
EXTENDS IoStream, SequenceTheorems, TLAPS

(***************************************************************************)
(* Frames.                                                                 *)
(***************************************************************************)

\* A message has a legal size, and its frame a length that fits size_t.
LEMMA MsgSize ==
    ASSUME TypeOK, NEW m \in 1 .. Len(msgs)
    PROVE  /\ msgs[m] \in 1 .. MaxLen /\ m \in Msg /\ Len(msgs) \in Nat
           /\ FrameLen(m) \in HeaderLen + 1 .. HeaderLen + MaxLen
           /\ FrameLen(m) \in Nat /\ FrameLen(m) < Word
           /\ HeaderLen \in Nat /\ HeaderLen > 0 /\ MaxLen \in Nat
<1>1. msgs[m] \in 1 .. MaxLen /\ Len(msgs) \in Nat
  <2>1. msgs \in Seq(1 .. MaxLen)
    BY DEF TypeOK
  <2> QED  BY <2>1, ElementOfSeq, LenProperties
<1>2. m \in Msg
  BY StreamAssumption, <1>1 DEF Msg, TypeOK
<1> QED  BY StreamAssumption, <1>1, <1>2 DEF FrameLen

\* The bytes of a frame, and its two parts.
LEMMA FrameParts ==
    ASSUME TypeOK, NEW m \in 1 .. Len(msgs)
    PROVE  /\ Frame(m) \in Seq(Byte) /\ Len(Frame(m)) = FrameLen(m)
           /\ \A i \in 1 .. FrameLen(m) : Frame(m)[i] = [m |-> m, i |-> i]
           /\ Header(m) = [i \in 1 .. HeaderLen |-> [m |-> m, i |-> i]]
           /\ Payload(m) = [i \in 1 .. msgs[m] |-> [m |-> m, i |-> HeaderLen + i]]
<1>1. /\ msgs[m] \in 1 .. MaxLen /\ m \in Msg
      /\ FrameLen(m) \in HeaderLen + 1 .. HeaderLen + MaxLen
      /\ FrameLen(m) \in Nat
      /\ HeaderLen \in Nat /\ HeaderLen > 0 /\ MaxLen \in Nat
  BY MsgSize
<1>2. \A i \in 1 .. FrameLen(m) : [m |-> m, i |-> i] \in Byte
  BY <1>1 DEF Byte
<1>3. Frame(m) \in Seq(Byte) /\ Len(Frame(m)) = FrameLen(m)
  BY <1>1, <1>2 DEF Frame
<1>4. \A i \in 1 .. FrameLen(m) : Frame(m)[i] = [m |-> m, i |-> i]
  BY DEF Frame
<1>5. Header(m) = [i \in 1 .. HeaderLen |-> [m |-> m, i |-> i]]
  <2>1. Header(m) = [i \in 1 .. HeaderLen |-> Frame(m)[i]]
    BY <1>1, <1>3 DEF Header
  <2>2. \A i \in 1 .. HeaderLen : Frame(m)[i] = [m |-> m, i |-> i]
    BY <1>1, <1>4
  <2> QED  BY <2>1, <2>2
<1>6. Payload(m) = [i \in 1 .. msgs[m] |-> [m |-> m, i |-> HeaderLen + i]]
  <2>1. FrameLen(m) - HeaderLen = msgs[m]
    BY <1>1 DEF FrameLen
  <2>2. Payload(m) = [i \in 1 .. msgs[m] |-> Frame(m)[HeaderLen + i]]
    <3>1. /\ HeaderLen + 1 \in 1 .. FrameLen(m) + 1
          /\ FrameLen(m) \in HeaderLen + 1 - 1 .. Len(Frame(m))
      BY <1>1, <1>3
    <3>2. /\ Payload(m) \in Seq(Byte) /\ Len(Payload(m)) = msgs[m]
          /\ \A i \in 1 .. msgs[m] : Payload(m)[i] = Frame(m)[HeaderLen + i]
      BY <1>1, <1>3, <2>1, <3>1 DEF Payload
    <3> QED  BY <3>2
  <2>3. \A i \in 1 .. msgs[m] : Frame(m)[HeaderLen + i] = [m |-> m, i |-> HeaderLen + i]
    BY <1>1, <1>4, <2>1
  <2> QED  BY <2>2, <2>3
<1> QED  BY <1>3, <1>4, <1>5, <1>6

\* The bytes on the wire have their type, and are of messages that were written.
LEMMA WireByte ==
    ASSUME TypeOK, WireIsFrames, WriteIsWhole, NEW j \in 1 .. Len(wire)
    PROVE  /\ wire[j] \in Byte
           /\ wire[j].m \in 1 .. Sent /\ wire[j].m \in 1 .. Len(msgs)
           /\ wire[j].i \in 1 .. FrameLen(wire[j].m)
           /\ wire[j] = [m |-> wire[j].m, i |-> wire[j].i]
<1>1. wire[j] \in Byte
  BY DEF TypeOK
<1>2. /\ wire[j].m \in Nat /\ wire[j].m >= 1 /\ wire[j].i \in Nat /\ wire[j].i >= 1
      /\ wire[j] = [m |-> wire[j].m, i |-> wire[j].i]
  BY <1>1, StreamAssumption DEF Byte, Msg
<1>3. wire[j].m <= Sent /\ wire[j].i <= FrameLen(wire[j].m)
  BY DEF WireIsFrames
<1>4. Len(msgs) \in Nat /\ Sent \in Int /\ Sent <= Len(msgs)
  BY DEF TypeOK, Sent
<1>5. wire[j].m \in 1 .. Sent /\ wire[j].m \in 1 .. Len(msgs)
  BY <1>2, <1>3, <1>4
<1>6. FrameLen(wire[j].m) \in Nat
  BY <1>5, MsgSize
<1> QED  BY <1>1, <1>2, <1>3, <1>5, <1>6

(***************************************************************************)
(* The invariant.                                                          *)
(***************************************************************************)

\* It holds before the first message.
LEMMA InitStream == Init => StreamInv
<1> SUFFICES ASSUME Init PROVE StreamInv
  OBVIOUS
<1> USE DEF Init
<1>1. Len(<<>>) = 0 /\ 1 .. 0 = {} /\ \A S : <<>> \in Seq(S)
  OBVIOUS
<1>2. TypeOK
  BY <1>1, StreamAssumption DEF TypeOK
<1>3. NothingRefused /\ WireIsFrames /\ WriteIsWhole
  BY <1>1 DEF NothingRefused, WireIsFrames, WriteIsWhole
<1>4. InStep
  BY <1>1 DEF InStep, NextByte, After, Taken, Sent
<1>5. BufIsOfFrame /\ ReceivedInOrder
  BY <1>1 DEF BufIsOfFrame, ReceivedInOrder, Sent
<1> QED  BY <1>2, <1>3, <1>4, <1>5 DEF StreamInv

\* A step of the writing end that puts nothing on the wire and reports nothing as
\* sent leaves the two ends in step.
LEMMA ReaderStays ==
    ASSUME StreamInv, UNCHANGED <<wire, rst, want, buf, received>>, Sent' = Sent,
           \A m \in 1 .. Len(msgs) : msgs'[m] = msgs[m]
    PROVE  NothingRefused' /\ WireIsFrames' /\ InStep' /\ BufIsOfFrame' /\ ReceivedInOrder'
<1> USE DEF StreamInv
<1>1. \A m \in 1 .. Len(msgs) : FrameLen(m)' = FrameLen(m)
  BY DEF FrameLen
<1>2. Len(msgs) \in Nat /\ Sent \in Int /\ Sent <= Len(msgs)
      /\ Len(received) \in Nat
  BY DEF TypeOK, Sent
<1>3. NothingRefused'
  BY DEF NothingRefused
<1>4. WireIsFrames'
  <2> SUFFICES ASSUME NEW j \in 1 .. Len(wire)
               PROVE  LET b == wire[j]
                          end == j + FrameLen(b.m)' - b.i
                      IN  /\ b.m <= Sent' /\ b.i <= FrameLen(b.m)'
                          /\ end <= Len(wire)
                          /\ \A k \in j .. end : wire[k] = [m |-> b.m, i |-> b.i + (k - j)]
                          /\ end < Len(wire) => wire[end + 1] = [m |-> b.m + 1, i |-> 1]
                          /\ end = Len(wire) => b.m = Sent'
    BY DEF WireIsFrames, FrameLen
  <2>1. wire[j].m \in 1 .. Len(msgs)
    BY WireByte
  <2>2. HeaderLen + msgs'[wire[j].m] = FrameLen(wire[j].m)
    BY <2>1 DEF FrameLen
  <2> QED  BY <2>2 DEF WireIsFrames, FrameLen
<1>5. InStep'
  <2>1. NextByte' = NextByte
    BY DEF NextByte
  <2>2. Taken' = Taken
    BY DEF Taken
  <2>3. ASSUME rst \in {"idle", "size", "body"}
        PROVE  After(Len(received) + 1, Taken)' = After(Len(received) + 1, Taken)
    <3>1. CASE Taken = 0
      BY <2>2, <3>1 DEF After
    <3>2. CASE Taken # 0
      <4>1. Len(received) + 1 \in 1 .. Len(msgs)
        BY <1>2, <2>3, <3>2 DEF BufIsOfFrame, Taken
      <4>2. HeaderLen + msgs'[Len(received) + 1] = HeaderLen + msgs[Len(received) + 1]
        BY <4>1
      <4> QED  BY <2>2, <4>2 DEF After, FrameLen
    <3> QED  BY <3>1, <3>2
  <2> QED  BY <2>1, <2>3 DEF InStep
<1>6. BufIsOfFrame'
  <2>1. ASSUME rst = "body" PROVE msgs'[Len(received) + 1] = msgs[Len(received) + 1]
    BY <1>2, <2>1 DEF BufIsOfFrame
  <2>2. BufIsOfFrame
    OBVIOUS
  <2> QED  BY <2>1, <2>2 DEF BufIsOfFrame
<1>7. ReceivedInOrder'
  BY DEF ReceivedInOrder
<1> QED  BY <1>3, <1>4, <1>5, <1>6, <1>7

\* WriteMessage begins a frame of a legal size.
LEMMA WriteMessageStep ==
    ASSUME StreamInv, NEW size \in Sizes, WriteMessage(size)
    PROVE  StreamInv'
<1> USE DEF StreamInv
<1>1. /\ wst = "idle" /\ wst' = "writing" /\ msgs' = Append(msgs, size)
      /\ Len(msgs) < MaxMsgs /\ size # 0 /\ ~(size > MaxLen)
      /\ total' = 0 /\ bytes_left' = HeaderLen + size /\ out' = <<>>
      /\ UNCHANGED <<wire, rst, want, buf, received>>
  BY DEF WriteMessage, reader
<1>2. size \in 1 .. MaxLen
  BY <1>1, StreamAssumption
<1>3. msgs \in Seq(1 .. MaxLen) /\ Len(msgs) \in Nat
  BY LenProperties DEF TypeOK
<1>4. /\ msgs' \in Seq(1 .. MaxLen)
      /\ Len(msgs') = Len(msgs) + 1
      /\ msgs'[Len(msgs) + 1] = size
      /\ \A m \in 1 .. Len(msgs) : msgs'[m] = msgs[m]
  BY <1>1, <1>2, <1>3, AppendProperties
<1>5. TypeOK'
  <2>1. HeaderLen + size \in 0 .. Word - 1 /\ Len(msgs) + 1 <= MaxMsgs
    BY <1>1, <1>2, <1>3, StreamAssumption
  <2>2. <<>> \in Seq(Byte)
    OBVIOUS
  <2> QED  BY <1>1, <1>4, <2>1, <2>2 DEF TypeOK
<1>6. Sent' = Sent
  BY <1>1, <1>3, <1>4 DEF Sent
<1>7. NothingRefused' /\ WireIsFrames' /\ InStep' /\ BufIsOfFrame' /\ ReceivedInOrder'
  BY <1>1, <1>4, <1>6, ReaderStays
<1>8. WriteIsWhole'
  <2>1. FrameLen(Last)' = HeaderLen + size
    BY <1>4 DEF FrameLen, Last
  <2>2. Len(msgs') > 0
    BY <1>3, <1>4
  <2> QED  BY <1>1, <2>1, <2>2 DEF WriteIsWhole
<1> QED  BY <1>5, <1>7, <1>8

\* A write that fails sends nothing.
LEMMA WriteFailsStep ==
    ASSUME StreamInv, WriteFails
    PROVE  StreamInv'
<1> USE DEF StreamInv
<1>1. /\ wst = "writing" /\ wst' = "closed"
      /\ UNCHANGED <<msgs, total, bytes_left, out, wire, rst, want, buf, received>>
  BY DEF WriteFails, reader
<1>2. TypeOK'
  BY <1>1 DEF TypeOK
<1>3. Sent' = Sent
  BY <1>1 DEF Sent
<1>4. NothingRefused' /\ WireIsFrames' /\ InStep' /\ BufIsOfFrame' /\ ReceivedInOrder'
  BY <1>1, <1>3, ReaderStays
<1>5. WriteIsWhole'
  BY <1>1 DEF WriteIsWhole
<1> QED  BY <1>2, <1>4, <1>5

\* A write that takes the whole frame puts it after the frames that are on the wire.
LEMMA SingleWriteStep ==
    ASSUME ~ShortWrites, StreamInv, NEW n \in 1 .. HeaderLen + MaxLen, SingleWrite(n)
    PROVE  StreamInv'
<1> USE DEF StreamInv
<1>0. PICK L \in Nat, W \in Nat : L = Len(msgs) /\ W = Len(wire)
  BY DEF TypeOK
<1>1. /\ wst = "writing" /\ n = FrameLen(L)
      /\ wire' = wire \o SubSeq(Frame(L), 1, n) /\ out' = out \o SubSeq(Frame(L), 1, n)
      /\ total' = total + n /\ bytes_left' = (bytes_left + Word - n) % Word
      /\ wst' = AfterWrite(total + n)
      /\ UNCHANGED <<msgs, rst, want, buf, received>>
  BY <1>0 DEF SingleWrite, reader, Last
<1>2. L > 0 /\ out = <<>> /\ total = 0 /\ bytes_left = n
  BY <1>0, <1>1 DEF WriteIsWhole, Last
<1>3. L \in 1 .. Len(msgs)
  BY <1>0, <1>2
<1>4. n \in Nat /\ n > 0 /\ n < Word
  BY <1>1, <1>3, MsgSize
<1>5. /\ Frame(L) \in Seq(Byte) /\ Len(Frame(L)) = n
      /\ \A i \in 1 .. n : Frame(L)[i] = [m |-> L, i |-> i]
  BY <1>1, <1>3, FrameParts
<1>6. SubSeq(Frame(L), 1, n) = Frame(L)
  BY <1>5, SubSeqFull
<1>7. wire \in Seq(Byte) /\ out \in Seq(Byte)
  BY DEF TypeOK
<1>8. /\ wire' \in Seq(Byte) /\ Len(wire') = W + n
      /\ \A k \in 1 .. W : wire'[k] = wire[k]
      /\ \A k \in W + 1 .. W + n : wire'[k] = [m |-> L, i |-> k - W]
  <2>1. /\ wire' \in Seq(Byte) /\ Len(wire') = W + n
        /\ \A k \in 1 .. W + n : wire'[k] = IF k <= W THEN wire[k] ELSE Frame(L)[k - W]
    <3>1. wire' = wire \o Frame(L) /\ Len(wire) = W /\ Len(Frame(L)) = n
      BY <1>0, <1>1, <1>5, <1>6
    <3>2. Frame(L) \in Seq(Byte)
      BY <1>5
    <3> QED  BY <1>7, <3>1, <3>2, ConcatProperties
  <2>2. \A k \in W + 1 .. W + n : k - W \in 1 .. n /\ ~(k <= W) /\ k \in 1 .. W + n
    BY <1>0, <1>4
  <2>3. \A k \in 1 .. W : k \in 1 .. W + n
    BY <1>0, <1>4
  <2> QED  BY <1>5, <2>1, <2>2, <2>3
<1>9. wst' = "idle"
  <2>1. total + n = FrameLen(Last) /\ total + n \in Nat
    BY <1>0, <1>1, <1>2, <1>4 DEF Last
  <2> QED  BY <1>1, <2>1 DEF AfterWrite
<1>10. Sent = L - 1 /\ Sent' = L
  BY <1>0, <1>1, <1>9 DEF Sent
<1>11. TypeOK'
  <2>1. out' \in Seq(Byte)
    BY <1>1, <1>5, <1>6, <1>7, ConcatProperties
  <2>2. total' \in Nat
    BY <1>1, <1>2, <1>4
  <2>3. bytes_left' \in 0 .. Word - 1
    <3>1. bytes_left + Word - n = Word /\ Word \in Nat /\ Word > 0
      BY <1>2, <1>4, StreamAssumption
    <3>2. Word % Word \in 0 .. Word - 1
      BY <3>1
    <3> QED  BY <1>1, <3>1, <3>2
  <2> QED  BY <1>1, <1>8, <1>9, <2>1, <2>2, <2>3 DEF TypeOK
<1>12. WireIsFrames'
  <2> SUFFICES ASSUME NEW j \in 1 .. Len(wire')
               PROVE  LET b == wire'[j]
                          end == j + (HeaderLen + msgs'[b.m]) - b.i
                      IN  /\ b.m <= Sent' /\ b.i <= HeaderLen + msgs'[b.m]
                          /\ end <= Len(wire')
                          /\ \A k \in j .. end : wire'[k] = [m |-> b.m, i |-> b.i + (k - j)]
                          /\ end < Len(wire') => wire'[end + 1] = [m |-> b.m + 1, i |-> 1]
                          /\ end = Len(wire') => b.m = Sent'
    BY DEF WireIsFrames, FrameLen
  <2>0. \A m : HeaderLen + msgs'[m] = FrameLen(m)
    BY <1>1 DEF FrameLen
  <2>1. CASE j \in 1 .. W
    <3>1. PICK b \in Byte : b = wire[j] /\ wire'[j] = b
      BY <1>0, <1>7, <1>8, <2>1
    <3>2. b.m \in 1 .. L - 1 /\ b.i \in 1 .. FrameLen(b.m) /\ FrameLen(b.m) \in Nat
      BY <1>0, <1>10, <2>1, <3>1, WireByte, MsgSize
    <3>3. PICK end \in Int : end = j + FrameLen(b.m) - b.i
      BY <3>2
    <3>4. /\ end <= W
          /\ \A k \in j .. end : wire[k] = [m |-> b.m, i |-> b.i + (k - j)]
          /\ end < W => wire[end + 1] = [m |-> b.m + 1, i |-> 1]
          /\ end = W => b.m = L - 1
      BY <1>0, <1>10, <2>1, <3>1, <3>3 DEF WireIsFrames
    <3>5. j <= end
      BY <2>1, <3>2, <3>3
    <3>6. \A k \in j .. end : wire'[k] = [m |-> b.m, i |-> b.i + (k - j)]
      <4> SUFFICES ASSUME NEW k \in j .. end
                   PROVE  wire'[k] = [m |-> b.m, i |-> b.i + (k - j)]
        OBVIOUS
      <4>1. k \in 1 .. W
        BY <1>0, <2>1, <3>4
      <4>2. wire'[k] = wire[k]
        BY <1>8, <4>1
      <4> QED  BY <3>4, <4>2
    <3>7. wire'[end + 1] = [m |-> b.m + 1, i |-> 1]
      <4>1. CASE end < W
        BY <1>8, <2>1, <3>4, <3>5, <4>1
      <4>2. CASE end = W
        <5>1. W + 1 \in W + 1 .. W + n /\ W + 1 - W = 1
          BY <1>0, <1>4
        <5>2. wire'[W + 1] = [m |-> L, i |-> 1]
          BY <1>8, <5>1
        <5> QED  BY <1>0, <3>4, <4>2, <5>2
      <4> QED  BY <3>4, <4>1, <4>2
    <3>8. b.m <= Sent' /\ b.i <= FrameLen(b.m) /\ end < Len(wire')
      BY <1>0, <1>4, <1>8, <1>10, <3>2, <3>4
    <3>9. end = j + (HeaderLen + msgs'[b.m]) - b.i /\ b.i <= HeaderLen + msgs'[b.m]
      BY <2>0, <3>3, <3>8
    <3>10. end <= Len(wire') /\ end # Len(wire')
      BY <1>0, <1>4, <1>8, <3>8
    <3> QED  BY <3>1, <3>6, <3>7, <3>8, <3>9, <3>10
  <2>2. CASE j \in W + 1 .. W + n
    <3>1. wire'[j] = [m |-> L, i |-> j - W]
      BY <1>8, <2>2
    <3>2. wire'[j].m = L /\ wire'[j].i = j - W /\ FrameLen(L) = n
      <4>1. wire'[j].m = L /\ wire'[j].i = j - W
        BY <3>1
      <4> QED  BY <1>1, <4>1
    <3>3. j + n - (j - W) = W + n /\ j - W <= n
      BY <1>0, <1>4, <2>2
    <3>4. \A k \in j .. W + n : wire'[k] = [m |-> L, i |-> (j - W) + (k - j)]
      <4> SUFFICES ASSUME NEW k \in j .. W + n
                   PROVE  wire'[k] = [m |-> L, i |-> (j - W) + (k - j)]
        OBVIOUS
      <4>1. k \in W + 1 .. W + n /\ k - W = (j - W) + (k - j)
        BY <1>0, <1>4, <2>2
      <4> QED  BY <1>8, <4>1
    <3>5. PICK b, end : b = wire'[j] /\ end = j + (HeaderLen + msgs'[b.m]) - b.i
      OBVIOUS
    <3>6. b.m = L /\ b.i = j - W /\ HeaderLen + msgs'[b.m] = n /\ end = W + n
      BY <2>0, <3>2, <3>3, <3>5
    <3>7. b.m <= Sent' /\ b.i <= HeaderLen + msgs'[b.m] /\ end = Len(wire') /\ b.m = Sent'
      BY <1>8, <1>10, <3>3, <3>6
    <3>8. end <= Len(wire') /\ ~(end < Len(wire'))
      BY <1>0, <1>4, <1>8, <3>6
    <3>9. \A k \in j .. end : wire'[k] = [m |-> b.m, i |-> b.i + (k - j)]
      BY <3>4, <3>6
    <3> QED  BY <3>5, <3>7, <3>8, <3>9
  <2> QED  BY <1>0, <1>4, <1>8, <2>1, <2>2
<1>13. InStep'
  <2>1. NextByte' = NextByte
    <3>1. CASE wire # <<>>
      <4>1. W > 0 /\ wire' # <<>>
        BY <1>0, <1>4, <1>7, <1>8, <3>1, EmptySeq
      <4> QED  BY <1>0, <1>8, <3>1, <4>1 DEF NextByte
    <3>2. CASE wire = <<>>
      <4>1. W = 0 /\ wire' # <<>>
        BY <1>0, <1>4, <1>8, <3>2
      <4>2. wire'[1] = [m |-> L, i |-> 1]
        BY <1>4, <1>8, <4>1
      <4> QED  BY <1>0, <1>10, <3>2, <4>1, <4>2 DEF NextByte
    <3> QED  BY <3>1, <3>2
  <2>2. After(Len(received) + 1, Taken)' = After(Len(received) + 1, Taken)
    BY <1>1 DEF After, Taken, FrameLen
  <2> QED  BY <1>1, <2>1, <2>2 DEF InStep
<1>14. BufIsOfFrame' /\ ReceivedInOrder'
  <2>1. \A k \in Int : k <= Sent => k <= Sent'
    BY <1>0, <1>10
  <2>2. Len(received) \in Nat
    BY DEF TypeOK
  <2>3. BufIsOfFrame'
    BY <1>1, <2>1, <2>2 DEF BufIsOfFrame
  <2> QED  BY <1>1, <2>1, <2>2, <2>3 DEF ReceivedInOrder
<1>15. NothingRefused' /\ WriteIsWhole'
  BY <1>1, <1>9 DEF NothingRefused, WriteIsWhole
<1> QED  BY <1>11, <1>12, <1>13, <1>14, <1>15

\* While ReadCommand has not all it wants, the wire goes on with the rest of the
\* frame that it is reading, and then with the next one.
LEMMA RestOfFrame ==
    ASSUME StreamInv, rst \in {"size", "body"}, Len(buf) < want, Len(wire) > 0
    PROVE  LET m == Len(received) + 1
               left == FrameLen(m) - Taken
           IN  /\ m \in 1 .. Len(msgs) /\ m <= Sent
               /\ Taken \in Nat /\ left \in 1 .. Len(wire)
               /\ want - Len(buf) <= left
               /\ \A k \in 1 .. left : wire[k] = [m |-> m, i |-> Taken + k]
               /\ left < Len(wire) => wire[left + 1] = [m |-> m + 1, i |-> 1]
               /\ left = Len(wire) => m = Sent
<1> USE DEF StreamInv
<1>0. PICK m \in Nat, c \in Nat : m = Len(received) + 1 /\ c = Taken
  BY StreamAssumption DEF TypeOK, Taken
<1>1. Len(wire) \in Nat /\ Len(buf) \in Nat /\ want \in Nat /\ Len(msgs) \in Nat
      /\ Sent \in Int /\ Sent <= Len(msgs)
  BY StreamAssumption DEF TypeOK, Sent
<1>2. m \in 1 .. Len(msgs) /\ m <= Sent
  <2>1. m <= Sent
    BY <1>0 DEF BufIsOfFrame
  <2>2. m >= 1
    BY <1>0 DEF TypeOK
  <2> QED  BY <1>1, <2>1, <2>2
<1>3. /\ msgs[m] \in 1 .. MaxLen /\ FrameLen(m) \in Nat
      /\ HeaderLen \in Nat /\ HeaderLen > 0 /\ MaxLen \in Nat
  BY <1>2, MsgSize
<1>4. c < FrameLen(m) /\ want - Len(buf) <= FrameLen(m) - c
  <2>1. CASE rst = "size"
    <3>1. c = Len(buf) /\ want = HeaderLen
      BY <1>0, <2>1 DEF Taken, BufIsOfFrame
    <3> QED  BY <1>1, <1>3, <3>1 DEF FrameLen
  <2>2. CASE rst = "body"
    <3>1. c = HeaderLen + Len(buf) /\ want = msgs[m]
      BY <1>0, <2>2 DEF Taken, BufIsOfFrame
    <3> QED  BY <1>1, <1>3, <3>1 DEF FrameLen
  <2> QED  BY <2>1, <2>2
<1>5. wire[1] = [m |-> m, i |-> c + 1]
  <2>1. wire # <<>>
    BY <1>1
  <2>2. NextByte = After(m, c)
    BY <1>0 DEF InStep
  <2> QED  BY <1>4, <2>1, <2>2 DEF NextByte, After
<1>6. wire[1].m = m /\ wire[1].i = c + 1 /\ 1 \in 1 .. Len(wire)
  BY <1>1, <1>5
<1>7. PICK end \in Int : end = FrameLen(m) - c /\ end = 1 + FrameLen(m) - (c + 1)
  BY <1>3
<1>8. /\ end <= Len(wire)
      /\ \A k \in 1 .. end : wire[k] = [m |-> m, i |-> (c + 1) + (k - 1)]
      /\ end < Len(wire) => wire[end + 1] = [m |-> m + 1, i |-> 1]
      /\ end = Len(wire) => m = Sent
  BY <1>6, <1>7 DEF WireIsFrames
<1>9. \A k \in 1 .. end : wire[k] = [m |-> m, i |-> c + k]
  <2>1. \A k \in 1 .. end : (c + 1) + (k - 1) = c + k
    BY <1>7
  <2> QED  BY <1>8, <2>1
<1>10. end \in 1 .. Len(wire)
  BY <1>1, <1>3, <1>4, <1>7, <1>8
<1> QED  BY <1>0, <1>2, <1>4, <1>7, <1>8, <1>9, <1>10

\* A read of any number of bytes takes the next of the frame.
LEMMA SingleReadStep ==
    ASSUME StreamInv, NEW n \in 1 .. HeaderLen + MaxLen, SingleRead(n)
    PROVE  StreamInv'
<1> USE DEF StreamInv
<1>0. PICK W \in Nat, B \in Nat : W = Len(wire) /\ B = Len(buf)
  BY DEF TypeOK
<1>1. /\ rst \in {"size", "body"} /\ n \in 1 .. want - B /\ n <= W
      /\ buf' = buf \o SubSeq(wire, 1, n) /\ wire' = SubSeq(wire, n + 1, W)
      /\ UNCHANGED <<msgs, wst, total, bytes_left, out, rst, want, received>>
  BY <1>0 DEF SingleRead, writer
<1>2. want \in Nat /\ n \in Nat /\ n > 0 /\ B + n <= want /\ n \in 1 .. W
  BY <1>0, <1>1, StreamAssumption DEF TypeOK
<1>3. PICK m \in Nat, c \in Nat, left \in Nat :
          /\ m = Len(received) + 1 /\ c = Taken /\ left = FrameLen(m) - c
          /\ m \in 1 .. Len(msgs) /\ m <= Sent /\ left \in 1 .. W /\ n <= left
          /\ \A k \in 1 .. left : wire[k] = [m |-> m, i |-> c + k]
          /\ left < W => wire[left + 1] = [m |-> m + 1, i |-> 1]
          /\ left = W => m = Sent
  <2>1. B < want /\ W > 0
    BY <1>0, <1>2
  <2>2. Len(received) + 1 \in Nat
    BY DEF TypeOK
  <2>3. FrameLen(Len(received) + 1) - Taken \in Nat /\ n <= FrameLen(Len(received) + 1) - Taken
    BY <1>0, <1>1, <1>2, <2>1, RestOfFrame
  <2> QED  BY <1>0, <1>1, <2>1, <2>2, <2>3, RestOfFrame
<1>4. wire \in Seq(Byte) /\ buf \in Seq(Byte)
  BY DEF TypeOK
<1>5. /\ buf' \in Seq(Byte) /\ Len(buf') = B + n
      /\ \A k \in 1 .. B : buf'[k] = buf[k]
      /\ \A k \in B + 1 .. B + n : buf'[k] = [m |-> m, i |-> c + (k - B)]
  <2>1. /\ SubSeq(wire, 1, n) \in Seq(Byte) /\ Len(SubSeq(wire, 1, n)) = n
        /\ \A k \in 1 .. n : SubSeq(wire, 1, n)[k] = wire[k]
    BY <1>0, <1>2, <1>4
  <2>2. /\ buf' \in Seq(Byte) /\ Len(buf') = B + n
        /\ \A k \in 1 .. B + n : buf'[k] = IF k <= B THEN buf[k] ELSE SubSeq(wire, 1, n)[k - B]
    BY <1>0, <1>1, <1>4, <2>1, ConcatProperties
  <2>3. ASSUME NEW k \in B + 1 .. B + n
        PROVE  buf'[k] = [m |-> m, i |-> c + (k - B)]
    <3>1. k - B \in 1 .. n /\ k - B \in 1 .. left /\ ~(k <= B) /\ k \in 1 .. B + n
      BY <1>0, <1>2, <1>3
    <3>2. buf'[k] = wire[k - B]
      BY <2>1, <2>2, <3>1
    <3> QED  BY <1>3, <3>1, <3>2
  <2>4. ASSUME NEW k \in 1 .. B PROVE buf'[k] = buf[k]
    <3>1. k <= B /\ k \in 1 .. B + n
      BY <1>0, <1>2
    <3> QED  BY <2>2, <3>1
  <2> QED  BY <2>2, <2>3, <2>4
<1>6. /\ wire' \in Seq(Byte) /\ Len(wire') = W - n
      /\ \A k \in 1 .. W - n : wire'[k] = wire[n + k]
  <2>1. \A k \in n + 1 .. W : wire[k] \in Byte
    BY <1>0, <1>2, <1>4
  <2>2. /\ SubSeq(wire, n + 1, W) \in Seq(Byte)
        /\ Len(SubSeq(wire, n + 1, W)) = IF n + 1 <= W THEN W - (n + 1) + 1 ELSE 0
        /\ \A k \in 1 .. W - (n + 1) + 1 : SubSeq(wire, n + 1, W)[k] = wire[(n + 1) + k - 1]
    BY <1>2, <2>1, SubSeqProperties
  <2>3. (IF n + 1 <= W THEN W - (n + 1) + 1 ELSE 0) = W - n /\ W - (n + 1) + 1 = W - n
    BY <1>0, <1>2
  <2>4. \A k \in 1 .. W - n : (n + 1) + k - 1 = n + k
    BY <1>2
  <2> QED  BY <1>1, <2>2, <2>3, <2>4
<1>7. TypeOK'
  BY <1>1, <1>2, <1>5, <1>6 DEF TypeOK
<1>8. Sent' = Sent
  BY <1>1 DEF Sent
<1>9. Taken' = c + n
  <2>1. CASE rst = "size"
    BY <1>0, <1>1, <1>3, <1>5, <2>1 DEF Taken
  <2>2. CASE rst = "body"
    BY <1>0, <1>1, <1>2, <1>3, <1>5, <2>2, StreamAssumption DEF Taken
  <2> QED  BY <1>1, <2>1, <2>2
<1>10. InStep'
  <2>1. FrameLen(m) \in Nat /\ c + n # 0 /\ c + n <= FrameLen(m)
    BY <1>2, <1>3, MsgSize
  <2>2. After(Len(received) + 1, Taken)' = IF c + n < FrameLen(m) THEN [m |-> m, i |-> (c + n) + 1]
                                          ELSE [m |-> m + 1, i |-> 1]
    BY <1>1, <1>3, <1>9, <2>1 DEF After, FrameLen
  <2>3. CASE c + n < FrameLen(m)
    <3>1. n + 1 \in 1 .. left /\ W - n > 0 /\ c + (n + 1) = (c + n) + 1
      BY <1>0, <1>2, <1>3, <2>1, <2>3
    <3>2. wire' # <<>> /\ wire'[1] = wire[n + 1]
      BY <1>2, <1>6, <3>1
    <3>3. wire'[1] = [m |-> m, i |-> (c + n) + 1]
      BY <1>3, <3>1, <3>2
    <3> QED  BY <2>2, <2>3, <3>2, <3>3 DEF InStep, NextByte
  <2>4. CASE c + n = FrameLen(m)
    <3>1. left = n
      BY <1>2, <1>3, <2>1, <2>4
    <3>2. CASE n < W
      <4>1. W - n > 0 /\ wire' # <<>> /\ wire'[1] = wire[n + 1]
        BY <1>0, <1>2, <1>6, <3>2
      <4> QED  BY <1>3, <2>2, <2>4, <3>1, <3>2, <4>1 DEF InStep, NextByte
    <3>3. CASE n = W
      <4>1. wire' = <<>>
        BY <1>0, <1>6, <3>3, EmptySeq
      <4>2. m = Sent'
        BY <1>3, <1>8, <3>1, <3>3
      <4> QED  BY <2>2, <2>4, <4>1, <4>2 DEF InStep, NextByte
    <3> QED  BY <1>0, <1>2, <3>2, <3>3
  <2> QED  BY <2>1, <2>3, <2>4, <1>2
<1>11. BufIsOfFrame'
  <2>1. ASSUME NEW first \in Nat, c = first + B,
               \A k \in 1 .. B : buf[k] = [m |-> m, i |-> first + k]
        PROVE  \A k \in 1 .. B + n : buf'[k] = [m |-> m, i |-> first + k]
    <3> SUFFICES ASSUME NEW k \in 1 .. B + n PROVE buf'[k] = [m |-> m, i |-> first + k]
      OBVIOUS
    <3>1. CASE k \in 1 .. B
      BY <1>5, <2>1, <3>1
    <3>2. CASE k \in B + 1 .. B + n
      <4>1. c + (k - B) = first + k
        BY <1>0, <2>1, <3>2
      <4> QED  BY <1>5, <3>2, <4>1
    <3> QED  BY <1>0, <1>2, <3>1, <3>2
  <2>2. CASE rst = "size"
    <3>1. want = HeaderLen /\ c = 0 + B /\ \A k \in 1 .. B : buf[k] = [m |-> m, i |-> 0 + k]
      BY <1>0, <1>3, <2>2 DEF BufIsOfFrame, Taken
    <3>2. \A k \in 1 .. B + n : buf'[k] = [m |-> m, i |-> 0 + k]
      BY <2>1, <3>1
    <3> QED  BY <1>1, <1>3, <1>5, <1>8, <2>2, <3>1, <3>2 DEF BufIsOfFrame
  <2>3. CASE rst = "body"
    <3>1. /\ want = msgs[m] /\ c = HeaderLen + B
          /\ \A k \in 1 .. B : buf[k] = [m |-> m, i |-> HeaderLen + k]
      BY <1>0, <1>3, <2>3 DEF BufIsOfFrame, Taken
    <3>2. \A k \in 1 .. B + n : buf'[k] = [m |-> m, i |-> HeaderLen + k]
      BY <2>1, <3>1, StreamAssumption
    <3> QED  BY <1>1, <1>3, <1>5, <1>8, <2>3, <3>1, <3>2 DEF BufIsOfFrame
  <2> QED  BY <1>1, <2>2, <2>3
<1>12. WireIsFrames'
  <2> SUFFICES ASSUME NEW j \in 1 .. Len(wire')
               PROVE  LET b == wire'[j]
                          end == j + (HeaderLen + msgs'[b.m]) - b.i
                      IN  /\ b.m <= Sent' /\ b.i <= HeaderLen + msgs'[b.m]
                          /\ end <= Len(wire')
                          /\ \A k \in j .. end : wire'[k] = [m |-> b.m, i |-> b.i + (k - j)]
                          /\ end < Len(wire') => wire'[end + 1] = [m |-> b.m + 1, i |-> 1]
                          /\ end = Len(wire') => b.m = Sent'
    BY DEF WireIsFrames, FrameLen
  <2>1. j \in 1 .. W - n /\ n + j \in 1 .. W
    BY <1>0, <1>2, <1>6
  <2>2. PICK b \in Byte : b = wire[n + j] /\ wire'[j] = b
    BY <1>0, <1>4, <1>6, <2>1
  <2>3. b.m \in 1 .. Len(msgs) /\ b.i \in 1 .. FrameLen(b.m) /\ FrameLen(b.m) \in Nat
    BY <1>0, <2>1, <2>2, WireByte, MsgSize
  <2>4. PICK end \in Int : end = (n + j) + FrameLen(b.m) - b.i
    BY <1>2, <2>1, <2>3
  <2>5. /\ b.m <= Sent /\ b.i <= FrameLen(b.m)
        /\ end <= W
        /\ \A k \in n + j .. end : wire[k] = [m |-> b.m, i |-> b.i + (k - (n + j))]
        /\ end < W => wire[end + 1] = [m |-> b.m + 1, i |-> 1]
        /\ end = W => b.m = Sent
    BY <1>0, <2>1, <2>2, <2>4 DEF WireIsFrames
  <2>6. PICK e \in Int : e = end - n
    BY <1>2
  <2>7. /\ e = j + (HeaderLen + msgs'[b.m]) - b.i /\ b.i <= HeaderLen + msgs'[b.m]
        /\ j <= e /\ e <= Len(wire')
    <3>1. HeaderLen + msgs'[b.m] = FrameLen(b.m)
      BY <1>1 DEF FrameLen
    <3>2. e = j + FrameLen(b.m) - b.i /\ j <= e
      BY <1>2, <2>1, <2>3, <2>4, <2>6
    <3>3. e <= W - n
      BY <1>0, <1>2, <2>5, <2>6
    <3> QED  BY <1>6, <2>5, <3>1, <3>2, <3>3
  <2>8. \A k \in j .. e : wire'[k] = [m |-> b.m, i |-> b.i + (k - j)]
    <3> SUFFICES ASSUME NEW k \in j .. e PROVE wire'[k] = [m |-> b.m, i |-> b.i + (k - j)]
      OBVIOUS
    <3>1. n + k \in n + j .. end /\ k \in 1 .. W - n
          /\ (n + k) - (n + j) = k - j
      BY <1>0, <1>2, <1>6, <2>1, <2>6, <2>7
    <3> QED  BY <1>6, <2>5, <3>1
  <2>9. e < Len(wire') => wire'[e + 1] = [m |-> b.m + 1, i |-> 1]
    <3> SUFFICES ASSUME e < Len(wire') PROVE wire'[e + 1] = [m |-> b.m + 1, i |-> 1]
      OBVIOUS
    <3>1. e + 1 \in 1 .. W - n /\ n + (e + 1) = end + 1 /\ end < W
      BY <1>0, <1>2, <1>6, <2>1, <2>6, <2>7
    <3> QED  BY <1>6, <2>5, <3>1
  <2>10. e = Len(wire') => b.m = Sent'
    BY <1>0, <1>2, <1>6, <1>8, <2>5, <2>6
  <2>11. b.m <= Sent'
    BY <1>8, <2>5
  <2> QED  BY <2>2, <2>7, <2>8, <2>9, <2>10, <2>11
<1>13. NothingRefused' /\ WriteIsWhole' /\ ReceivedInOrder'
  BY <1>1, <1>8 DEF NothingRefused, WriteIsWhole, ReceivedInOrder, FrameLen, Last
<1> QED  BY <1>7, <1>10, <1>11, <1>12, <1>13

\* What a step of the reading end leaves alone with the wire.
LEMMA WireStays ==
    ASSUME StreamInv, UNCHANGED <<msgs, wst, total, bytes_left, out, wire>>
    PROVE  WireIsFrames' /\ WriteIsWhole' /\ Sent' = Sent /\ NextByte' = NextByte
<1>1. Sent' = Sent /\ NextByte' = NextByte
  BY DEF Sent, NextByte
<1>2. WriteIsWhole'
  BY DEF StreamInv, WriteIsWhole, FrameLen, Last
<1>3. WireIsFrames'
  <2>1. WireIsFrames
    BY DEF StreamInv
  <2> QED  BY <1>1, <2>1 DEF WireIsFrames, FrameLen
<1> QED  BY <1>1, <1>2, <1>3

\* ReadCommand starts where a frame starts.
LEMMA ReadCommandStep ==
    ASSUME StreamInv, ReadCommand
    PROVE  StreamInv'
<1> USE DEF StreamInv
<1>1. /\ rst = "idle" /\ wire # <<>> /\ rst' = "size" /\ want' = HeaderLen /\ buf' = <<>>
      /\ UNCHANGED <<msgs, wst, total, bytes_left, out, wire, received>>
  BY DEF ReadCommand, writer
<1>2. WireIsFrames' /\ WriteIsWhole' /\ Sent' = Sent /\ NextByte' = NextByte
  BY <1>1, WireStays
<1>3. <<>> \in Seq(Byte) /\ Len(<<>>) = 0
  OBVIOUS
<1>4. TypeOK'
  BY <1>1, <1>3, StreamAssumption DEF TypeOK
<1>5. wire[1] = [m |-> Len(received) + 1, i |-> 1]
  BY <1>1 DEF InStep, NextByte, After, Taken
<1>6. Len(received) + 1 <= Sent
  <2>1. 1 \in 1 .. Len(wire)
    BY <1>1, EmptySeq DEF TypeOK
  <2>2. wire[1].m <= Sent
    BY <2>1 DEF WireIsFrames
  <2> QED  BY <1>5, <2>2
<1>7. InStep'
  <2>1. Taken' = 0 /\ Taken = 0
    BY <1>1, <1>3 DEF Taken
  <2> QED  BY <1>1, <1>2, <2>1 DEF InStep, After
<1>8. BufIsOfFrame'
  BY <1>1, <1>2, <1>3, <1>6 DEF BufIsOfFrame
<1>9. NothingRefused' /\ ReceivedInOrder'
  BY <1>1, <1>2 DEF NothingRefused, ReceivedInOrder
<1> QED  BY <1>2, <1>4, <1>7, <1>8, <1>9

\* A read that fails ends the reading.
LEMMA ReadFailsStep ==
    ASSUME StreamInv, ReadFails
    PROVE  StreamInv'
<1> USE DEF StreamInv
<1>1. /\ rst' = "closed"
      /\ UNCHANGED <<msgs, wst, total, bytes_left, out, wire, want, buf, received>>
  BY DEF ReadFails, writer
<1>2. WireIsFrames' /\ WriteIsWhole' /\ Sent' = Sent
  BY <1>1, WireStays
<1>3. TypeOK'
  BY <1>1 DEF TypeOK
<1>4. InStep' /\ BufIsOfFrame' /\ NothingRefused' /\ ReceivedInOrder'
  BY <1>1, <1>2 DEF InStep, BufIsOfFrame, NothingRefused, ReceivedInOrder
<1> QED  BY <1>2, <1>3, <1>4

\* The length that was read is that of the next message, which is within the limit.
LEMMA ReadDataSizeStep ==
    ASSUME StreamInv, ReadDataSize
    PROVE  StreamInv'
<1> USE DEF StreamInv
<1>0. PICK m \in Nat : m = Len(received) + 1
  BY DEF TypeOK
<1>1. /\ rst = "size" /\ Len(buf) = want /\ want = HeaderLen /\ m <= Sent
      /\ \A k \in 1 .. Len(buf) : buf[k] = [m |-> m, i |-> 0 + k]
  BY <1>0 DEF ReadDataSize, BufIsOfFrame
<1>2. m \in 1 .. Len(msgs)
  <2>1. Len(msgs) \in Nat /\ Sent \in Int /\ Sent <= Len(msgs) /\ m >= 1
    BY <1>0 DEF TypeOK, Sent
  <2>2. m <= Sent
    BY <1>1
  <2> QED  BY <2>1, <2>2
<1>3. msgs[m] \in 1 .. MaxLen /\ HeaderLen \in Nat /\ HeaderLen > 0 /\ MaxLen \in Nat
      /\ FrameLen(m) = HeaderLen + msgs[m]
  BY <1>2, MsgSize DEF FrameLen
<1>4. buf = Header(m)
  <2>1. Header(m) = [i \in 1 .. HeaderLen |-> [m |-> m, i |-> i]]
    BY <1>2, FrameParts
  <2>2. buf \in Seq(Byte) /\ buf = [k \in 1 .. HeaderLen |-> buf[k]]
    BY <1>1 DEF TypeOK
  <2>3. \A k \in 1 .. HeaderLen : buf[k] = [m |-> m, i |-> k]
    <3>1. \A k \in 1 .. HeaderLen : 0 + k = k
      OBVIOUS
    <3> QED  BY <1>1, <3>1
  <2> QED  BY <2>1, <2>2, <2>3
<1>5. HeaderValues(buf) = {msgs[m]}
  <2>1. buf[1].m = m
    BY <1>1, <1>3
  <2> QED  BY <1>2, <1>4, <2>1 DEF HeaderValues
<1>6. /\ rst' = "body" /\ want' = msgs[m] /\ buf' = <<>>
      /\ UNCHANGED <<msgs, wst, total, bytes_left, out, wire, received>>
  BY <1>3, <1>5 DEF ReadDataSize, writer
<1>7. WireIsFrames' /\ WriteIsWhole' /\ Sent' = Sent /\ NextByte' = NextByte
  BY <1>6, WireStays
<1>8. <<>> \in Seq(Byte) /\ Len(<<>>) = 0
  OBVIOUS
<1>9. TypeOK'
  <2>1. msgs[m] \in 0 .. HeaderLen + MaxLen /\ 0 <= msgs[m]
    BY <1>3
  <2> QED  BY <1>6, <1>8, <2>1 DEF TypeOK
<1>10. InStep'
  <2>1. Taken = HeaderLen /\ Taken' = HeaderLen
    BY <1>1, <1>3, <1>6, <1>8 DEF Taken
  <2>2. After(Len(received) + 1, Taken)' = After(Len(received) + 1, Taken)
    BY <1>6, <2>1 DEF After, FrameLen
  <2> QED  BY <1>1, <1>7, <2>2 DEF InStep
<1>11. BufIsOfFrame'
  BY <1>0, <1>1, <1>6, <1>7, <1>8 DEF BufIsOfFrame
<1>12. NothingRefused' /\ ReceivedInOrder'
  BY <1>6, <1>7 DEF NothingRefused, ReceivedInOrder
<1> QED  BY <1>7, <1>9, <1>10, <1>11, <1>12

\* The payload that was read is that of the next message, which is returned.
LEMMA ReadMessageIsNext ==
    ASSUME StreamInv, ReadMessage
    PROVE  /\ received' = Append(received, Len(received) + 1)
           /\ Len(received) + 1 \in 1 .. Len(msgs) /\ Len(received) + 1 <= Sent
           /\ Taken = FrameLen(Len(received) + 1)
<1> USE DEF StreamInv
<1>0. PICK m \in Nat : m = Len(received) + 1
  BY DEF TypeOK
<1>1. /\ rst = "body" /\ Len(buf) = want /\ want = msgs[m] /\ m <= Sent
      /\ \A k \in 1 .. Len(buf) : buf[k] = [m |-> m, i |-> HeaderLen + k]
  BY <1>0 DEF ReadMessage, BufIsOfFrame
<1>2. m \in 1 .. Len(msgs)
  <2>1. Len(msgs) \in Nat /\ Sent \in Int /\ Sent <= Len(msgs) /\ m >= 1
    BY <1>0 DEF TypeOK, Sent
  <2>2. m <= Sent
    BY <1>1
  <2> QED  BY <2>1, <2>2
<1>3. msgs[m] \in 1 .. MaxLen /\ MaxLen \in Nat /\ FrameLen(m) = HeaderLen + msgs[m]
  BY <1>2, MsgSize DEF FrameLen
<1>4. buf = Payload(m)
  <2>1. Payload(m) = [i \in 1 .. msgs[m] |-> [m |-> m, i |-> HeaderLen + i]]
    BY <1>2, FrameParts
  <2>2. buf = [k \in 1 .. msgs[m] |-> buf[k]]
    <3>1. buf \in Seq(Byte) /\ Len(buf) = msgs[m]
      BY <1>1 DEF TypeOK
    <3> QED  BY <3>1
  <2> QED  BY <1>1, <2>1, <2>2
<1>5. buf[1].m = m
  <2>1. Len(buf) = msgs[m] /\ 1 \in 1 .. msgs[m]
    <3>1. Len(buf) = msgs[m]
      BY <1>1
    <3>2. 1 \in 1 .. msgs[m]
      BY <1>3
    <3> QED  BY <3>1, <3>2
  <2>2. buf[1] = [m |-> m, i |-> HeaderLen + 1]
    BY <1>1, <2>1
  <2> QED  BY <2>2
<1>6. received' = Append(received, m)
  BY <1>2, <1>4, <1>5 DEF ReadMessage
<1>7. Taken = FrameLen(m)
  BY <1>1, <1>3 DEF Taken
<1> QED  BY <1>0, <1>1, <1>2, <1>6, <1>7

\* After that the reading end is where the next frame starts.
LEMMA ReadMessageStep ==
    ASSUME StreamInv, ReadMessage
    PROVE  StreamInv'
<1> USE DEF StreamInv
<1>0. PICK R \in Nat : R = Len(received)
  BY DEF TypeOK
<1>1. /\ rst = "body" /\ rst' = "idle"
      /\ UNCHANGED <<msgs, wst, total, bytes_left, out, wire, want, buf>>
  BY DEF ReadMessage, writer
<1>2. /\ received' = Append(received, R + 1) /\ R + 1 \in 1 .. Len(msgs) /\ R + 1 <= Sent
      /\ Taken = FrameLen(R + 1)
  BY <1>0, ReadMessageIsNext
<1>3. WireIsFrames' /\ WriteIsWhole' /\ Sent' = Sent /\ NextByte' = NextByte
  BY <1>1, WireStays
<1>4. R + 1 \in Msg /\ FrameLen(R + 1) \in Nat /\ FrameLen(R + 1) > 0
  BY <1>2, MsgSize, StreamAssumption
<1>5. received \in Seq(Msg \cup {Garbage})
  BY DEF TypeOK
<1>6. /\ received' \in Seq(Msg \cup {Garbage}) /\ Len(received') = R + 1
      /\ \A i \in 1 .. R : received'[i] = received[i]
      /\ received'[R + 1] = R + 1
  BY <1>0, <1>2, <1>4, <1>5, AppendProperties
<1>7. TypeOK'
  BY <1>1, <1>6 DEF TypeOK
<1>8. \A i \in 1 .. R + 1 : received'[i] = i
  BY <1>0, <1>6 DEF ReceivedInOrder
<1>9. NothingRefused' /\ ReceivedInOrder'
  <2>1. \A i \in 1 .. R + 1 : i # Garbage
    BY DEF Garbage
  <2> QED  BY <1>1, <1>2, <1>3, <1>6, <1>8, <2>1 DEF NothingRefused, ReceivedInOrder
<1>10. InStep'
  <2>1. NextByte = [m |-> (R + 1) + 1, i |-> 1]
    BY <1>0, <1>1, <1>2, <1>4 DEF InStep, After
  <2>2. Taken' = 0
    BY <1>1 DEF Taken
  <2>3. After(Len(received) + 1, Taken)' = [m |-> (R + 1) + 1, i |-> 0 + 1]
    BY <1>6, <2>2 DEF After
  <2> QED  BY <1>3, <2>1, <2>3 DEF InStep
<1>11. BufIsOfFrame'
  BY <1>1 DEF BufIsOfFrame
<1> QED  BY <1>3, <1>7, <1>9, <1>10, <1>11

\* The invariant survives every step, when no write is short.
LEMMA StepStream ==
    ASSUME ~ShortWrites, StreamInv, [Next]_vars
    PROVE  StreamInv'
<1>1. CASE UNCHANGED vars
  <2>1. UNCHANGED <<msgs, wst, total, bytes_left, out, wire, rst, want, buf, received>>
    BY <1>1 DEF vars, writer, reader
  <2>2. WireIsFrames' /\ WriteIsWhole' /\ Sent' = Sent /\ NextByte' = NextByte
    BY <2>1, WireStays
  <2>3. NothingRefused' /\ InStep' /\ BufIsOfFrame' /\ ReceivedInOrder'
    BY <2>1, <2>2, ReaderStays
  <2>4. TypeOK'
    BY <2>1 DEF StreamInv, TypeOK
  <2> QED  BY <2>2, <2>3, <2>4 DEF StreamInv
<1>2. ASSUME NEW size \in Sizes, WriteMessage(size) PROVE StreamInv'
  BY <1>2, WriteMessageStep
<1>3. ASSUME NEW n \in 1 .. HeaderLen + MaxLen, SingleWrite(n) PROVE StreamInv'
  BY <1>3, SingleWriteStep
<1>4. ASSUME NEW n \in 1 .. HeaderLen + MaxLen, SingleRead(n) PROVE StreamInv'
  BY <1>4, SingleReadStep
<1>5. CASE WriteFails
  BY <1>5, WriteFailsStep
<1>6. CASE ReadCommand
  BY <1>6, ReadCommandStep
<1>7. CASE ReadFails
  BY <1>7, ReadFailsStep
<1>8. CASE ReadDataSize
  BY <1>8, ReadDataSizeStep
<1>9. CASE ReadMessage
  BY <1>9, ReadMessageStep
<1> QED  BY <1>1, <1>2, <1>3, <1>4, <1>5, <1>6, <1>7, <1>8, <1>9 DEF Next

\* On a socket that takes what it is given, IoClient::Read in pieces of any sizes
\* gives ReadCommand the frames of WriteMessage: none refused, none torn.
THEOREM StreamInvariance == ~ShortWrites => (Spec => []StreamInv)
<1> SUFFICES ASSUME ~ShortWrites PROVE Spec => []StreamInv
  OBVIOUS
<1>1. Init => StreamInv
  BY InitStream
<1>2. StreamInv /\ [Next]_vars => StreamInv'
  BY StepStream
<1> QED  BY <1>1, <1>2, PTL DEF Spec

(***************************************************************************)
(* The queue of messages.                                                  *)
(***************************************************************************)

\* Every step of the connection is a step of the queue, or none.
LEMMA StepQueue ==
    ASSUME StreamInv, [Next]_vars
    PROVE  [Queue!WQNext]_(Queue!wqvars)
<1> DEFINE accepted == [k \in 1 .. Len(msgs) |-> k]
<1> USE DEF StreamInv
<1>1. CASE UNCHANGED <<msgs, received>>
  BY <1>1 DEF Queue!wqvars
<1>2. ASSUME NEW size \in Sizes, WriteMessage(size) PROVE Queue!WQNext
  <2>1. msgs' = Append(msgs, size) /\ Len(msgs) < MaxMsgs /\ received' = received
    BY <1>2 DEF WriteMessage, reader
  <2>2. Len(msgs) \in Nat /\ Len(msgs') = Len(msgs) + 1
    BY <1>2, <2>1, StreamAssumption DEF TypeOK
  <2>3. PICK item \in Msg : item = Len(msgs) + 1
    BY <2>1, <2>2, StreamAssumption DEF Msg
  <2>4. accepted' = Append(accepted, item)
    BY <2>2, <2>3
  <2>5. Queue!Accept(item)
    BY <2>1, <2>4 DEF Queue!Accept
  <2> QED  BY <2>5 DEF Queue!WQNext
<1>3. CASE ReadMessage
  <2>1. /\ received' = Append(received, Len(received) + 1)
        /\ Len(received) + 1 \in 1 .. Len(msgs)
    BY <1>3, ReadMessageIsNext
  <2>2. msgs' = msgs
    BY <1>3 DEF ReadMessage, writer
  <2>3. Len(msgs) \in Nat /\ Len(received) \in Nat
    BY DEF TypeOK
  <2>4. Len(accepted) = Len(msgs) /\ accepted[Len(received) + 1] = Len(received) + 1
    BY <2>1, <2>3
  <2>5. Queue!Deliver
    BY <2>1, <2>2, <2>3, <2>4 DEF Queue!Deliver
  <2> QED  BY <2>5 DEF Queue!WQNext
<1>4. CASE UNCHANGED vars
  BY <1>1, <1>4 DEF vars, writer, reader
<1>5. CASE \E n \in 1 .. HeaderLen + MaxLen : SingleWrite(n) \/ SingleRead(n)
  BY <1>1, <1>5 DEF SingleWrite, SingleRead, writer, reader
<1>6. CASE WriteFails \/ ReadCommand \/ ReadFails \/ ReadDataSize
  BY <1>1, <1>6 DEF WriteFails, ReadCommand, ReadFails, ReadDataSize, writer, reader
<1> QED  BY <1>2, <1>3, <1>4, <1>5, <1>6 DEF Next

\* ReadCommand returns the messages of WriteMessage in order, each at most once and
\* none left out: the connection implements the queue of work.
THEOREM ImplementsWorkQueue == ~ShortWrites => (Spec => QueueSpec)
<1> SUFFICES ASSUME ~ShortWrites PROVE Spec => QueueSpec
  OBVIOUS
<1>1. Init => Queue!WQInit
  BY DEF Init, Queue!WQInit
<1>2. StreamInv /\ [Next]_vars => [Queue!WQNext]_(Queue!wqvars)
  BY StepQueue
<1>3. Spec => []StreamInv
  BY StreamInvariance
<1> QED  BY <1>1, <1>2, <1>3, PTL DEF Spec, QueueSpec, Queue!WQSpec
=============================================================================
