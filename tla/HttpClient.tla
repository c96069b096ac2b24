----------------------------- MODULE HttpClient -----------------------------
(***************************************************************************)
(* net::IHttpClient (src/src/net/http_client.cpp): a request is written to *)
(* a blocking socket and ReadResponse gets the answer with several reads,  *)
(* each of which returns any number of the bytes that have arrived.  The   *)
(* server, which may close the connection at any moment, and the network   *)
(* are the environment.                                                    *)
(*                                                                         *)
(* A byte on the wire is <<"body", b>>; a head is two bytes, <<"start", r>>*)
(* (the status line and the headers) and <<"end", r>> (its CRLFCRLF), for  *)
(* the response number r.  The caller behaves as PostHttpFile does: one    *)
(* request at a time, and it disconnects after an error.                   *)
(***************************************************************************)
EXTENDS Integers, ChunkedDecoder

CONSTANTS
    Responses,   \* the responses of the server, a sequence of records
                 \* [length, chunked, body, wire, parts]; length -1: no
                 \* such header
    HeadBuf,     \* kHeaderBufInitialSize
    MaxRequests  \* how many requests are made

\* The server keeps to HTTP: a body that is not chunked is sent as it is, with
\* its length or without, and a chunked one is coded as it should be and comes
\* without a Content-Length.  The code relies on it: of a body that is longer
\* than its Content-Length ReadResponse would copy the bytes that came with the
\* head over the end of its buffer ("overflow" below), which is out of the reach
\* of this model.
ASSUME ResponsesAssumption ==
    /\ Responses \in Seq([length : Int, chunked : BOOLEAN, body : Seq(Byte),
                         wire : Seq(Byte), parts : Seq(Part)])
    /\ \A i \in DOMAIN Responses :
          LET r == Responses[i] IN
          IF r.chunked THEN r.length = -1 /\ IsCoding(r.wire, r.body, r.parts)
                       ELSE r.wire = r.body /\ r.length \in {-1, Len(r.body)}

VARIABLES
    pc,          \* where the client is in the protocol
    last_request_,
    wire,        \* the bytes that have arrived and are not read
    todo,        \* the bytes the server has still to send
    closed,      \* the server has closed the connection
    answer,      \* the response the server gives to the last request, 0: none
    parsed,      \* ReadResponse: the response whose head was parsed
    body,        \* ReadResponse: the bytes of the body so far
    rest,        \* ReadResponse: how many bytes are left to read
    result,      \* what the last ReadResponse returned: <<"ok", body>>,
                 \* <<"error">> or <<>>
    cut,         \* history: the server closed in the middle of its answer
    requests     \* how many requests were made

client == <<pc, last_request_, parsed, body, rest, result, requests>>
server == <<todo, closed, answer, cut>>
vars == <<client, server, wire>>

Request == {"get", "head", "post"}
Reading == {"head", "drain", "length"}

Init ==
    /\ pc = "down"
    /\ last_request_ = "none"
    /\ wire = <<>> /\ todo = <<>>
    /\ closed = FALSE /\ cut = FALSE
    /\ answer = 0 /\ parsed = 0
    /\ body = <<>> /\ rest = 0
    /\ result = <<>> /\ requests = 0

Bytes(s) == [i \in DOMAIN s |-> <<"body", s[i]>>]
HeadOf(r) == <<<<"start", r>>, <<"end", r>>>>

(***************************************************************************)
(* The server and the network.                                             *)
(***************************************************************************)
ServerSend ==
    /\ todo # <<>>
    /\ wire' = Append(wire, todo[1])
    /\ todo' = Tail(todo)
    /\ UNCHANGED <<client, closed, answer, cut>>

ServerClose ==
    /\ pc # "down" /\ ~closed
    /\ closed' = TRUE
    /\ cut' = (cut \/ todo # <<>>)
    /\ todo' = <<>>
    /\ UNCHANGED <<client, answer, wire>>

(***************************************************************************)
(* Connecting and sending.                                                 *)
(***************************************************************************)
Connect ==
    /\ pc = "down"
    /\ pc' = "idle"
    /\ UNCHANGED <<last_request_, parsed, body, rest, result, requests, server, wire>>

Disconnect ==
    /\ pc \in {"idle", "sent", "failed"}
    /\ pc' = "down"
    /\ wire' = <<>> /\ todo' = <<>> /\ closed' = FALSE
    /\ answer' = 0 /\ cut' = FALSE /\ result' = <<>>
    /\ UNCHANGED <<last_request_, parsed, body, rest, requests>>

\* SendRequest: nwrite is not looked at, so a short write is a success too
\* and the server waits for the rest of the request.
SendRequest(req) ==
    /\ pc = "idle" /\ requests < MaxRequests
    /\ requests' = requests + 1
    /\ last_request_' = req
    /\ pc' = "sent"
    /\ result' = <<>> /\ cut' = FALSE
    /\ \/ /\ ~closed
          /\ \E r \in DOMAIN Responses :
                /\ answer' = r
                /\ todo' = HeadOf(r) \o (IF req = "head" THEN <<>> ELSE Bytes(Responses[r].wire))
       \/ answer' = 0 /\ UNCHANGED todo
    /\ UNCHANGED <<wire, closed, parsed, body, rest>>

SendFails ==
    /\ pc = "idle" /\ requests < MaxRequests
    /\ requests' = requests + 1
    /\ last_request_' = "none"
    /\ pc' = "failed"
    /\ result' = <<>>
    /\ UNCHANGED <<server, wire, parsed, body, rest>>

\* PostFile: the request was written, the file was not.
SendFileFails ==
    /\ pc = "sent" /\ last_request_ = "post"
    /\ pc' = "failed"
    /\ UNCHANGED <<last_request_, parsed, body, rest, result, requests, server, wire>>

(***************************************************************************)
(* ReadResponse.                                                           *)
(***************************************************************************)
Return(res) ==
    /\ result' = res
    /\ pc' = IF res[1] = "ok" THEN "idle" ELSE "failed"
    /\ body' = <<>> /\ rest' = 0 /\ parsed' = 0

ReadResponse ==
    /\ pc = "sent"
    /\ pc' = "head"
    /\ UNCHANGED <<last_request_, parsed, body, rest, result, requests, server, wire>>

\* sock_->Read, asked for at most max bytes, returns n of those that arrived.
Read(n, max) ==
    /\ n \in 1 .. Len(wire) /\ n <= max
    /\ wire' = From(wire, n)

AtEof == wire = <<>> /\ closed

Content(s) == [i \in DOMAIN s |-> s[i][2]]

\* Fault: the bytes that came with the head are forgotten.
NotParsed_Lost(r, b) == 0

\* parse_http_response: how many of the bytes b after the head are left over.
NotParsed(r, b) == IF Len(b) = Responses[r].length THEN 0 ELSE Len(b)

\* Fault: the answer to a HEAD request is not told apart.
NoBody_NotHead == FALSE

NoBody == last_request_ = "head"

\* A failed CHECK ends the program.
Die(why) == pc' = why /\ UNCHANGED <<parsed, body, rest, result>>

\* The head of response r was parsed and the bytes b came with it.
AfterHead(r, b) ==
    LET full == Len(b) = Responses[r].length
        body_len == Responses[r].length
        left == NotParsed(r, b)
        body_str == From(b, Len(b) - left)
    IN IF NoBody
       THEN Return(<<"ok", IF full THEN b ELSE <<>>>>)
       ELSE IF full /\ b # <<>>
       THEN IF left = 0 THEN Return(<<"ok", b>>) ELSE Die("aborted")   \* CHECK_EQ
       ELSE IF Responses[r].chunked \/ body_len = -1
       THEN pc' = "drain" /\ parsed' = r /\ body' = body_str /\ UNCHANGED <<rest, result>>
       ELSE IF body_len = 0
       THEN Return(<<"ok", <<>>>>)
       ELSE /\ parsed' = r
            /\ body' = body_str
            /\ rest' = body_len - left
            /\ pc' = IF left > body_len THEN "overflow" ELSE "length"
            /\ UNCHANGED result

\* The first read: the whole head has to be in it.
ReadHead(n) ==
    /\ pc = "head" /\ Read(n, HeadBuf)
    /\ LET piece == UpTo(wire, n)
           end == SelectInSeq(piece, LAMBDA x : x[1] = "end")
       IN IF end = 0 \/ piece[1][1] # "start"
          THEN Return(<<"error">>)
          ELSE AfterHead(piece[1][2], Content(From(piece, end)))
    /\ UNCHANGED <<last_request_, requests, server>>

\* The connection was reset, or SocketTls met the end of the stream.
HeadFails ==
    /\ pc = "head" /\ AtEof
    /\ Return(<<"error">>)
    /\ UNCHANGED <<last_request_, requests, server, wire>>

\* ClientSocketTcp met the end of the stream: zero bytes and no error, and
\* make_error_from_errno reads the description of the error that is not there.
HeadEof ==
    /\ pc = "head" /\ AtEof
    /\ Die("noerror")
    /\ UNCHANGED <<last_request_, requests, server, wire>>

\* Chunked, or neither chunked nor a Content-Length: all there is to read.
ReadDrain(n) ==
    /\ pc = "drain" /\ Read(n, HeadBuf)
    /\ body' = body \o Content(UpTo(wire, n))
    /\ UNCHANGED <<pc, last_request_, parsed, rest, result, requests, server>>

\* What becomes of the chunked body: data of which the last chunk is missing
\* is taken as it is, unless there is none.
Decoded(dec) ==
    IF dec.error \/ (dec.out = <<>> /\ ~dec.eof) THEN <<"error">> ELSE <<"ok", dec.out>>

DrainEof ==
    /\ pc = "drain" /\ AtEof
    /\ \E dec \in {FilterBuf(NewDecoder, body)} :
          Return(IF Responses[parsed].chunked THEN Decoded(dec) ELSE <<"ok", body>>)
    /\ UNCHANGED <<last_request_, requests, server, wire>>

\* Content-Length: the loop reads what is left of it.
ReadLength(n) ==
    /\ pc = "length" /\ rest > 0 /\ Read(n, rest)
    /\ body' = body \o Content(UpTo(wire, n))
    /\ rest' = rest - n
    /\ UNCHANGED <<pc, last_request_, parsed, result, requests, server>>

LengthDone ==
    /\ pc = "length" /\ rest = 0
    /\ Return(<<"ok", body>>)
    /\ UNCHANGED <<last_request_, requests, server, wire>>

LengthEof ==
    /\ pc = "length" /\ rest > 0 /\ AtEof
    /\ Return(<<"error">>)
    /\ UNCHANGED <<last_request_, requests, server, wire>>

ReadStep ==
    \/ HeadFails \/ HeadEof \/ DrainEof \/ LengthDone \/ LengthEof
    \/ \E n \in 1 .. Len(wire) : ReadHead(n) \/ ReadDrain(n) \/ ReadLength(n)

Next ==
    \/ ServerSend \/ ServerClose
    \/ Connect \/ Disconnect
    \/ \E req \in Request : SendRequest(req)
    \/ SendFails \/ SendFileFails
    \/ ReadResponse \/ ReadStep

Spec == Init /\ [][Next]_vars

\* A read returns once there is something for it to return, and the network
\* delivers; nothing obliges the server to close.
FairSpec == Spec /\ WF_vars(ReadStep) /\ WF_vars(ServerSend)

(***************************************************************************)
(* Properties.                                                             *)
(***************************************************************************)
Asked == IF answer = 0 THEN [length |-> 0, chunked |-> FALSE, body |-> <<>>, wire |-> <<>>]
                       ELSE Responses[answer]

\* However the bytes are cut into reads, a response that ReadResponse returns
\* as a success has the body the server sent: all of it when a Content-Length
\* announced it or when the server closed after its last byte, the beginning
\* of it when the connection was cut, nothing after HEAD.
GoodBody ==
    result # <<>> /\ result[1] = "ok" =>
        IF last_request_ = "head"
        THEN result[2] = <<>>
        ELSE /\ IsPrefix(result[2], Asked.body)
             /\ ~cut \/ Asked.length # -1 => result[2] = Asked.body

\* A read of an answer whose end is known (from its Content-Length, or because
\* HEAD has no body) returns although the server keeps the connection open.
LengthReadReturns ==
    pc \in Reading /\ answer # 0 /\ (Asked.length # -1 \/ last_request_ = "head")
        ~> pc \notin Reading

\* HttpChunkedDecoder gives the body back, sees the end and reports no error
\* into whichever three pieces the coded bytes are cut: between CR and LF,
\* inside a size, an extension or a trailer.
PiecesDontMatter ==
    pc = "sent" /\ requests = 1 /\ Asked.chunked /\ Len(todo) > Len(Asked.wire) =>
        \A i \in 0 .. Len(Asked.wire) :
            LET d1 == FilterBuf(NewDecoder, UpTo(Asked.wire, i)) IN
            \A j \in i .. Len(Asked.wire) :
                LET d2 == FilterBuf(d1, SubSeq(Asked.wire, i + 1, j))
                    d3 == FilterBuf(d2, From(Asked.wire, j))
                IN d3.out = Asked.body /\ d3.eof /\ ~d3.error /\ d3.after = 0
=============================================================================
