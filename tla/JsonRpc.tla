------------------------------- MODULE JsonRpc -------------------------------
(***************************************************************************)
(* JSON-RPC between the two ProtocolClients of one connection: the codec   *)
(* (src/src/protocols/json_rpc/json_rpc.cpp) and the table of requests     *)
(* that wait for an answer (protocol_client.h).  Either end may call the   *)
(* other.  The connection hands over whole messages in their order, as     *)
(* IoStream shows of the framing.                                          *)
(*                                                                         *)
(* A text is one of the kinds the codec tells apart:                       *)
(*   "empty"   no character                                                *)
(*   "null"    the four letters, for which json_tokener_parse gives NULL   *)
(*   "json"    JSON, laid out as json-c does                               *)
(*   "loose"   the same JSON in another layout                             *)
(*   "front"   that JSON with other characters behind it, such as          *)
(*             12 monkeys, of which json_tokener_parse reads the front; or *)
(*             a number it alters because no int64 holds it                *)
(*   "plain"   not JSON                                                    *)
(*   "quoted"  the JSON string of "plain"                                  *)
(***************************************************************************)
EXTENDS Naturals, Sequences, FiniteSets

CONSTANTS
    Peer,       \* the two ends of the connection
    Hex,        \* MakeRequestID: the text of 0, 1, 2, ...
    MaxCalls,   \* bound on requests and notifications, both ends together
    MaxAgain,   \* bound on answers to a request that was answered before
    Params,     \* the texts used as params, None for no params
    Results     \* the texts used as results

None == "none"       \* an empty Optional
Null == "null"       \* null_json_rpc_id

ASSUME RpcAssumption ==
    /\ IsFiniteSet(Peer) /\ Cardinality(Peer) = 2
    /\ MaxCalls \in Nat /\ MaxAgain \in Nat
    /\ Hex \in Seq(STRING) /\ Len(Hex) >= MaxCalls
    /\ \A i, j \in 1 .. Len(Hex) : Hex[i] = Hex[j] => i = j
    /\ \A i \in 1 .. Len(Hex) : Hex[i] \notin {None, Null}

VARIABLES
    open,            \* [Peer -> BOOLEAN], its descriptor is open
    alive,           \* [Peer -> BOOLEAN], its program runs
    id_,             \* [Peer -> Nat]
    requests_queue_, \* [Peer -> (id -> the call whose callback is kept)]
    wire,            \* [Peer -> Seq(message)], the messages to that end
    todo,            \* [Peer -> requests its owner has read]
    calls,           \* history: each WriteRequest, and what its callback got
    answered,        \* the calls that were answered, and with which id
    again            \* the number of answers beyond the first

vars == <<open, alive, id_, requests_queue_, wire, todo, calls, answered, again>>

Other(p) == CHOOSE q \in Peer : q # p

Init ==
    /\ open = [p \in Peer |-> TRUE]
    /\ alive = [p \in Peer |-> TRUE]
    /\ id_ = [p \in Peer |-> 0]
    /\ requests_queue_ = [p \in Peer |-> <<>>]
    /\ wire = [p \in Peer |-> <<>>]
    /\ todo = [p \in Peer |-> {}]
    /\ calls = <<>>
    /\ answered = {}
    /\ again = 0

(***************************************************************************)
(* The codec.                                                              *)
(***************************************************************************)

\* The values of json-c: null, a string, an error object with its code and
\* message, one whose message is null, and anything else.
Absent == [type |-> "absent", text |-> ""]
JNull == [type |-> "null", text |-> ""]
JString(s) == [type |-> "string", text |-> s]
JError(e) == [type |-> "error", text |-> e]
JErrorNull == [type |-> "errornull", text |-> ""]
JOther == [type |-> "other", text |-> "json"]

\* A text as a JSON value: what json_tokener_parse makes of its front, a string
\* when that is NULL, and JSON's null for no text.
ToJson(s) ==
    CASE s = "empty" -> JNull
      [] s \in {"json", "loose", "front"} -> JOther
      [] s = "quoted" -> JString("plain")
      [] OTHER -> JString(s)

NoFields == [method |-> Absent, id |-> Absent, params |-> Absent,
             error |-> Absent, result |-> Absent]

\* Fault: empty params are left out.
MakeJsonRPCRequest_Empty(r) ==
    [NoFields EXCEPT
        !.method = JString(r.method),
        !.id = IF r.id = None THEN Absent ELSE JString(r.id),
        !.params = IF r.params \in {None, "empty"} THEN Absent ELSE ToJson(r.params)]

\* MakeJsonRPCRequest.  "jsonrpc" is in every object of this module.
MakeJsonRPCRequest(r) ==
    [NoFields EXCEPT
        !.method = JString(r.method),
        !.id = IF r.id = None THEN Absent ELSE JString(r.id),
        !.params = IF r.params = None THEN Absent ELSE ToJson(r.params)]

\* MakeJsonRPCResponse, of a response that holds an error or a message.
MakeJsonRPCResponse(r) ==
    IF r.error # None
    THEN [NoFields EXCEPT !.id = JString(r.id), !.error = JError(r.error)]
    ELSE [NoFields EXCEPT !.id = JString(r.id), !.result = ToJson(r.message)]

\* An id that is JSON's null is null_json_rpc_id, any other its text.
IdOf(v) == IF v.type = "null" THEN Null ELSE v.text

Inval == [kind |-> "inval"]

\* For JSON's null json_object_get_string gives a null pointer, and the assignment
\* to a std::string reads through it: the program ends.
Died == [kind |-> "died"]

\* A request; an id or params that are null are looked at, a method is not.
GetJsonRPCRequest(doc) ==
    IF doc.method = Absent THEN Inval
    ELSE IF doc.method = JNull THEN Died
    ELSE [kind |-> "request",
          id |-> IF doc.id = Absent THEN None ELSE IdOf(doc.id),
          method |-> doc.method.text,
          params |-> CASE doc.params = Absent -> None
                       [] doc.params = JNull -> "empty"
                       [] OTHER -> doc.params.text]

\* A response with the error, or the message, as the object says.  Neither the
\* message of an error nor the result may be null.
GetJsonRPCResponse(doc) ==
    LET Response(error, message) ==
            [kind |-> "response", id |-> IdOf(doc.id), error |-> error, message |-> message]
    IN  IF doc.id = Absent THEN Inval
        ELSE IF doc.error = JErrorNull THEN Died
        ELSE IF doc.error \notin {Absent, JNull}
        THEN Response(IF doc.error.type = "error" THEN doc.error.text ELSE "notrfc", None)
        ELSE IF doc.result = Absent THEN Inval
        ELSE IF doc.result = JNull THEN Died
        ELSE Response(None, doc.result.text)

\* ParseJsonRPC: a request if it can be one, else a response.
ParseJsonRPC(doc) ==
    IF GetJsonRPCRequest(doc) # Inval
    THEN GetJsonRPCRequest(doc) ELSE GetJsonRPCResponse(doc)

(***************************************************************************)
(* Calling.                                                                *)
(***************************************************************************)

Request(id, params) == [kind |-> "request", id |-> id, method |-> "method", params |-> params]

\* A message to the other end: the object, the call it makes or answers, and
\* what the sender meant ("foreign" when another implementation made it).
Message(doc, n, meant) == [doc |-> doc, call |-> n, meant |-> meant]

Send(p, msg) == wire' = [wire EXCEPT ![Other(p)] = Append(@, msg)]

\* Fault: the counter is read and not moved on.
NextRequestID_Same(p, id) == UNCHANGED id_

\* NextRequestID, when the owner takes the id of the request from it.
NextRequestID(p, id) ==
    id_' = IF id \in {None, Null} THEN id_ ELSE [id_ EXCEPT ![p] = @ + 1]

\* The ids an owner may give its next request: none makes it a notification.
RequestIds(p) == {None, Null, Hex[id_[p] + 1]}

\* Fault: the entry is stored under an id taken anew.
Stored_Fresh(p, id, n) ==
    [i \in DOMAIN requests_queue_[p] \cup {Hex[id_[p] + 2]} |->
        IF i = Hex[id_[p] + 2] THEN n ELSE requests_queue_[p][i]]

\* requests_queue_ of p after entry n was stored under id.
Stored(p, id, n) ==
    [i \in DOMAIN requests_queue_[p] \cup {id} |->
        IF i = id THEN n ELSE requests_queue_[p][i]]

\* WriteRequest: the request is written, and unless it is a notification its
\* callback is kept under its id, in place of an older one.
WriteRequest(p, id, params) ==
    /\ open[p] /\ alive[p]
    /\ Len(calls) < MaxCalls
    /\ LET n == Len(calls) + 1
           request == Request(id, params)
       IN  /\ Send(p, Message(MakeJsonRPCRequest(request), n, request))
           /\ calls' = Append(calls, [by |-> p, id |-> id, ok |-> TRUE, got |-> <<>>])
           /\ requests_queue_' = IF id = None THEN requests_queue_
                                 ELSE [requests_queue_ EXCEPT ![p] = Stored(p, id, n)]
    /\ NextRequestID(p, id)
    /\ UNCHANGED <<open, alive, todo, answered, again>>

\* WriteRequest fails and keeps nothing, though the other end may have got the
\* whole of the request; the owner closes the client.
WriteRequestFails(p, id) ==
    /\ open[p] /\ alive[p]
    /\ Len(calls) < MaxCalls
    /\ LET n == Len(calls) + 1
           request == Request(id, None)
       IN  /\ \/ Send(p, Message(MakeJsonRPCRequest(request), n, request))
              \/ UNCHANGED wire
           /\ calls' = Append(calls, [by |-> p, id |-> id, ok |-> FALSE, got |-> <<>>])
    /\ NextRequestID(p, id)
    /\ open' = [open EXCEPT ![p] = FALSE]
    /\ UNCHANGED <<alive, requests_queue_, todo, answered, again>>

(***************************************************************************)
(* Answering.                                                              *)
(***************************************************************************)

Response(id, error, message) ==
    [kind |-> "response", id |-> id, error |-> error, message |-> message]

\* MakeMessage, MakeError, and MakeErrorInvalidRequest, which has no id of its own.
OwnAnswers(id) ==
    { Response(id, None, s) : s \in Results } \cup
    { Response(id, "server", None), Response(Null, "invalid", None) }

\* Answers of another implementation: an error without a code, a null error
\* beside the result, an id that is null, no id at all, a null for the method
\* that an answer does not have, an error whose message is null.
Foreign == [kind |-> "foreign"]
ForeignAnswers(id) ==
    { [NoFields EXCEPT !.id = JString(id), !.error = JString("plain")],
      [NoFields EXCEPT !.id = JString(id), !.error = JNull, !.result = JOther],
      [NoFields EXCEPT !.id = JNull, !.error = JError("parse")],
      [NoFields EXCEPT !.result = JOther],
      [NoFields EXCEPT !.id = JString(id), !.method = JNull, !.result = JOther],
      [NoFields EXCEPT !.id = JString(id), !.error = JErrorNull] }

Answers(id) ==
    { [doc |-> MakeJsonRPCResponse(r), meant |-> r] : r \in OwnAnswers(id) } \cup
    { [doc |-> d, meant |-> Foreign] : d \in ForeignAnswers(id) }

IsAnswered(n) == \E a \in answered : a.call = n

\* The owner answers a request it has read, in any order and perhaps again.
WriteResponse(p, r, a) ==
    /\ open[p] /\ alive[p]
    /\ IsAnswered(r.call) => again < MaxAgain
    /\ Send(p, Message(a.doc, r.call, a.meant))
    /\ answered' = answered \cup {[call |-> r.call, id |-> a.doc.id.text]}
    /\ again' = IF IsAnswered(r.call) THEN again + 1 ELSE again
    /\ UNCHANGED <<open, alive, id_, requests_queue_, todo, calls>>

\* WriteResponse fails, though the other end may have got the whole of the
\* answer; the owner closes the client.
WriteResponseFails(p, r, a) ==
    /\ open[p] /\ alive[p]
    /\ ~IsAnswered(r.call)
    /\ \/ Send(p, Message(a.doc, r.call, a.meant))
       \/ UNCHANGED wire
    /\ open' = [open EXCEPT ![p] = FALSE]
    /\ UNCHANGED <<alive, id_, requests_queue_, todo, calls, answered, again>>

(***************************************************************************)
(* Reading.                                                                *)
(***************************************************************************)

\* DataReceived of p: ReadCommand gives the next message.
Reads(p) ==
    /\ open[p] /\ alive[p]
    /\ wire[p] # <<>>
    /\ wire' = [wire EXCEPT ![p] = Tail(@)]
    /\ UNCHANGED <<id_, answered, again>>

\* A request is for the owner; there is nothing to answer to a notification.
ReadRequest(p) ==
    /\ Reads(p)
    /\ LET msg == Head(wire[p])
           o == ParseJsonRPC(msg.doc)
       IN  /\ o.kind = "request"
           /\ todo' = IF o.id = None THEN todo
                      ELSE [todo EXCEPT ![p] = @ \cup {[call |-> msg.call, id |-> o.id]}]
    /\ UNCHANGED <<open, alive, requests_queue_, calls>>

Erased(q, id) == [i \in DOMAIN q \ {id} |-> q[i]]

\* PopRequestByID, and the callback it returns called with the answer to call
\* n: an answer without an entry is dropped.
PopRequestByID(p, sid, n) ==
    IF sid \in DOMAIN requests_queue_[p]
    THEN /\ calls' = [calls EXCEPT ![requests_queue_[p][sid]].got = Append(@, n)]
         /\ requests_queue_' = [requests_queue_ EXCEPT ![p] = Erased(@, sid)]
    ELSE UNCHANGED <<requests_queue_, calls>>

ReadResponse(p) ==
    /\ Reads(p)
    /\ LET msg == Head(wire[p])
           o == ParseJsonRPC(msg.doc)
       IN  /\ o.kind = "response"
           /\ PopRequestByID(p, o.id, msg.call)
    /\ UNCHANGED <<open, alive, todo>>

\* Neither a request nor a response: the owner closes the client.
ReadInvalid(p) ==
    /\ Reads(p)
    /\ ParseJsonRPC(Head(wire[p]).doc).kind = "inval"
    /\ open' = [open EXCEPT ![p] = FALSE]
    /\ UNCHANGED <<alive, requests_queue_, todo, calls>>

\* A null where the codec takes a text for granted.
ReadNull(p) ==
    /\ Reads(p)
    /\ ParseJsonRPC(Head(wire[p]).doc).kind = "died"
    /\ open' = [open EXCEPT ![p] = FALSE]
    /\ alive' = [alive EXCEPT ![p] = FALSE]
    /\ UNCHANGED <<requests_queue_, todo, calls>>

\* The end of the stream, after all that was sent was read.  The table is left
\* as it is.
ReadEof(p) ==
    /\ open[p] /\ wire[p] = <<>>
    /\ ~open[Other(p)]
    /\ open' = [open EXCEPT ![p] = FALSE]
    /\ UNCHANGED <<alive, id_, requests_queue_, wire, todo, calls, answered, again>>

Read(p) ==
    ReadRequest(p) \/ ReadResponse(p) \/ ReadInvalid(p) \/ ReadNull(p) \/ ReadEof(p)

Answer(p) ==
    \E r \in todo[p] : \E a \in Answers(r.id) :
        WriteResponse(p, r, a) \/ WriteResponseFails(p, r, a)

FirstAnswer(p, n) ==
    \E r \in todo[p] : r.call = n /\ ~IsAnswered(n)
                       /\ \E a \in Answers(r.id) : WriteResponse(p, r, a)

Next == \E p \in Peer :
    \/ \E id \in RequestIds(p) :
          \/ \E params \in Params : WriteRequest(p, id, params)
          \/ WriteRequestFails(p, id)
    \/ Answer(p)
    \/ ReadRequest(p)
    \/ ReadResponse(p)
    \/ ReadInvalid(p)
    \/ ReadNull(p)
    \/ ReadEof(p)

Spec == Init /\ [][Next]_vars

\* The loop calls DataReceived while there is something to read, the end of the
\* stream included.  That owners answer what they read is their part.
FairSpec ==
    /\ Spec
    /\ \A p \in Peer : WF_vars(Read(p))
    /\ \A p \in Peer, n \in 1 .. MaxCalls : WF_vars(FirstAnswer(p, n))

(***************************************************************************)
(* Properties.                                                             *)
(***************************************************************************)

\* json-c's own layout of the JSON at the front, a JSON string without its quotes.
Normal(s) == CASE s \in {"loose", "front"} -> "json" [] s = "quoted" -> "plain" [] OTHER -> s

\* ParseJsonRPC gives what MakeJsonRPCRequest or MakeJsonRPCResponse was given:
\* the kind, the id (none, null and a number are told apart) and the error.  The
\* text is as it was when it is not JSON; otherwise it is laid out anew, has lost
\* what was behind the JSON at its front, and the quotes of a string.  An empty
\* result is the one message that cannot be read.
ReadAsMeant ==
    \A p \in Peer : \A i \in 1 .. Len(wire[p]) :
        LET m == wire[p][i].meant
            o == ParseJsonRPC(wire[p][i].doc)
        IN  CASE m.kind = "request" -> o = [m EXCEPT !.params = Normal(@)]
              [] m.kind = "response" /\ m.message = "empty" -> o.kind = "died"
              [] m.kind = "response" /\ m.message # "empty" ->
                     o = [m EXCEPT !.message = Normal(@)]
              [] OTHER -> TRUE

Numbered(n) == calls[n].id \notin {None, Null}
IsKept(n) ==
    \E id \in DOMAIN requests_queue_[calls[n].by] : requests_queue_[calls[n].by][id] = n

\* PopRequestByID hands an answer to the callback of the request it answers:
\* with an id of NextRequestID a callback gets the answer to its own request,
\* once, however often and in whatever order the other end answers, and the
\* table holds exactly the requests whose callback is still to be called.  The
\* callback of a request with the null id may get an answer to another request,
\* but of the same end, and once too.  A notification and a request that could
\* not be written have no callback, so that a late answer to them finds nothing.
CallbackOnce ==
    \A n \in 1 .. Len(calls) :
        /\ \/ calls[n].got = <<>>
           \/ \E m \in 1 .. Len(calls) : calls[n].got = <<m>> /\ calls[m].by = calls[n].by
        /\ calls[n].id = None \/ ~calls[n].ok => calls[n].got = <<>> /\ ~IsKept(n)
        /\ Numbered(n) /\ calls[n].ok =>
              /\ calls[n].got \in {<<>>, <<n>>}
              /\ IsKept(n) <=> calls[n].got = <<>>

\* The ids of requests, and all that may be on the wire: what the codec makes of
\* a request or an answer, and the answers of another implementation.
Ids == {None, Null} \cup { Hex[k] : k \in 1 .. Len(Hex) }

Messages ==
    { Message(MakeJsonRPCRequest(Request(id, params)), n, Request(id, params)) :
          id \in Ids, params \in Params \cup {None}, n \in 1 .. MaxCalls } \cup
    { Message(a.doc, n, a.meant) :
          a \in UNION { Answers(id) : id \in Ids }, n \in 1 .. MaxCalls }

TypeOK ==
    /\ open \in [Peer -> BOOLEAN] /\ alive \in [Peer -> BOOLEAN]
    /\ id_ \in [Peer -> Nat]
    /\ requests_queue_ \in [Peer -> UNION { [D -> 1 .. MaxCalls] : D \in SUBSET Ids }]
    /\ wire \in [Peer -> Seq(Messages)]
    /\ todo \in [Peer -> SUBSET [call : 1 .. MaxCalls, id : Ids \ {None}]]
    /\ calls \in Seq([by : Peer, id : Ids, ok : BOOLEAN, got : Seq(1 .. MaxCalls)])
    /\ Len(calls) <= MaxCalls

\* NextRequestID gave every numbered request of an end an id of its own.
IdsAreFresh ==
    /\ \A p \in Peer : id_[p] <= Len(calls)
    /\ \A n \in 1 .. Len(calls) :
          Numbered(n) => \E k \in 1 .. id_[calls[n].by] : calls[n].id = Hex[k]
    /\ \A m, n \in 1 .. Len(calls) :
          /\ Numbered(n) /\ calls[m].id = calls[n].id
          /\ calls[m].by = calls[n].by
          => m = n

\* The table has, under its id, a request of this end that was written and whose
\* callback was not called yet.
TableIsOurs ==
    \A p \in Peer : \A id \in DOMAIN requests_queue_[p] :
        LET n == requests_queue_[p][id] IN
        /\ n <= Len(calls) /\ id # None
        /\ calls[n].by = p /\ calls[n].id = id
        /\ calls[n].ok /\ calls[n].got = <<>>

\* A request to p carries the id of a call of the other end, and an answer the id
\* of the call of p that it answers, or null.
Addressed(p, msg) ==
    LET o == ParseJsonRPC(msg.doc) IN
    /\ msg.call <= Len(calls)
    /\ msg.meant.kind = "request" =>
          calls[msg.call].by = Other(p) /\ calls[msg.call].id = msg.meant.id
    /\ msg.meant.kind # "request" =>
          /\ calls[msg.call].by = p
          /\ o.kind = "response" => o.id \in {Null, calls[msg.call].id}

Asked(p, r) ==
    r.call <= Len(calls) /\ calls[r.call].by = Other(p) /\ calls[r.call].id = r.id

\* So is all that is on the wire, and the requests that were read.
AnswersGoBack ==
    \A p \in Peer :
        /\ \A i \in 1 .. Len(wire[p]) : Addressed(p, wire[p][i])
        /\ \A r \in todo[p] : Asked(p, r)

\* Why CallbackOnce holds: the two ends never mistake each other's ids, so that an
\* entry that PopRequestByID finds under a number is the call that was answered.
RpcInv == TypeOK /\ IdsAreFresh /\ TableIsOurs /\ AnswersGoBack /\ CallbackOnce

\* A request that was written has its callback called, or this end's connection
\* is over, or the other end did answer and with an id of its own making.
RequestIsAnswered ==
    \A n \in 1 .. MaxCalls :
        (Len(calls) >= n /\ Numbered(n) /\ calls[n].ok)
            ~> /\ Len(calls) >= n
               /\ \/ calls[n].got # <<>>
                  \/ ~open[calls[n].by]
                  \/ \E a \in answered : a.call = n /\ a.id # calls[n].id

=============================================================================
