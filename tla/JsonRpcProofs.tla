---------------------------- MODULE JsonRpcProofs ----------------------------
(***************************************************************************)
(* JSON-RPC for any number of calls, any texts and any ids: ParseJsonRPC   *)
(* reads what the codec wrote, and a callback gets the answer to its own   *)
(* request, once.                                                          *)
(***************************************************************************)
EXTENDS JsonRpc, FiniteSetTheorems, TLAPS

(***************************************************************************)
(* The codec.                                                              *)
(***************************************************************************)

\* ToJson gives a value that is not "absent", JSON's null only for the empty
\* text, and json_object_get_string gives the text back in json-c's layout.
LEMMA TextOfJson ==
    ASSUME NEW s
    PROVE  /\ ToJson(s) # Absent
           /\ ToJson(s) = JNull <=> s = "empty"
           /\ s # "empty" => ToJson(s).text = Normal(s)
  BY DEF ToJson, Absent, JNull, JOther, JString, Normal

\* ParseJsonRPC gives back the request that MakeJsonRPCRequest wrote, a
\* notification as a notification.
LEMMA RequestReadBack ==
    ASSUME NEW id, NEW params
    PROVE  ParseJsonRPC(MakeJsonRPCRequest(Request(id, params)))
               = Request(id, Normal(params))
<1> DEFINE doc == MakeJsonRPCRequest(Request(id, params))
           o == GetJsonRPCRequest(doc)
<1>1. /\ doc.method = JString("method")
      /\ doc.id = IF id = None THEN Absent ELSE JString(id)
      /\ doc.params = IF params = None THEN Absent ELSE ToJson(params)
  BY DEF MakeJsonRPCRequest, Request, NoFields
<1>2. JString("method") # Absent /\ JString(id) # Absent
      /\ JString(id).type = "string" /\ JString(id).text = id
      /\ JString("method").text = "method" /\ JNull # Absent
      /\ JString("method") # JNull
  BY DEF JString, Absent, JNull
<1>3. (IF doc.id = Absent THEN None ELSE IdOf(doc.id)) = id
  BY <1>1, <1>2 DEF IdOf
<1>4. (CASE doc.params = Absent -> None
         [] doc.params = JNull -> "empty"
         [] OTHER -> doc.params.text) = Normal(params)
  <2>1. CASE params = None
    BY <2>1, <1>1, <1>2 DEF Normal, None
  <2>2. CASE params = "empty"
    BY <2>2, <1>1, TextOfJson, <1>2 DEF Normal, None
  <2>3. CASE params # None /\ params # "empty"
    BY <2>3, <1>1, TextOfJson
  <2> QED  BY <2>1, <2>2, <2>3
<1>5. o = Request(id, Normal(params))
  BY <1>1, <1>2, <1>3, <1>4 DEF GetJsonRPCRequest, Request
<1>6. o # Inval
  <2>1. o.kind = "request" /\ Inval.kind = "inval"
    BY <1>5 DEF Request, Inval
  <2> QED  BY <2>1
<1> QED  BY <1>5, <1>6 DEF ParseJsonRPC

\* ParseJsonRPC gives back the error or the message that MakeJsonRPCResponse
\* wrote, except for an empty message.
LEMMA ResponseReadBack ==
    ASSUME NEW id, NEW error, NEW message
    PROVE  LET o == ParseJsonRPC(MakeJsonRPCResponse(Response(id, error, message)))
           IN  /\ error # None => o = Response(id, error, None)
               /\ error = None /\ message = "empty" => o = Died
               /\ error = None /\ message # "empty" => o = Response(id, None, Normal(message))
<1> DEFINE doc == MakeJsonRPCResponse(Response(id, error, message))
           o == ParseJsonRPC(doc)
<1>1. /\ doc.method = Absent
      /\ doc.id = JString(id)
      /\ doc.error = IF error # None THEN JError(error) ELSE Absent
      /\ doc.result = IF error # None THEN Absent ELSE ToJson(message)
  BY DEF MakeJsonRPCResponse, Response, NoFields
<1>2. o = GetJsonRPCResponse(doc)
  BY <1>1 DEF ParseJsonRPC, GetJsonRPCRequest
<1>3. JString(id) # Absent /\ IdOf(JString(id)) = id
  BY DEF JString, Absent, IdOf
<1>4. JError(error) # Absent /\ JError(error) # JNull
      /\ JError(error) # JErrorNull
      /\ JError(error).type = "error" /\ JError(error).text = error
  BY DEF JError, JErrorNull, Absent, JNull
<1>5. ASSUME error # None PROVE o = Response(id, error, None)
  BY <1>1, <1>2, <1>3, <1>4, <1>5 DEF GetJsonRPCResponse, Response
<1>6. ASSUME error = None, message = "empty" PROVE o = Died
  BY <1>1, <1>2, <1>3, <1>6, TextOfJson DEF GetJsonRPCResponse
<1>7. ASSUME error = None, message # "empty"
      PROVE  o = Response(id, None, Normal(message))
  <2>1. Absent # JErrorNull
    BY DEF Absent, JErrorNull
  <2> QED  BY <1>1, <1>2, <1>3, <1>7, <2>1, TextOfJson DEF GetJsonRPCResponse, Response
<1> QED  BY <1>5, <1>6, <1>7

\* An answer is never taken for a request, and what is read of it has the id it
\* answers, or null.
LEMMA AnswerIds ==
    ASSUME NEW id, NEW a \in Answers(id)
    PROVE  LET o == ParseJsonRPC(a.doc)
           IN  /\ a.meant.kind # "request"
               /\ o.kind # "request"
               /\ o.kind = "response" => o.id \in {Null, id}
<1> DEFINE o == ParseJsonRPC(a.doc)
<1>1. CASE \E r \in OwnAnswers(id) : a = [doc |-> MakeJsonRPCResponse(r), meant |-> r]
  <2>1. PICK i, error, message :
            /\ i \in {Null, id}
            /\ a = [doc |-> MakeJsonRPCResponse(Response(i, error, message)),
                    meant |-> Response(i, error, message)]
    BY <1>1 DEF OwnAnswers
  <2>2. \/ o = Died
        \/ \E e, s : o = Response(i, e, s)
    BY <2>1, ResponseReadBack
  <2>3. CASE o = Died
    BY <2>1, <2>3 DEF Response, Died
  <2>4. ASSUME NEW e, NEW s, o = Response(i, e, s)
        PROVE  o.kind = "response" /\ o.id \in {Null, id}
    BY <2>1, <2>4 DEF Response
  <2>5. a.meant.kind = "response"
    BY <2>1 DEF Response
  <2> QED  BY <2>2, <2>3, <2>4, <2>5
<1>2. CASE \E d \in ForeignAnswers(id) : a = [doc |-> d, meant |-> Foreign]
  <2>1. PICK d \in ForeignAnswers(id) : a = [doc |-> d, meant |-> Foreign]
    BY <1>2
  <2>2. d.method \in {Absent, JNull} /\ d.id \in {JString(id), JNull, Absent}
    BY <2>1 DEF ForeignAnswers, NoFields
  <2>3. o \in {GetJsonRPCResponse(d), Died}
    BY <2>1, <2>2 DEF ParseJsonRPC, GetJsonRPCRequest
  <2>4. d.id # Absent => IdOf(d.id) \in {Null, id}
    <3>1. IdOf(JNull) = Null
      BY DEF IdOf, JNull
    <3>2. IdOf(JString(id)) = id
      BY DEF IdOf, JString
    <3> QED  BY <2>2, <3>1, <3>2
  <2>5. o.kind # "request" /\ (o.kind = "response" => d.id # Absent /\ o.id = IdOf(d.id))
    BY <2>3 DEF GetJsonRPCResponse, Inval, Died
  <2> QED  BY <2>1, <2>4, <2>5 DEF Foreign
<1> QED  BY <1>1, <1>2 DEF Answers

(***************************************************************************)
(* The connection.                                                         *)
(***************************************************************************)

\* Each end is the other of its other.
LEMMA OtherEnd ==
    ASSUME NEW p \in Peer
    PROVE  Other(p) \in Peer /\ Other(p) # p /\ Other(Other(p)) = p
<1>1. IsFiniteSet(Peer \ {p}) /\ Cardinality(Peer \ {p}) = 1
  BY RpcAssumption, FS_RemoveElement
<1>2. PICK q : Peer \ {p} = {q}
  BY <1>1, FS_Singleton
<1>3. Other(p) = q
  BY <1>2 DEF Other
<1>4. Other(q) = p
  BY <1>2 DEF Other
<1> QED  BY <1>2, <1>3, <1>4

\* What ParseJsonRPC makes of what may be on the wire.
LEMMA ParseMessage ==
    ASSUME NEW msg \in Messages
    PROVE  LET o == ParseJsonRPC(msg.doc)
           IN  /\ msg.call \in 1 .. MaxCalls
               /\ msg.meant.kind = "request" =>
                     /\ o.kind = "request" /\ o.id = msg.meant.id
                     /\ o.id \in Ids
               /\ msg.meant.kind # "request" => o.kind # "request"
<1> DEFINE o == ParseJsonRPC(msg.doc)
<1>1. ASSUME NEW id \in Ids, NEW params, NEW n \in 1 .. MaxCalls,
             msg = Message(MakeJsonRPCRequest(Request(id, params)), n, Request(id, params))
      PROVE  /\ msg.call \in 1 .. MaxCalls
             /\ o.kind = "request" /\ o.id = msg.meant.id /\ o.id \in Ids
             /\ msg.meant.kind = "request"
  <2>1. o = Request(id, Normal(params))
    BY <1>1, RequestReadBack DEF Message
  <2>2. msg.call = n /\ msg.meant = Request(id, params)
    BY <1>1 DEF Message
  <2> QED  BY <2>1, <2>2 DEF Request
<1>2. ASSUME NEW id \in Ids, NEW a \in Answers(id), NEW n \in 1 .. MaxCalls,
             msg = Message(a.doc, n, a.meant)
      PROVE  msg.call \in 1 .. MaxCalls /\ o.kind # "request" /\ msg.meant.kind # "request"
  <2>1. msg.call = n /\ msg.doc = a.doc /\ msg.meant = a.meant
    BY <1>2 DEF Message
  <2> QED  BY <2>1, AnswerIds
<1>3. \/ \E id \in Ids, params \in Params \cup {None}, n \in 1 .. MaxCalls :
            msg = Message(MakeJsonRPCRequest(Request(id, params)), n, Request(id, params))
      \/ \E id \in Ids : \E a \in Answers(id), n \in 1 .. MaxCalls :
            msg = Message(a.doc, n, a.meant)
  BY DEF Messages
<1> QED  BY <1>1, <1>2, <1>3

\* Whatever may be on the wire is read as it was meant.
LEMMA MessageReadAsMeant ==
    ASSUME NEW msg \in Messages
    PROVE  LET m == msg.meant
               o == ParseJsonRPC(msg.doc)
           IN  /\ m.kind = "request" => o = [m EXCEPT !.params = Normal(@)]
               /\ m.kind = "response" /\ m.message = "empty" => o.kind = "died"
               /\ m.kind = "response" /\ m.message # "empty" =>
                     o = [m EXCEPT !.message = Normal(@)]
<1> DEFINE m == msg.meant
           o == ParseJsonRPC(msg.doc)
<1>1. ASSUME NEW id \in Ids, NEW params, NEW n \in 1 .. MaxCalls,
             msg = Message(MakeJsonRPCRequest(Request(id, params)), n, Request(id, params))
      PROVE  m.kind = "request" /\ o = [m EXCEPT !.params = Normal(@)]
  <2>1. o = Request(id, Normal(params))
    BY <1>1, RequestReadBack DEF Message
  <2>2. m = Request(id, params)
    BY <1>1 DEF Message
  <2> QED  BY <2>1, <2>2 DEF Request
<1>2. ASSUME NEW id \in Ids, NEW a \in Answers(id), NEW n \in 1 .. MaxCalls,
             msg = Message(a.doc, n, a.meant)
      PROVE  \/ m.kind = "foreign"
             \/ m.kind = "response" /\ m.message = "empty" /\ o.kind = "died"
             \/ m.kind = "response" /\ m.message # "empty" /\ o = [m EXCEPT !.message = Normal(@)]
  <2>1. msg.doc = a.doc /\ m = a.meant
    BY <1>2 DEF Message
  <2>2. CASE \E d \in ForeignAnswers(id) : a = [doc |-> d, meant |-> Foreign]
    BY <2>1, <2>2 DEF Foreign
  <2>3. ASSUME NEW i, NEW error, NEW message, error = None \/ message = None,
               a = [doc |-> MakeJsonRPCResponse(Response(i, error, message)),
                    meant |-> Response(i, error, message)]
        PROVE  \/ m.message = "empty" /\ o.kind = "died"
               \/ m.message # "empty" /\ o = [m EXCEPT !.message = Normal(@)]
    <3>1. /\ msg.doc = MakeJsonRPCResponse(Response(i, error, message))
          /\ m = Response(i, error, message) /\ m.message = message
      BY <2>1, <2>3 DEF Response
    <3>2. [m EXCEPT !.message = Normal(@)] = Response(i, error, Normal(message))
      BY <3>1 DEF Response
    <3>3. Normal(None) = None /\ None # "empty"
      BY DEF Normal, None
    <3>4. CASE error # None
      BY <2>3, <3>1, <3>2, <3>3, <3>4, ResponseReadBack
    <3>5. CASE error = None
      BY <3>1, <3>2, <3>5, ResponseReadBack DEF Died
    <3> QED  BY <3>4, <3>5
  <2>4. CASE \E r \in OwnAnswers(id) : a = [doc |-> MakeJsonRPCResponse(r), meant |-> r]
    <3>1. PICK i, error, message :
              /\ error = None \/ message = None
              /\ a = [doc |-> MakeJsonRPCResponse(Response(i, error, message)),
                      meant |-> Response(i, error, message)]
      BY <2>4 DEF OwnAnswers
    <3>2. m.kind = "response"
      BY <2>1, <3>1 DEF Response
    <3> QED  BY <2>3, <3>1, <3>2
  <2> QED  BY <2>2, <2>4 DEF Answers
<1>3. \/ \E id \in Ids, params \in Params \cup {None}, n \in 1 .. MaxCalls :
            msg = Message(MakeJsonRPCRequest(Request(id, params)), n, Request(id, params))
      \/ \E id \in Ids : \E a \in Answers(id), n \in 1 .. MaxCalls :
            msg = Message(a.doc, n, a.meant)
  BY DEF Messages
<1> QED  BY <1>1, <1>2, <1>3

(***************************************************************************)
(* The calls.                                                              *)
(***************************************************************************)

\* What is recorded of a call.
LEMMA CallType ==
    ASSUME TypeOK, NEW n \in 1 .. Len(calls)
    PROVE  /\ calls[n].by \in Peer /\ calls[n].id \in Ids
           /\ calls[n].ok \in BOOLEAN /\ calls[n].got \in Seq(1 .. MaxCalls)
<1> DEFINE Calls == [by : Peer, id : Ids, ok : BOOLEAN, got : Seq(1 .. MaxCalls)]
<1>1. calls[n] \in Calls
  <2> HIDE DEF Calls
  <2>1. calls \in Seq(Calls)
    BY DEF TypeOK, Calls
  <2> QED  BY <2>1
<1> QED  BY <1>1

\* A step keeps who made a call and with which id.
CallsKept ==
    /\ Len(calls') >= Len(calls)
    /\ \A n \in 1 .. Len(calls) :
          calls'[n].by = calls[n].by /\ calls'[n].id = calls[n].id

\* Then what is on the wire to p stays addressed to it.
LEMMA StaysAddressed ==
    ASSUME TypeOK, TypeOK', CallsKept, NEW p \in Peer, NEW msg \in Messages, Addressed(p, msg)
    PROVE  Addressed(p, msg)'
<1>1. msg.call \in 1 .. MaxCalls
  BY ParseMessage
<1>2. Len(calls) \in Nat /\ Len(calls') \in Nat
  BY DEF TypeOK
<1>3. msg.call \in 1 .. Len(calls) /\ msg.call <= Len(calls')
  BY <1>1, <1>2 DEF Addressed, CallsKept
<1> QED  BY <1>3 DEF Addressed, CallsKept

\* And what p has read stays asked of it.
LEMMA StaysAsked ==
    ASSUME TypeOK, TypeOK', CallsKept, NEW p \in Peer, NEW r \in todo[p], Asked(p, r)
    PROVE  Asked(p, r)'
<1>1. r.call \in 1 .. MaxCalls
  BY DEF TypeOK
<1>2. Len(calls) \in Nat /\ Len(calls') \in Nat
  BY DEF TypeOK
<1>3. r.call \in 1 .. Len(calls) /\ r.call <= Len(calls')
  BY <1>1, <1>2 DEF Asked, CallsKept
<1> QED  BY <1>3 DEF Asked, CallsKept

\* A message that Send puts on the wire is typed.
LEMMA SendType ==
    ASSUME TypeOK, NEW p \in Peer, NEW msg \in Messages, Send(p, msg)
    PROVE  wire' \in [Peer -> Seq(Messages)]
  BY OtherEnd DEF TypeOK, Send

\* After Send all is addressed as before if the new message is.
LEMMA SendAddressed ==
    ASSUME TypeOK, TypeOK', CallsKept, AnswersGoBack,
           NEW p \in Peer, NEW msg \in Messages, Send(p, msg), Addressed(Other(p), msg)'
    PROVE  \A q \in Peer : \A i \in 1 .. Len(wire'[q]) : Addressed(q, wire[q][i])'
<1> SUFFICES ASSUME NEW q \in Peer, NEW i \in 1 .. Len(wire'[q])
             PROVE  Addressed(q, wire[q][i])'
  OBVIOUS
<1>1. wire[q] \in Seq(Messages)
  BY DEF TypeOK
<1>2. CASE q = Other(p)
  <2>1. wire'[q] = Append(wire[q], msg)
    BY <1>2, OtherEnd DEF Send, TypeOK
  <2>2. CASE i \in 1 .. Len(wire[q])
    <3>1. wire'[q][i] = wire[q][i] /\ wire[q][i] \in Messages
      BY <1>1, <2>1, <2>2
    <3> QED  BY <2>2, <3>1, StaysAddressed DEF AnswersGoBack
  <2>3. CASE i = Len(wire[q]) + 1
    <3>1. wire'[q][i] = msg
      BY <1>1, <2>1, <2>3
    <3> QED  BY <1>2, <3>1
  <2> QED  BY <1>1, <2>1, <2>2, <2>3
<1>3. CASE q # Other(p)
  <2>1. wire'[q] = wire[q]
    BY <1>3, OtherEnd DEF Send, TypeOK
  <2>2. wire[q][i] \in Messages
    BY <1>1, <2>1
  <2> QED  BY <2>1, <2>2, StaysAddressed DEF AnswersGoBack
<1> QED  BY <1>2, <1>3

\* With the wire as it was all stays addressed.
LEMMA SameAddressed ==
    ASSUME TypeOK, TypeOK', CallsKept, AnswersGoBack, UNCHANGED wire
    PROVE  \A q \in Peer : \A i \in 1 .. Len(wire'[q]) : Addressed(q, wire[q][i])'
<1> SUFFICES ASSUME NEW q \in Peer, NEW i \in 1 .. Len(wire[q])
             PROVE  Addressed(q, wire[q][i])'
  OBVIOUS
<1>1. wire[q][i] \in Messages
  BY DEF TypeOK
<1> QED  BY <1>1, StaysAddressed DEF AnswersGoBack

\* Reading takes the first message off the wire, which was addressed to p.
LEMMA ReadsAddressed ==
    ASSUME TypeOK, AnswersGoBack, NEW p \in Peer, Reads(p)
    PROVE  /\ wire' \in [Peer -> Seq(Messages)]
           /\ Head(wire[p]) \in Messages
           /\ Addressed(p, Head(wire[p]))
           /\ TypeOK' /\ CallsKept =>
                 \A q \in Peer : \A i \in 1 .. Len(wire'[q]) : Addressed(q, wire[q][i])'
<1>1. wire[p] \in Seq(Messages) /\ wire[p] # <<>>
  BY DEF TypeOK, Reads
<1>2. wire' \in [Peer -> Seq(Messages)]
  BY <1>1 DEF TypeOK, Reads
<1>3. Head(wire[p]) = wire[p][1] /\ 1 \in 1 .. Len(wire[p])
  BY <1>1
<1>4. Head(wire[p]) \in Messages /\ Addressed(p, Head(wire[p]))
  BY <1>1, <1>3 DEF AnswersGoBack
<1>5. ASSUME TypeOK', CallsKept, NEW q \in Peer, NEW i \in 1 .. Len(wire'[q])
      PROVE  Addressed(q, wire[q][i])'
  <2>1. PICK j \in 1 .. Len(wire[q]) : wire'[q][i] = wire[q][j]
    <3>1. CASE q = p
      <4>1. wire'[p] = Tail(wire[p])
        BY DEF Reads, TypeOK
      <4>2. i + 1 \in 1 .. Len(wire[p]) /\ wire'[p][i] = wire[p][i + 1]
        BY <1>1, <1>5, <3>1, <4>1
      <4> QED  BY <3>1, <4>2
    <3>2. CASE q # p
      BY <3>2, <1>5 DEF Reads, TypeOK
    <3> QED  BY <3>1, <3>2
  <2>2. wire[q][j] \in Messages
    BY DEF TypeOK
  <2> QED  BY <1>5, <2>1, <2>2, StaysAddressed DEF AnswersGoBack
<1> QED  BY <1>2, <1>4, <1>5

\* A call is appended with an id of NextRequestID, null, or none: it is typed, it
\* leaves the earlier ones alone and its number is not one of theirs.
LEMMA NewCall ==
    ASSUME TypeOK, IdsAreFresh, NEW p \in Peer, NEW id \in RequestIds(p), NEW ok \in BOOLEAN,
           Len(calls) < MaxCalls, NextRequestID(p, id),
           calls' = Append(calls, [by |-> p, id |-> id, ok |-> ok, got |-> <<>>])
    PROVE  /\ id \in Ids
           /\ id_' \in [Peer -> Nat]
           /\ calls' \in Seq([by : Peer, id : Ids, ok : BOOLEAN, got : Seq(1 .. MaxCalls)])
           /\ Len(calls') = Len(calls) + 1 /\ Len(calls') <= MaxCalls
           /\ \A n \in 1 .. Len(calls) : calls'[n] = calls[n]
           /\ calls'[Len(calls) + 1] = [by |-> p, id |-> id, ok |-> ok, got |-> <<>>]
           /\ CallsKept
           /\ IdsAreFresh'
<1> DEFINE N == Len(calls)
           new == [by |-> p, id |-> id, ok |-> ok, got |-> <<>>]
           Calls == [by : Peer, id : Ids, ok : BOOLEAN, got : Seq(1 .. MaxCalls)]
<1>1. /\ N \in Nat /\ MaxCalls \in Nat /\ Len(Hex) \in Nat /\ Len(Hex) >= MaxCalls
      /\ id_[p] \in Nat /\ id_[p] <= N
  BY RpcAssumption DEF TypeOK, IdsAreFresh
<1>2. id_[p] + 1 \in 1 .. Len(Hex)
  BY <1>1
<1>3. id \in Ids
  BY <1>2 DEF RequestIds, Ids
<1>4. new \in Calls
  <2>1. <<>> \in Seq(1 .. MaxCalls)
    OBVIOUS
  <2> QED  BY <1>3, <2>1
<1> HIDE DEF Calls
<1>5. calls \in Seq(Calls)
  BY DEF TypeOK, Calls
<1>6. /\ calls' \in Seq(Calls)
      /\ Len(calls') = N + 1
      /\ \A n \in 1 .. N : calls'[n] = calls[n]
      /\ calls'[N + 1] = new
  BY <1>4, <1>5
<1>7. id_' \in [Peer -> Nat] /\ \A q \in Peer : id_'[q] >= id_[q] /\ id_'[q] <= N + 1
  <2>1. CASE id \in {None, Null}
    BY <1>1, <2>1 DEF NextRequestID, TypeOK, IdsAreFresh
  <2>2. CASE id \notin {None, Null}
    <3>1. id_' = [id_ EXCEPT ![p] = @ + 1]
      BY <2>2 DEF NextRequestID
    <3> QED  BY <1>1, <3>1 DEF TypeOK, IdsAreFresh
  <2> QED  BY <2>1, <2>2
<1>8. id \notin {None, Null} => id = Hex[id_[p] + 1] /\ id_'[p] = id_[p] + 1
  BY DEF RequestIds, NextRequestID, TypeOK
<1>9. ASSUME NEW n \in 1 .. N, Numbered(n) PROVE calls[n].by = p => calls[n].id # id
  <2>1. \A i, j \in 1 .. Len(Hex) : Hex[i] = Hex[j] => i = j
    BY RpcAssumption
  <2>2. SUFFICES ASSUME calls[n].by = p, calls[n].id = id PROVE FALSE
    OBVIOUS
  <2>3. PICK k \in 1 .. id_[p] : id = Hex[k]
    BY <1>9, <2>2 DEF IdsAreFresh
  <2>4. id = Hex[id_[p] + 1]
    BY <1>8, <1>9, <2>2 DEF Numbered
  <2>5. k \in 1 .. Len(Hex)
    BY <1>1, <1>2, <2>3
  <2>6. k = id_[p] + 1
    BY <1>2, <2>1, <2>3, <2>4, <2>5
  <2> QED  BY <1>1, <2>3, <2>6
<1>10. IdsAreFresh'
  <2>1. \A q \in Peer : id_'[q] <= Len(calls')
    BY <1>6, <1>7
  <2>2. ASSUME NEW n \in 1 .. N + 1, Numbered(n)'
        PROVE  \E k \in 1 .. id_'[calls'[n].by] : calls'[n].id = Hex[k]
    <3>1. CASE n \in 1 .. N
      <4>1. PICK k \in 1 .. id_[calls[n].by] : calls[n].id = Hex[k]
        BY <1>6, <2>2, <3>1 DEF Numbered, IdsAreFresh
      <4>2. calls[n].by \in Peer
        <5>1. calls[n] \in Calls
          BY <1>5, <3>1
        <5> QED  BY <5>1 DEF Calls
      <4>3. k \in 1 .. id_'[calls[n].by]
        <5>1. id_[calls[n].by] \in Nat /\ id_'[calls[n].by] \in Nat
          BY <1>7, <4>2 DEF TypeOK
        <5>2. id_'[calls[n].by] >= id_[calls[n].by]
          BY <1>7, <4>2
        <5> QED  BY <4>1, <5>1, <5>2
      <4> QED  BY <1>6, <3>1, <4>1, <4>3
    <3>2. CASE n = N + 1
      <4>1. calls'[n].by = p /\ calls'[n].id = id
        BY <1>6, <3>2
      <4>2. id = Hex[id_[p] + 1] /\ id_'[p] = id_[p] + 1
        BY <1>8, <2>2, <4>1 DEF Numbered
      <4>3. id_[p] + 1 \in 1 .. id_'[p]
        BY <1>1, <4>2
      <4> QED  BY <4>1, <4>2, <4>3
    <3>3. n \in 1 .. N \/ n = N + 1
      BY <1>1
    <3> QED  BY <3>1, <3>2, <3>3
  <2>3. ASSUME NEW m \in 1 .. N + 1, NEW n \in 1 .. N + 1, Numbered(n)',
               calls'[m].id = calls'[n].id, calls'[m].by = calls'[n].by
        PROVE  m = n
    <3>1. CASE m \in 1 .. N /\ n \in 1 .. N
      BY <1>6, <2>3, <3>1 DEF Numbered, IdsAreFresh
    <3>2. CASE m \in 1 .. N /\ n = N + 1
      BY <1>6, <1>9, <2>3, <3>2 DEF Numbered
    <3>3. CASE m = N + 1 /\ n \in 1 .. N
      BY <1>6, <1>9, <2>3, <3>3 DEF Numbered
    <3> QED  BY <1>1, <3>1, <3>2, <3>3
  <2> QED  BY <1>6, <2>1, <2>2, <2>3 DEF IdsAreFresh
<1>11. CallsKept
  BY <1>1, <1>6 DEF CallsKept
<1> QED  BY <1>1, <1>3, <1>6, <1>7, <1>10, <1>11 DEF Calls

\* The table after an entry was stored.
LEMMA StoredTable ==
    ASSUME TypeOK, NEW p \in Peer, NEW id \in Ids, NEW n \in 1 .. MaxCalls
    PROVE  /\ Stored(p, id, n) \in UNION { [D -> 1 .. MaxCalls] : D \in SUBSET Ids }
           /\ DOMAIN Stored(p, id, n) = DOMAIN requests_queue_[p] \cup {id}
           /\ Stored(p, id, n)[id] = n
           /\ \A i \in DOMAIN requests_queue_[p] : i # id => Stored(p, id, n)[i] = requests_queue_[p][i]
<1>1. PICK D \in SUBSET Ids : requests_queue_[p] \in [D -> 1 .. MaxCalls]
  BY DEF TypeOK
<1>2. Stored(p, id, n) \in [D \cup {id} -> 1 .. MaxCalls]
  BY <1>1 DEF Stored
<1>3. D \cup {id} \in SUBSET Ids
  OBVIOUS
<1> QED  BY <1>1, <1>2, <1>3 DEF Stored

\* The table after an entry was erased.
LEMMA ErasedTable ==
    ASSUME TypeOK, NEW p \in Peer, NEW id
    PROVE  LET q == Erased(requests_queue_[p], id)
           IN  /\ q \in UNION { [D -> 1 .. MaxCalls] : D \in SUBSET Ids }
               /\ DOMAIN q = DOMAIN requests_queue_[p] \ {id}
               /\ \A i \in DOMAIN q : q[i] = requests_queue_[p][i]
<1>1. PICK D \in SUBSET Ids : requests_queue_[p] \in [D -> 1 .. MaxCalls]
  BY DEF TypeOK
<1>2. Erased(requests_queue_[p], id) \in [D \ {id} -> 1 .. MaxCalls]
  BY <1>1 DEF Erased
<1> QED  BY <1>1, <1>2 DEF Erased

(***************************************************************************)
(* The invariant.                                                          *)
(***************************************************************************)

\* The invariant holds before the first call.
LEMMA InitRpc == Init => RpcInv
<1> SUFFICES ASSUME Init PROVE RpcInv
  OBVIOUS
<1>1. \A S : <<>> \in Seq(S)
  OBVIOUS
<1>2. <<>> \in [{} -> 1 .. MaxCalls] /\ DOMAIN <<>> = {}
  OBVIOUS
<1>3. <<>> \in UNION { [D -> 1 .. MaxCalls] : D \in SUBSET Ids }
  <2>1. {} \in SUBSET Ids
    OBVIOUS
  <2> QED  BY <1>2, <2>1
<1>4. /\ open \in [Peer -> BOOLEAN] /\ alive \in [Peer -> BOOLEAN]
      /\ id_ \in [Peer -> Nat]
      /\ todo \in [Peer -> SUBSET [call : 1 .. MaxCalls, id : Ids \ {None}]]
  BY DEF Init
<1>5. requests_queue_ \in [Peer -> UNION { [D -> 1 .. MaxCalls] : D \in SUBSET Ids }]
  BY <1>3 DEF Init
<1>6. wire \in [Peer -> Seq(Messages)]
  BY <1>1 DEF Init
<1>7. calls = <<>> /\ Len(calls) = 0
  BY DEF Init
<1>8. TypeOK
  BY <1>1, <1>4, <1>5, <1>6, <1>7, RpcAssumption DEF TypeOK
<1>9. IdsAreFresh /\ CallbackOnce
  BY <1>7 DEF IdsAreFresh, CallbackOnce, Init
<1>10. TableIsOurs
  BY <1>2 DEF TableIsOurs, Init
<1>11. AnswersGoBack
  BY DEF AnswersGoBack, Init
<1> QED  BY <1>8, <1>9, <1>10, <1>11 DEF RpcInv

\* What WriteRequest puts on the wire is addressed to the other end.
LEMMA RequestAddressed ==
    ASSUME NEW p \in Peer, NEW id \in Ids, NEW params \in Params \cup {None}, NEW n \in 1 .. MaxCalls
    PROVE  LET msg == Message(MakeJsonRPCRequest(Request(id, params)), n, Request(id, params))
           IN  /\ msg \in Messages
               /\ n <= Len(calls) /\ calls[n].by = p /\ calls[n].id = id
                     => Addressed(Other(p), msg)
<1> DEFINE msg == Message(MakeJsonRPCRequest(Request(id, params)), n, Request(id, params))
<1>1. msg \in Messages
  BY DEF Messages
<1>2. msg.call = n /\ msg.meant = Request(id, params)
  BY DEF Message
<1>3. msg.meant.kind = "request" /\ msg.meant.id = id
  BY <1>2 DEF Request
<1>4. ASSUME n <= Len(calls), calls[n].by = p, calls[n].id = id
      PROVE  Addressed(Other(p), msg)
  BY <1>2, <1>3, <1>4, OtherEnd DEF Addressed
<1> QED  BY <1>1, <1>4

\* WriteRequest keeps the invariant: the callback is kept under an id that no
\* other call of this end has, or null.
LEMMA WriteRequestStep ==
    ASSUME RpcInv, NEW p \in Peer, NEW id \in RequestIds(p), NEW params \in Params,
           WriteRequest(p, id, params)
    PROVE  RpcInv'
<1> USE DEF RpcInv
<1>0. PICK N \in Nat : N = Len(calls)
  BY DEF TypeOK
<1> DEFINE msg == Message(MakeJsonRPCRequest(Request(id, params)), N + 1, Request(id, params))
<1>1. /\ N = Len(calls) /\ N < MaxCalls
      /\ Send(p, msg)
      /\ calls' = Append(calls, [by |-> p, id |-> id, ok |-> TRUE, got |-> <<>>])
      /\ requests_queue_' = IF id = None THEN requests_queue_
                            ELSE [requests_queue_ EXCEPT ![p] = Stored(p, id, N + 1)]
      /\ NextRequestID(p, id)
      /\ UNCHANGED <<open, alive, todo, answered, again>>
  BY <1>0 DEF WriteRequest
<1>2. /\ id \in Ids
      /\ id_' \in [Peer -> Nat]
      /\ calls' \in Seq([by : Peer, id : Ids, ok : BOOLEAN, got : Seq(1 .. MaxCalls)])
      /\ Len(calls') = N + 1 /\ Len(calls') <= MaxCalls
      /\ \A n \in 1 .. N : calls'[n] = calls[n]
      /\ calls'[N + 1] = [by |-> p, id |-> id, ok |-> TRUE, got |-> <<>>]
      /\ CallsKept
      /\ IdsAreFresh'
  BY <1>1, NewCall
<1>3. N \in Nat /\ N + 1 \in 1 .. MaxCalls
  BY <1>1, RpcAssumption DEF TypeOK
<1>4. msg \in Messages
  BY <1>2, <1>3, RequestAddressed
<1>5. TypeOK'
  <2>1. wire' \in [Peer -> Seq(Messages)]
    BY <1>1, <1>4, SendType
  <2>2. requests_queue_' \in [Peer -> UNION { [D -> 1 .. MaxCalls] : D \in SUBSET Ids }]
    <3>1. CASE id = None
      BY <1>1, <3>1 DEF TypeOK
    <3>2. CASE id # None
      <4>1. Stored(p, id, N + 1) \in UNION { [D -> 1 .. MaxCalls] : D \in SUBSET Ids }
        BY <1>2, <1>3, StoredTable
      <4> QED  BY <1>1, <3>2, <4>1 DEF TypeOK
    <3> QED  BY <3>1, <3>2
  <2> QED  BY <1>1, <1>2, <2>1, <2>2 DEF TypeOK
<1>6. AnswersGoBack'
  <2>1. Addressed(Other(p), msg)'
    <3>1. calls'[N + 1].by = p /\ calls'[N + 1].id = id /\ N + 1 <= Len(calls')
      BY <1>2, <1>3
    <3>2. msg.call = N + 1 /\ msg.meant.kind = "request" /\ msg.meant.id = id
      BY DEF Message, Request
    <3> QED  BY <3>1, <3>2, OtherEnd DEF Addressed
  <2>2. \A q \in Peer : \A i \in 1 .. Len(wire'[q]) : Addressed(q, wire[q][i])'
    BY <1>1, <1>2, <1>4, <1>5, <2>1, SendAddressed
  <2>3. \A q \in Peer : \A r \in todo'[q] : Asked(q, r)'
    BY <1>1, <1>2, <1>5, StaysAsked DEF AnswersGoBack
  <2> QED  BY <2>2, <2>3 DEF AnswersGoBack
<1>7. /\ \A q \in Peer : q # p => requests_queue_'[q] = requests_queue_[q]
      /\ id = None => requests_queue_'[p] = requests_queue_[p]
      /\ id # None =>
            /\ DOMAIN requests_queue_'[p] = DOMAIN requests_queue_[p] \cup {id}
            /\ requests_queue_'[p][id] = N + 1
            /\ \A i \in DOMAIN requests_queue_[p] :
                  i # id => requests_queue_'[p][i] = requests_queue_[p][i]
  <2>1. id # None => requests_queue_'[p] = Stored(p, id, N + 1)
    BY <1>1 DEF TypeOK
  <2>2. \A q \in Peer : q # p \/ id = None => requests_queue_'[q] = requests_queue_[q]
    BY <1>1 DEF TypeOK
  <2>3. ASSUME id # None
        PROVE  /\ DOMAIN requests_queue_'[p] = DOMAIN requests_queue_[p] \cup {id}
               /\ requests_queue_'[p][id] = N + 1
               /\ \A i \in DOMAIN requests_queue_[p] :
                     i # id => requests_queue_'[p][i] = requests_queue_[p][i]
    <3>1. /\ DOMAIN Stored(p, id, N + 1) = DOMAIN requests_queue_[p] \cup {id}
          /\ Stored(p, id, N + 1)[id] = N + 1
          /\ \A i \in DOMAIN requests_queue_[p] :
                i # id => Stored(p, id, N + 1)[i] = requests_queue_[p][i]
      BY <1>2, <1>3, StoredTable
    <3> QED  BY <2>1, <2>3, <3>1
  <2> QED  BY <2>2, <2>3
<1>8. \A q \in Peer : \A i \in DOMAIN requests_queue_[q] : requests_queue_[q][i] \in 1 .. N
  <2>1. \A q \in Peer : \A i \in DOMAIN requests_queue_[q] : requests_queue_[q][i] \in 1 .. MaxCalls
    BY DEF TypeOK
  <2> QED  BY <1>1, <1>3, <2>1 DEF TableIsOurs
<1>9. TableIsOurs'
  <2> SUFFICES ASSUME NEW q \in Peer, NEW i \in DOMAIN requests_queue_'[q]
               PROVE  LET n == requests_queue_'[q][i] IN
                      /\ n <= Len(calls') /\ i # None
                      /\ calls'[n].by = q /\ calls'[n].id = i
                      /\ calls'[n].ok /\ calls'[n].got = <<>>
    BY DEF TableIsOurs
  <2>1. CASE q = p /\ i = id /\ id # None
    BY <1>2, <1>3, <1>7, <2>1
  <2>2. CASE ~(q = p /\ i = id /\ id # None)
    <3>1. i \in DOMAIN requests_queue_[q] /\ requests_queue_'[q][i] = requests_queue_[q][i]
      BY <1>7, <2>2
    <3>2. requests_queue_[q][i] \in 1 .. N
      BY <1>8, <3>1
    <3>3. requests_queue_[q][i] <= N + 1
      BY <1>3, <3>2
    <3>4. calls'[requests_queue_[q][i]] = calls[requests_queue_[q][i]]
      BY <1>2, <3>2
    <3> QED  BY <1>2, <3>1, <3>3, <3>4 DEF TableIsOurs
  <2> QED  BY <2>1, <2>2
<1>10. ASSUME NEW n \in 1 .. N
       PROVE  /\ IsKept(n)' => IsKept(n)
              /\ Numbered(n) /\ IsKept(n) => IsKept(n)'
  <2>0. calls'[n] = calls[n] /\ calls[n].by \in Peer /\ n # N + 1
    <3>1. calls[n].by \in Peer
      BY <1>1, CallType
    <3> QED  BY <1>2, <1>3, <3>1
  <2>1. CASE calls[n].by # p \/ id = None
    BY <1>7, <2>0, <2>1 DEF IsKept
  <2>2. CASE calls[n].by = p /\ id # None
    <3>1. ASSUME IsKept(n)' PROVE IsKept(n)
      BY <1>7, <2>0, <2>2, <3>1 DEF IsKept
    <3>2. ASSUME Numbered(n), IsKept(n) PROVE IsKept(n)'
      <4>1. PICK i \in DOMAIN requests_queue_[p] : requests_queue_[p][i] = n
        BY <2>2, <3>2 DEF IsKept
      <4>2. calls[n].id = i
        BY <4>1 DEF TableIsOurs
      <4>3. i # id
        <5>1. Numbered(n)' /\ n \in 1 .. Len(calls') /\ N + 1 \in 1 .. Len(calls')
          BY <1>2, <1>3, <2>0, <3>2 DEF Numbered
        <5>2. calls'[N + 1].by = p /\ calls'[N + 1].id = id /\ calls'[n].by = p /\ calls'[n].id = i
          BY <1>2, <2>0, <2>2, <4>2
        <5> QED  BY <1>2, <2>0, <5>1, <5>2 DEF IdsAreFresh
      <4> QED  BY <1>7, <2>0, <2>2, <4>1, <4>3 DEF IsKept
    <3> QED  BY <3>1, <3>2
  <2> QED  BY <2>1, <2>2
<1>11. CallbackOnce'
  <2> SUFFICES ASSUME NEW n \in 1 .. N + 1
               PROVE  /\ \/ calls'[n].got = <<>>
                         \/ \E m \in 1 .. Len(calls') :
                               calls'[n].got = <<m>> /\ calls'[m].by = calls'[n].by
                      /\ calls'[n].id = None \/ ~calls'[n].ok => calls'[n].got = <<>> /\ ~IsKept(n)'
                      /\ Numbered(n)' /\ calls'[n].ok =>
                            /\ calls'[n].got \in {<<>>, <<n>>}
                            /\ IsKept(n)' <=> calls'[n].got = <<>>
    BY <1>2 DEF CallbackOnce
  <2>1. CASE n \in 1 .. N
    <3>1. calls'[n] = calls[n] /\ (Numbered(n)' <=> Numbered(n))
      BY <1>2, <2>1 DEF Numbered
    <3>2. IsKept(n)' => IsKept(n)
      BY <1>10, <2>1
    <3>3. Numbered(n) /\ IsKept(n) => IsKept(n)'
      BY <1>10, <2>1
    <3> QED  BY <1>1, <2>1, <3>1, <3>2, <3>3 DEF CallbackOnce
  <2>2. CASE n = N + 1
    <3>1. calls'[n] = [by |-> p, id |-> id, ok |-> TRUE, got |-> <<>>]
      BY <1>2, <2>2
    <3>2. calls'[n].by = p /\ calls'[n].id = id /\ calls'[n].ok /\ calls'[n].got = <<>>
          /\ Len(calls'[n].got) = 0
      BY <3>1
    <3>3. id = None => ~IsKept(n)'
      <4>1. n \notin 1 .. N
        BY <1>3, <2>2
      <4> QED  BY <1>7, <1>8, <3>2, <4>1 DEF IsKept
    <3>4. id # None => IsKept(n)'
      BY <1>7, <2>2, <3>2 DEF IsKept
    <3> QED  BY <3>2, <3>3, <3>4 DEF Numbered
  <2> QED  BY <1>3, <2>1, <2>2
<1> QED  BY <1>2, <1>5, <1>6, <1>9, <1>11

\* WriteRequestFails keeps the invariant: the call has no entry, and its number is
\* not used again.
LEMMA WriteRequestFailsStep ==
    ASSUME RpcInv, NEW p \in Peer, NEW id \in RequestIds(p), WriteRequestFails(p, id)
    PROVE  RpcInv'
<1> USE DEF RpcInv
<1>0. PICK N \in Nat : N = Len(calls)
  BY DEF TypeOK
<1> DEFINE msg == Message(MakeJsonRPCRequest(Request(id, None)), N + 1, Request(id, None))
<1>1. /\ N = Len(calls) /\ N < MaxCalls
      /\ Send(p, msg) \/ UNCHANGED wire
      /\ calls' = Append(calls, [by |-> p, id |-> id, ok |-> FALSE, got |-> <<>>])
      /\ NextRequestID(p, id)
      /\ open' = [open EXCEPT ![p] = FALSE]
      /\ UNCHANGED <<alive, requests_queue_, todo>>
  BY <1>0 DEF WriteRequestFails
<1>2. /\ id \in Ids
      /\ id_' \in [Peer -> Nat]
      /\ calls' \in Seq([by : Peer, id : Ids, ok : BOOLEAN, got : Seq(1 .. MaxCalls)])
      /\ Len(calls') = N + 1 /\ Len(calls') <= MaxCalls
      /\ \A n \in 1 .. N : calls'[n] = calls[n]
      /\ calls'[N + 1] = [by |-> p, id |-> id, ok |-> FALSE, got |-> <<>>]
      /\ CallsKept
      /\ IdsAreFresh'
  BY <1>1, NewCall
<1>3. N \in Nat /\ N + 1 \in 1 .. MaxCalls
  BY <1>1, RpcAssumption DEF TypeOK
<1>4. msg \in Messages
  BY <1>2, <1>3, RequestAddressed
<1>5. TypeOK'
  <2>1. wire' \in [Peer -> Seq(Messages)]
    <3>1. CASE Send(p, msg)
      BY <3>1, <1>4, SendType
    <3>2. CASE UNCHANGED wire
      BY <3>2 DEF TypeOK
    <3> QED  BY <1>1, <3>1, <3>2
  <2> QED  BY <1>1, <1>2, <2>1 DEF TypeOK
<1>6. AnswersGoBack'
  <2>1. Addressed(Other(p), msg)'
    <3>1. calls'[N + 1].by = p /\ calls'[N + 1].id = id /\ N + 1 <= Len(calls')
      BY <1>2, <1>3
    <3>2. msg.call = N + 1 /\ msg.meant.kind = "request" /\ msg.meant.id = id
      BY DEF Message, Request
    <3> QED  BY <3>1, <3>2, OtherEnd DEF Addressed
  <2>2. \A q \in Peer : \A i \in 1 .. Len(wire'[q]) : Addressed(q, wire[q][i])'
    BY <1>1, <1>2, <1>4, <1>5, <2>1, SendAddressed, SameAddressed
  <2>3. \A q \in Peer : \A r \in todo'[q] : Asked(q, r)'
    BY <1>1, <1>2, <1>5, StaysAsked DEF AnswersGoBack
  <2> QED  BY <2>2, <2>3 DEF AnswersGoBack
<1>7. \A q \in Peer : \A i \in DOMAIN requests_queue_[q] : requests_queue_[q][i] \in 1 .. N
  <2>1. \A q \in Peer : \A i \in DOMAIN requests_queue_[q] : requests_queue_[q][i] \in 1 .. MaxCalls
    BY DEF TypeOK
  <2> QED  BY <1>1, <1>3, <2>1 DEF TableIsOurs
<1>8. TableIsOurs'
  <2> SUFFICES ASSUME NEW q \in Peer, NEW i \in DOMAIN requests_queue_'[q]
               PROVE  LET n == requests_queue_'[q][i] IN
                      /\ n <= Len(calls') /\ i # None
                      /\ calls'[n].by = q /\ calls'[n].id = i
                      /\ calls'[n].ok /\ calls'[n].got = <<>>
    BY DEF TableIsOurs
  <2>0. requests_queue_' = requests_queue_
    BY <1>1
  <2>1. requests_queue_[q][i] \in 1 .. N /\ requests_queue_[q][i] <= N + 1
    BY <1>3, <1>7, <2>0
  <2>2. calls'[requests_queue_[q][i]] = calls[requests_queue_[q][i]]
    BY <1>2, <2>1
  <2> QED  BY <1>2, <2>0, <2>1, <2>2 DEF TableIsOurs
<1>9. CallbackOnce'
  <2> SUFFICES ASSUME NEW n \in 1 .. N + 1
               PROVE  /\ \/ calls'[n].got = <<>>
                         \/ \E m \in 1 .. Len(calls') :
                               calls'[n].got = <<m>> /\ calls'[m].by = calls'[n].by
                      /\ calls'[n].id = None \/ ~calls'[n].ok => calls'[n].got = <<>> /\ ~IsKept(n)'
                      /\ Numbered(n)' /\ calls'[n].ok =>
                            /\ calls'[n].got \in {<<>>, <<n>>}
                            /\ IsKept(n)' <=> calls'[n].got = <<>>
    BY <1>2 DEF CallbackOnce
  <2>1. CASE n \in 1 .. N
    <3>1. calls'[n] = calls[n] /\ (Numbered(n)' <=> Numbered(n))
      BY <1>2, <2>1 DEF Numbered
    <3>2. IsKept(n)' <=> IsKept(n)
      BY <1>1, <3>1 DEF IsKept
    <3> QED  BY <1>1, <2>1, <3>1, <3>2 DEF CallbackOnce
  <2>2. CASE n = N + 1
    <3>1. calls'[n].by = p /\ ~calls'[n].ok /\ calls'[n].got = <<>> /\ Len(calls'[n].got) = 0
      BY <1>2, <2>2
    <3>2. ~IsKept(n)'
      <4>1. n \notin 1 .. N
        BY <1>3, <2>2
      <4> QED  BY <1>1, <1>7, <3>1, <4>1 DEF IsKept
    <3> QED  BY <3>1, <3>2
  <2> QED  BY <1>3, <2>1, <2>2
<1> QED  BY <1>2, <1>5, <1>6, <1>8, <1>9

\* The parts of the invariant that only the calls and the table can disturb.
LEMMA CallsUnchanged ==
    ASSUME RpcInv, UNCHANGED <<id_, requests_queue_, calls>>
    PROVE  IdsAreFresh' /\ TableIsOurs' /\ CallbackOnce' /\ CallsKept
<1>1. IdsAreFresh'
  BY DEF RpcInv, IdsAreFresh, Numbered
<1>2. TableIsOurs'
  <2> SUFFICES ASSUME NEW p \in Peer, NEW id \in DOMAIN requests_queue_[p]
               PROVE  LET n == requests_queue_[p][id] IN
                      /\ n <= Len(calls) /\ id # None
                      /\ calls[n].by = p /\ calls[n].id = id
                      /\ calls[n].ok /\ calls[n].got = <<>>
    BY DEF TableIsOurs
  <2> QED  BY DEF RpcInv, TableIsOurs
<1>3. CallbackOnce'
  BY DEF RpcInv, CallbackOnce, Numbered, IsKept
<1>4. CallsKept
  BY DEF RpcInv, TypeOK, CallsKept
<1> QED  BY <1>1, <1>2, <1>3, <1>4

\* WriteResponse, or its failure, keeps the invariant: the answer to a request that
\* was read goes to the end that made the call.
LEMMA AnswerStep ==
    ASSUME RpcInv, NEW p \in Peer, NEW r \in todo[p], NEW a \in Answers(r.id),
           WriteResponse(p, r, a) \/ WriteResponseFails(p, r, a)
    PROVE  RpcInv'
<1> USE DEF RpcInv
<1> DEFINE msg == Message(a.doc, r.call, a.meant)
<1>1. /\ Send(p, msg) \/ UNCHANGED wire
      /\ open' = open \/ open' = [open EXCEPT ![p] = FALSE]
      /\ UNCHANGED <<alive, id_, requests_queue_, todo, calls>>
  BY DEF WriteResponse, WriteResponseFails
<1>2. r.call \in 1 .. MaxCalls /\ r.id \in Ids
  BY DEF TypeOK
<1>3. msg \in Messages
  BY <1>2 DEF Messages
<1>4. IdsAreFresh' /\ TableIsOurs' /\ CallbackOnce' /\ CallsKept
  BY <1>1, CallsUnchanged
<1>5. TypeOK'
  <2>1. wire' \in [Peer -> Seq(Messages)]
    <3>1. CASE Send(p, msg)
      BY <3>1, <1>3, SendType
    <3>2. CASE UNCHANGED wire
      BY <3>2 DEF TypeOK
    <3> QED  BY <1>1, <3>1, <3>2
  <2>2. open' \in [Peer -> BOOLEAN]
    BY <1>1 DEF TypeOK
  <2> QED  BY <1>1, <2>1, <2>2 DEF TypeOK
<1>6. AnswersGoBack'
  <2>1. Addressed(Other(p), msg)'
    <3>1. msg.call = r.call /\ msg.meant = a.meant /\ msg.doc = a.doc
      BY DEF Message
    <3>2. a.meant.kind # "request"
          /\ (ParseJsonRPC(a.doc).kind = "response" => ParseJsonRPC(a.doc).id \in {Null, r.id})
      BY AnswerIds
    <3>3. r.call <= Len(calls) /\ calls[r.call].by = Other(p) /\ calls[r.call].id = r.id
      BY DEF AnswersGoBack, Asked
    <3> QED  BY <1>1, <3>1, <3>2, <3>3 DEF Addressed
  <2>2. \A q \in Peer : \A i \in 1 .. Len(wire'[q]) : Addressed(q, wire[q][i])'
    BY <1>1, <1>3, <1>4, <1>5, <2>1, SendAddressed, SameAddressed
  <2>3. \A q \in Peer : \A x \in todo'[q] : Asked(q, x)'
    BY <1>1, <1>4, <1>5, StaysAsked DEF AnswersGoBack
  <2> QED  BY <2>2, <2>3 DEF AnswersGoBack
<1> QED  BY <1>4, <1>5, <1>6

\* A request that is read is a call of the other end, with its id.
LEMMA ReadRequestStep ==
    ASSUME RpcInv, NEW p \in Peer, ReadRequest(p)
    PROVE  RpcInv'
<1> USE DEF RpcInv
<1>0. PICK msg : msg = Head(wire[p])
  OBVIOUS
<1>1. /\ Reads(p)
      /\ ParseJsonRPC(msg.doc).kind = "request"
      /\ todo' = IF ParseJsonRPC(msg.doc).id = None THEN todo
                 ELSE [todo EXCEPT ![p] = @ \cup {[call |-> msg.call, id |-> ParseJsonRPC(msg.doc).id]}]
      /\ UNCHANGED <<open, alive, requests_queue_, calls, id_>>
  BY <1>0 DEF ReadRequest, Reads
<1>2. IdsAreFresh' /\ TableIsOurs' /\ CallbackOnce' /\ CallsKept
  BY <1>1, CallsUnchanged
<1>3. /\ wire' \in [Peer -> Seq(Messages)] /\ msg \in Messages /\ Addressed(p, msg)
      /\ TypeOK' => \A q \in Peer : \A i \in 1 .. Len(wire'[q]) : Addressed(q, wire[q][i])'
  BY <1>0, <1>1, <1>2, ReadsAddressed
<1>4. PICK id \in Ids : ParseJsonRPC(msg.doc).id = id /\ id = msg.meant.id
  BY <1>1, <1>3, ParseMessage
<1>5. msg.call \in 1 .. MaxCalls /\ msg.call <= Len(calls)
      /\ calls[msg.call].by = Other(p) /\ calls[msg.call].id = id
  BY <1>1, <1>3, <1>4, ParseMessage DEF Addressed
<1>6. todo' \in [Peer -> SUBSET [call : 1 .. MaxCalls, id : Ids \ {None}]]
  BY <1>1, <1>4, <1>5 DEF TypeOK
<1>7. TypeOK'
  BY <1>1, <1>3, <1>6 DEF TypeOK
<1>8. ASSUME NEW q \in Peer, NEW r \in todo'[q] PROVE Asked(q, r)'
  <2>1. CASE r \in todo[q]
    BY <1>2, <1>7, <2>1, StaysAsked DEF AnswersGoBack
  <2>2. CASE q = p /\ r = [call |-> msg.call, id |-> id]
    BY <1>1, <1>5, <2>2 DEF Asked
  <2> QED  BY <1>1, <1>4, <2>1, <2>2 DEF TypeOK
<1> QED  BY <1>2, <1>3, <1>7, <1>8 DEF AnswersGoBack

\* A message that is refused, or ends the program, and the end of the stream leave
\* the calls and the table alone.
LEMMA ReadEndsStep ==
    ASSUME RpcInv, NEW p \in Peer, ReadInvalid(p) \/ ReadNull(p) \/ ReadEof(p)
    PROVE  RpcInv'
<1> USE DEF RpcInv
<1>1. /\ Reads(p) \/ UNCHANGED wire
      /\ open' = [open EXCEPT ![p] = FALSE]
      /\ alive' = alive \/ alive' = [alive EXCEPT ![p] = FALSE]
      /\ UNCHANGED <<requests_queue_, todo, calls, id_>>
  BY DEF ReadInvalid, ReadNull, ReadEof, Reads
<1>2. IdsAreFresh' /\ TableIsOurs' /\ CallbackOnce' /\ CallsKept
  BY <1>1, CallsUnchanged
<1>3. wire' \in [Peer -> Seq(Messages)]
  BY <1>1, ReadsAddressed DEF TypeOK
<1>4. open' \in [Peer -> BOOLEAN] /\ alive' \in [Peer -> BOOLEAN]
  BY <1>1 DEF TypeOK
<1>5. TypeOK'
  BY <1>1, <1>3, <1>4 DEF TypeOK
<1>6. \A q \in Peer : \A i \in 1 .. Len(wire'[q]) : Addressed(q, wire[q][i])'
  BY <1>1, <1>2, <1>5, ReadsAddressed, SameAddressed
<1>7. \A q \in Peer : \A x \in todo'[q] : Asked(q, x)'
  BY <1>1, <1>2, <1>5, StaysAsked DEF AnswersGoBack
<1> QED  BY <1>2, <1>5, <1>6, <1>7 DEF AnswersGoBack

\* A response that is read is for the call it answers: the entry that is found
\* under a number belongs to that call, and is gone before another answer comes.
LEMMA ReadResponseStep ==
    ASSUME RpcInv, NEW p \in Peer, ReadResponse(p)
    PROVE  RpcInv'
<1> USE DEF RpcInv
<1>0. PICK msg, sid : msg = Head(wire[p]) /\ sid = ParseJsonRPC(Head(wire[p]).doc).id
  OBVIOUS
<1>1. /\ Reads(p)
      /\ ParseJsonRPC(msg.doc).kind = "response"
      /\ PopRequestByID(p, sid, msg.call)
      /\ UNCHANGED <<open, alive, todo, id_>>
  BY <1>0 DEF ReadResponse, Reads
<1>2. /\ wire' \in [Peer -> Seq(Messages)] /\ msg \in Messages /\ Addressed(p, msg)
      /\ TypeOK' /\ CallsKept =>
            \A q \in Peer : \A i \in 1 .. Len(wire'[q]) : Addressed(q, wire[q][i])'
  BY <1>0, <1>1, ReadsAddressed
<1>3. msg.call \in 1 .. MaxCalls /\ msg.call <= Len(calls)
      /\ calls[msg.call].by = p /\ sid \in {Null, calls[msg.call].id}
  BY <1>0, <1>1, <1>2, ParseMessage DEF Addressed
<1>4. CASE sid \notin DOMAIN requests_queue_[p]
  <2>1. UNCHANGED <<requests_queue_, calls>>
    BY <1>1, <1>4 DEF PopRequestByID
  <2>2. IdsAreFresh' /\ TableIsOurs' /\ CallbackOnce' /\ CallsKept
    BY <1>1, <2>1, CallsUnchanged
  <2>3. TypeOK'
    BY <1>1, <1>2, <2>1 DEF TypeOK
  <2>4. \A q \in Peer : \A x \in todo'[q] : Asked(q, x)'
    BY <1>1, <2>2, <2>3, StaysAsked DEF AnswersGoBack
  <2> QED  BY <1>2, <2>2, <2>3, <2>4 DEF AnswersGoBack
<1>5. CASE sid \in DOMAIN requests_queue_[p]
  <2>01. PICK N \in Nat : N = Len(calls)
    BY DEF TypeOK
  <2>02. PICK k : k = requests_queue_[p][sid]
    OBVIOUS
  <2>0. N = Len(calls) /\ k = requests_queue_[p][sid]
    BY <2>01, <2>02
  <2>1. /\ calls' = [calls EXCEPT ![k].got = Append(@, msg.call)]
        /\ requests_queue_' = [requests_queue_ EXCEPT ![p] = Erased(@, sid)]
    BY <1>1, <1>5, <2>0 DEF PopRequestByID
  <2>2. /\ k \in 1 .. N /\ sid # None
        /\ calls[k].by = p /\ calls[k].id = sid /\ calls[k].ok /\ calls[k].got = <<>>
    <3>1. k \in 1 .. MaxCalls
      BY <1>5, <2>0 DEF TypeOK
    <3> QED  BY <1>5, <2>0, <3>1 DEF TableIsOurs
  <2>3. /\ requests_queue_' \in [Peer -> UNION { [D -> 1 .. MaxCalls] : D \in SUBSET Ids }]
        /\ DOMAIN requests_queue_'[p] = DOMAIN requests_queue_[p] \ {sid}
        /\ \A i \in DOMAIN requests_queue_'[p] : requests_queue_'[p][i] = requests_queue_[p][i]
        /\ \A q \in Peer : q # p => requests_queue_'[q] = requests_queue_[q]
    <3>1. PICK e : e = Erased(requests_queue_[p], sid)
      OBVIOUS
    <3>2. /\ e \in UNION { [D -> 1 .. MaxCalls] : D \in SUBSET Ids }
          /\ DOMAIN e = DOMAIN requests_queue_[p] \ {sid}
          /\ \A i \in DOMAIN e : e[i] = requests_queue_[p][i]
      BY <3>1, ErasedTable
    <3>3. requests_queue_' = [requests_queue_ EXCEPT ![p] = e]
      BY <2>1, <3>1
    <3> QED  BY <3>2, <3>3 DEF TypeOK
  <2>4. /\ Len(calls') = N
        /\ \A n \in 1 .. N : n # k => calls'[n] = calls[n]
        /\ calls'[k].by = p /\ calls'[k].id = sid /\ calls'[k].ok
        /\ calls'[k].got = <<msg.call>>
        /\ calls' \in Seq([by : Peer, id : Ids, ok : BOOLEAN, got : Seq(1 .. MaxCalls)])
    <3> DEFINE Calls == [by : Peer, id : Ids, ok : BOOLEAN, got : Seq(1 .. MaxCalls)]
    <3>1. PICK c : c = [calls[k] EXCEPT !.got = Append(@, msg.call)]
      OBVIOUS
    <3>2. calls[k] \in Calls
      <4> HIDE DEF Calls
      <4>1. calls \in Seq(Calls)
        BY DEF TypeOK, Calls
      <4> QED  BY <2>0, <2>2, <4>1
    <3>3. c \in Calls /\ c.by = p /\ c.id = sid /\ c.ok /\ c.got = Append(<<>>, msg.call)
      <4>1. c = [by |-> calls[k].by, id |-> calls[k].id, ok |-> calls[k].ok,
                 got |-> Append(calls[k].got, msg.call)]
        BY <3>1, <3>2
      <4>2. Append(<<>>, msg.call) \in Seq(1 .. MaxCalls)
        BY <1>3
      <4> QED  BY <2>2, <3>2, <4>1, <4>2
    <3>4. c.got = <<msg.call>>
      BY <3>3
    <3>5. calls' = [calls EXCEPT ![k] = c]
      BY <2>1, <3>1
    <3> HIDE DEF Calls
    <3>6. calls \in Seq(Calls)
      BY DEF TypeOK, Calls
    <3>7. /\ Len(calls') = N /\ calls'[k] = c /\ calls' \in Seq(Calls)
          /\ \A n \in 1 .. N : n # k => calls'[n] = calls[n]
      BY <2>0, <2>2, <3>3, <3>5, <3>6
    <3> QED  BY <3>3, <3>4, <3>7 DEF Calls
  <2>5. CallsKept
    BY <2>0, <2>2, <2>4 DEF CallsKept
  <2>6. TypeOK'
    BY <1>1, <1>2, <2>0, <2>3, <2>4 DEF TypeOK
  <2>7. \A n \in 1 .. N : Numbered(n)' <=> Numbered(n)
    BY <2>0, <2>5 DEF CallsKept, Numbered
  <2>8. IdsAreFresh'
    <3>1. \A n \in 1 .. N : calls'[n].by = calls[n].by /\ calls'[n].id = calls[n].id
      BY <2>0, <2>5 DEF CallsKept
    <3>2. \A q \in Peer : id_'[q] <= Len(calls')
      BY <1>1, <2>0, <2>4 DEF IdsAreFresh
    <3>3. ASSUME NEW n \in 1 .. N, Numbered(n)'
          PROVE  \E j \in 1 .. id_'[calls'[n].by] : calls'[n].id = Hex[j]
      BY <1>1, <2>0, <2>7, <3>1, <3>3 DEF IdsAreFresh
    <3>4. ASSUME NEW m \in 1 .. N, NEW n \in 1 .. N, Numbered(n)',
                 calls'[m].id = calls'[n].id, calls'[m].by = calls'[n].by
          PROVE  m = n
      BY <2>0, <2>7, <3>1, <3>4 DEF IdsAreFresh
    <3> QED  BY <2>4, <3>2, <3>3, <3>4 DEF IdsAreFresh
  <2>9. TableIsOurs'
    <3> SUFFICES ASSUME NEW q \in Peer, NEW i \in DOMAIN requests_queue_'[q]
                 PROVE  LET n == requests_queue_'[q][i] IN
                        /\ n <= Len(calls') /\ i # None
                        /\ calls'[n].by = q /\ calls'[n].id = i
                        /\ calls'[n].ok /\ calls'[n].got = <<>>
      BY DEF TableIsOurs
    <3>1. /\ i \in DOMAIN requests_queue_[q] /\ requests_queue_'[q][i] = requests_queue_[q][i]
          /\ q # p \/ i # sid
      BY <2>3
    <3>2. PICK n : n = requests_queue_[q][i]
      OBVIOUS
    <3>3. n \in 1 .. MaxCalls
      BY <3>1, <3>2 DEF TypeOK
    <3>4. /\ n <= N /\ i # None /\ calls[n].by = q /\ calls[n].id = i
          /\ calls[n].ok /\ calls[n].got = <<>>
      BY <2>0, <3>1, <3>2 DEF TableIsOurs
    <3>5. n # k
      BY <2>2, <3>1, <3>4
    <3>6. calls'[n] = calls[n]
      BY <2>4, <3>3, <3>4, <3>5
    <3> QED  BY <2>4, <3>1, <3>2, <3>4, <3>6
  <2>10. ASSUME NEW n \in 1 .. N, n # k PROVE IsKept(n)' <=> IsKept(n)
    <3>1. calls'[n] = calls[n] /\ calls[n].by \in Peer
      BY <2>0, <2>4, <2>10, CallType
    <3> QED  BY <2>0, <2>3, <2>10, <3>1 DEF IsKept
  <2>11. ~IsKept(k)'
    <3>1. \A i \in DOMAIN requests_queue_[p] : requests_queue_[p][i] = k => i = sid
      BY <2>2 DEF TableIsOurs
    <3> QED  BY <2>3, <2>4, <3>1 DEF IsKept
  <2>12. Numbered(k) => msg.call = k
    <3>1. Numbered(k) => sid = calls[msg.call].id
      BY <1>3, <2>2 DEF Numbered
    <3>2. msg.call \in 1 .. N
      BY <1>3, <2>0
    <3> QED  BY <1>3, <2>0, <2>2, <3>1, <3>2 DEF IdsAreFresh
  <2>13. CallbackOnce'
    <3> SUFFICES ASSUME NEW n \in 1 .. N
                 PROVE  /\ \/ calls'[n].got = <<>>
                           \/ \E m \in 1 .. Len(calls') :
                                 calls'[n].got = <<m>> /\ calls'[m].by = calls'[n].by
                        /\ calls'[n].id = None \/ ~calls'[n].ok => calls'[n].got = <<>> /\ ~IsKept(n)'
                        /\ Numbered(n)' /\ calls'[n].ok =>
                              /\ calls'[n].got \in {<<>>, <<n>>}
                              /\ IsKept(n)' <=> calls'[n].got = <<>>
      BY <2>4 DEF CallbackOnce
    <3>0. \A m \in 1 .. N : calls'[m].by = calls[m].by
      BY <2>0, <2>5 DEF CallsKept
    <3>1. CASE n # k
      <4>1. \/ calls[n].got = <<>>
            \/ \E m \in 1 .. N : calls[n].got = <<m>> /\ calls[m].by = calls[n].by
        BY <2>0 DEF CallbackOnce
      <4>2. calls'[n] = calls[n] /\ Len(calls') = N
        BY <2>4, <3>1
      <4>3. \/ calls'[n].got = <<>>
            \/ \E m \in 1 .. Len(calls') :
                  calls'[n].got = <<m>> /\ calls'[m].by = calls'[n].by
        BY <3>0, <4>1, <4>2
      <4> QED  BY <2>0, <2>7, <2>10, <3>1, <4>2, <4>3 DEF CallbackOnce
    <3>2. CASE n = k
      <4>1. /\ <<msg.call>> # <<>>
            /\ msg.call \in 1 .. Len(calls') /\ calls'[msg.call].by = calls'[n].by
        BY <1>3, <2>0, <2>2, <2>4, <3>0, <3>2
      <4>2. calls'[n].got = <<msg.call>> /\ calls'[n].id # None /\ calls'[n].ok /\ ~IsKept(n)'
        BY <2>2, <2>4, <2>11, <3>2
      <4>3. Numbered(n)' => <<msg.call>> = <<n>>
        BY <2>7, <2>12, <3>2
      <4> QED  BY <4>1, <4>2, <4>3
    <3> QED  BY <3>1, <3>2
  <2>14. \A q \in Peer : \A x \in todo'[q] : Asked(q, x)'
    BY <1>1, <2>5, <2>6, StaysAsked DEF AnswersGoBack
  <2> QED  BY <1>2, <2>5, <2>6, <2>8, <2>9, <2>13, <2>14 DEF AnswersGoBack
<1> QED  BY <1>4, <1>5

\* The invariant survives every step.
LEMMA StepRpc == RpcInv /\ [Next]_vars => RpcInv'
<1> SUFFICES ASSUME RpcInv, [Next]_vars PROVE RpcInv'
  OBVIOUS
<1>1. CASE UNCHANGED vars
  <2>1. UNCHANGED <<open, alive, id_, requests_queue_, wire, todo, calls>>
    BY <1>1 DEF vars
  <2>2. IdsAreFresh' /\ TableIsOurs' /\ CallbackOnce' /\ CallsKept
    BY <2>1, CallsUnchanged
  <2>3. TypeOK'
    BY <2>1 DEF RpcInv, TypeOK
  <2>4. \A q \in Peer : \A i \in 1 .. Len(wire'[q]) : Addressed(q, wire[q][i])'
    BY <2>1, <2>2, <2>3, SameAddressed DEF RpcInv
  <2>5. \A q \in Peer : \A x \in todo'[q] : Asked(q, x)'
    BY <2>1, <2>2, <2>3, StaysAsked DEF AnswersGoBack, RpcInv
  <2> QED  BY <2>2, <2>3, <2>4, <2>5 DEF RpcInv, AnswersGoBack
<1>2. ASSUME NEW p \in Peer, NEW id \in RequestIds(p), NEW params \in Params,
             WriteRequest(p, id, params)
      PROVE  RpcInv'
  BY <1>2, WriteRequestStep
<1>3. ASSUME NEW p \in Peer, NEW id \in RequestIds(p), WriteRequestFails(p, id)
      PROVE  RpcInv'
  BY <1>3, WriteRequestFailsStep
<1>4. ASSUME NEW p \in Peer, Answer(p) PROVE RpcInv'
  BY <1>4, AnswerStep DEF Answer
<1>5. ASSUME NEW p \in Peer, ReadRequest(p) PROVE RpcInv'
  BY <1>5, ReadRequestStep
<1>6. ASSUME NEW p \in Peer, ReadResponse(p) PROVE RpcInv'
  BY <1>6, ReadResponseStep
<1>7. ASSUME NEW p \in Peer, ReadInvalid(p) \/ ReadNull(p) \/ ReadEof(p) PROVE RpcInv'
  BY <1>7, ReadEndsStep
<1> QED  BY <1>1, <1>2, <1>3, <1>4, <1>5, <1>6, <1>7 DEF Next

\* In every state the ids of an end are told apart, the table holds requests of this
\* end that wait, and what is on the wire goes to the end it concerns.
THEOREM RpcInvariance == Spec => []RpcInv
<1>1. Init => RpcInv
  BY InitRpc
<1>2. RpcInv /\ [Next]_vars => RpcInv'
  BY StepRpc
<1> QED  BY <1>1, <1>2, PTL DEF Spec

\* PopRequestByID hands each answer to the callback of the request it answers, once.
THEOREM CallbackOnceHolds == Spec => []CallbackOnce
<1>1. RpcInv => CallbackOnce
  BY DEF RpcInv
<1> QED  BY <1>1, RpcInvariance, PTL

\* All that is on the wire is read as its sender meant it.
THEOREM ReadAsMeantHolds == Spec => []ReadAsMeant
<1>1. RpcInv => ReadAsMeant
  <2> SUFFICES ASSUME RpcInv, NEW p \in Peer, NEW i \in 1 .. Len(wire[p])
               PROVE  LET m == wire[p][i].meant
                          o == ParseJsonRPC(wire[p][i].doc)
                      IN  CASE m.kind = "request" -> o = [m EXCEPT !.params = Normal(@)]
                            [] m.kind = "response" /\ m.message = "empty" -> o.kind = "died"
                            [] m.kind = "response" /\ m.message # "empty" ->
                                   o = [m EXCEPT !.message = Normal(@)]
                            [] OTHER -> TRUE
    BY DEF ReadAsMeant
  <2>1. PICK msg \in Messages : msg = wire[p][i]
    BY DEF RpcInv, TypeOK
  <2> DEFINE m == msg.meant
             o == ParseJsonRPC(msg.doc)
  <2>2. CASE m.kind = "request"
    BY <2>1, <2>2, MessageReadAsMeant
  <2>3. CASE m.kind = "response" /\ m.message = "empty"
    BY <2>1, <2>3, MessageReadAsMeant
  <2>4. CASE m.kind = "response" /\ m.message # "empty"
    BY <2>1, <2>4, MessageReadAsMeant
  <2>5. CASE m.kind \notin {"request", "response"}
    BY <2>1, <2>5
  <2> QED  BY <2>2, <2>3, <2>4, <2>5
<1> QED  BY <1>1, RpcInvariance, PTL
=============================================================================
