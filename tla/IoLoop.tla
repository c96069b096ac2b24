------------------------------- MODULE IoLoop -------------------------------
(***************************************************************************)
(* libev::IoLoop with its clients and child processes                      *)
(* (src/src/libev/io_loop.cpp, io_client.cpp, io_child.cpp and             *)
(* tcp/tcp_server.cpp): the registries clients_ and childs_, the watchers  *)
(* and the calls of the observer, which may call back into the loop before *)
(* the operation that called it has finished.                              *)
(*                                                                         *)
(* Everything runs in the loop thread, so the state is the call stack and  *)
(* the data.  stack lists the frames, innermost first: a frame named after *)
(* a method of the observer is about to run the observer's code, one named *)
(* after a method of the loop waits for the observer to return.  The       *)
(* observer's code does one of the things its constant allows:             *)
(*   "none"        nothing that concerns the registry                      *)
(*   "close"       closes and deletes the client it was called for         *)
(*   "closeOther"  closes and deletes another client                       *)
(*   "unregister"  moves the client away (UnRegisterClient)                *)
(*   "register"    registers a new client, or one that was moved away      *)
(*   "fork"        registers a new child process                           *)
(*   "reap"        takes a child out (UnRegisterChild) and deletes it: the *)
(*                 one it was called for, or one that GetChilds returns    *)
(***************************************************************************)
EXTENDS Naturals, Sequences

CONSTANTS
    Client,          \* the client objects that will exist
    Child,           \* the child objects that will exist
    Flags,           \* the sets of events a client may be created with
    AcceptedMay,     \* what the observer does in Accepted,
    ClosedMay,       \* in Closed,
    MovedMay,        \* in Moved,
    DataMay,         \* in DataReceived and DataReadyToWrite,
    BothMay,         \* in DataReceived when DataReadyToWrite is to follow,
    ChildMay,        \* in ChildStatusChanged,
    PostedMay,       \* and in a function run by ExecInLoopThread
    MaxLate          \* bound on the callbacks after stop_cb in its iteration

Ops == {"none", "close", "closeOther", "unregister", "register", "fork", "reap"}
NoClient == "none"

ASSUME ObserverAssumption ==
    /\ Flags \subseteq (SUBSET {"read", "write"}) \ {{}}
    /\ AcceptedMay \subseteq Ops
    /\ ClosedMay \subseteq Ops \ {"close", "unregister"}
    /\ MovedMay \subseteq {"none", "close", "closeOther"}
    /\ MaxLate \in Nat
    /\ DataMay \subseteq Ops
    /\ BothMay \subseteq Ops
    /\ ChildMay \subseteq Ops \ {"close", "unregister"}
    /\ PostedMay \subseteq Ops \ {"none", "close"}
    /\ Client \cap Child = {} /\ NoClient \notin Client \cup Child

VARIABLES
    phase,       \* where LibEvLoop::Exec is
    accepting,   \* accept_io_ is started
    clients_,    \* IoLoop::clients_
    childs_,     \* IoLoop::childs_
    life,        \* the life of each client and child object
    ours,        \* its server_ is this loop
    watching,    \* its read_write_io_ or child_ is started
    flags,       \* flags_ of each client
    stack,       \* the call stack of the loop thread, innermost frame first
    snapshot,    \* the rest of the copy cl in Stopped
    late,        \* how many posted functions and pending events there are
                 \* after stop_cb in the last iteration, at most
    toClose,     \* history: the clients registered when Stopped began
    closed       \* history: how often Closed was called for each client

vars == <<phase, accepting, clients_, childs_, life, ours, watching, flags, stack,
          snapshot, late, toClose, closed>>

Object == Client \cup Child
Observer == {"Accepted", "Closed", "Moved", "DataReceived", "DataReadyToWrite",
             "ChildStatusChanged"}
Frame == [fn : Observer \cup {"RegisterClient", "CloseClient", "UnRegisterClient",
                              "ReadWrite", "RegisterChild", "UnRegisterChild"},
          c : Object]
         \cup [fn : {"Stopped"}, c : {NoClient}]

TypeOK ==
    /\ phase \in {"new", "looping", "stopping", "stopped", "done", "corrupt", "dangling"}
    /\ accepting \in BOOLEAN
    /\ clients_ \in Seq(Client)
    /\ childs_ \in Seq(Child)
    /\ life \in [Object -> {"none", "live", "deleted"}]
    /\ ours \in [Object -> BOOLEAN]
    /\ watching \in [Object -> BOOLEAN]
    /\ flags \in [Client -> Flags \cup {{}}]
    /\ \A c \in Client : flags[c] = {} <=> life[c] = "none"
    /\ stack \in Seq(Frame)
    /\ snapshot \in Seq(Client)
    /\ late \in 0 .. MaxLate
    /\ toClose \in SUBSET Client
    /\ closed \in [Client -> Nat]

Init ==
    /\ phase = "new"
    /\ accepting = FALSE
    /\ clients_ = <<>>
    /\ childs_ = <<>>
    /\ life = [o \in Object |-> "none"]
    /\ ours = [o \in Object |-> FALSE]
    /\ watching = [o \in Object |-> FALSE]
    /\ flags = [c \in Client |-> {}]
    /\ stack = <<>>
    /\ snapshot = <<>>
    /\ late = 0
    /\ toClose = {}
    /\ closed = [c \in Client |-> 0]

Registered == {clients_[i] : i \in 1 .. Len(clients_)}
Children == {childs_[i] : i \in 1 .. Len(childs_)}

F(fn, c) == [fn |-> fn, c |-> c]
Top == Head(stack)
Running(fn) == stack # <<>> /\ Top.fn = fn

\* std::remove and erase.
Erase(list, c) ==
    LET kept[i \in 0 .. Len(list)] ==
            IF i = 0 THEN <<>>
            ELSE IF list[i] = c THEN kept[i - 1] ELSE Append(kept[i - 1], list[i])
    IN  kept[Len(list)]

(***************************************************************************)
(* The operations up to the call of the observer; rest is the stack they   *)
(* are called on.                                                          *)
(***************************************************************************)

\* RegisterClient sets server_, starts the watcher and calls Accepted.
RegisterClient(c, rest) ==
    /\ ours' = [ours EXCEPT ![c] = TRUE]
    /\ watching' = [watching EXCEPT ![c] = TRUE]
    /\ stack' = <<F("Accepted", c), F("RegisterClient", c)>> \o rest
    /\ UNCHANGED <<clients_, childs_, closed>>

\* RegisterChild does the same for a child...
RegisterChild(k, rest) ==
    /\ ours' = [ours EXCEPT ![k] = TRUE]
    /\ watching' = [watching EXCEPT ![k] = TRUE]
    /\ stack' = <<F("Accepted", k), F("RegisterChild", k)>> \o rest
    /\ UNCHANGED <<clients_, childs_, closed>>

\* ... and UnRegisterChild what UnRegisterClient does.
UnRegisterChild(k, rest) ==
    /\ ours[k]
    /\ watching' = [watching EXCEPT ![k] = FALSE]
    /\ ours' = [ours EXCEPT ![k] = FALSE]
    /\ stack' = <<F("Moved", k), F("UnRegisterChild", k)>> \o rest
    /\ UNCHANGED <<clients_, childs_, closed>>

\* IoLoop::CloseClient stops the watcher and calls Closed.  server_ is left
\* as it is.
CloseClient(c, rest) ==
    /\ ours[c]
    /\ watching' = [watching EXCEPT ![c] = FALSE]
    /\ closed' = [closed EXCEPT ![c] = @ + 1]
    /\ stack' = <<F("Closed", c), F("CloseClient", c)>> \o rest
    /\ UNCHANGED <<clients_, childs_, ours>>

\* Fault: server_ is not reset.
UnRegisterClient_KeepsServer(c, rest) ==
    /\ ours[c]
    /\ watching' = [watching EXCEPT ![c] = FALSE]
    /\ stack' = <<F("Moved", c), F("UnRegisterClient", c)>> \o rest
    /\ UNCHANGED <<clients_, childs_, ours, closed>>

\* UnRegisterClient stops the watcher, resets server_ and calls Moved.
UnRegisterClient(c, rest) ==
    /\ ours[c]
    /\ watching' = [watching EXCEPT ![c] = FALSE]
    /\ ours' = [ours EXCEPT ![c] = FALSE]
    /\ stack' = <<F("Moved", c), F("UnRegisterClient", c)>> \o rest
    /\ UNCHANGED <<clients_, childs_, closed>>

\* A client object comes into being.
Create(c, fl) ==
    /\ life[c] = "none"
    /\ life' = [life EXCEPT ![c] = "live"]
    /\ flags' = [flags EXCEPT ![c] = fl]

\* IoClient::Close and the caller's delete: CloseClient first when the client
\* has a server, otherwise the loop does not hear of it.
Close(c, rest) ==
    \/ /\ CloseClient(c, rest)
       /\ UNCHANGED life
    \/ /\ ~ours[c]
       /\ life' = [life EXCEPT ![c] = "deleted"]
       /\ stack' = rest
       /\ UNCHANGED <<clients_, childs_, ours, watching, closed>>

\* An unfinished call on the stack rest is about client d; the observer's code
\* leaves such a client alone.
InCall(d, rest) == \E i \in 1 .. Len(rest) : rest[i].c = d

\* What the observer's code, called for client or child c, or a posted function
\* does when it may do op.  A child that Stopped has deleted is still listed by
\* GetChilds: to use it ends in "dangling".
Do(op, c, rest) ==
    /\ \/ /\ op = "none"
          /\ stack' = rest
          /\ UNCHANGED <<phase, clients_, childs_, life, ours, watching, flags, closed>>
       \/ /\ op = "close"
          /\ Close(c, rest)
          /\ UNCHANGED <<phase, flags>>
       \/ /\ op = "closeOther"
          /\ \E d \in Client \ {c} :
                life[d] = "live" /\ ~InCall(d, rest) /\ Close(d, rest)
          /\ UNCHANGED <<phase, flags>>
       \/ /\ op = "unregister"
          /\ \E d \in IF c = NoClient THEN Registered ELSE {c} :
                life[d] = "live" /\ UnRegisterClient(d, rest)
          /\ UNCHANGED <<phase, life, flags>>
       \/ /\ op = "register"
          /\ \E d \in Client :
                /\ RegisterClient(d, rest)
                /\ \/ \E fl \in Flags : Create(d, fl)
                   \/ /\ life[d] = "live" /\ ~ours[d] /\ ~InCall(d, rest)
                      /\ UNCHANGED <<life, flags>>
          /\ UNCHANGED phase
       \/ /\ op = "fork"
          /\ \E k \in Child :
                /\ life[k] = "none"
                /\ life' = [life EXCEPT ![k] = "live"]
                /\ RegisterChild(k, rest)
          /\ UNCHANGED <<phase, flags>>
       \/ /\ op = "reap"
          /\ \E k \in IF c \in Child THEN {c} ELSE Children :
                /\ ~InCall(k, rest)
                /\ IF life[k] = "live"
                   THEN UnRegisterChild(k, rest) /\ UNCHANGED phase
                   ELSE /\ phase' = "dangling"
                        /\ UNCHANGED <<clients_, childs_, ours, watching, stack, closed>>
          /\ UNCHANGED <<life, flags>>
    /\ UNCHANGED <<accepting, snapshot, toClose>>

(***************************************************************************)
(* The observer.                                                           *)
(***************************************************************************)
May(fn, rest) ==
    CASE fn = "Accepted" -> AcceptedMay
      [] fn = "Closed" -> ClosedMay
      [] fn = "Moved" -> MovedMay
      [] fn = "ChildStatusChanged" -> ChildMay
      [] fn = "DataReceived" /\ rest # <<>> -> BothMay
      [] OTHER -> DataMay

Observe ==
    /\ stack # <<>>
    /\ Top.fn \in Observer
    /\ \E op \in May(Top.fn, Tail(stack)) :
          /\ op \in {"close", "unregister"} => Top.c \in Client
          /\ Do(op, Top.c, Tail(stack))
    /\ UNCHANGED late

(***************************************************************************)
(* The operations after the observer has returned.                         *)
(***************************************************************************)
RegisterClientReturn ==
    /\ Running("RegisterClient")
    /\ clients_' = Append(clients_, Top.c)
    /\ stack' = Tail(stack)
    /\ UNCHANGED <<phase, accepting, childs_, life, ours, watching, flags, snapshot,
                   late, toClose, closed>>

\* CloseClient erases the client; every caller of Close then deletes it.
CloseClientReturn ==
    /\ Running("CloseClient")
    /\ clients_' = Erase(clients_, Top.c)
    /\ life' = [life EXCEPT ![Top.c] = "deleted"]
    /\ stack' = Tail(stack)
    /\ UNCHANGED <<phase, accepting, childs_, ours, watching, flags, snapshot, late, toClose,
                   closed>>

UnRegisterClientReturn ==
    /\ Running("UnRegisterClient")
    /\ clients_' = Erase(clients_, Top.c)
    /\ stack' = Tail(stack)
    /\ UNCHANGED <<phase, accepting, childs_, life, ours, watching, flags, snapshot,
                   late, toClose, closed>>

RegisterChildReturn ==
    /\ Running("RegisterChild")
    /\ childs_' = Append(childs_, Top.c)
    /\ stack' = Tail(stack)
    /\ UNCHANGED <<phase, accepting, clients_, life, ours, watching, flags, snapshot,
                   late, toClose, closed>>

\* Fault: the list is left as it is.
UnRegisterChildReturn_Listed ==
    /\ Running("UnRegisterChild")
    /\ life' = [life EXCEPT ![Top.c] = "deleted"]
    /\ stack' = Tail(stack)
    /\ UNCHANGED <<phase, accepting, clients_, childs_, ours, watching, flags, snapshot,
                   late, toClose, closed>>

\* UnRegisterChild erases the child; its caller then deletes it.
UnRegisterChildReturn ==
    /\ Running("UnRegisterChild")
    /\ childs_' = Erase(childs_, Top.c)
    /\ life' = [life EXCEPT ![Top.c] = "deleted"]
    /\ stack' = Tail(stack)
    /\ UNCHANGED <<phase, accepting, clients_, ours, watching, flags, snapshot,
                   late, toClose, closed>>

\* ReadWrite goes from DataReceived to DataReadyToWrite without looking at
\* the client again.
ReadWriteContinue ==
    /\ Running("ReadWrite")
    /\ stack' = <<F("DataReadyToWrite", Top.c)>> \o Tail(stack)
    /\ UNCHANGED <<phase, accepting, clients_, childs_, life, ours, watching, flags,
                   snapshot, late, toClose, closed>>

(***************************************************************************)
(* Events of the loop thread.                                              *)
(***************************************************************************)

\* TcpServer::PreLooped starts accept_io_; the observer's PreLooped may
\* register clients, which a posted function does as well.
PreLooped ==
    /\ phase = "new"
    /\ phase' = "looping"
    /\ accepting' = TRUE
    /\ UNCHANGED <<clients_, childs_, life, ours, watching, flags, stack, snapshot,
                   late, toClose, closed>>

\* Fault: DataReadyToWrite is called first.
ReadWrite_WriteFirst(c, ev) ==
    /\ phase = "looping"
    /\ stack = <<>>
    /\ watching[c]
    /\ ev \subseteq flags[c] /\ ev # {}
    /\ stack' = IF ev = {"read", "write"}
                THEN <<F("DataReadyToWrite", c), F("DataReceived", c)>>
                ELSE IF ev = {"read"} THEN <<F("DataReceived", c)>>
                                      ELSE <<F("DataReadyToWrite", c)>>
    /\ UNCHANGED <<phase, accepting, clients_, childs_, life, ours, watching, flags,
                   snapshot, late, toClose, closed>>

\* read_write_cb and ReadWrite with the events ev.
ReadWrite(c, ev) ==
    /\ phase = "looping"
    /\ stack = <<>>
    /\ watching[c]
    /\ ev \subseteq flags[c] /\ ev # {}
    /\ stack' = IF ev = {"read", "write"}
                THEN <<F("DataReceived", c), F("ReadWrite", c)>>
                ELSE IF ev = {"read"} THEN <<F("DataReceived", c)>>
                                      ELSE <<F("DataReadyToWrite", c)>>
    /\ UNCHANGED <<phase, accepting, clients_, childs_, life, ours, watching, flags,
                   snapshot, late, toClose, closed>>

\* child_cb and ChildStatus.  The event may also be pending when stop_cb deletes
\* the child in the same iteration: then libev calls back into freed memory.
ChildCb(k) ==
    /\ stack = <<>>
    /\ watching[k]
    /\ \/ /\ phase = "looping"
          /\ stack' = <<F("ChildStatusChanged", k)>>
          /\ UNCHANGED <<phase, late>>
       \/ /\ phase = "stopped" /\ late > 0 /\ life[k] = "deleted"
          /\ late' = late - 1
          /\ phase' = "dangling"
          /\ UNCHANGED stack
    /\ UNCHANGED <<accepting, clients_, childs_, life, ours, watching, flags,
                   snapshot, toClose, closed>>

\* accept_cb: the new client is registered, or, when IsCanBeRegistered
\* refuses it, closed and deleted (its constructor has set server_).
AcceptCb(c, fl) ==
    /\ phase = "looping"
    /\ stack = <<>>
    /\ accepting
    /\ Create(c, fl)
    /\ \/ RegisterClient(c, <<>>)
       \/ /\ ours' = [ours EXCEPT ![c] = TRUE]
          /\ closed' = [closed EXCEPT ![c] = @ + 1]
          /\ stack' = <<F("Closed", c), F("CloseClient", c)>>
          /\ UNCHANGED <<clients_, childs_, watching>>
    /\ UNCHANGED <<phase, accepting, snapshot, late, toClose>>

\* A function given to ExecInLoopThread.  libev may still invoke custom_cb
\* once after stop_cb in the last iteration, with the functions then queued.
Posted ==
    /\ \/ phase = "looping" /\ UNCHANGED late
       \/ phase = "stopped" /\ late > 0 /\ late' = late - 1
    /\ stack = <<>>
    /\ \E op \in PostedMay : Do(op, NoClient, <<>>)

\* TcpServer::Stopped: accept_io_ is stopped and clients_ is copied...
StopBegin ==
    /\ phase = "looping"
    /\ stack = <<>>
    /\ phase' = "stopping"
    /\ accepting' = FALSE
    /\ snapshot' = clients_
    /\ toClose' = Registered
    /\ stack' = <<F("Stopped", NoClient)>>
    /\ late' \in 0 .. MaxLate
    /\ UNCHANGED <<clients_, childs_, life, ours, watching, flags, closed>>

\* ...and every client of the copy is closed and deleted.  A client that the
\* observer has deleted in the meantime is used after its end.
StoppedClose ==
    /\ Running("Stopped")
    /\ snapshot # <<>>
    /\ snapshot' = Tail(snapshot)
    /\ IF life[Head(snapshot)] = "live"
       THEN CloseClient(Head(snapshot), stack) /\ UNCHANGED phase
       ELSE phase' = "corrupt" /\ UNCHANGED <<clients_, childs_, ours, watching, stack, closed>>
    /\ UNCHANGED <<accepting, life, flags, late, toClose>>

\* The children are deleted after the clients.  Nobody is told, their watchers
\* are not stopped, and childs_ keeps the pointers.
StoppedReturn ==
    /\ Running("Stopped")
    /\ snapshot = <<>>
    /\ phase' = "stopped"
    /\ life' = [o \in Object |-> IF o \in Children THEN "deleted" ELSE life[o]]
    /\ stack' = Tail(stack)
    /\ UNCHANGED <<accepting, clients_, childs_, ours, watching, flags, snapshot,
                   late, toClose, closed>>

PostLooped ==
    /\ phase = "stopped"
    /\ stack = <<>>
    /\ phase' = "done"
    /\ UNCHANGED <<accepting, clients_, childs_, life, ours, watching, flags, stack,
                   snapshot, late, toClose, closed>>

Steps ==
    \/ Observe
    \/ RegisterClientReturn
    \/ CloseClientReturn
    \/ UnRegisterClientReturn
    \/ RegisterChildReturn
    \/ UnRegisterChildReturn
    \/ ReadWriteContinue
    \/ StoppedClose
    \/ StoppedReturn

Next ==
    /\ phase \notin {"corrupt", "dangling"}
    /\ \/ Steps
       \/ PreLooped
       \/ \E k \in Child : ChildCb(k)
       \/ \E c \in Client, ev \in SUBSET {"read", "write"} : ReadWrite(c, ev)
       \/ \E c \in Client, fl \in Flags : AcceptCb(c, fl)
       \/ Posted
       \/ StopBegin
       \/ PostLooped

Spec == Init /\ [][Next]_vars

(***************************************************************************)
(* Properties.                                                             *)
(***************************************************************************)

\* The assertion of ReadWrite, for the moment of every call of the observer:
\* the client is alive, and in DataReceived and DataReadyToWrite it belongs
\* to this loop ("CHECK(client && client->GetServer() == this)").
CallbackClientIsOurs ==
    stack # <<>> /\ Top.fn \in Observer =>
        /\ life[Top.c] = "live"
        /\ Top.fn \in {"DataReceived", "DataReadyToWrite"} => ours[Top.c]

\* Between two events clients_ and childs_ list exactly the clients and children
\* whose watchers run, once each, all alive and owned by this loop: no event can
\* come for one that is closed, moved or deleted, and Stopped will find all.
\* After Stopped this holds of the clients; childs_ is left full of pointers to
\* deleted children, whose watchers run.
RegistryMatchesWatchers ==
    stack = <<>> /\ phase # "corrupt" =>
        /\ \A c \in Client : (c \in Registered) <=> watching[c]
        /\ \A c \in Registered : life[c] = "live" /\ ours[c]
        /\ \A i, j \in 1 .. Len(clients_) : clients_[i] = clients_[j] => i = j
        /\ \A k \in Child : (k \in Children) <=> watching[k]
        /\ phase \in {"new", "looping"} => \A k \in Children : life[k] = "live" /\ ours[k]
        /\ \A i, j \in 1 .. Len(childs_) : childs_[i] = childs_[j] => i = j

\* The unfinished calls of the loop: the stack without the observer's own frame.
Calls == IF stack # <<>> /\ Top.fn \in Observer THEN Tail(stack) ELSE stack

\* A registration, a close or a move of o is under way.
Busy(o) == \E i \in 1 .. Len(Calls) : Calls[i].c = o /\ Calls[i].fn # "ReadWrite"

\* What a call on the stack may rely on when it goes on.
FrameIsSound(f) ==
    /\ f.fn \in {"RegisterClient", "CloseClient", "UnRegisterClient", "ReadWrite", "Closed",
                 "DataReceived", "DataReadyToWrite"} => f.c \in Client
    /\ f.fn \in {"RegisterChild", "UnRegisterChild", "ChildStatusChanged"} => f.c \in Child
    /\ f.fn \notin {"UnRegisterClient", "Stopped"} => life[f.c] = "live"
    /\ f.fn = "UnRegisterClient" => life[f.c] # "none" /\ (life[f.c] = "live" => closed[f.c] = 0)
    /\ f.fn \in {"RegisterClient", "RegisterChild", "ReadWrite", "DataReceived",
                 "DataReadyToWrite"} => ours[f.c] /\ watching[f.c]
    /\ f.fn \in {"UnRegisterClient", "UnRegisterChild"} => ~ours[f.c] /\ ~watching[f.c]
    /\ f.fn = "CloseClient" => ours[f.c] /\ ~watching[f.c] /\ closed[f.c] = 1
    /\ f.fn = "Moved" /\ f.c \in Client => ~ours[f.c]
    /\ f.fn = "RegisterClient" => f.c \notin Registered /\ closed[f.c] = 0
    /\ f.fn = "RegisterChild" => f.c \notin Children
    /\ f.fn = "Stopped" => phase = "stopping"

\* The calls of the loop are about different objects, Stopped is the outermost.
CallsAreSound ==
    /\ \A i \in 1 .. Len(Calls) :
          /\ Calls[i].fn \notin Observer
          /\ FrameIsSound(Calls[i])
          /\ Calls[i].fn = "Stopped" => i = Len(Calls)
          /\ \A j \in 1 .. Len(Calls) : Calls[i].c = Calls[j].c => i = j
    /\ stack # <<>> /\ Top.fn \in Observer =>
          /\ FrameIsSound(Top)
          /\ Top.fn = "DataReadyToWrite" => \A i \in 1 .. Len(Calls) : Calls[i].c # Top.c

\* A client that no call is about is in clients_ exactly while it is watched, and
\* so is one that is alive and belongs to this loop.
ClientIsSound(c) ==
    /\ c \in Registered <=> watching[c]
    /\ watching[c] <=> life[c] = "live" /\ ours[c]
    /\ life[c] # "deleted" => closed[c] = 0

\* The same of a child, until Stopped deletes it.
ChildIsSound(k) ==
    /\ k \in Children <=> watching[k]
    /\ watching[k] => life[k] # "none"
    /\ phase \in {"new", "looping", "stopping"} /\ watching[k] => life[k] = "live" /\ ours[k]

ObjectsAreSound ==
    /\ \A c \in Client : ~Busy(c) => ClientIsSound(c)
    /\ \A k \in Child : ~Busy(k) => ChildIsSound(k)
    /\ \A i, j \in 1 .. Len(clients_) : clients_[i] = clients_[j] => i = j
    /\ \A i, j \in 1 .. Len(childs_) : childs_[i] = childs_[j] => i = j

Gone(c) == life[c] = "deleted" /\ closed[c] = 1 /\ c \notin Registered

\* While Stopped runs nobody but Stopped closes clients, and those of the copy that
\* are still to be closed are registered and in no call.
StoppingIsSound ==
    /\ phase \in {"new", "looping"} => toClose = {}
    /\ phase = "stopping" =>
          /\ \E i \in 1 .. Len(Calls) : Calls[i].fn = "Stopped"
          /\ \A i \in 1 .. Len(stack) : stack[i].fn \in
                {"Stopped", "CloseClient", "RegisterClient", "RegisterChild", "Accepted", "Closed"}
          /\ \A i, j \in 1 .. Len(snapshot) : snapshot[i] = snapshot[j] => i = j
          /\ \A i \in 1 .. Len(snapshot) : watching[snapshot[i]] /\ ~Busy(snapshot[i])
          /\ \A c \in toClose :
                \/ \E i \in 1 .. Len(snapshot) : snapshot[i] = c
                \/ \E i \in 1 .. Len(Calls) : Calls[i] = F("CloseClient", c)
                \/ Gone(c)
    /\ phase \in {"stopped", "done", "dangling"} => \A c \in toClose : Gone(c)
    /\ phase # "corrupt"
    /\ phase = "dangling" => \E k \in Children : watching[k] /\ life[k] = "deleted"

\* The registries and watchers between events, and what keeps them right while the
\* calls of the loop and of the observer nest.
LoopInv ==
    /\ TypeOK /\ RegistryMatchesWatchers
    /\ CallsAreSound /\ ObjectsAreSound /\ StoppingIsSound

\* IoLoop::Stopped closes and deletes every client that was registered when
\* it began, telling the observer once, whatever the observer does in Closed;
\* it uses no client that is gone.  What can be used after its end is a child
\* that Stopped itself has deleted.
StoppedClosesAll ==
    /\ phase # "corrupt"
    /\ phase \in {"stopped", "done", "dangling"} =>
          \A c \in toClose : life[c] = "deleted" /\ closed[c] = 1 /\ c \notin Registered
    /\ phase = "dangling" => \E k \in Children : watching[k] /\ life[k] = "deleted"

\* The observer is told Closed only of a client that this loop was serving
\* or has just refused in accept_cb, never of one it was told Moved for:
\* UnRegisterClient resets server_ before Moved, so that the client's Close
\* no longer reaches this loop ("client->server_ = nullptr").
ClosedOnlyServed ==
    [][\A c \in Client :
          closed'[c] > closed[c] => watching[c] \/ life[c] = "none"]_vars

=============================================================================
