----------------------------- MODULE WorkQueue -----------------------------
(***************************************************************************)
(* What a queue of deferred work promises to those who post to it: items   *)
(* are delivered one by one, each at most once, in the order in which they *)
(* were accepted; pending items may be thrown away as a whole, and then    *)
(* are never delivered.  The queue of ThreadPool (tasks_) is shown to      *)
(* implement this specification, and so are ts_queue, the functions of a   *)
(* LibEvLoop (custom_callbacks_) and the JSON-RPC frames on a byte stream. *)
(***************************************************************************)
EXTENDS Sequences, Naturals

CONSTANT Item

VARIABLES
    accepted,     \* the items accepted and not discarded, in order
    delivered     \* the items handed over for execution, in order

wqvars == <<accepted, delivered>>

WQInit ==
    /\ accepted = <<>>
    /\ delivered = <<>>

Accept(i) ==
    /\ accepted' = Append(accepted, i)
    /\ UNCHANGED delivered

Deliver ==
    /\ Len(delivered) < Len(accepted)
    /\ delivered' = Append(delivered, accepted[Len(delivered) + 1])
    /\ UNCHANGED accepted

Discard ==
    /\ accepted' = delivered
    /\ UNCHANGED delivered

WQNext ==
    \/ \E i \in Item : Accept(i)
    \/ Deliver
    \/ Discard

WQSpec == WQInit /\ [][WQNext]_wqvars

=============================================================================
