------------------------------ MODULE Values ------------------------------
(***************************************************************************)
(* The Value hierarchy (src/include/common/value.h, src/src/value.cpp): a  *)
(* container holds raw pointers to the values it owns, its destructor      *)
(* deletes them, and every operation moves a pointer between the caller    *)
(* and a container, or frees what it points to.                            *)
(*                                                                         *)
(* A value is an address of the heap.  The four containers differ in the   *)
(* keys and in the order of iteration: an ArrayValue is a vector; a        *)
(* SetValue and a ZSetValue are ordered by the ADDRESS of the element or   *)
(* of the key, a HashValue by the buckets, so that a new entry may end up  *)
(* before, between or after the others.                                    *)
(*                                                                         *)
(* The caller keeps to the contract of raw pointers: it hands over only    *)
(* values it holds, once, and no value is put into itself.                 *)
(***************************************************************************)
EXTENDS Integers, Sequences, SequencesExt, Functions, FiniteSets

CONSTANTS
    Addr,        \* the addresses of the heap
    MaxNew,      \* values are created only while fewer are live: the other
                 \* addresses are for copies of containers
    MaxContainers, \* how many containers there may be at a time
    Leaves,      \* the pairs <<type, value>> the caller creates leaves of
    Key,         \* the non-empty keys of hashes
    Word,        \* 2^w, for an integer of w bits
    MaxIndex     \* the largest index the caller passes

Containers == {"array", "set", "zset", "hash"}
Signed == {"boolean", "integer", "long", "double", "nan", "time", "string"}
Unsigned == {"uinteger", "ulong"}

ASSUME ValuesAssumption ==
    /\ Leaves \subseteq (Signed \cup Unsigned \cup {"null"}) \X Int
    /\ Word \in Nat \ {0}
    /\ \A l \in Leaves : l[1] \in Unsigned => l[2] \in 0 .. Word - 1

VARIABLES
    heap,        \* address -> the value there, or Free
    held,        \* the values the caller owns (raw or unique_ptr)
    copied       \* history: <<original, copy>> after a step that copies

vars == <<heap, held, copied>>

\* kids: the owned values in the order of iteration (of a zset, each key
\* followed by its value); keys: the keys of a hash in the same order.
Node(t, r, k, s) == [type |-> t, raw |-> r, kids |-> k, keys |-> s]
Free == Node("free", 0, <<>>, <<>>)
Empty(t) == Node(t, 0, <<>>, <<>>)

Live == {a \in Addr : heap[a].type # "free"}
Unused == Addr \ Live
RoomFor(k) == Cardinality(Live) + k <= MaxNew
ContainersIn(S) == Cardinality({a \in S : heap[a].type \in Containers})
Arrays == {a \in Addr : heap[a].type = "array"}

Kids(a) == ToSet(heap[a].kids)

\* What the destructor of the value at a deletes, a included: the least set of
\* values with a that holds the values each of its containers owns.
Reach(a) ==
    LET closed == {S \in SUBSET Addr : a \in S /\ \A x \in S : Kids(x) \subseteq S}
    IN {b \in Addr : \A S \in closed : b \in S}
ReachAll(S) == UNION {Reach(a) : a \in S}

\* Get, GetList, Find and the iterators lead from a held value to these.
Accessible == ReachAll(held)

Init == heap = [a \in Addr |-> Free] /\ held = {} /\ copied = <<>>

(***************************************************************************)
(* Leaves.  An unsigned value is stored as a signed one of the same width  *)
(* and cast back by its getter.                                            *)
(***************************************************************************)
Stored(t, v) == IF t \in Unsigned /\ 2 * v >= Word THEN v - Word ELSE v

\* What GetAsXxx yields for a value of the type Xxx.
GetAs(t, r) == IF t \in Unsigned THEN r % Word ELSE r

\* The same type, and for leaves the same value as their getter reads it.  "nan"
\* is the double that is not a number, and equals nothing.
SameLeaf(m, n) ==
    /\ m.type = n.type /\ m.type # "nan"
    /\ GetAs(m.type, m.raw) = GetAs(n.type, n.raw)

\* As many entries, with the same keys in the order of iteration.
SameKeys(m, n) == m.keys = n.keys /\ Len(m.kids) = Len(n.kids)

\* Of containers the entries are compared one by one in the order of iteration.
SameNode(m, n, equals) ==
    /\ SameLeaf(m, n)
    /\ SameKeys(m, n)
    /\ \A i \in DOMAIN m.kids : equals[<<m.kids[i], n.kids[i]>>]

\* Equals of the values at a and b of the heap h.
Equals(h, a, b) ==
    LET equals[p \in Addr \X Addr] == SameNode(h[p[1]], h[p[2]], equals)
    IN equals[<<a, b>>]

(***************************************************************************)
(* The caller creates, copies and deletes.                                 *)
(***************************************************************************)
Create(n) ==
    /\ RoomFor(1)
    /\ \E a \in Unused :
          /\ heap' = [heap EXCEPT ![a] = n]
          /\ held' = held \cup {a}

\* The heap after the values of S were deleted.
Freed(S) == [x \in Addr |-> IF x \in S THEN Free ELSE heap[x]]

Delete(a) ==
    /\ heap' = Freed(Reach(a))
    /\ held' = held \ {a}

\* The orders in which the entries of a copy of n may come.
Orders(n) ==
    {p \in Bijection(DOMAIN n.kids, DOMAIN n.kids) :
        /\ n.type = "array" => \A i \in DOMAIN p : p[i] = i
        /\ n.type = "zset" => \A i \in DOMAIN p :
                                 i % 2 = 1 => p[i] % 2 = 1 /\ p[i + 1] = p[i] + 1}

\* Fault: an unsigned value is copied as a signed one.
CopyOf_Signed(n) ==
    IF n.type \in Unsigned THEN [n EXCEPT !.type = "integer"] ELSE n

\* A value without its entries; a fundamental one is read with the getter of
\* its type and created again.
CopyOf(n) == [n EXCEPT !.raw = Stored(n.type, GetAs(n.type, n.raw))]

\* f places the copy of every value below a, and the entries of the unordered
\* containers come in any order.
CopyTo(a, f) ==
    \E order \in [Reach(a) -> UNION {Orders(heap[x]) : x \in Reach(a)}] :
        /\ \A x \in Reach(a) : order[x] \in Orders(heap[x])
        /\ heap' = [y \in Addr |->
              IF y \notin Range(f) THEN heap[y]
              ELSE LET x == CHOOSE x \in Reach(a) : f[x] = y
                       n == heap[x]
                   IN [CopyOf(n) EXCEPT
                          !.kids = [i \in DOMAIN n.kids |-> f[n.kids[order[x][i]]]],
                          !.keys = [i \in DOMAIN n.keys |-> n.keys[order[x][i]]]]]

DeepCopy(a) ==
    /\ heap[a].type \notin Containers => RoomFor(1)
    /\ ContainersIn(Live) + ContainersIn(Reach(a)) <= MaxContainers
    /\ \E f \in Injection(Reach(a), Unused) :
          /\ CopyTo(a, f)
          /\ held' = held \cup {f[a]}
          /\ copied' = <<a, f[a]>>

(***************************************************************************)
(* ArrayValue.                                                             *)
(***************************************************************************)
\* The caller may hand over v, which it holds, to the container c.
MayGive(c, v) == c \notin Reach(v)

List(c) == heap[c].kids

Push(c, v) ==
    /\ MayGive(c, v)
    /\ heap' = [heap EXCEPT ![c].kids = Append(@, v)]
    /\ held' = held \ {v}

\* AppendBoolean, AppendInteger, AppendDouble, AppendString and the like.
PushLeaf(c, n) ==
    /\ RoomFor(1)
    /\ \E v \in Unused :
          heap' = [heap EXCEPT ![c].kids = Append(@, v), ![v] = n]
    /\ UNCHANGED held

\* Fault: a duplicate is refused but not deleted.
AppendIfNotPresent_Keeps(c, v) ==
    /\ MayGive(c, v)
    /\ heap' = IF \E k \in ToSet(List(c)) : Equals(heap, k, v)
               THEN heap
               ELSE [heap EXCEPT ![c].kids = Append(@, v)]
    /\ held' = held \ {v}

\* A value that is present is deleted: the caller loses it either way.
AppendIfNotPresent(c, v) ==
    /\ MayGive(c, v)
    /\ heap' = IF \E k \in ToSet(List(c)) : Equals(heap, k, v)
               THEN Freed(Reach(v))
               ELSE [heap EXCEPT ![c].kids = Append(@, v)]
    /\ held' = held \ {v}

\* Beyond the end the list is padded with new null values.
Set(c, i, v) ==
    /\ MayGive(c, v)
    /\ held' = held \ {v}
    /\ LET n == Len(List(c)) IN
       \/ /\ i < n
          /\ heap' = [Freed(Reach(List(c)[i + 1])) EXCEPT ![c].kids[i + 1] = v]
       \/ /\ i >= n /\ (i > n => RoomFor(i - n))
          /\ \E pad \in Injection(1 .. i - n, Unused) :
             heap' = [x \in Addr |->
                 CASE x \in Range(pad) -> Empty("null")
                   [] x = c -> [heap[c] EXCEPT !.kids = @ \o Append(pad, v)]
                   [] OTHER -> heap[x]]

\* Fault: a value that is handed out is deleted too.
Take_Deletes(c, i, out) ==
    /\ heap' = [Freed(Reach(List(c)[i])) EXCEPT ![c].kids = RemoveAt(@, i)]
    /\ held' = IF out THEN held \cup {List(c)[i]} ELSE held

\* The element is handed out or deleted, and leaves the list.
Take(c, i, out) ==
    /\ heap' = [Freed(IF out THEN {} ELSE Reach(List(c)[i]))
                   EXCEPT ![c].kids = RemoveAt(@, i)]
    /\ held' = IF out THEN held \cup {List(c)[i]} ELSE held

\* Remove(index, out_value) and Erase(iterator, out_value).
RemoveIndex(c, i, out) == Take(c, i, out)

\* Remove(value, index): the first element that equals the value, which may
\* be the element itself.
RemoveEqual(c, v) ==
    /\ \E i \in DOMAIN List(c) :
          /\ Equals(heap, List(c)[i], v)
          /\ \A j \in 1 .. i - 1 : ~Equals(heap, List(c)[j], v)
          /\ Take(c, i, FALSE)

\* Insert returns false for an index beyond the end: the caller keeps v.
Insert(c, i, v) ==
    /\ MayGive(c, v)
    /\ i <= Len(List(c))
    /\ heap' = [heap EXCEPT ![c].kids = InsertAt(@, i + 1, v)]
    /\ held' = held \ {v}

Swap(c, d) ==
    /\ c \notin Reach(d) /\ d \notin Reach(c)
    /\ heap' = [heap EXCEPT ![c].kids = List(d), ![d].kids = List(c)]
    /\ UNCHANGED held

(***************************************************************************)
(* SetValue, ZSetValue and HashValue.  A new entry may come anywhere in    *)
(* the order of iteration.                                                 *)
(***************************************************************************)
SetInsert(c, v) ==
    /\ heap[c].type = "set" /\ MayGive(c, v)
    /\ \E i \in 1 .. Len(List(c)) + 1 :
          heap' = [heap EXCEPT ![c].kids = InsertAt(@, i, v)]
    /\ held' = held \ {v}

\* map_[key] = value for the address of a key that is not in the map.
ZSetInsert(c, k, v) ==
    /\ heap[c].type = "zset" /\ MayGive(c, k) /\ MayGive(c, v) /\ k # v
    /\ \E i \in 0 .. Len(List(c)) \div 2 :
          heap' = [heap EXCEPT ![c].kids =
                       SubSeq(@, 1, 2 * i) \o <<k, v>> \o SubSeq(@, 2 * i + 1, Len(@))]
    /\ held' = held \ {k, v}

\* hash_[key] = value: the pointer that was there is overwritten.
HashInsert(c, key, v) ==
    /\ heap[c].type = "hash" /\ MayGive(c, v)
    /\ LET s == heap[c].keys IN
       \/ \E i \in DOMAIN s :
             /\ s[i] = key
             /\ heap' = [heap EXCEPT ![c].kids[i] = v]
       \/ /\ key \notin ToSet(s)
          /\ \E i \in 1 .. Len(s) + 1 :
                heap' = [heap EXCEPT ![c].kids = InsertAt(@, i, v),
                                     ![c].keys = InsertAt(@, i, key)]
    /\ held' = held \ {v}

\* clear() of the four containers.
Clear(c) ==
    /\ heap[c].type \in Containers
    /\ heap' = [Freed(Reach(c) \ {c}) EXCEPT ![c] = Empty(heap[c].type)]
    /\ UNCHANGED held

(***************************************************************************)
(* The specification.                                                      *)
(***************************************************************************)
Leaf(l) == Node(l[1], Stored(l[1], l[2]), <<>>, <<>>)

Caller ==
    \/ \E l \in Leaves : Create(Leaf(l))
    \/ \E t \in Containers : ContainersIn(Live) < MaxContainers /\ Create(Empty(t))
    \/ \E a \in held : Delete(a)

ArrayOps ==
    \E c \in Arrays \cap Accessible :
        \/ \E v \in held : Push(c, v) \/ AppendIfNotPresent(c, v)
        \/ \E v \in held, i \in 0 .. MaxIndex : Set(c, i, v) \/ Insert(c, i, v)
        \/ \E l \in Leaves : PushLeaf(c, Leaf(l))
        \/ \E i \in DOMAIN List(c), out \in BOOLEAN : RemoveIndex(c, i, out)
        \/ \E v \in Accessible : RemoveEqual(c, v)
        \/ \E d \in Arrays \cap Accessible : Swap(c, d)

OtherOps ==
    \E c \in Accessible :
        \/ \E v \in held : SetInsert(c, v)
        \/ \E k, v \in held : ZSetInsert(c, k, v)
        \/ \E key \in Key, v \in held : HashInsert(c, key, v)
        \/ Clear(c)

Next ==
    \/ \E a \in Accessible : DeepCopy(a)
    \/ (Caller \/ ArrayOps \/ OtherOps) /\ copied' = <<>>

Spec == Init /\ [][Next]_vars

(***************************************************************************)
(* Properties.                                                             *)
(***************************************************************************)
TypeOK ==
    /\ held \subseteq Live
    /\ heap \in [Addr -> [type : Containers \cup {"null", "free"} \cup Signed \cup Unsigned,
                         raw : Int, kids : Seq(Addr), keys : Seq(Key)]]
    /\ \A a \in Addr :
          /\ heap[a].type \notin Containers => heap[a].kids = <<>>
          /\ heap[a].type = "zset" => Len(heap[a].kids) % 2 = 0
          /\ Len(heap[a].keys) = IF heap[a].type = "hash" THEN Len(heap[a].kids) ELSE 0
          /\ heap[a].type \in Unsigned => -Word <= 2 * heap[a].raw /\ 2 * heap[a].raw < Word

\* No container is below itself: among any values there is one that owns none of
\* them.
Grounded == \A S \in SUBSET Addr : S # {} => \E x \in S : Kids(x) \cap S = {}

\* Through any sequence of the operations no pointer is left to a value that
\* was deleted, and no value has two owners (two containers, two entries of
\* one, a container and the caller) or owns itself in the end, so a destructor
\* ends and each value is deleted at most once.
SingleOwner ==
    /\ TypeOK
    /\ \A a \in Addr :
          /\ Kids(a) \subseteq Live \ held
          /\ IsInjective(heap[a].kids)
    /\ \A a, b \in Addr : a # b => Kids(a) \cap Kids(b) = {}
    /\ Grounded

\* The values nobody owns and nobody will delete.
Lost == {a \in Live \ held : \A c \in Addr : a \notin Kids(c)}

\* Nothing is leaked but the value that HashValue::Insert overwrites: every
\* other operation deletes what it drops or hands it to the caller.
OnlyOverwriteLeaks ==
    [][\A a \in Lost' \ Lost :
          /\ Lost' \ Lost = {a}
          /\ \E c \in Live : heap[c].type = "hash" /\ a \in Kids(c)
                             /\ heap'[c].keys = heap[c].keys]_vars

\* No container below a has an order of iteration that can differ in a copy, and
\* no leaf is a NaN.
Comparable(a) ==
    \A x \in Reach(a) :
        /\ heap[x].type # "nan"
        /\ heap[x].type \in {"set", "hash"} => Len(heap[x].kids) <= 1
        /\ heap[x].type = "zset" => Len(heap[x].kids) <= 2

\* The entries of n as data, whatever the order of iteration.
Entries(n, content) ==
    LET kid(i) == content[n.kids[i]]
    IN CASE n.type = "array" -> [i \in DOMAIN n.kids |-> kid(i)]
         [] n.type = "set" -> {kid(i) : i \in DOMAIN n.kids}
         [] n.type = "zset" -> {<<kid(2 * i - 1), kid(2 * i)>> : i \in 1 .. Len(n.kids) \div 2}
         [] n.type = "hash" -> {<<n.keys[i], kid(i)>> : i \in DOMAIN n.kids}
         [] OTHER -> {}

\* The value at a as data.
Content(h, a) ==
    LET content[x \in Addr] ==
            <<h[x].type, h[x].raw, Len(h[x].kids), Entries(h[x], content)>>
    IN content[a]

\* DeepCopy makes a value with the same content (and by SingleOwner shares
\* nothing with the original), and Equals holds between the two unless a set,
\* a zset or a hash with two entries is involved, or a NaN: the copy need not
\* keep their order of iteration, and Equals compares entry by entry in that
\* order; a NaN is not equal to its own copy.
CopyIsFaithful ==
    copied # <<>> =>
        LET a == copied[1]
            b == copied[2]
        IN /\ Content(heap, b) = Content(heap, a)
           /\ Comparable(a) => Equals(heap, a, b)

=============================================================================
