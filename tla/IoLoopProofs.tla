---------------------------- MODULE IoLoopProofs ----------------------------
(***************************************************************************)
(* Proofs about IoLoop: its registries, watchers and nested calls, for any *)
(* number of clients and children and any depth of the observer's calls.   *)
(***************************************************************************)
EXTENDS IoLoop, SequenceTheorems, FiniteSetTheorems, TLAPS

(***************************************************************************)
(* std::remove and erase.                                                  *)
(***************************************************************************)

\* Induction over the natural numbers for a set: the library's rule takes an
\* operator, which cannot be instantiated, so this one goes by the pigeonhole
\* principle on the numbers up to a counterexample.
LEMMA SetInduction ==
    ASSUME NEW S, 0 \in S, \A n \in Nat : n \in S => n + 1 \in S
    PROVE  Nat \subseteq S
<1>1. SUFFICES ASSUME NEW x \in Nat, x \notin S PROVE FALSE
  OBVIOUS
<1> DEFINE A == {y \in 0 .. x : y \notin S}
           f == [y \in A |-> y - 1]
<1>2. IsFiniteSet(A)
  <2>1. IsFiniteSet(0 .. x)
    BY FS_Interval
  <2> QED BY <2>1, FS_Subset
<1>3. x \in A
  BY <1>1
<1>4. ASSUME NEW y \in A PROVE y - 1 \in A \ {x}
  <2>1. y \in Nat /\ y <= x /\ y # 0
    OBVIOUS
  <2>2. y - 1 \in 0 .. x /\ y - 1 # x /\ y - 1 \in Nat /\ (y - 1) + 1 = y
    BY <2>1
  <2> QED BY <2>2
<1>5. f \in [A -> A \ {x}]
  BY <1>4
<1>6. \A y, z \in A : f[y] = f[z] => y = z
  OBVIOUS
<1>7. IsFiniteSet(A \ {x}) /\ Cardinality(A \ {x}) = Cardinality(A) - 1
      /\ Cardinality(A) \in Nat
  <2> HIDE DEF A
  <2> QED BY <1>2, <1>3, FS_RemoveElement, FS_CardinalityType
<1>8. \E y, z \in A : y # z /\ f[y] = f[z]
  <2> HIDE DEF A, f
  <2> QED BY <1>2, <1>5, <1>7, FS_PigeonHole
<1> QED BY <1>6, <1>8

\* What is kept of the first i elements of list when c is taken out.
KeptOf(list, c, g, i) ==
    IF i = 0 THEN <<>>
    ELSE IF list[i] = c THEN g[i - 1] ELSE Append(g[i - 1], list[i])

\* The function that Erase defines by recursion exists.
LEMMA KeptExists ==
    ASSUME NEW list, NEW c, Len(list) \in Nat
    PROVE  \E g : g = [i \in 0 .. Len(list) |-> KeptOf(list, c, g, i)]
<1> DEFINE S == {n \in Nat : \E g : g = [i \in 0 .. n |-> KeptOf(list, c, g, i)]}
<1>1. 0 \in S
  <2> DEFINE g == [i \in 0 .. 0 |-> <<>>]
  <2>1. g = [i \in 0 .. 0 |-> KeptOf(list, c, g, i)]
    BY DEF KeptOf
  <2> QED BY <2>1
<1>2. ASSUME NEW n \in Nat, n \in S PROVE n + 1 \in S
  <2>1. PICK g : g = [i \in 0 .. n |-> KeptOf(list, c, g, i)]
    BY <1>2
  <2> DEFINE h == [i \in 0 .. (n + 1) |-> IF i <= n THEN g[i] ELSE KeptOf(list, c, g, i)]
  <2>2. ASSUME NEW i \in 0 .. (n + 1) PROVE h[i] = KeptOf(list, c, h, i)
    <3>1. i # 0 => h[i - 1] = g[i - 1]
      OBVIOUS
    <3>2. KeptOf(list, c, h, i) = KeptOf(list, c, g, i)
      <4> HIDE DEF h
      <4> QED BY <3>1 DEF KeptOf
    <3>3. i <= n => g[i] = KeptOf(list, c, g, i)
      BY <2>1, i \in 0 .. n \/ ~(i <= n)
    <3> QED BY <3>2, <3>3
  <2>3. h = [i \in 0 .. (n + 1) |-> KeptOf(list, c, h, i)]
    <3>1. h = [i \in 0 .. (n + 1) |-> h[i]]
      OBVIOUS
    <3> HIDE DEF h
    <3> QED BY <3>1, <2>2
  <2> HIDE DEF h
  <2>4. \E gg : gg = [i \in 0 .. (n + 1) |-> KeptOf(list, c, gg, i)]
    BY <2>3
  <2> QED BY <2>4
<1>3. Nat \subseteq S
  <2> HIDE DEF S
  <2> QED BY <1>1, <1>2, SetInduction
<1> QED BY <1>3

Elements(s) == {s[i] : i \in 1 .. Len(s)}
NoneTwice(s) == \A i, j \in 1 .. Len(s) : s[i] = s[j] => i = j

\* std::remove and erase leave the other elements of the list, once each when
\* the list has them once each.
LEMMA EraseElements ==
    ASSUME NEW T, NEW list \in Seq(T), NEW c
    PROVE  /\ Erase(list, c) \in Seq(T)
           /\ Elements(Erase(list, c)) = Elements(list) \ {c}
           /\ NoneTwice(list) => NoneTwice(Erase(list, c))
<1> DEFINE kept == CHOOSE g : g = [i \in 0 .. Len(list) |-> KeptOf(list, c, g, i)]
<1>1. kept = [i \in 0 .. Len(list) |-> KeptOf(list, c, kept, i)]
  BY KeptExists
<1>2. Erase(list, c) = kept[Len(list)]
  BY DEF Erase, KeptOf
<1> HIDE DEF kept
<1> DEFINE Once == NoneTwice(list)
           Good(n) ==
             /\ kept[n] \in Seq(T)
             /\ \A o : (\E i \in 1 .. Len(kept[n]) : kept[n][i] = o)
                       <=> (o # c /\ \E i \in 1 .. n : list[i] = o)
             /\ Once => \A i, j \in 1 .. Len(kept[n]) : kept[n][i] = kept[n][j] => i = j
           S == {n \in Nat : n <= Len(list) => Good(n)}
<1>3. 0 \in S
  <2>1. kept[0] = <<>>
    BY <1>1 DEF KeptOf
  <2>2. 1 .. Len(kept[0]) = {} /\ 1 .. 0 = {} /\ kept[0] \in Seq(T)
    BY <2>1
  <2>3. Good(0)
    BY <2>2
  <2> QED BY <2>3
<1>4. ASSUME NEW n \in Nat, n \in S PROVE n + 1 \in S
  <2>1. SUFFICES ASSUME n + 1 <= Len(list) PROVE Good(n + 1)
    <3> HIDE DEF Good
    <3> QED OBVIOUS
  <2>2. Good(n)
    <3>1. n <= Len(list) /\ n \in S
      BY <1>4, <2>1
    <3> QED BY <3>1
  <2>3. kept[n + 1] = IF list[n + 1] = c THEN kept[n] ELSE Append(kept[n], list[n + 1])
    <3>1. kept[n + 1] = KeptOf(list, c, kept, n + 1)
      BY <1>1, <2>1
    <3>2. n + 1 # 0 /\ (n + 1) - 1 = n
      OBVIOUS
    <3> QED BY <3>1, <3>2 DEF KeptOf
  <2>4. PICK u, v : u = kept[n] /\ v = kept[n + 1]
    OBVIOUS
  <2>5. /\ u \in Seq(T)
        /\ \A o : (\E i \in 1 .. Len(u) : u[i] = o)
                  <=> (o # c /\ \E i \in 1 .. n : list[i] = o)
        /\ Once => \A i, j \in 1 .. Len(u) : u[i] = u[j] => i = j
    BY <2>2, <2>4
  <2>6. list[n + 1] \in T
    BY <2>1
  <2>7. ASSUME NEW o PROVE (\E i \in 1 .. (n + 1) : list[i] = o)
                            <=> (\E i \in 1 .. n : list[i] = o) \/ o = list[n + 1]
    OBVIOUS
  <2>8. CASE list[n + 1] = c
    <3>1. v = u
      BY <2>3, <2>4, <2>8
    <3>2. \A o : (\E i \in 1 .. Len(v) : v[i] = o)
                 <=> (o # c /\ \E i \in 1 .. (n + 1) : list[i] = o)
      BY <3>1, <2>5, <2>7, <2>8
    <3> HIDE DEF Once
    <3>3. v \in Seq(T)
      BY <3>1, <2>5
    <3>4. Once => \A i, j \in 1 .. Len(v) : v[i] = v[j] => i = j
      BY <3>1, <2>5
    <3> QED BY <3>2, <3>3, <3>4, <2>4
  <2>9. CASE list[n + 1] # c
    <3>1. v = Append(u, list[n + 1])
      BY <2>3, <2>4, <2>9
    <3>2. /\ v \in Seq(T) /\ Len(v) = Len(u) + 1
          /\ v[Len(u) + 1] = list[n + 1]
          /\ \A i \in 1 .. Len(u) : v[i] = u[i]
      BY <3>1, <2>5, <2>6
    <3>3. ASSUME NEW o PROVE (\E i \in 1 .. Len(v) : v[i] = o)
                              <=> (\E i \in 1 .. Len(u) : u[i] = o) \/ o = list[n + 1]
      <4>0. Len(u) \in Nat
        BY <2>5
      <4>1. \A i \in 1 .. Len(v) : i \in 1 .. Len(u) \/ i = Len(u) + 1
        BY <3>2, <4>0
      <4>2. \A i \in 1 .. Len(u) : i \in 1 .. Len(v)
        BY <3>2, <4>0
      <4>3. Len(u) + 1 \in 1 .. Len(v)
        BY <3>2, <4>0
      <4> QED BY <3>2, <4>1, <4>2, <4>3
    <3>4. Once => \A i, j \in 1 .. Len(v) : v[i] = v[j] => i = j
      <4>1. SUFFICES ASSUME Once, NEW i \in 1 .. Len(v), NEW j \in 1 .. Len(v),
                            v[i] = v[j], i # j
                     PROVE  FALSE
        OBVIOUS
      <4>2. Len(u) \in Nat
        BY <2>5
      <4>3. \A k \in 1 .. Len(u) : u[k] # list[n + 1]
        <5>1. SUFFICES ASSUME NEW k \in 1 .. Len(u), u[k] = list[n + 1] PROVE FALSE
          OBVIOUS
        <5>2. PICK m \in 1 .. n : list[m] = list[n + 1]
          BY <5>1, <2>5
        <5>3. m \in 1 .. Len(list) /\ n + 1 \in 1 .. Len(list) /\ m # n + 1
          BY <2>1
        <5> QED BY <5>2, <5>3, <4>1 DEF NoneTwice
      <4>4. i \in 1 .. Len(u) \/ i = Len(u) + 1
        BY <4>2, <3>2
      <4>5. j \in 1 .. Len(u) \/ j = Len(u) + 1
        BY <4>2, <3>2
      <4> HIDE DEF Once
      <4> QED BY <4>1, <4>3, <4>4, <4>5, <3>2, <2>5
    <3>5. \A o : (\E i \in 1 .. Len(v) : v[i] = o)
                 <=> (o # c /\ \E i \in 1 .. (n + 1) : list[i] = o)
      BY <3>3, <2>5, <2>7, <2>9
    <3> HIDE DEF Once
    <3> QED BY <3>2, <3>4, <3>5, <2>4
  <2> QED BY <2>8, <2>9
<1>5. Nat \subseteq S
  <2> HIDE DEF S
  <2> QED BY <1>3, <1>4, SetInduction
<1>6. PICK e : e = kept[Len(list)]
  OBVIOUS
<1>7. /\ e \in Seq(T)
      /\ \A o : (\E i \in 1 .. Len(e) : e[i] = o)
                <=> (o # c /\ \E i \in 1 .. Len(list) : list[i] = o)
      /\ Once => \A i, j \in 1 .. Len(e) : e[i] = e[j] => i = j
  <2>1. Len(list) \in S
    <3> HIDE DEF S
    <3> QED BY <1>5
  <2>2. Good(Len(list))
    <3> HIDE DEF Good
    <3> QED BY <2>1
  <2> HIDE DEF Once
  <2> QED BY <1>6, <2>2
<1>8. Elements(e) = Elements(list) \ {c}
  <2>1. ASSUME NEW o PROVE o \in Elements(e) <=> \E i \in 1 .. Len(e) : e[i] = o
    BY DEF Elements
  <2>2. ASSUME NEW o PROVE o \in Elements(list) <=> \E i \in 1 .. Len(list) : list[i] = o
    BY DEF Elements
  <2>3. ASSUME NEW o PROVE o \in Elements(e) <=> o \in Elements(list) \ {c}
    BY <1>7, <2>1, <2>2, Zenon
  <2> QED BY <2>3
<1>9. Once => NoneTwice(e)
  <2> HIDE DEF Once
  <2> QED BY <1>7 DEF NoneTwice
<1> QED BY <1>2, <1>6, <1>7, <1>8, <1>9

(***************************************************************************)
(* What the observer may do for the loop to stay sound: in Accepted and    *)
(* Closed it only registers, which Stopped needs while it goes through its *)
(* copy of clients_, and a client is not closed or moved in DataReceived   *)
(* when DataReadyToWrite is to follow.                                     *)
(***************************************************************************)
Contract ==
    /\ AcceptedMay \subseteq {"none", "register", "fork"}
    /\ ClosedMay \subseteq {"none", "register", "fork"}
    /\ BothMay \subseteq Ops \ {"close", "unregister"}

(***************************************************************************)
(* The shape of the call stack.                                            *)
(***************************************************************************)

\* A frame is about a client or a child, or it is that of Stopped.
LEMMA FrameType ==
    ASSUME NEW f \in Frame
    PROVE  /\ f.fn # "Stopped" => f.c \in Object
           /\ f.fn = "Stopped" => f = F("Stopped", NoClient)
           /\ f = F(f.fn, f.c)
BY DEF Frame, F, Observer

\* A frame that a call of the loop makes.
LEMMA FrameMade ==
    ASSUME NEW fn \in Observer \cup {"RegisterClient", "CloseClient", "UnRegisterClient",
                                     "ReadWrite", "RegisterChild", "UnRegisterChild"},
           NEW d \in Object
    PROVE  F(fn, d) \in Frame /\ F(fn, d).fn = fn /\ F(fn, d).c = d
BY DEF Frame, F

\* The unfinished calls are frames; no object is called NoClient.
LEMMA CallsType ==
    ASSUME TypeOK
    PROVE  Calls \in Seq(Frame)
BY DEF TypeOK, Calls

\* A stack with a call of the observer on two frames.
LEMMA TwoFrames ==
    ASSUME NEW f \in Frame, NEW g \in Frame, NEW K \in Seq(Frame)
    PROVE  /\ <<f, g>> \o K \in Seq(Frame) /\ <<f, g>> \o K # <<>>
           /\ Head(<<f, g>> \o K) = f
           /\ Tail(<<f, g>> \o K) = <<g>> \o K
<1>1. <<f, g>> \o K \in Seq(Frame) /\ Len(<<f, g>> \o K) = 2 + Len(K)
  OBVIOUS
<1>2. <<g>> \o K \in Seq(Frame) /\ Len(<<g>> \o K) = 1 + Len(K)
  OBVIOUS
<1>3. Head(<<f, g>> \o K) = f
  OBVIOUS
<1>4. Tail(<<f, g>> \o K) \in Seq(Frame) /\ Len(Tail(<<f, g>> \o K)) = 1 + Len(K)
  BY <1>1
<1>5. ASSUME NEW i \in 1 .. 1 + Len(K)
      PROVE  Tail(<<f, g>> \o K)[i] = (<<g>> \o K)[i]
  <2>1. i \in Nat /\ i >= 1 /\ Len(K) \in Nat
    OBVIOUS
  <2>2. Tail(<<f, g>> \o K)[i] = (<<f, g>> \o K)[i + 1]
    BY <1>1, <1>4
  <2> QED BY <2>1, <2>2
<1>6. Tail(<<f, g>> \o K) = <<g>> \o K
  BY <1>2, <1>4, <1>5, SeqEqual
<1> QED BY <1>1, <1>3, <1>6

\* The elements of such a stack.
LEMMA TwoFramesElements ==
    ASSUME NEW f \in Frame, NEW g \in Frame, NEW K \in Seq(Frame),
           NEW S, S = <<f, g>> \o K, NEW i \in 1 .. Len(S)
    PROVE  S[i] = f \/ S[i] = g \/ \E j \in 1 .. Len(K) : S[i] = K[j]
<1>1. <<f, g>> \in Seq(Frame) /\ Len(<<f, g>>) = 2
  OBVIOUS
<1>2. /\ Len(S) = 2 + Len(K) /\ Len(K) \in Nat
      /\ \A j \in 1 .. Len(S) : S[j] = IF j <= 2 THEN <<f, g>>[j] ELSE K[j - 2]
  BY <1>1, ConcatProperties
<1>3. i = 1 \/ i = 2 \/ i - 2 \in 1 .. Len(K)
  BY <1>2
<1>4. CASE i = 1 \/ i = 2
  BY <1>2, <1>4
<1>5. CASE i - 2 \in 1 .. Len(K)
  BY <1>2, <1>5
<1> QED BY <1>3, <1>4, <1>5

\* The elements of a sequence with one more in front.
LEMMA OneMore ==
    ASSUME NEW g \in Frame, NEW K \in Seq(Frame)
    PROVE  /\ <<g>> \o K \in Seq(Frame) /\ Len(<<g>> \o K) = 1 + Len(K)
           /\ <<g>> \o K # <<>> /\ Head(<<g>> \o K) = g /\ Tail(<<g>> \o K) = K
           /\ (<<g>> \o K)[1] = g
           /\ \A i \in 1 .. Len(K) : i + 1 \in 1 .. Len(<<g>> \o K) /\ (<<g>> \o K)[i + 1] = K[i]
           /\ \A i \in 1 .. Len(<<g>> \o K) : i = 1 \/ (i - 1 \in 1 .. Len(K) /\ (<<g>> \o K)[i] = K[i - 1])
<1>1. <<g>> \o K \in Seq(Frame) /\ Len(<<g>> \o K) = 1 + Len(K) /\ <<g>> \o K # <<>>
  OBVIOUS
<1>2. Head(<<g>> \o K) = g /\ (<<g>> \o K)[1] = g
  OBVIOUS
<1>3. \A i \in 1 .. Len(K) : i + 1 \in 1 .. Len(<<g>> \o K) /\ (<<g>> \o K)[i + 1] = K[i]
  OBVIOUS
<1>4. \A i \in 1 .. Len(<<g>> \o K) : i = 1 \/ (i - 1 \in 1 .. Len(K) /\ (<<g>> \o K)[i] = K[i - 1])
  OBVIOUS
<1>5. Tail(<<g>> \o K) \in Seq(Frame) /\ Len(Tail(<<g>> \o K)) = Len(K)
  BY <1>1
<1>6. ASSUME NEW i \in 1 .. Len(K) PROVE Tail(<<g>> \o K)[i] = K[i]
  BY <1>1, <1>3, <1>5
<1>7. Tail(<<g>> \o K) = K
  BY <1>5, <1>6, SeqEqual
<1> QED BY <1>1, <1>2, <1>3, <1>4, <1>7

\* A sequence is its head and its tail.
LEMMA HeadTail ==
    ASSUME NEW T, NEW K \in Seq(T), K # <<>>
    PROVE  /\ Head(K) = K[1] /\ Head(K) \in T /\ 1 \in 1 .. Len(K)
           /\ Tail(K) \in Seq(T)
           /\ \A i \in 1 .. Len(Tail(K)) : i + 1 \in 1 .. Len(K) /\ Tail(K)[i] = K[i + 1]
           /\ \A i \in 1 .. Len(K) : i = 1 \/ (i - 1 \in 1 .. Len(Tail(K)) /\ K[i] = Tail(K)[i - 1])
           /\ Len(Tail(K)) = Len(K) - 1
<1>1. Len(K) \in Nat /\ Len(K) >= 1
  OBVIOUS
<1>2. Tail(K) \in Seq(T) /\ Len(Tail(K)) = Len(K) - 1
  BY <1>1
<1>3. \A i \in 1 .. Len(Tail(K)) : i + 1 \in 1 .. Len(K) /\ Tail(K)[i] = K[i + 1]
  BY <1>1, <1>2
<1>4. \A i \in 1 .. Len(K) : i = 1 \/ (i - 1 \in 1 .. Len(Tail(K)) /\ K[i] = Tail(K)[i - 1])
  BY <1>1, <1>2, <1>3
<1>5. Head(K) = K[1] /\ Head(K) \in T /\ 1 \in 1 .. Len(K)
  BY <1>1
<1> QED BY <1>2, <1>3, <1>4, <1>5

\* When the innermost call of the loop goes on, the stack is the calls; when the
\* observer runs, it is the observer's frame on the calls.
LEMMA StackIsCalls ==
    ASSUME TypeOK, CallsAreSound
    PROVE  /\ stack = <<>> => Calls = <<>>
           /\ stack # <<>> /\ Top.fn \notin Observer => Calls = stack
           /\ stack # <<>> /\ Top.fn \in Observer => Calls = Tail(stack)
           /\ stack # <<>> => Top \in Frame
           /\ stack # <<>> /\ Top.fn \notin Observer =>
                /\ Top.fn \notin Observer /\ FrameIsSound(Top) /\ Calls[1] = Top
                /\ \A i \in 1 .. Len(Tail(stack)) :
                      Tail(stack)[i].fn \notin Observer /\ Tail(stack)[i].c # Top.c
BY HeadTail DEF TypeOK, CallsAreSound, Calls, Top

(***************************************************************************)
(* Every step is about one object d at most: what holds of the others, and *)
(* of the calls about them, goes on holding.                               *)
(***************************************************************************)

\* The step changes nothing of an object other than d.
OnlyTouches(d) ==
    /\ \A o \in Object : o # d =>
          /\ life'[o] = life[o] /\ ours'[o] = ours[o] /\ watching'[o] = watching[o]
          /\ o \in Registered' <=> o \in Registered
          /\ o \in Children' <=> o \in Children
    /\ \A c \in Client : c # d => closed'[c] = closed[c]

\* The calls of the next state are K1, which has the same calls about the objects
\* other than d.
SameCalls(d, K1) ==
    /\ K1 = Calls' /\ K1 \in Seq(Frame)
    /\ \A i \in 1 .. Len(K1) : K1[i].c # d => \E j \in 1 .. Len(Calls) : Calls[j] = K1[i]
    /\ \A j \in 1 .. Len(Calls) : Calls[j].c # d => \E i \in 1 .. Len(K1) : K1[i] = Calls[j]

\* A call about another object may rely on what it could rely on.
LEMMA FrameStays ==
    ASSUME NEW d, OnlyTouches(d), NEW f \in Frame, FrameIsSound(f), f.c # d, phase' = phase
    PROVE  FrameIsSound(f)'
<1>1. CASE f.fn = "Stopped"
  BY <1>1 DEF FrameIsSound
<1>2. CASE f.fn # "Stopped"
  <2>1. f.c \in Object
    BY <1>2, FrameType
  <2>2. /\ life'[f.c] = life[f.c] /\ ours'[f.c] = ours[f.c] /\ watching'[f.c] = watching[f.c]
        /\ f.c \in Registered' <=> f.c \in Registered
        /\ f.c \in Children' <=> f.c \in Children
        /\ f.c \in Client => closed'[f.c] = closed[f.c]
    BY <2>1 DEF OnlyTouches
  <2> QED BY <1>2, <2>2 DEF FrameIsSound
<1> QED BY <1>1, <1>2

\* A client or a child other than d stays as it is.
LEMMA ObjectStays ==
    ASSUME NEW d, OnlyTouches(d), NEW o \in Object, o # d, phase' = phase
    PROVE  /\ o \in Client /\ ClientIsSound(o) => ClientIsSound(o)'
           /\ o \in Child /\ ChildIsSound(o) => ChildIsSound(o)'
BY DEF OnlyTouches, ClientIsSound, ChildIsSound

\* The calls about other objects stay sound...
LEMMA CallsStay ==
    ASSUME CallsAreSound, TypeOK, NEW d, OnlyTouches(d), phase' = phase, NEW K1, SameCalls(d, K1)
    PROVE  \A i \in 1 .. Len(K1) : K1[i].c # d =>
              K1[i].fn \notin Observer /\ FrameIsSound(K1[i])'
<1>1. SUFFICES ASSUME NEW i \in 1 .. Len(K1), K1[i].c # d
               PROVE  K1[i].fn \notin Observer /\ FrameIsSound(K1[i])'
  OBVIOUS
<1>2. PICK f : f = K1[i]
  OBVIOUS
<1>3. PICK j \in 1 .. Len(Calls) : Calls[j] = f
  BY <1>1, <1>2 DEF SameCalls
<1>4. f \in Frame
  BY <1>2 DEF SameCalls
<1>5. f.fn \notin Observer /\ FrameIsSound(f)
  BY <1>3 DEF CallsAreSound
<1>6. FrameIsSound(f)'
  BY <1>1, <1>2, <1>4, <1>5, FrameStays
<1> QED BY <1>2, <1>5, <1>6

\* ... and so do the other objects.
LEMMA ObjectsStay ==
    ASSUME ObjectsAreSound, TypeOK, NEW d, OnlyTouches(d), phase' = phase,
           NEW K1, SameCalls(d, K1)
    PROVE  /\ \A c \in Client : c # d /\ ~Busy(c)' => ClientIsSound(c)'
           /\ \A k \in Child : k # d /\ ~Busy(k)' => ChildIsSound(k)'
<1>1. ASSUME NEW o \in Object, o # d, ~Busy(o)' PROVE ~Busy(o)
  <2>1. SUFFICES ASSUME NEW j \in 1 .. Len(Calls), Calls[j].c = o, Calls[j].fn # "ReadWrite"
                 PROVE  FALSE
    BY DEF Busy
  <2>2. PICK i \in 1 .. Len(K1) : K1[i] = Calls[j]
    BY <1>1, <2>1 DEF SameCalls
  <2>3. \A i1 \in 1 .. Len(K1) : ~(K1[i1].c = o /\ K1[i1].fn # "ReadWrite")
    BY <1>1 DEF Busy, SameCalls
  <2> QED BY <2>1, <2>2, <2>3
<1>2. ASSUME NEW c \in Client, c # d, ~Busy(c)' PROVE ClientIsSound(c)'
  <2>1. c \in Object /\ ClientIsSound(c)
    BY <1>1, <1>2 DEF Object, ObjectsAreSound
  <2> QED BY <1>2, <2>1, ObjectStays
<1>3. ASSUME NEW k \in Child, k # d, ~Busy(k)' PROVE ChildIsSound(k)'
  <2>1. k \in Object /\ ChildIsSound(k)
    BY <1>1, <1>3 DEF Object, ObjectsAreSound
  <2> QED BY <1>3, <2>1, ObjectStays
<1> QED BY <1>2, <1>3

\* What Stopped relies on, after a step about an object that it does not have to
\* close any more.
LEMMA StoppingStays ==
    ASSUME StoppingIsSound, TypeOK, NEW d \in Object, OnlyTouches(d), phase' = phase,
           NEW K1, SameCalls(d, K1), phase # "dangling",
           toClose' = toClose, snapshot' = snapshot,
           d \in toClose => Gone(d)',
           phase = "stopping" =>
              /\ \A i \in 1 .. Len(stack') : stack'[i].fn \in
                    {"Stopped", "CloseClient", "RegisterClient", "RegisterChild", "Accepted",
                     "Closed"}
              /\ \A i \in 1 .. Len(snapshot) : snapshot[i] # d
    PROVE  StoppingIsSound'
<1>1. ASSUME NEW c \in toClose, c # d, Gone(c) PROVE Gone(c)'
  <2>1. c \in Client /\ c \in Object
    BY DEF TypeOK, Object
  <2> QED BY <1>1, <2>1 DEF Gone, OnlyTouches
<1>2. CASE phase = "stopping"
  <2>1. ASSUME NEW i \in 1 .. Len(snapshot) PROVE watching'[snapshot[i]] /\ ~Busy(snapshot[i])'
    <3>1. PICK c : c = snapshot[i]
      OBVIOUS
    <3>2. c # d /\ c \in Object /\ watching[c] /\ ~Busy(c)
      BY <1>2, <3>1 DEF StoppingIsSound, TypeOK, Object
    <3>3. watching'[c]
      BY <3>2 DEF OnlyTouches
    <3>4. ASSUME NEW j \in 1 .. Len(K1), K1[j].c = c, K1[j].fn # "ReadWrite" PROVE FALSE
      <4>1. PICK m \in 1 .. Len(Calls) : Calls[m] = K1[j]
        BY <3>2, <3>4 DEF SameCalls
      <4> QED BY <3>2, <3>4, <4>1 DEF Busy
    <3>5. ~Busy(c)'
      BY <3>4 DEF Busy, SameCalls
    <3> QED BY <3>1, <3>3, <3>5
  <2>2. ASSUME NEW c \in toClose
        PROVE  \/ \E i \in 1 .. Len(snapshot) : snapshot[i] = c
               \/ \E i \in 1 .. Len(K1) : K1[i] = F("CloseClient", c)
               \/ Gone(c)'
    <3>1. CASE c = d
      BY <3>1
    <3>2. CASE c # d /\ \E i \in 1 .. Len(Calls) : Calls[i] = F("CloseClient", c)
      <4>1. PICK i \in 1 .. Len(Calls) : Calls[i] = F("CloseClient", c)
        BY <3>2
      <4>2. Calls[i].c = c
        BY <4>1 DEF F
      <4> QED BY <3>2, <4>1, <4>2 DEF SameCalls
    <3> QED BY <1>1, <1>2, <3>1, <3>2 DEF StoppingIsSound
  <2>3. \E i \in 1 .. Len(K1) : K1[i].fn = "Stopped"
    <3>1. PICK i \in 1 .. Len(Calls) : Calls[i].fn = "Stopped"
      BY <1>2 DEF StoppingIsSound
    <3>2. Calls[i] \in Frame
      BY CallsType
    <3>3. Calls[i].c = NoClient
      BY <3>1, <3>2, FrameType DEF F
    <3>4. d # NoClient
      BY ObserverAssumption DEF Object
    <3> QED BY <3>1, <3>3, <3>4 DEF SameCalls
  <2> QED BY <1>2, <2>1, <2>2, <2>3 DEF StoppingIsSound, SameCalls
<1>3. CASE phase # "stopping"
  <2>1. phase \in {"stopped", "done"} => \A c \in toClose : Gone(c)'
    BY <1>1, <1>3 DEF StoppingIsSound
  <2> QED BY <1>3, <2>1 DEF StoppingIsSound
<1> QED BY <1>2, <1>3

\* The inductive invariant: RegistryMatchesWatchers, the rest of LoopInv, is what it
\* says of an empty stack.
CoreInv == TypeOK /\ CallsAreSound /\ ObjectsAreSound /\ StoppingIsSound

StoppingFns == {"Stopped", "CloseClient", "RegisterClient", "RegisterChild", "Accepted", "Closed"}
LoopFns == {"RegisterClient", "CloseClient", "UnRegisterClient", "ReadWrite", "RegisterChild",
            "UnRegisterChild"}

\* The loop calls the observer for an object that no call is about: the calls and the
\* objects stay sound when the two new frames are.
LEMMA PushCalls ==
    ASSUME CoreInv, NEW d \in Object, NEW obs \in Observer, obs # "DataReadyToWrite",
           NEW fn \in LoopFns, OnlyTouches(d), UNCHANGED <<phase, clients_, childs_>>,
           \A i \in 1 .. Len(Calls) : Calls[i].c # d,
           stack' = <<F(obs, d), F(fn, d)>> \o Calls,
           FrameIsSound(F(obs, d))', FrameIsSound(F(fn, d))',
           fn = "ReadWrite" => ClientIsSound(d)'
    PROVE  /\ CallsAreSound' /\ ObjectsAreSound'
           /\ Calls' = <<F(fn, d)>> \o Calls
           /\ SameCalls(d, <<F(fn, d)>> \o Calls)
           /\ stack' \in Seq(Frame) /\ stack' # <<>>
<1>1. PICK K, K1, f, g : K = Calls /\ K1 = <<g>> \o K /\ f = F(obs, d) /\ g = F(fn, d)
  OBVIOUS
<1>2. K \in Seq(Frame)
  BY <1>1, CallsType DEF CoreInv
<1>3. f \in Frame /\ g \in Frame /\ f.fn = obs /\ g.fn = fn /\ f.c = d /\ g.c = d
  BY <1>1, FrameMade DEF LoopFns
<1>4. stack' \in Seq(Frame) /\ stack' # <<>> /\ Head(stack') = f /\ Tail(stack') = K1
  BY <1>1, <1>2, <1>3, TwoFrames
<1>5. Calls' = K1 /\ Top' = f
  BY <1>3, <1>4 DEF Calls, Top
<1>6. /\ K1 \in Seq(Frame) /\ K1[1] = g /\ Len(K1) = 1 + Len(K)
      /\ \A i \in 1 .. Len(K) : i + 1 \in 1 .. Len(K1) /\ K1[i + 1] = K[i]
      /\ \A i \in 1 .. Len(K1) : i = 1 \/ (i - 1 \in 1 .. Len(K) /\ K1[i] = K[i - 1])
  BY <1>1, <1>2, <1>3, OneMore
<1>7. SameCalls(d, K1)
  <2>1. ASSUME NEW i \in 1 .. Len(K1), K1[i].c # d PROVE \E j \in 1 .. Len(K) : K[j] = K1[i]
    BY <1>3, <1>6, <2>1
  <2>2. ASSUME NEW j \in 1 .. Len(K) PROVE \E i \in 1 .. Len(K1) : K1[i] = K[j]
    BY <1>6
  <2>3. K1 = Calls' /\ K1 \in Seq(Frame) /\ K = Calls
    BY <1>1, <1>5, <1>6
  <2> QED BY <2>1, <2>2, <2>3 DEF SameCalls
<1>8. \A i \in 1 .. Len(K) : K[i].c # d
  BY <1>1
<1>9. CallsAreSound'
  <2>1. ASSUME NEW i \in 1 .. Len(K1) PROVE K1[i].fn \notin Observer /\ FrameIsSound(K1[i])'
    <3>1. CASE K1[i].c # d
      BY <1>7, <3>1, CallsStay DEF CoreInv
    <3>2. CASE K1[i].c = d
      <4>1. K1[i] = g
        BY <1>6, <1>8, <3>2
      <4>2. g.fn \notin Observer
        BY <1>3 DEF LoopFns, Observer
      <4>3. FrameIsSound(g)'
        BY <1>1
      <4> QED BY <4>1, <4>2, <4>3
    <3> QED BY <3>1, <3>2
  <2>2. ASSUME NEW i \in 1 .. Len(K1), K1[i].fn = "Stopped" PROVE i = Len(K1)
    <3>1. i # 1
      BY <1>3, <1>6, <2>2 DEF LoopFns
    <3>2. i - 1 \in 1 .. Len(K) /\ K[i - 1].fn = "Stopped"
      BY <1>6, <2>2, <3>1
    <3>3. i - 1 = Len(K)
      BY <1>1, <3>2 DEF CoreInv, CallsAreSound
    <3> QED BY <1>2, <1>6, <3>3
  <2>3. ASSUME NEW i \in 1 .. Len(K1), NEW j \in 1 .. Len(K1), K1[i].c = K1[j].c PROVE i = j
    <3>1. CASE i = 1 \/ j = 1
      <4>1. ASSUME NEW m \in 1 .. Len(K1), m # 1 PROVE K1[m].c # d
        <5>1. m - 1 \in 1 .. Len(K) /\ K1[m] = K[m - 1]
          BY <1>6, <4>1
        <5> QED BY <1>8, <5>1
      <4>2. K1[1].c = d
        BY <1>3, <1>6
      <4> QED BY <2>3, <3>1, <4>1, <4>2
    <3>2. CASE i # 1 /\ j # 1
      <4>1. /\ i - 1 \in 1 .. Len(K) /\ K1[i] = K[i - 1]
            /\ j - 1 \in 1 .. Len(K) /\ K1[j] = K[j - 1]
        BY <1>6, <3>2
      <4>2. i - 1 = j - 1
        BY <1>1, <2>3, <4>1 DEF CoreInv, CallsAreSound
      <4> QED BY <4>2
    <3> QED BY <3>1, <3>2
  <2>4. FrameIsSound(Top)'
    <3>1. FrameIsSound(f)'
      BY <1>1
    <3> QED BY <1>5, <3>1 DEF FrameIsSound
  <2>5. Top'.fn # "DataReadyToWrite"
    BY <1>3, <1>5
  <2> QED BY <1>5, <2>1, <2>2, <2>3, <2>4, <2>5 DEF CallsAreSound
<1>10. ObjectsAreSound'
  <2>1. ASSUME fn # "ReadWrite" PROVE Busy(d)'
    <3>1. 1 \in 1 .. Len(K1) /\ K1[1].c = d /\ K1[1].fn # "ReadWrite"
      BY <1>2, <1>3, <1>6, <2>1
    <3> QED BY <1>5, <3>1 DEF Busy
  <2>2. fn = "ReadWrite" => d \in Client /\ d \notin Child
    <3>1. fn = "ReadWrite" => d \in Client
      BY <1>1, <1>3 DEF FrameIsSound
    <3> QED BY <3>1, ObserverAssumption
  <2>3. \A c \in Client : ~Busy(c)' => ClientIsSound(c)'
    <3>1. SUFFICES ASSUME NEW c \in Client, ~Busy(c)' PROVE ClientIsSound(c)'
      OBVIOUS
    <3>2. CASE c # d
      BY <1>7, <3>1, <3>2, ObjectsStay DEF CoreInv
    <3>3. CASE c = d
      BY <2>1, <3>1, <3>3
    <3> QED BY <3>2, <3>3
  <2>4. \A k \in Child : ~Busy(k)' => ChildIsSound(k)'
    <3>1. SUFFICES ASSUME NEW k \in Child, ~Busy(k)' PROVE ChildIsSound(k)'
      OBVIOUS
    <3>2. CASE k # d
      BY <1>7, <3>1, <3>2, ObjectsStay DEF CoreInv
    <3>3. CASE k = d
      BY <2>1, <2>2, <3>1, <3>3
    <3> QED BY <3>2, <3>3
  <2> QED BY <2>3, <2>4 DEF ObjectsAreSound, CoreInv
<1> QED BY <1>1, <1>4, <1>5, <1>7, <1>9, <1>10

\* While Stopped runs, its calls are registrations and closes.
LEMMA StoppingCalls ==
    ASSUME CoreInv, phase = "stopping"
    PROVE  /\ stack # <<>>
           /\ \A i \in 1 .. Len(Calls) : Calls[i].fn \in StoppingFns
           /\ Top.fn \in StoppingFns
<1>1. /\ \A i \in 1 .. Len(stack) : stack[i].fn \in StoppingFns
      /\ \E i \in 1 .. Len(Calls) : Calls[i].fn = "Stopped"
  BY DEF CoreInv, StoppingIsSound, StoppingFns
<1>2. stack \in Seq(Frame)
  BY DEF CoreInv, TypeOK
<1>3. stack # <<>>
  BY <1>1, <1>2 DEF Calls
<1> QED BY <1>1, <1>2, <1>3, HeadTail DEF Calls, Top

\* The whole of a call of the observer.
LEMMA Push ==
    ASSUME CoreInv, phase # "dangling", NEW d \in Object,
           NEW obs \in Observer, obs # "DataReadyToWrite", NEW fn \in LoopFns,
           OnlyTouches(d), UNCHANGED <<phase, clients_, childs_, snapshot, toClose>>,
           \A i \in 1 .. Len(Calls) : Calls[i].c # d,
           stack' = <<F(obs, d), F(fn, d)>> \o Calls,
           FrameIsSound(F(obs, d))', FrameIsSound(F(fn, d))',
           fn = "ReadWrite" => ClientIsSound(d)',
           d \notin toClose,
           phase = "stopping" =>
              /\ obs \in StoppingFns /\ fn \in StoppingFns
              /\ \A i \in 1 .. Len(snapshot) : snapshot[i] # d
    PROVE  CallsAreSound' /\ ObjectsAreSound' /\ StoppingIsSound'
<1>1. /\ CallsAreSound' /\ ObjectsAreSound'
      /\ SameCalls(d, <<F(fn, d)>> \o Calls)
      /\ stack' \in Seq(Frame) /\ stack' # <<>>
  BY PushCalls
<1>2. ASSUME phase = "stopping", NEW i \in 1 .. Len(stack') PROVE stack'[i].fn \in StoppingFns
  <2>1. PICK K, f, g : K = Calls /\ f = F(obs, d) /\ g = F(fn, d)
    OBVIOUS
  <2>2. \A j \in 1 .. Len(K) : K[j].fn \in StoppingFns
    BY <1>2, <2>1, StoppingCalls
  <2>3. f.fn \in StoppingFns /\ g.fn \in StoppingFns
    BY <1>2, <2>1 DEF F
  <2>4. K \in Seq(Frame)
    BY <2>1, CallsType DEF CoreInv
  <2>5. stack' = <<f, g>> \o K
    BY <2>1
  <2>6. f \in Frame /\ g \in Frame
    BY <2>1, FrameMade DEF LoopFns
  <2>7. stack'[i] = f \/ stack'[i] = g \/ \E j \in 1 .. Len(K) : stack'[i] = K[j]
    BY <1>2, <2>4, <2>5, <2>6, TwoFramesElements
  <2> QED BY <2>2, <2>3, <2>7
<1>3. StoppingIsSound'
  BY <1>1, <1>2, StoppingStays DEF CoreInv, StoppingFns
<1> QED BY <1>1, <1>3

\* A call of the loop ends: what was true of the other objects stays, its own is sound.
LEMMA Pop ==
    ASSUME CoreInv, phase # "dangling", stack # <<>>, NEW g, g = Top,
           g.fn \notin Observer \cup {"Stopped", "ReadWrite"},
           stack' = Tail(stack), OnlyTouches(g.c), UNCHANGED <<phase, snapshot, toClose>>,
           g.c \in Client => ClientIsSound(g.c)',
           g.c \in Child => ChildIsSound(g.c)',
           \A i, j \in 1 .. Len(clients_') : clients_'[i] = clients_'[j] => i = j,
           \A i, j \in 1 .. Len(childs_') : childs_'[i] = childs_'[j] => i = j,
           g.c \in toClose => Gone(g.c)'
    PROVE  CallsAreSound' /\ ObjectsAreSound' /\ StoppingIsSound'
<1>1. PICK K, K1, d : K = Calls /\ K1 = Tail(K) /\ d = g.c
  OBVIOUS
<1>2. K = stack /\ g \in Frame /\ d \in Object
  BY <1>1, StackIsCalls, FrameType DEF CoreInv
<1>3. /\ K \in Seq(Frame) /\ K[1] = g /\ 1 \in 1 .. Len(K) /\ K1 \in Seq(Frame)
      /\ \A i \in 1 .. Len(K1) : i + 1 \in 1 .. Len(K) /\ K1[i] = K[i + 1]
      /\ \A i \in 1 .. Len(K) : i = 1 \/ (i - 1 \in 1 .. Len(K1) /\ K[i] = K1[i - 1])
      /\ Len(K1) = Len(K) - 1
  BY <1>1, <1>2, HeadTail DEF CoreInv, TypeOK, Top
<1>4. \A i \in 1 .. Len(K) : K[i].fn \notin Observer
  BY <1>1 DEF CoreInv, CallsAreSound
<1>5. stack' = K1 /\ Calls' = K1 /\ ~(stack' # <<>> /\ Top'.fn \in Observer)
  <2>1. stack' = K1
    BY <1>1, <1>2
  <2>2. ASSUME K1 # <<>> PROVE Head(K1).fn \notin Observer
    <3>1. Head(K1) = K1[1] /\ 1 \in 1 .. Len(K1)
      BY <1>3, <2>2, HeadTail
    <3>2. 1 + 1 \in 1 .. Len(K) /\ K1[1] = K[1 + 1]
      BY <1>3, <3>1
    <3> QED BY <1>4, <3>1, <3>2
  <2> QED BY <2>1, <2>2 DEF Calls, Top
<1>6. SameCalls(d, K1)
  <2>1. ASSUME NEW i \in 1 .. Len(K1) PROVE \E j \in 1 .. Len(K) : K[j] = K1[i]
    BY <1>3
  <2>2. ASSUME NEW j \in 1 .. Len(K), K[j].c # d PROVE \E i \in 1 .. Len(K1) : K1[i] = K[j]
    BY <1>1, <1>3, <2>2
  <2>3. K1 = Calls' /\ K1 \in Seq(Frame) /\ K = Calls
    BY <1>1, <1>3, <1>5
  <2> QED BY <2>1, <2>2, <2>3 DEF SameCalls
<1>7. ASSUME NEW i \in 1 .. Len(K1) PROVE K1[i].c # d
  <2>1. i + 1 \in 1 .. Len(K) /\ K1[i] = K[i + 1] /\ i + 1 # 1
    BY <1>3
  <2>2. K[i + 1].c # K[1].c
    BY <1>1, <1>3, <2>1 DEF CoreInv, CallsAreSound
  <2> QED BY <1>1, <1>3, <2>1, <2>2
<1>8. CallsAreSound'
  <2>1. ASSUME NEW i \in 1 .. Len(K1) PROVE K1[i].fn \notin Observer /\ FrameIsSound(K1[i])'
    BY <1>1, <1>6, <1>7, CallsStay DEF CoreInv
  <2>2. ASSUME NEW i \in 1 .. Len(K1), K1[i].fn = "Stopped" PROVE i = Len(K1)
    <3>1. i + 1 \in 1 .. Len(K) /\ K[i + 1].fn = "Stopped"
      BY <1>3, <2>2
    <3>2. i + 1 = Len(K)
      BY <1>1, <3>1 DEF CoreInv, CallsAreSound
    <3> QED BY <1>3, <3>2
  <2>3. ASSUME NEW i \in 1 .. Len(K1), NEW j \in 1 .. Len(K1), K1[i].c = K1[j].c PROVE i = j
    <3>1. /\ i + 1 \in 1 .. Len(K) /\ K1[i] = K[i + 1]
          /\ j + 1 \in 1 .. Len(K) /\ K1[j] = K[j + 1]
      BY <1>3
    <3>2. i + 1 = j + 1
      BY <1>1, <2>3, <3>1 DEF CoreInv, CallsAreSound
    <3> QED BY <3>2
  <2> QED BY <1>5, <2>1, <2>2, <2>3 DEF CallsAreSound
<1>9. ObjectsAreSound'
  <2>1. ASSUME NEW c \in Client, ~Busy(c)' PROVE ClientIsSound(c)'
    BY <1>1, <1>6, <2>1, ObjectsStay DEF CoreInv
  <2>2. ASSUME NEW k \in Child, ~Busy(k)' PROVE ChildIsSound(k)'
    BY <1>1, <1>6, <2>2, ObjectsStay DEF CoreInv
  <2> QED BY <2>1, <2>2 DEF ObjectsAreSound
<1>10. StoppingIsSound'
  <2>1. Busy(d)
    BY <1>1, <1>3 DEF Busy
  <2>2. ASSUME phase = "stopping" PROVE \A i \in 1 .. Len(snapshot) : snapshot[i] # d
    BY <2>1, <2>2 DEF CoreInv, StoppingIsSound
  <2>3. ASSUME phase = "stopping" PROVE \A i \in 1 .. Len(stack') : stack'[i].fn \in StoppingFns
    <3>1. \A j \in 1 .. Len(K) : K[j].fn \in StoppingFns
      BY <1>1, <2>3, StoppingCalls
    <3>2. \A i \in 1 .. Len(K1) : K1[i].fn \in StoppingFns
      <4>1. SUFFICES ASSUME NEW i \in 1 .. Len(K1) PROVE K1[i].fn \in StoppingFns
        OBVIOUS
      <4>2. i + 1 \in 1 .. Len(K) /\ K1[i] = K[i + 1]
        BY <1>3
      <4> QED BY <3>1, <4>2
    <3> QED BY <1>5, <3>2
  <2> QED BY <1>1, <1>2, <1>6, <2>2, <2>3, StoppingStays DEF CoreInv, StoppingFns
<1> QED BY <1>8, <1>9, <1>10

\* The observer returns, and with it perhaps the life of d, which has no server.
LEMMA Drop ==
    ASSUME CoreInv, phase # "dangling", NEW d \in Object, stack' = Calls, OnlyTouches(d),
           UNCHANGED <<phase, clients_, childs_, snapshot, toClose>>,
           \A f \in Frame : f.c = d /\ (\E i \in 1 .. Len(Calls) : Calls[i] = f) => FrameIsSound(f)',
           d \in Client => (~Busy(d) => ClientIsSound(d)'),
           d \in Child => (~Busy(d) => ChildIsSound(d)'),
           d \notin toClose,
           phase = "stopping" => \A i \in 1 .. Len(snapshot) : snapshot[i] # d
    PROVE  CallsAreSound' /\ ObjectsAreSound' /\ StoppingIsSound'
<1>1. PICK K : K = Calls
  OBVIOUS
<1>2. /\ K \in Seq(Frame)
      /\ \A i \in 1 .. Len(K) : K[i].fn \notin Observer
      /\ \A i \in 1 .. Len(K) : K[i].fn = "Stopped" => i = Len(K)
      /\ \A i, j \in 1 .. Len(K) : K[i].c = K[j].c => i = j
  BY <1>1, CallsType DEF CoreInv, CallsAreSound
<1>3. Calls' = K /\ stack' = K /\ ~(stack' # <<>> /\ Top'.fn \in Observer)
  <2>1. K # <<>> => Head(K).fn \notin Observer
    BY <1>2, HeadTail
  <2> QED BY <1>1, <2>1 DEF Calls, Top
<1>4. SameCalls(d, K)
  BY <1>1, <1>2, <1>3 DEF SameCalls
<1>5. CallsAreSound'
  <2>1. ASSUME NEW i \in 1 .. Len(K) PROVE FrameIsSound(K[i])'
    <3>1. K[i].c # d => FrameIsSound(K[i])'
      BY <1>4, CallsStay DEF CoreInv
    <3>2. PICK f : f = K[i]
      OBVIOUS
    <3>3. f.c = d => FrameIsSound(f)'
      BY <1>1, <1>2, <3>2
    <3> QED BY <3>1, <3>2, <3>3
  <2> QED BY <1>2, <1>3, <2>1 DEF CallsAreSound
<1>6. ObjectsAreSound'
  <2>1. ~Busy(d)' => ~Busy(d)
    BY <1>1, <1>3 DEF Busy
  <2>2. ASSUME NEW c \in Client, ~Busy(c)' PROVE ClientIsSound(c)'
    BY <1>4, <2>1, <2>2, ObjectsStay DEF CoreInv
  <2>3. ASSUME NEW k \in Child, ~Busy(k)' PROVE ChildIsSound(k)'
    BY <1>4, <2>1, <2>3, ObjectsStay DEF CoreInv
  <2> QED BY <2>2, <2>3 DEF ObjectsAreSound, CoreInv
<1>7. StoppingIsSound'
  <2>1. ASSUME phase = "stopping" PROVE \A i \in 1 .. Len(stack') : stack'[i].fn \in StoppingFns
    BY <1>1, <1>3, <2>1, StoppingCalls
  <2> QED BY <1>4, <2>1, StoppingStays DEF CoreInv, StoppingFns
<1> QED BY <1>5, <1>6, <1>7

\* The observer returns and has done nothing.
LEMMA Return ==
    ASSUME CoreInv, stack' = Calls,
           UNCHANGED <<phase, accepting, clients_, childs_, life, ours, watching, flags,
                       snapshot, toClose, closed>>
    PROVE  CallsAreSound' /\ ObjectsAreSound' /\ StoppingIsSound'
<1>1. PICK K : K = Calls
  OBVIOUS
<1>2. K \in Seq(Frame) /\ \A i \in 1 .. Len(K) : K[i].fn \notin Observer
  BY <1>1, CallsType DEF CoreInv, CallsAreSound
<1>3. Calls' = K /\ stack' = K /\ ~(stack' # <<>> /\ Top'.fn \in Observer)
  <2>1. K # <<>> => Head(K).fn \notin Observer
    BY <1>2, HeadTail
  <2> QED BY <1>1, <2>1 DEF Calls, Top
<1>4. \A f : FrameIsSound(f) => FrameIsSound(f)'
  BY DEF FrameIsSound, Registered, Children
<1>5. CallsAreSound'
  BY <1>1, <1>3, <1>4 DEF CoreInv, CallsAreSound
<1>6. \A o : Busy(o)' = Busy(o)
  BY <1>1, <1>3 DEF Busy
<1>7. ObjectsAreSound'
  BY <1>6 DEF CoreInv, ObjectsAreSound, ClientIsSound, ChildIsSound, Registered, Children
<1>8. ASSUME phase = "stopping" PROVE \A i \in 1 .. Len(stack') : stack'[i].fn \in StoppingFns
  BY <1>1, <1>3, <1>8, StoppingCalls
<1>9. \A c : Gone(c)' = Gone(c)
  BY DEF Gone, Registered
<1>10. StoppingIsSound'
  BY <1>1, <1>3, <1>6, <1>8, <1>9 DEF CoreInv, StoppingIsSound, StoppingFns, Children
<1> QED BY <1>5, <1>7, <1>10

(***************************************************************************)
(* What the observer's code and posted functions do, on the stack Calls.   *)
(***************************************************************************)

\* The rest of the state in a step of the observer's code.
Quiet == UNCHANGED <<accepting, snapshot, toClose>> /\ late' \in 0 .. MaxLate

\* No call is about d.
Free(d) == \A i \in 1 .. Len(Calls) : Calls[i].c # d

\* A free object is as ObjectsAreSound says.
LEMMA FreeIsSound ==
    ASSUME CoreInv, NEW d \in Object, Free(d)
    PROVE  /\ ~Busy(d)
           /\ d \in Client => ClientIsSound(d)
           /\ d \in Child => ChildIsSound(d)
BY DEF Free, Busy, CoreInv, ObjectsAreSound

\* An object that is not there yet is in no call.
LEMMA NewIsFree ==
    ASSUME CoreInv, NEW d \in Object, life[d] = "none"
    PROVE  Free(d)
<1>1. SUFFICES ASSUME NEW i \in 1 .. Len(Calls), Calls[i].c = d PROVE FALSE
  BY DEF Free
<1>2. PICK f : f = Calls[i]
  OBVIOUS
<1>3. f \in Frame /\ FrameIsSound(f) /\ f.c = d
  BY <1>1, <1>2, CallsType DEF CoreInv, CallsAreSound
<1>4. f.fn # "Stopped"
  BY <1>3, FrameType, ObserverAssumption DEF F, Object
<1> QED BY <1>3, <1>4 DEF FrameIsSound

\* Before and after Stopped a client that is not deleted is none of those that
\* Stopped had to close; nor is a child.
LEMMA NotToClose ==
    ASSUME CoreInv, NEW d \in Object, life[d] # "deleted", phase # "stopping"
    PROVE  d \notin toClose
<1>1. phase \in {"new", "looping", "stopped", "done", "dangling"}
  BY DEF CoreInv, TypeOK, StoppingIsSound
<1> QED BY <1>1 DEF CoreInv, StoppingIsSound, Gone

\* While Stopped runs, a client that is new or was moved away is none of those that
\* it still closes.
LEMMA NotInStopped ==
    ASSUME CoreInv, NEW d \in Object, phase = "stopping",
           d \in Child \/ life[d] = "none" \/ (life[d] = "live" /\ ~ours[d])
    PROVE  d \notin toClose /\ \A i \in 1 .. Len(snapshot) : snapshot[i] # d
<1>1. ASSUME NEW i \in 1 .. Len(snapshot), snapshot[i] = d PROVE FALSE
  <2>1. d \in Client /\ watching[d] /\ ~Busy(d)
    BY <1>1 DEF CoreInv, TypeOK, StoppingIsSound
  <2>2. life[d] = "live" /\ ours[d]
    BY <2>1 DEF CoreInv, ObjectsAreSound, ClientIsSound
  <2> QED BY <2>1, <2>2, ObserverAssumption
<1>2. ASSUME NEW i \in 1 .. Len(Calls), Calls[i] = F("CloseClient", d) PROVE FALSE
  <2>1. PICK f : f = Calls[i]
    OBVIOUS
  <2>2. FrameIsSound(f) /\ f.fn = "CloseClient" /\ f.c = d
    BY <1>2, <2>1 DEF CoreInv, CallsAreSound, F
  <2> QED BY <2>2, ObserverAssumption DEF FrameIsSound
<1>3. ASSUME d \in toClose PROVE FALSE
  <2>1. d \in Client
    BY <1>3 DEF CoreInv, TypeOK
  <2>2. ~Gone(d)
    BY <2>1, ObserverAssumption DEF Gone
  <2> QED BY <1>1, <1>2, <1>3, <2>2 DEF CoreInv, StoppingIsSound
<1> QED BY <1>1, <1>3

\* The types of what a step of the observer's code changes.
LEMMA TypeStays ==
    ASSUME TypeOK, Quiet, UNCHANGED <<phase, clients_, childs_>>,
           ours' \in [Object -> BOOLEAN], watching' \in [Object -> BOOLEAN],
           closed' \in [Client -> Nat], stack' \in Seq(Frame),
           \/ UNCHANGED <<life, flags>>
           \/ /\ life' \in [Object -> {"none", "live", "deleted"}]
              /\ flags' \in [Client -> Flags \cup {{}}]
              /\ \A c \in Client : flags'[c] = {} <=> life'[c] = "none"
    PROVE  TypeOK'
<1>1. /\ life' \in [Object -> {"none", "live", "deleted"}]
      /\ flags' \in [Client -> Flags \cup {{}}]
      /\ \A c \in Client : flags'[c] = {} <=> life'[c] = "none"
  BY DEF TypeOK
<1>2. /\ phase' = phase /\ clients_' = clients_ /\ childs_' = childs_
      /\ accepting' = accepting /\ snapshot' = snapshot /\ toClose' = toClose
      /\ late' \in 0 .. MaxLate
  BY DEF Quiet
<1> QED BY <1>1, <1>2 DEF TypeOK

\* CloseClient of a free client that is alive.
LEMMA CloseStep ==
    ASSUME CoreInv, phase \notin {"stopping", "dangling"}, NEW d \in Client,
           life[d] = "live", Free(d), CloseClient(d, Calls), Quiet,
           UNCHANGED <<phase, life, flags>>
    PROVE  CoreInv'
<1>1. d \in Object
  BY DEF Object
<1>2. /\ ours[d] /\ watching' = [watching EXCEPT ![d] = FALSE]
      /\ closed' = [closed EXCEPT ![d] = @ + 1]
      /\ stack' = <<F("Closed", d), F("CloseClient", d)>> \o Calls
      /\ UNCHANGED <<clients_, childs_, ours>>
  BY DEF CloseClient
<1>3. closed[d] = 0 /\ d \notin toClose
  BY <1>1, FreeIsSound, NotToClose DEF ClientIsSound
<1>4. OnlyTouches(d)
  BY <1>2 DEF CoreInv, TypeOK, OnlyTouches, Registered, Children
<1>5. ours'[d] /\ ~watching'[d] /\ closed'[d] = 1 /\ life'[d] = "live"
  BY <1>1, <1>2, <1>3 DEF CoreInv, TypeOK
<1>6. FrameIsSound(F("Closed", d))' /\ FrameIsSound(F("CloseClient", d))'
  BY <1>5 DEF FrameIsSound, F
<1>7. CallsAreSound' /\ ObjectsAreSound' /\ StoppingIsSound'
  <2>1. "Closed" \in Observer /\ "CloseClient" \in LoopFns
    BY DEF Observer, LoopFns
  <2> QED BY <1>1, <1>2, <1>3, <1>4, <1>6, <2>1, Push DEF Quiet, Free
<1>8. stack' \in Seq(Frame)
  BY <1>1, <1>2, FrameMade, TwoFrames, CallsType DEF CoreInv, Observer
<1>9. TypeOK'
  <2>1. watching' \in [Object -> BOOLEAN] /\ closed' \in [Client -> Nat]
    BY <1>1, <1>2 DEF CoreInv, TypeOK
  <2>2. ours' \in [Object -> BOOLEAN]
    BY <1>2 DEF CoreInv, TypeOK
  <2> QED BY <1>2, <1>8, <2>1, <2>2, TypeStays DEF CoreInv
<1> QED BY <1>7, <1>9 DEF CoreInv

\* Close of a client that has no server, and its deletion: only a move of the client
\* can be under way.
LEMMA DeleteStep ==
    ASSUME CoreInv, phase \notin {"stopping", "dangling"}, NEW d \in Client,
           life[d] = "live", ~ours[d], life' = [life EXCEPT ![d] = "deleted"], stack' = Calls,
           UNCHANGED <<clients_, childs_, ours, watching, closed>>, Quiet,
           UNCHANGED <<phase, flags>>
    PROVE  CoreInv'
<1>1. d \in Object
  BY DEF Object
<1>2. d \notin toClose
  BY <1>1, NotToClose
<1>3. life'[d] = "deleted" /\ \A o \in Object : o # d => life'[o] = life[o]
  BY <1>1 DEF CoreInv, TypeOK
<1>4. OnlyTouches(d)
  BY <1>3 DEF OnlyTouches, Registered, Children
<1>5. ASSUME NEW f \in Frame, f.c = d, \E i \in 1 .. Len(Calls) : Calls[i] = f
      PROVE  FrameIsSound(f)'
  <2>1. FrameIsSound(f) /\ f.fn \notin Observer
    BY <1>5 DEF CoreInv, CallsAreSound
  <2>2. f.fn \notin {"Stopped", "RegisterChild", "UnRegisterChild"}
    BY <1>1, <1>5, <2>1, FrameType, ObserverAssumption DEF F, Object, FrameIsSound
  <2>3. f.fn = "UnRegisterClient"
    BY <1>5, <2>1, <2>2 DEF Frame, FrameIsSound
  <2> QED BY <1>3, <1>5, <2>1, <2>3 DEF FrameIsSound
<1>6. ASSUME ~Busy(d) PROVE ClientIsSound(d)'
  <2>1. ClientIsSound(d)
    BY <1>6 DEF CoreInv, ObjectsAreSound
  <2> QED BY <1>3, <2>1 DEF ClientIsSound, Registered
<1>7. d \notin Child
  BY ObserverAssumption
<1>8. CallsAreSound' /\ ObjectsAreSound' /\ StoppingIsSound'
  BY <1>1, <1>2, <1>4, <1>5, <1>6, <1>7, Drop DEF Quiet
<1>9. TypeOK'
  <2>1. /\ life' \in [Object -> {"none", "live", "deleted"}]
        /\ \A c \in Client : flags'[c] = {} <=> life'[c] = "none"
    BY <1>1, <1>3 DEF CoreInv, TypeOK, Object
  <2>2. flags' \in [Client -> Flags \cup {{}}]
    BY DEF CoreInv, TypeOK
  <2>3. ours' \in [Object -> BOOLEAN] /\ watching' \in [Object -> BOOLEAN]
        /\ closed' \in [Client -> Nat]
    BY DEF CoreInv, TypeOK
  <2> QED BY <2>1, <2>2, <2>3, TypeStays, CallsType DEF CoreInv
<1> QED BY <1>8, <1>9 DEF CoreInv

\* UnRegisterClient of a free client that is alive.
LEMMA UnRegisterClientStep ==
    ASSUME CoreInv, phase \notin {"stopping", "dangling"}, NEW d \in Client,
           life[d] = "live", Free(d), UnRegisterClient(d, Calls), Quiet,
           UNCHANGED <<phase, life, flags>>
    PROVE  CoreInv'
<1>1. d \in Object
  BY DEF Object
<1>2. /\ watching' = [watching EXCEPT ![d] = FALSE]
      /\ ours' = [ours EXCEPT ![d] = FALSE]
      /\ stack' = <<F("Moved", d), F("UnRegisterClient", d)>> \o Calls
      /\ UNCHANGED <<clients_, childs_, closed>>
  BY DEF UnRegisterClient
<1>3. closed[d] = 0 /\ d \notin toClose
  BY <1>1, FreeIsSound, NotToClose DEF ClientIsSound
<1>4. OnlyTouches(d)
  BY <1>2 DEF CoreInv, TypeOK, OnlyTouches, Registered, Children
<1>5. ~ours'[d] /\ ~watching'[d] /\ closed'[d] = 0 /\ life'[d] = "live"
  BY <1>1, <1>2, <1>3 DEF CoreInv, TypeOK
<1>6. FrameIsSound(F("Moved", d))' /\ FrameIsSound(F("UnRegisterClient", d))'
  BY <1>5 DEF FrameIsSound, F
<1>7. CallsAreSound' /\ ObjectsAreSound' /\ StoppingIsSound'
  <2>1. "Moved" \in Observer /\ "UnRegisterClient" \in LoopFns
    BY DEF Observer, LoopFns
  <2> QED BY <1>1, <1>2, <1>3, <1>4, <1>6, <2>1, Push DEF Quiet, Free
<1>8. stack' \in Seq(Frame)
  BY <1>1, <1>2, FrameMade, TwoFrames, CallsType DEF CoreInv, Observer
<1>9. TypeOK'
  <2>1. watching' \in [Object -> BOOLEAN] /\ ours' \in [Object -> BOOLEAN]
    BY <1>1, <1>2 DEF CoreInv, TypeOK
  <2>2. closed' \in [Client -> Nat]
    BY <1>2 DEF CoreInv, TypeOK
  <2> QED BY <1>2, <1>8, <2>1, <2>2, TypeStays DEF CoreInv
<1> QED BY <1>7, <1>9 DEF CoreInv

\* UnRegisterChild of a free child that is alive.
LEMMA UnRegisterChildStep ==
    ASSUME CoreInv, phase \notin {"stopping", "dangling"}, NEW d \in Child,
           life[d] = "live", Free(d), UnRegisterChild(d, Calls), Quiet,
           UNCHANGED <<phase, life, flags>>
    PROVE  CoreInv'
<1>1. d \in Object /\ d \notin Client
  BY ObserverAssumption DEF Object
<1>2. /\ watching' = [watching EXCEPT ![d] = FALSE]
      /\ ours' = [ours EXCEPT ![d] = FALSE]
      /\ stack' = <<F("Moved", d), F("UnRegisterChild", d)>> \o Calls
      /\ UNCHANGED <<clients_, childs_, closed>>
  BY DEF UnRegisterChild
<1>3. d \notin toClose
  BY <1>1, NotToClose
<1>4. OnlyTouches(d)
  BY <1>2 DEF CoreInv, TypeOK, OnlyTouches, Registered, Children
<1>5. ~ours'[d] /\ ~watching'[d] /\ life'[d] = "live"
  BY <1>1, <1>2 DEF CoreInv, TypeOK
<1>6. FrameIsSound(F("Moved", d))' /\ FrameIsSound(F("UnRegisterChild", d))'
  BY <1>1, <1>5 DEF FrameIsSound, F
<1>7. CallsAreSound' /\ ObjectsAreSound' /\ StoppingIsSound'
  <2>1. "Moved" \in Observer /\ "UnRegisterChild" \in LoopFns
    BY DEF Observer, LoopFns
  <2> QED BY <1>1, <1>2, <1>3, <1>4, <1>6, <2>1, Push DEF Quiet, Free
<1>8. stack' \in Seq(Frame)
  BY <1>1, <1>2, FrameMade, TwoFrames, CallsType DEF CoreInv, Observer
<1>9. TypeOK'
  <2>1. watching' \in [Object -> BOOLEAN] /\ ours' \in [Object -> BOOLEAN]
    BY <1>1, <1>2 DEF CoreInv, TypeOK
  <2>2. closed' \in [Client -> Nat]
    BY <1>2 DEF CoreInv, TypeOK
  <2> QED BY <1>2, <1>8, <2>1, <2>2, TypeStays DEF CoreInv
<1> QED BY <1>7, <1>9 DEF CoreInv

\* A new client has events to watch for.
LEMMA CreateType ==
    ASSUME TypeOK, NEW d \in Client, \E fl \in Flags : Create(d, fl)
    PROVE  /\ flags' \in [Client -> Flags \cup {{}}]
           /\ \A c \in Client : flags'[c] = {} <=> life'[c] = "none"
           /\ life[d] = "none" /\ life'[d] = "live"
           /\ \A o \in Object : o # d => life'[o] = life[o]
           /\ life' \in [Object -> {"none", "live", "deleted"}]
<1>1. PICK fl \in Flags : Create(d, fl)
  OBVIOUS
<1>2. fl # {} /\ d \in Object /\ \A c \in Client : c \in Object
  BY ObserverAssumption DEF Object
<1>3. /\ flags' = [flags EXCEPT ![d] = fl] /\ life' = [life EXCEPT ![d] = "live"]
      /\ life[d] = "none"
  BY <1>1 DEF Create
<1>4. /\ life[d] = "none" /\ life'[d] = "live"
      /\ \A o \in Object : o # d => life'[o] = life[o]
      /\ life' \in [Object -> {"none", "live", "deleted"}]
  BY <1>2, <1>3 DEF TypeOK
<1>5. /\ flags' \in [Client -> Flags \cup {{}}] /\ flags'[d] = fl
      /\ \A c \in Client : c # d => flags'[c] = flags[c]
  BY <1>3 DEF TypeOK
<1>6. ASSUME NEW c \in Client PROVE flags'[c] = {} <=> life'[c] = "none"
  <2>1. CASE c = d
    BY <1>2, <1>4, <1>5, <2>1
  <2>2. CASE c # d
    BY <1>2, <1>4, <1>5, <2>2 DEF TypeOK
  <2> QED BY <2>1, <2>2
<1> QED BY <1>4, <1>5, <1>6

\* RegisterClient of a client that is new, or free and without a server.
LEMMA RegisterClientStep ==
    ASSUME CoreInv, phase # "dangling", NEW d \in Client, RegisterClient(d, Calls),
           \/ \E fl \in Flags : Create(d, fl)
           \/ life[d] = "live" /\ ~ours[d] /\ Free(d) /\ UNCHANGED <<life, flags>>,
           Quiet, UNCHANGED phase
    PROVE  CoreInv'
<1>1. d \in Object
  BY DEF Object
<1>2. /\ watching' = [watching EXCEPT ![d] = TRUE]
      /\ ours' = [ours EXCEPT ![d] = TRUE]
      /\ stack' = <<F("Accepted", d), F("RegisterClient", d)>> \o Calls
      /\ UNCHANGED <<clients_, childs_, closed>>
  BY DEF RegisterClient
<1>3. life[d] = "none" \/ (life[d] = "live" /\ ~ours[d])
  BY DEF Create
<1>4. Free(d)
  BY <1>1, NewIsFree DEF Create
<1>5. closed[d] = 0 /\ d \notin Registered /\ d \notin toClose
  <2>1. closed[d] = 0 /\ d \notin Registered
    BY <1>1, <1>3, <1>4, FreeIsSound DEF ClientIsSound
  <2>2. d \notin toClose
    BY <1>1, <1>3, NotToClose, NotInStopped
  <2> QED BY <2>1, <2>2
<1>6. /\ life'[d] = "live" /\ \A o \in Object : o # d => life'[o] = life[o]
      /\ life' \in [Object -> {"none", "live", "deleted"}]
  BY <1>1 DEF Create, CoreInv, TypeOK
<1>7. /\ flags' \in [Client -> Flags \cup {{}}]
      /\ \A c \in Client : flags'[c] = {} <=> life'[c] = "none"
  <2>1. CASE UNCHANGED <<life, flags>>
    BY <2>1 DEF CoreInv, TypeOK
  <2>2. CASE \E fl \in Flags : Create(d, fl)
    BY <2>2, CreateType DEF CoreInv
  <2> QED BY <2>1, <2>2
<1>8. OnlyTouches(d)
  BY <1>2, <1>6 DEF CoreInv, TypeOK, OnlyTouches, Registered, Children
<1>9. ours'[d] /\ watching'[d] /\ closed'[d] = 0 /\ d \notin Registered'
  BY <1>1, <1>2, <1>5 DEF CoreInv, TypeOK, Registered
<1>10. FrameIsSound(F("Accepted", d))' /\ FrameIsSound(F("RegisterClient", d))'
  BY <1>6, <1>9 DEF FrameIsSound, F
<1>11. CallsAreSound' /\ ObjectsAreSound' /\ StoppingIsSound'
  <2>1. "Accepted" \in Observer /\ "RegisterClient" \in LoopFns
    BY DEF Observer, LoopFns
  <2>2. "Accepted" \in StoppingFns /\ "RegisterClient" \in StoppingFns
    BY DEF StoppingFns
  <2>3. phase = "stopping" => \A i \in 1 .. Len(snapshot) : snapshot[i] # d
    BY <1>1, <1>3, NotInStopped
  <2> QED BY <1>1, <1>2, <1>4, <1>5, <1>8, <1>10, <2>1, <2>2, <2>3, Push DEF Quiet, Free
<1>12. stack' \in Seq(Frame)
  BY <1>1, <1>2, FrameMade, TwoFrames, CallsType DEF CoreInv, Observer
<1>13. TypeOK'
  <2>1. watching' \in [Object -> BOOLEAN] /\ ours' \in [Object -> BOOLEAN]
    BY <1>1, <1>2 DEF CoreInv, TypeOK
  <2>2. closed' \in [Client -> Nat]
    BY <1>2 DEF CoreInv, TypeOK
  <2> QED BY <1>2, <1>6, <1>7, <1>12, <2>1, <2>2, TypeStays DEF CoreInv
<1> QED BY <1>11, <1>13 DEF CoreInv

\* RegisterChild of a new child.
LEMMA RegisterChildStep ==
    ASSUME CoreInv, phase # "dangling", NEW d \in Child, RegisterChild(d, Calls),
           life[d] = "none", life' = [life EXCEPT ![d] = "live"],
           Quiet, UNCHANGED <<phase, flags>>
    PROVE  CoreInv'
<1>1. d \in Object /\ d \notin Client
  BY ObserverAssumption DEF Object
<1>2. /\ watching' = [watching EXCEPT ![d] = TRUE]
      /\ ours' = [ours EXCEPT ![d] = TRUE]
      /\ stack' = <<F("Accepted", d), F("RegisterChild", d)>> \o Calls
      /\ UNCHANGED <<clients_, childs_, closed>>
  BY DEF RegisterChild
<1>3. Free(d)
  BY <1>1, NewIsFree
<1>4. d \notin Children /\ d \notin toClose
  <2>1. d \notin Children
    BY <1>1, <1>3, FreeIsSound DEF ChildIsSound
  <2>2. d \notin toClose
    BY <1>1, NotToClose, NotInStopped
  <2> QED BY <2>1, <2>2
<1>5. /\ life'[d] = "live" /\ \A o \in Object : o # d => life'[o] = life[o]
      /\ life' \in [Object -> {"none", "live", "deleted"}]
  BY <1>1 DEF CoreInv, TypeOK
<1>6. /\ flags' \in [Client -> Flags \cup {{}}]
      /\ \A c \in Client : flags'[c] = {} <=> life'[c] = "none"
  BY <1>1, <1>5 DEF CoreInv, TypeOK, Object
<1>7. OnlyTouches(d)
  BY <1>2, <1>5 DEF CoreInv, TypeOK, OnlyTouches, Registered, Children
<1>8. ours'[d] /\ watching'[d] /\ d \notin Children'
  BY <1>1, <1>2, <1>4 DEF CoreInv, TypeOK, Children
<1>9. FrameIsSound(F("Accepted", d))' /\ FrameIsSound(F("RegisterChild", d))'
  BY <1>5, <1>8 DEF FrameIsSound, F
<1>10. CallsAreSound' /\ ObjectsAreSound' /\ StoppingIsSound'
  <2>1. "Accepted" \in Observer /\ "RegisterChild" \in LoopFns
    BY DEF Observer, LoopFns
  <2>2. "Accepted" \in StoppingFns /\ "RegisterChild" \in StoppingFns
    BY DEF StoppingFns
  <2>3. phase = "stopping" => \A i \in 1 .. Len(snapshot) : snapshot[i] # d
    BY <1>1, NotInStopped
  <2> QED BY <1>1, <1>2, <1>3, <1>4, <1>7, <1>9, <2>1, <2>2, <2>3, Push DEF Quiet, Free
<1>11. stack' \in Seq(Frame)
  BY <1>1, <1>2, FrameMade, TwoFrames, CallsType DEF CoreInv, Observer
<1>12. TypeOK'
  <2>1. watching' \in [Object -> BOOLEAN] /\ ours' \in [Object -> BOOLEAN]
    BY <1>1, <1>2 DEF CoreInv, TypeOK
  <2>2. closed' \in [Client -> Nat]
    BY <1>2 DEF CoreInv, TypeOK
  <2> QED BY <1>2, <1>5, <1>6, <1>11, <2>1, <2>2, TypeStays DEF CoreInv
<1> QED BY <1>10, <1>12 DEF CoreInv

\* Close of a client that is alive, by its owner.
LEMMA CloseOrDelete ==
    ASSUME CoreInv, phase \notin {"stopping", "dangling"}, NEW d \in Client,
           life[d] = "live", ours[d] => Free(d), Close(d, Calls), Quiet, UNCHANGED <<phase, flags>>
    PROVE  CoreInv'
<1>1. CASE CloseClient(d, Calls) /\ UNCHANGED life
  <2>1. Free(d)
    BY <1>1 DEF CloseClient
  <2> QED BY <1>1, <2>1, CloseStep
<1>2. CASE /\ ~ours[d]
           /\ life' = [life EXCEPT ![d] = "deleted"]
           /\ stack' = Calls
           /\ UNCHANGED <<clients_, childs_, ours, watching, closed>>
  BY <1>2, DeleteStep
<1> QED BY <1>1, <1>2 DEF Close

\* A child that Stopped has deleted is used: the state stays as it was.
LEMMA DanglingStep ==
    ASSUME CoreInv, NEW k \in Child, k \in Children, Free(k), life[k] # "live",
           phase' = "dangling",
           UNCHANGED <<clients_, childs_, life, ours, watching, flags, stack, closed>>, Quiet
    PROVE  CoreInv'
<1>1. watching[k] /\ life[k] = "deleted" /\ phase \notin {"new", "looping", "stopping"}
  <2>1. k \in Object
    BY DEF Object
  <2>2. ChildIsSound(k)
    BY <2>1, FreeIsSound
  <2> QED BY <2>1, <2>2 DEF ChildIsSound, CoreInv, TypeOK
<1>2. phase \in {"stopped", "done", "dangling"}
  BY <1>1 DEF CoreInv, TypeOK, StoppingIsSound
<1>3. TypeOK'
  BY DEF CoreInv, TypeOK, Quiet
<1>4. Calls' = Calls /\ Top' = Top
  BY DEF Calls, Top
<1>5. \A f : f.fn # "Stopped" /\ FrameIsSound(f) => FrameIsSound(f)'
  BY DEF FrameIsSound, Registered, Children
<1>6. \A f : FrameIsSound(f) => f.fn # "Stopped"
  BY <1>2 DEF FrameIsSound
<1>7. CallsAreSound'
  <2>1. PICK K, t : K = Calls /\ t = Top
    OBVIOUS
  <2>2. \A i \in 1 .. Len(K) :
          /\ K[i].fn \notin Observer
          /\ FrameIsSound(K[i])'
          /\ K[i].fn = "Stopped" => i = Len(K)
          /\ \A j \in 1 .. Len(K) : K[i].c = K[j].c => i = j
    BY <1>5, <1>6, <2>1 DEF CoreInv, CallsAreSound
  <2>3. stack # <<>> /\ t.fn \in Observer =>
          /\ FrameIsSound(t)'
          /\ t.fn = "DataReadyToWrite" => \A i \in 1 .. Len(K) : K[i].c # t.c
    BY <1>5, <1>6, <2>1 DEF CoreInv, CallsAreSound
  <2> QED BY <1>4, <2>1, <2>2, <2>3 DEF CallsAreSound
<1>8. \A o : Busy(o)' = Busy(o)
  BY <1>4 DEF Busy
<1>9. ObjectsAreSound'
  BY <1>8 DEF CoreInv, ObjectsAreSound, ClientIsSound, ChildIsSound, Registered, Children
<1>10. \A c : Gone(c)' = Gone(c)
  BY DEF Gone, Registered
<1>11. StoppingIsSound'
  BY <1>1, <1>2, <1>10 DEF CoreInv, StoppingIsSound, Quiet, Children
<1> QED BY <1>3, <1>7, <1>9, <1>11 DEF CoreInv

\* What the observer's code or a posted function does keeps the invariant: while
\* Stopped runs it only registers, and what it closes or moves is in no call.
LEMMA DoStep ==
    ASSUME CoreInv, phase # "dangling", NEW op, NEW c, Do(op, c, Calls), late' \in 0 .. MaxLate,
           phase = "stopping" => op \in {"none", "register", "fork"},
           op = "close" => c \in Client /\ life[c] = "live" /\ (ours[c] => Free(c)),
           op = "unregister" => (c = NoClient /\ Calls = <<>>) \/ (c \in Client /\ Free(c)),
           op = "reap" => (c \in Child => life[c] = "live")
    PROVE  CoreInv'
<1>1. Quiet
  BY DEF Do, Quiet
<1>2. \A d : ~InCall(d, Calls) => Free(d)
  BY DEF InCall, Free
<1>3. CASE /\ op = "none"
           /\ stack' = Calls
           /\ UNCHANGED <<phase, clients_, childs_, life, ours, watching, flags, closed>>
  <2>1. CallsAreSound' /\ ObjectsAreSound' /\ StoppingIsSound'
    BY <1>1, <1>3, Return DEF Quiet
  <2>2. TypeOK'
    <3>1. /\ ours' \in [Object -> BOOLEAN] /\ watching' \in [Object -> BOOLEAN]
          /\ closed' \in [Client -> Nat]
      BY <1>3 DEF CoreInv, TypeOK
    <3> QED BY <1>1, <1>3, <3>1, TypeStays, CallsType DEF CoreInv
  <2> QED BY <2>1, <2>2 DEF CoreInv
<1>4. CASE op = "close" /\ Close(c, Calls) /\ UNCHANGED <<phase, flags>>
  BY <1>1, <1>4, CloseOrDelete
<1>5. CASE /\ op = "closeOther"
           /\ \E d \in Client \ {c} :
                 life[d] = "live" /\ ~InCall(d, Calls) /\ Close(d, Calls)
           /\ UNCHANGED <<phase, flags>>
  <2>1. PICK d \in Client : life[d] = "live" /\ ~InCall(d, Calls) /\ Close(d, Calls)
    BY <1>5
  <2>2. Free(d) /\ phase # "stopping"
    BY <1>2, <1>5, <2>1
  <2> QED BY <1>1, <1>5, <2>1, <2>2, CloseOrDelete
<1>6. CASE /\ op = "unregister"
           /\ \E d \in IF c = NoClient THEN Registered ELSE {c} :
                 life[d] = "live" /\ UnRegisterClient(d, Calls)
           /\ UNCHANGED <<phase, life, flags>>
  <2>1. PICK d \in IF c = NoClient THEN Registered ELSE {c} :
               life[d] = "live" /\ UnRegisterClient(d, Calls)
    BY <1>6
  <2>2. Registered \subseteq Client
    BY DEF Registered, CoreInv, TypeOK
  <2>3. d \in Client /\ Free(d)
    <3>1. CASE c = NoClient
      <4>1. d \in Client /\ c \notin Client
        BY <2>1, <2>2, <3>1, ObserverAssumption
      <4>2. Calls = <<>>
        BY <1>6, <4>1
      <4> QED BY <4>1, <4>2 DEF Free
    <3>2. CASE c # NoClient /\ c \in Client
      <4>1. d = c
        BY <2>1, <3>2
      <4>2. Free(c)
        BY <1>6, <3>2
      <4> QED BY <3>2, <4>1, <4>2
    <3>3. CASE c # NoClient /\ c \notin Client
      BY <1>6, <3>3
    <3> QED BY <3>1, <3>2, <3>3
  <2> QED BY <1>1, <1>6, <2>1, <2>3, UnRegisterClientStep
<1>7. CASE /\ op = "register"
           /\ \E d \in Client :
                 /\ RegisterClient(d, Calls)
                 /\ \/ \E fl \in Flags : Create(d, fl)
                    \/ /\ life[d] = "live" /\ ~ours[d] /\ ~InCall(d, Calls)
                       /\ UNCHANGED <<life, flags>>
           /\ UNCHANGED phase
  BY <1>1, <1>2, <1>7, RegisterClientStep
<1>8. CASE /\ op = "fork"
           /\ \E k \in Child :
                 /\ life[k] = "none"
                 /\ life' = [life EXCEPT ![k] = "live"]
                 /\ RegisterChild(k, Calls)
           /\ UNCHANGED <<phase, flags>>
  BY <1>1, <1>8, RegisterChildStep
<1>9. CASE /\ op = "reap"
           /\ \E k \in IF c \in Child THEN {c} ELSE Children :
                 /\ ~InCall(k, Calls)
                 /\ IF life[k] = "live"
                    THEN UnRegisterChild(k, Calls) /\ UNCHANGED phase
                    ELSE /\ phase' = "dangling"
                         /\ UNCHANGED <<clients_, childs_, ours, watching, stack, closed>>
           /\ UNCHANGED <<life, flags>>
  <2>1. PICK k \in IF c \in Child THEN {c} ELSE Children :
              /\ ~InCall(k, Calls)
              /\ IF life[k] = "live"
                 THEN UnRegisterChild(k, Calls) /\ UNCHANGED phase
                 ELSE /\ phase' = "dangling"
                      /\ UNCHANGED <<clients_, childs_, ours, watching, stack, closed>>
    BY <1>9
  <2>2. Children \subseteq Child
    BY DEF Children, CoreInv, TypeOK
  <2>3. k \in Child /\ Free(k) /\ phase # "stopping"
    BY <1>2, <1>9, <2>1, <2>2
  <2>4. CASE life[k] = "live"
    BY <1>1, <1>9, <2>1, <2>3, <2>4, UnRegisterChildStep
  <2>5. CASE life[k] # "live"
    <3>1. k \in Children
      BY <1>9, <2>1, <2>5
    <3> QED BY <1>1, <1>9, <2>1, <2>3, <2>5, <3>1, DanglingStep
  <2> QED BY <2>4, <2>5
<1> QED BY <1>3, <1>4, <1>5, <1>6, <1>7, <1>8, <1>9 DEF Do

(***************************************************************************)
(* The actions.                                                            *)
(***************************************************************************)

\* What the observer's code may do when it runs, by the contract.
LEMMA ObserverKeepsContract ==
    ASSUME Contract, CoreInv, Observe
    PROVE  \E op, c :
              /\ Do(op, c, Calls) /\ late' \in 0 .. MaxLate
              /\ phase = "stopping" => op \in {"none", "register", "fork"}
              /\ op = "close" => c \in Client /\ life[c] = "live" /\ (ours[c] => Free(c))
              /\ op = "unregister" => c \in Client /\ Free(c)
              /\ op = "reap" => (c \in Child => life[c] = "live")
<1>1. PICK f : f = Top
  OBVIOUS
<1>2. stack # <<>> /\ f.fn \in Observer /\ f \in Frame /\ Calls = Tail(stack)
  BY <1>1, StackIsCalls DEF CoreInv, Observe
<1>3. PICK op \in May(f.fn, Calls) :
            /\ op \in {"close", "unregister"} => f.c \in Client
            /\ Do(op, f.c, Calls)
  BY <1>1, <1>2 DEF Observe
<1>4. /\ FrameIsSound(f)
      /\ f.fn = "DataReadyToWrite" => Free(f.c)
  BY <1>1, <1>2 DEF CoreInv, CallsAreSound, Free
<1>5. /\ f.fn = "Accepted" => op \in {"none", "register", "fork"}
      /\ f.fn = "Closed" => op \in {"none", "register", "fork"}
      /\ f.fn = "Moved" => op \in {"none", "close", "closeOther"}
      /\ f.fn = "ChildStatusChanged" => op \notin {"close", "unregister"}
      /\ f.fn = "DataReceived" /\ Calls # <<>> => op \notin {"close", "unregister"}
  <2>1. f.fn = "Accepted" => op \in AcceptedMay
    BY <1>3 DEF May
  <2>2. f.fn = "Closed" => op \in ClosedMay
    BY <1>3 DEF May
  <2>3. f.fn = "Moved" => op \in MovedMay
    BY <1>3 DEF May
  <2>4. f.fn = "ChildStatusChanged" => op \in ChildMay
    BY <1>3 DEF May
  <2>5. f.fn = "DataReceived" /\ Calls # <<>> => op \in BothMay
    BY <1>3 DEF May
  <2> QED BY <2>1, <2>2, <2>3, <2>4, <2>5, ObserverAssumption DEF Contract
<1>6. f.fn \in {"DataReceived", "DataReadyToWrite"} /\ op \in {"close", "unregister"} => Free(f.c)
  BY <1>4, <1>5 DEF Free
<1>7. life[f.c] = "live"
  BY <1>2, <1>4 DEF FrameIsSound, Observer
<1>8. phase = "stopping" => op \in {"none", "register", "fork"}
  BY <1>1, <1>2, <1>5, StoppingCalls DEF StoppingFns, Observer
<1>9. op = "close" => f.c \in Client /\ (ours[f.c] => Free(f.c))
  <2>1. f.fn = "Moved" /\ f.c \in Client => ~ours[f.c]
    BY <1>4 DEF FrameIsSound
  <2> QED BY <1>2, <1>3, <1>5, <1>6, <2>1 DEF Observer
<1>10. op = "unregister" => f.c \in Client /\ Free(f.c)
  BY <1>2, <1>3, <1>5, <1>6 DEF Observer
<1>11. late' \in 0 .. MaxLate
  BY DEF Observe, CoreInv, TypeOK
<1> QED BY <1>3, <1>7, <1>8, <1>9, <1>10, <1>11

\* The observer's code runs.
LEMMA ObserveStep ==
    ASSUME Contract, CoreInv, phase # "dangling", Observe
    PROVE  CoreInv'
BY ObserverKeepsContract, DoStep

\* A posted function runs.
LEMMA PostedStep ==
    ASSUME CoreInv, phase # "dangling", Posted
    PROVE  CoreInv'
<1>1. stack = <<>> /\ phase # "stopping"
  BY DEF Posted
<1>2. Calls = <<>>
  BY <1>1, StackIsCalls DEF CoreInv
<1>3. PICK op \in PostedMay : Do(op, NoClient, Calls)
  BY <1>2 DEF Posted
<1>4. late' \in 0 .. MaxLate
  <2>1. late \in 0 .. MaxLate /\ MaxLate \in Nat
    BY ObserverAssumption DEF CoreInv, TypeOK
  <2>2. late' = late \/ (late > 0 /\ late' = late - 1)
    BY DEF Posted
  <2> QED BY <2>1, <2>2
<1>5. op # "close" /\ NoClient \notin Child
  BY ObserverAssumption
<1> QED BY <1>1, <1>2, <1>3, <1>4, <1>5, DoStep

\* A call that has ended: what Pop asks of it.
LEMMA Ending ==
    ASSUME CoreInv, stack # <<>>, NEW g, g = Top,
           g.fn \in LoopFns
    PROVE  /\ g \in Frame /\ g.c \in Object /\ FrameIsSound(g)
           /\ g.fn \notin Observer \cup {"Stopped"}
           /\ Tail(stack) \in Seq(Frame)
           /\ g.c \in Client => g.c \notin Child
<1>1. g.fn \notin Observer \cup {"Stopped"}
  BY DEF LoopFns, Observer
<1>2. g \in Frame /\ FrameIsSound(g)
  BY <1>1, StackIsCalls DEF CoreInv
<1>3. Tail(stack) \in Seq(Frame)
  BY HeadTail DEF CoreInv, TypeOK
<1> QED BY <1>1, <1>2, <1>3, FrameType, ObserverAssumption

\* RegisterClient adds the client to clients_.
LEMMA RegisterClientReturnStep ==
    ASSUME CoreInv, phase # "dangling", RegisterClientReturn
    PROVE  CoreInv'
<1>1. PICK g : g = Top
  OBVIOUS
<1>2. g.fn = "RegisterClient" /\ stack # <<>>
  BY <1>1 DEF RegisterClientReturn, Running
<1>3. /\ g.c \in Object /\ FrameIsSound(g) /\ Tail(stack) \in Seq(Frame)
      /\ g.fn \notin Observer \cup {"Stopped", "ReadWrite"}
      /\ g.c \in Client => g.c \notin Child
  BY <1>1, <1>2, Ending DEF LoopFns
<1>4. /\ g.c \in Client /\ life[g.c] = "live" /\ ours[g.c] /\ watching[g.c]
      /\ g.c \notin Registered /\ closed[g.c] = 0
  BY <1>2, <1>3 DEF FrameIsSound
<1>5. /\ clients_' = Append(clients_, g.c) /\ stack' = Tail(stack)
      /\ UNCHANGED <<phase, accepting, childs_, life, ours, watching, flags, snapshot,
                     late, toClose, closed>>
  BY <1>1 DEF RegisterClientReturn
<1>6. /\ clients_ \in Seq(Client) /\ clients_' \in Seq(Client)
      /\ Len(clients_') = Len(clients_) + 1
      /\ clients_'[Len(clients_) + 1] = g.c
      /\ \A i \in 1 .. Len(clients_) : clients_'[i] = clients_[i]
  BY <1>4, <1>5 DEF CoreInv, TypeOK
<1>7. Registered' = Registered \cup {g.c}
  <2>1. Len(clients_) \in Nat
    BY <1>6
  <2>2. \A i \in 1 .. Len(clients_') : i \in 1 .. Len(clients_) \/ i = Len(clients_) + 1
    BY <1>6, <2>1
  <2>3. Len(clients_) + 1 \in 1 .. Len(clients_')
    BY <1>6, <2>1
  <2>4. \A i \in 1 .. Len(clients_) : i \in 1 .. Len(clients_')
    BY <1>6, <2>1
  <2> QED BY <1>6, <2>2, <2>3, <2>4 DEF Registered
<1>8. \A i, j \in 1 .. Len(clients_') : clients_'[i] = clients_'[j] => i = j
  <2>1. \A i \in 1 .. Len(clients_) : clients_[i] # g.c
    BY <1>4 DEF Registered
  <2>2. \A i, j \in 1 .. Len(clients_) : clients_[i] = clients_[j] => i = j
    BY DEF CoreInv, ObjectsAreSound
  <2>3. Len(clients_) \in Nat
    BY <1>6
  <2>4. \A i \in 1 .. Len(clients_') : i \in 1 .. Len(clients_) \/ i = Len(clients_) + 1
    BY <1>6, <2>3
  <2> QED BY <1>6, <2>1, <2>2, <2>4
<1>9. OnlyTouches(g.c)
  BY <1>5, <1>7 DEF OnlyTouches, Children
<1>10. ClientIsSound(g.c)'
  BY <1>4, <1>5, <1>7 DEF ClientIsSound
<1>11. g.c \notin toClose \/ phase = "stopping"
  BY <1>3, <1>4, NotToClose
<1>12. g.c \in toClose => FALSE
  <2>1. ASSUME phase = "stopping", g.c \in toClose PROVE FALSE
    <3>1. ASSUME NEW i \in 1 .. Len(snapshot), snapshot[i] = g.c PROVE FALSE
      <4>1. Busy(g.c)
        <5>1. Calls[1] = g /\ 1 \in 1 .. Len(Calls)
          BY <1>1, <1>2, <1>3, StackIsCalls, HeadTail DEF CoreInv, TypeOK
        <5> QED BY <1>3, <5>1 DEF Busy
      <4> QED BY <2>1, <3>1, <4>1 DEF CoreInv, StoppingIsSound
    <3>2. ASSUME NEW i \in 1 .. Len(Calls), Calls[i] = F("CloseClient", g.c) PROVE FALSE
      <4>1. PICK h : h = Calls[i]
        OBVIOUS
      <4>2. FrameIsSound(h) /\ h.fn = "CloseClient" /\ h.c = g.c
        BY <3>2, <4>1 DEF CoreInv, CallsAreSound, F
      <4> QED BY <1>4, <4>2 DEF FrameIsSound
    <3>3. ~Gone(g.c)
      BY <1>4 DEF Gone
    <3> QED BY <2>1, <3>1, <3>2, <3>3 DEF CoreInv, StoppingIsSound
  <2> QED BY <1>11, <2>1
<1>13. CallsAreSound' /\ ObjectsAreSound' /\ StoppingIsSound'
  <2>1. \A i, j \in 1 .. Len(childs_') : childs_'[i] = childs_'[j] => i = j
    BY <1>5 DEF CoreInv, ObjectsAreSound
  <2> QED BY <1>1, <1>2, <1>3, <1>4, <1>5, <1>8, <1>9, <1>10, <1>12, <2>1, Pop
<1>14. TypeOK'
  BY <1>3, <1>5, <1>6 DEF CoreInv, TypeOK
<1> QED BY <1>13, <1>14 DEF CoreInv

\* clients_ without c.
LEMMA RegisteredErased ==
    ASSUME CoreInv, NEW c, clients_' = Erase(clients_, c)
    PROVE  /\ clients_' \in Seq(Client) /\ Registered' = Registered \ {c}
           /\ \A i, j \in 1 .. Len(clients_') : clients_'[i] = clients_'[j] => i = j
<1>1. clients_ \in Seq(Client) /\ NoneTwice(clients_)
  BY DEF CoreInv, TypeOK, ObjectsAreSound, NoneTwice
<1>2. clients_' \in Seq(Client) /\ Elements(clients_') = Elements(clients_) \ {c} /\ NoneTwice(clients_')
  BY <1>1, EraseElements
<1>3. Registered = Elements(clients_) /\ Registered' = Elements(clients_')
  BY DEF Registered, Elements
<1>4. \A i, j \in 1 .. Len(clients_') : clients_'[i] = clients_'[j] => i = j
  BY <1>2 DEF NoneTwice
<1> QED BY <1>2, <1>3, <1>4

\* childs_ without k.
LEMMA ChildrenErased ==
    ASSUME CoreInv, NEW k, childs_' = Erase(childs_, k)
    PROVE  /\ childs_' \in Seq(Child) /\ Children' = Children \ {k}
           /\ \A i, j \in 1 .. Len(childs_') : childs_'[i] = childs_'[j] => i = j
<1>1. childs_ \in Seq(Child) /\ NoneTwice(childs_)
  BY DEF CoreInv, TypeOK, ObjectsAreSound, NoneTwice
<1>2. childs_' \in Seq(Child) /\ Elements(childs_') = Elements(childs_) \ {k} /\ NoneTwice(childs_')
  BY <1>1, EraseElements
<1>3. Children = Elements(childs_) /\ Children' = Elements(childs_')
  BY DEF Children, Elements
<1>4. \A i, j \in 1 .. Len(childs_') : childs_'[i] = childs_'[j] => i = j
  BY <1>2 DEF NoneTwice
<1> QED BY <1>2, <1>3, <1>4

\* The caller of Close deletes the client, which clients_ no longer has.
LEMMA CloseClientReturnStep ==
    ASSUME CoreInv, phase # "dangling", CloseClientReturn
    PROVE  CoreInv'
<1>1. PICK g : g = Top
  OBVIOUS
<1>2. g.fn = "CloseClient" /\ stack # <<>>
  BY <1>1 DEF CloseClientReturn, Running
<1>3. /\ g.c \in Object /\ FrameIsSound(g) /\ Tail(stack) \in Seq(Frame)
      /\ g.fn \notin Observer \cup {"Stopped", "ReadWrite"}
      /\ g.c \in Client => g.c \notin Child
  BY <1>1, <1>2, Ending DEF LoopFns
<1>4. g.c \in Client /\ life[g.c] = "live" /\ ~watching[g.c] /\ closed[g.c] = 1
  BY <1>2, <1>3 DEF FrameIsSound
<1>5. /\ clients_' = Erase(clients_, g.c) /\ stack' = Tail(stack)
      /\ life' = [life EXCEPT ![g.c] = "deleted"]
      /\ UNCHANGED <<phase, accepting, childs_, ours, watching, flags, snapshot,
                     late, toClose, closed>>
  BY <1>1 DEF CloseClientReturn
<1>6. /\ clients_' \in Seq(Client) /\ Registered' = Registered \ {g.c}
      /\ \A i, j \in 1 .. Len(clients_') : clients_'[i] = clients_'[j] => i = j
  BY <1>5, RegisteredErased
<1>7. /\ life' \in [Object -> {"none", "live", "deleted"}]
      /\ life'[g.c] = "deleted" /\ \A o \in Object : o # g.c => life'[o] = life[o]
  BY <1>3, <1>5 DEF CoreInv, TypeOK
<1>8. OnlyTouches(g.c)
  BY <1>5, <1>6, <1>7 DEF OnlyTouches, Children
<1>9. ClientIsSound(g.c)' /\ Gone(g.c)'
  BY <1>4, <1>5, <1>6, <1>7 DEF ClientIsSound, Gone
<1>10. CallsAreSound' /\ ObjectsAreSound' /\ StoppingIsSound'
  <2>1. \A i, j \in 1 .. Len(childs_') : childs_'[i] = childs_'[j] => i = j
    BY <1>5 DEF CoreInv, ObjectsAreSound
  <2> QED BY <1>1, <1>2, <1>3, <1>4, <1>5, <1>6, <1>8, <1>9, <2>1, Pop
<1>11. TypeOK'
  <2>1. \A c \in Client : flags'[c] = {} <=> life'[c] = "none"
    BY <1>4, <1>5, <1>7 DEF CoreInv, TypeOK, Object
  <2> QED BY <1>3, <1>5, <1>6, <1>7, <2>1 DEF CoreInv, TypeOK
<1> QED BY <1>10, <1>11 DEF CoreInv

\* UnRegisterClient takes the client out of clients_.
LEMMA UnRegisterClientReturnStep ==
    ASSUME CoreInv, phase # "dangling", UnRegisterClientReturn
    PROVE  CoreInv'
<1>1. PICK g : g = Top
  OBVIOUS
<1>2. g.fn = "UnRegisterClient" /\ stack # <<>>
  BY <1>1 DEF UnRegisterClientReturn, Running
<1>3. /\ g.c \in Object /\ FrameIsSound(g) /\ Tail(stack) \in Seq(Frame)
      /\ g.fn \notin Observer \cup {"Stopped", "ReadWrite"}
      /\ g.c \in Client => g.c \notin Child
  BY <1>1, <1>2, Ending DEF LoopFns
<1>4. /\ g.c \in Client /\ life[g.c] # "none" /\ ~watching[g.c] /\ ~ours[g.c]
      /\ life[g.c] = "live" => closed[g.c] = 0
  BY <1>2, <1>3 DEF FrameIsSound
<1>5. /\ clients_' = Erase(clients_, g.c) /\ stack' = Tail(stack)
      /\ UNCHANGED <<phase, accepting, childs_, life, ours, watching, flags, snapshot,
                     late, toClose, closed>>
  BY <1>1 DEF UnRegisterClientReturn
<1>6. /\ clients_' \in Seq(Client) /\ Registered' = Registered \ {g.c}
      /\ \A i, j \in 1 .. Len(clients_') : clients_'[i] = clients_'[j] => i = j
  BY <1>5, RegisteredErased
<1>7. OnlyTouches(g.c)
  BY <1>5, <1>6 DEF OnlyTouches, Children
<1>8. life[g.c] \in {"live", "deleted"}
  BY <1>3, <1>4 DEF CoreInv, TypeOK
<1>9. ClientIsSound(g.c)'
  BY <1>4, <1>5, <1>6, <1>8 DEF ClientIsSound
<1>10. ASSUME g.c \in toClose PROVE Gone(g.c)'
  <2>1. phase # "stopping"
    BY <1>1, <1>2, StoppingCalls DEF StoppingFns
  <2>2. phase \in {"stopped", "done"}
    BY <1>10, <2>1 DEF CoreInv, TypeOK, StoppingIsSound
  <2>3. Gone(g.c)
    BY <1>10, <2>2 DEF CoreInv, StoppingIsSound
  <2> QED BY <1>5, <1>6, <2>3 DEF Gone
<1>11. CallsAreSound' /\ ObjectsAreSound' /\ StoppingIsSound'
  <2>1. \A i, j \in 1 .. Len(childs_') : childs_'[i] = childs_'[j] => i = j
    BY <1>5 DEF CoreInv, ObjectsAreSound
  <2> QED BY <1>1, <1>2, <1>3, <1>4, <1>5, <1>6, <1>7, <1>9, <1>10, <2>1, Pop
<1>12. TypeOK'
  BY <1>3, <1>5, <1>6 DEF CoreInv, TypeOK
<1> QED BY <1>11, <1>12 DEF CoreInv

\* RegisterChild adds the child to childs_.
LEMMA RegisterChildReturnStep ==
    ASSUME CoreInv, phase # "dangling", RegisterChildReturn
    PROVE  CoreInv'
<1>1. PICK g : g = Top
  OBVIOUS
<1>2. g.fn = "RegisterChild" /\ stack # <<>>
  BY <1>1 DEF RegisterChildReturn, Running
<1>3. /\ g.c \in Object /\ FrameIsSound(g) /\ Tail(stack) \in Seq(Frame)
      /\ g.fn \notin Observer \cup {"Stopped", "ReadWrite"}
  BY <1>1, <1>2, Ending DEF LoopFns
<1>4. /\ g.c \in Child /\ life[g.c] = "live" /\ ours[g.c] /\ watching[g.c]
      /\ g.c \notin Children /\ g.c \notin Client
  BY <1>2, <1>3, ObserverAssumption DEF FrameIsSound
<1>5. /\ childs_' = Append(childs_, g.c) /\ stack' = Tail(stack)
      /\ UNCHANGED <<phase, accepting, clients_, life, ours, watching, flags, snapshot,
                     late, toClose, closed>>
  BY <1>1 DEF RegisterChildReturn
<1>6. /\ childs_ \in Seq(Child) /\ childs_' \in Seq(Child)
      /\ Len(childs_') = Len(childs_) + 1
      /\ childs_'[Len(childs_) + 1] = g.c
      /\ \A i \in 1 .. Len(childs_) : childs_'[i] = childs_[i]
  BY <1>4, <1>5 DEF CoreInv, TypeOK
<1>7. Len(childs_) \in Nat /\ Len(childs_) + 1 \in 1 .. Len(childs_')
  BY <1>6
<1>8. /\ \A i \in 1 .. Len(childs_') : i \in 1 .. Len(childs_) \/ i = Len(childs_) + 1
      /\ \A i \in 1 .. Len(childs_) : i \in 1 .. Len(childs_')
  BY <1>6, <1>7
<1>9. Children' = Children \cup {g.c}
  BY <1>6, <1>7, <1>8 DEF Children
<1>10. \A i, j \in 1 .. Len(childs_') : childs_'[i] = childs_'[j] => i = j
  <2>1. \A i \in 1 .. Len(childs_) : childs_[i] # g.c
    BY <1>4 DEF Children
  <2>2. \A i, j \in 1 .. Len(childs_) : childs_[i] = childs_[j] => i = j
    BY DEF CoreInv, ObjectsAreSound
  <2> QED BY <1>6, <1>8, <2>1, <2>2
<1>11. OnlyTouches(g.c)
  BY <1>5, <1>9 DEF OnlyTouches, Registered
<1>12. ChildIsSound(g.c)'
  BY <1>4, <1>5, <1>9 DEF ChildIsSound
<1>13. g.c \notin toClose
  BY <1>4 DEF CoreInv, TypeOK
<1>14. CallsAreSound' /\ ObjectsAreSound' /\ StoppingIsSound'
  <2>1. \A i, j \in 1 .. Len(clients_') : clients_'[i] = clients_'[j] => i = j
    BY <1>5 DEF CoreInv, ObjectsAreSound
  <2> QED BY <1>1, <1>2, <1>3, <1>4, <1>5, <1>10, <1>11, <1>12, <1>13, <2>1, Pop
<1>15. TypeOK'
  BY <1>3, <1>5, <1>6 DEF CoreInv, TypeOK
<1> QED BY <1>14, <1>15 DEF CoreInv

\* The caller of UnRegisterChild deletes the child, which childs_ no longer has.
LEMMA UnRegisterChildReturnStep ==
    ASSUME CoreInv, phase # "dangling", UnRegisterChildReturn
    PROVE  CoreInv'
<1>1. PICK g : g = Top
  OBVIOUS
<1>2. g.fn = "UnRegisterChild" /\ stack # <<>>
  BY <1>1 DEF UnRegisterChildReturn, Running
<1>3. /\ g.c \in Object /\ FrameIsSound(g) /\ Tail(stack) \in Seq(Frame)
      /\ g.fn \notin Observer \cup {"Stopped", "ReadWrite"}
  BY <1>1, <1>2, Ending DEF LoopFns
<1>4. /\ g.c \in Child /\ life[g.c] = "live" /\ ~watching[g.c] /\ g.c \notin Client
  BY <1>2, <1>3, ObserverAssumption DEF FrameIsSound
<1>5. /\ childs_' = Erase(childs_, g.c) /\ stack' = Tail(stack)
      /\ life' = [life EXCEPT ![g.c] = "deleted"]
      /\ UNCHANGED <<phase, accepting, clients_, ours, watching, flags, snapshot,
                     late, toClose, closed>>
  BY <1>1 DEF UnRegisterChildReturn
<1>6. /\ childs_' \in Seq(Child) /\ Children' = Children \ {g.c}
      /\ \A i, j \in 1 .. Len(childs_') : childs_'[i] = childs_'[j] => i = j
  BY <1>5, ChildrenErased
<1>7. /\ life' \in [Object -> {"none", "live", "deleted"}]
      /\ \A o \in Object : o # g.c => life'[o] = life[o]
  BY <1>3, <1>5 DEF CoreInv, TypeOK
<1>8. OnlyTouches(g.c)
  BY <1>5, <1>6, <1>7 DEF OnlyTouches, Registered
<1>9. ChildIsSound(g.c)'
  BY <1>4, <1>5, <1>6 DEF ChildIsSound
<1>10. g.c \notin toClose
  BY <1>4 DEF CoreInv, TypeOK
<1>11. CallsAreSound' /\ ObjectsAreSound' /\ StoppingIsSound'
  <2>1. \A i, j \in 1 .. Len(clients_') : clients_'[i] = clients_'[j] => i = j
    BY <1>5 DEF CoreInv, ObjectsAreSound
  <2> QED BY <1>1, <1>2, <1>3, <1>4, <1>5, <1>6, <1>8, <1>9, <1>10, <2>1, Pop
<1>12. TypeOK'
  <2>1. \A c \in Client : flags'[c] = {} <=> life'[c] = "none"
    BY <1>4, <1>5, <1>7 DEF CoreInv, TypeOK, Object
  <2> QED BY <1>3, <1>5, <1>6, <1>7, <2>1 DEF CoreInv, TypeOK
<1> QED BY <1>11, <1>12 DEF CoreInv

\* A step that changes the stack only leaves what the frames rely on.
LEMMA StackOnly ==
    ASSUME UNCHANGED <<phase, clients_, childs_, life, ours, watching, closed>>
    PROVE  /\ \A f : FrameIsSound(f)' = FrameIsSound(f)
           /\ \A c : ClientIsSound(c)' = ClientIsSound(c) /\ ChildIsSound(c)' = ChildIsSound(c)
           /\ \A c : Gone(c)' = Gone(c)
BY DEF FrameIsSound, ClientIsSound, ChildIsSound, Gone, Registered, Children

\* From DataReceived to DataReadyToWrite: the client is still ours, as no call in
\* DataReceived could be about it.
LEMMA ReadWriteContinueStep ==
    ASSUME CoreInv, phase # "dangling", ReadWriteContinue
    PROVE  CoreInv'
<1>1. PICK g, K, K1, f : g = Top /\ K = stack /\ K1 = Tail(stack) /\ f = F("DataReadyToWrite", g.c)
  OBVIOUS
<1>2. g.fn = "ReadWrite" /\ stack # <<>>
  BY <1>1 DEF ReadWriteContinue, Running
<1>3. g.c \in Object /\ FrameIsSound(g) /\ g.fn \notin Observer
  BY <1>1, <1>2, Ending DEF LoopFns
<1>4. Calls = K
  BY <1>1, <1>2, <1>3, StackIsCalls DEF CoreInv
<1>5. /\ K \in Seq(Frame) /\ K[1] = g /\ 1 \in 1 .. Len(K) /\ K1 \in Seq(Frame)
      /\ \A i \in 1 .. Len(K1) : i + 1 \in 1 .. Len(K) /\ K1[i] = K[i + 1]
      /\ \A i \in 1 .. Len(K) : i = 1 \/ (i - 1 \in 1 .. Len(K1) /\ K[i] = K1[i - 1])
      /\ Len(K1) = Len(K) - 1
  BY <1>1, <1>2, HeadTail DEF CoreInv, TypeOK, Top
<1>6. f \in Frame /\ f.fn = "DataReadyToWrite" /\ f.c = g.c /\ f.fn \in Observer
  BY <1>1, <1>3, FrameMade DEF Observer
<1>7. /\ stack' = <<f>> \o K1 /\ stack' \in Seq(Frame) /\ stack' # <<>>
      /\ Head(stack') = f /\ Tail(stack') = K1
  BY <1>1, <1>5, <1>6, OneMore DEF ReadWriteContinue
<1>8. Calls' = K1 /\ Top' = f
  BY <1>6, <1>7 DEF Calls, Top
<1>9. /\ \A h : FrameIsSound(h)' = FrameIsSound(h)
      /\ \A c : ClientIsSound(c)' = ClientIsSound(c) /\ ChildIsSound(c)' = ChildIsSound(c)
      /\ \A c : Gone(c)' = Gone(c)
  BY StackOnly DEF ReadWriteContinue
<1>10. /\ \A i \in 1 .. Len(K) : K[i].fn \notin Observer /\ FrameIsSound(K[i])
       /\ \A i \in 1 .. Len(K) : K[i].fn = "Stopped" => i = Len(K)
       /\ \A i, j \in 1 .. Len(K) : K[i].c = K[j].c => i = j
  BY <1>4 DEF CoreInv, CallsAreSound
<1>11. CallsAreSound'
  <2>1. FrameIsSound(f)
    BY <1>2, <1>3, <1>6 DEF FrameIsSound
  <2>2. ASSUME NEW i \in 1 .. Len(K1)
        PROVE  /\ K1[i].fn \notin Observer /\ FrameIsSound(K1[i])' /\ K1[i].c # f.c
               /\ K1[i].fn = "Stopped" => i = Len(K1)
    <3>1. i + 1 \in 1 .. Len(K) /\ K1[i] = K[i + 1] /\ i + 1 # 1
      BY <1>5
    <3>2. K[i + 1].fn \notin Observer /\ FrameIsSound(K[i + 1]) /\ K[i + 1].c # K[1].c
      BY <1>5, <1>10, <3>1
    <3>3. FrameIsSound(K[i + 1])'
      BY <1>9, <3>2
    <3>4. K[i + 1].fn = "Stopped" => i + 1 = Len(K)
      BY <1>10, <3>1
    <3>5. K1[i].fn = "Stopped" => i = Len(K1)
      BY <1>5, <3>1, <3>4
    <3> QED BY <1>5, <1>6, <3>1, <3>2, <3>3, <3>5
  <2>3. ASSUME NEW i \in 1 .. Len(K1), NEW j \in 1 .. Len(K1), K1[i].c = K1[j].c PROVE i = j
    <3>1. /\ i + 1 \in 1 .. Len(K) /\ K1[i] = K[i + 1]
          /\ j + 1 \in 1 .. Len(K) /\ K1[j] = K[j + 1]
      BY <1>5
    <3>2. i + 1 = j + 1
      BY <1>10, <2>3, <3>1
    <3> QED BY <3>2
  <2>4. FrameIsSound(Top)'
    <3>1. FrameIsSound(f)'
      BY <1>9, <2>1
    <3> QED BY <1>8, <3>1 DEF FrameIsSound
  <2> QED BY <1>8, <2>2, <2>3, <2>4 DEF CallsAreSound
<1>12. ASSUME NEW o, ~Busy(o)' PROVE ~Busy(o)
  <2>1. SUFFICES ASSUME NEW i \in 1 .. Len(K), K[i].c = o, K[i].fn # "ReadWrite" PROVE FALSE
    BY <1>4 DEF Busy
  <2>2. i # 1
    BY <1>2, <1>5, <2>1
  <2>3. i - 1 \in 1 .. Len(K1) /\ K1[i - 1] = K[i]
    BY <1>5, <2>2
  <2>4. \A j \in 1 .. Len(K1) : ~(K1[j].c = o /\ K1[j].fn # "ReadWrite")
    BY <1>8, <1>12 DEF Busy
  <2> QED BY <2>1, <2>3, <2>4
<1>13. ObjectsAreSound'
  BY <1>9, <1>12 DEF CoreInv, ObjectsAreSound, ReadWriteContinue
<1>14. StoppingIsSound'
  <2>1. phase # "stopping"
    BY <1>1, <1>2, StoppingCalls DEF StoppingFns
  <2> QED BY <1>9, <2>1 DEF CoreInv, StoppingIsSound, ReadWriteContinue
<1>15. TypeOK'
  BY <1>7 DEF CoreInv, TypeOK, ReadWriteContinue
<1> QED BY <1>11, <1>13, <1>14, <1>15 DEF CoreInv

\* When Stopped goes on, it is the only call.
LEMMA OnlyStopped ==
    ASSUME CoreInv, Running("Stopped")
    PROVE  /\ phase = "stopping" /\ Calls = stack /\ Len(stack) = 1
           /\ stack[1] = F("Stopped", NoClient) /\ Tail(stack) = <<>>
           /\ \A o \in Object : Free(o) /\ ~Busy(o)
<1>1. stack # <<>> /\ Top.fn = "Stopped" /\ Top.fn \notin Observer
  BY DEF Running, Observer
<1>2. Calls = stack /\ Top \in Frame /\ FrameIsSound(Top) /\ Calls[1] = Top
  BY <1>1, StackIsCalls DEF CoreInv
<1>3. stack \in Seq(Frame) /\ 1 \in 1 .. Len(stack)
  BY <1>1, HeadTail DEF CoreInv, TypeOK
<1>4. Len(stack) = 1
  BY <1>1, <1>2, <1>3 DEF CoreInv, CallsAreSound
<1>5. stack[1] = F("Stopped", NoClient)
  BY <1>1, <1>2, FrameType
<1>6. Tail(stack) = <<>>
  <2>1. Tail(stack) \in Seq(Frame) /\ Len(Tail(stack)) = 0
    BY <1>1, <1>3, <1>4, HeadTail
  <2> QED BY <2>1, EmptySeq
<1>7. phase = "stopping"
  BY <1>1, <1>2 DEF FrameIsSound
<1>8. ASSUME NEW o \in Object PROVE Free(o)
  <2>1. NoClient # o
    BY ObserverAssumption DEF Object
  <2>2. \A i \in 1 .. Len(Calls) : i = 1
    BY <1>2, <1>4
  <2>3. Calls[1].c = NoClient
    BY <1>2, <1>5 DEF F
  <2> QED BY <2>1, <2>2, <2>3 DEF Free
<1> QED BY <1>2, <1>4, <1>5, <1>6, <1>7, <1>8, FreeIsSound

\* Stopped closes the next client of its copy: it is alive and registered.
LEMMA StoppedCloseStep ==
    ASSUME CoreInv, StoppedClose
    PROVE  CoreInv'
<1>1. /\ phase = "stopping" /\ Calls = stack /\ Len(stack) = 1
      /\ stack[1] = F("Stopped", NoClient)
      /\ \A o \in Object : Free(o) /\ ~Busy(o)
  BY OnlyStopped DEF StoppedClose
<1>2. PICK d, sn : d = Head(snapshot) /\ sn = Tail(snapshot)
  OBVIOUS
<1>3. /\ snapshot \in Seq(Client) /\ snapshot # <<>> /\ d \in Client /\ d = snapshot[1]
      /\ 1 \in 1 .. Len(snapshot) /\ sn \in Seq(Client)
      /\ \A i \in 1 .. Len(sn) : i + 1 \in 1 .. Len(snapshot) /\ sn[i] = snapshot[i + 1]
      /\ \A i \in 1 .. Len(snapshot) :
            i = 1 \/ (i - 1 \in 1 .. Len(sn) /\ snapshot[i] = sn[i - 1])
  BY <1>2, HeadTail DEF CoreInv, TypeOK, StoppedClose
<1>4. d \in Object /\ Free(d)
  BY <1>1, <1>3 DEF Object
<1>5. watching[d] /\ life[d] = "live" /\ ours[d] /\ closed[d] = 0
  <2>1. watching[d]
    BY <1>1, <1>3 DEF CoreInv, StoppingIsSound
  <2> QED BY <1>3, <1>4, <2>1, FreeIsSound DEF ClientIsSound
<1>6. /\ CloseClient(d, Calls) /\ phase' = phase /\ snapshot' = sn
      /\ UNCHANGED <<accepting, life, flags, late, toClose>>
  BY <1>1, <1>2, <1>5 DEF StoppedClose
<1>7. /\ watching' = [watching EXCEPT ![d] = FALSE]
      /\ closed' = [closed EXCEPT ![d] = @ + 1]
      /\ stack' = <<F("Closed", d), F("CloseClient", d)>> \o Calls
      /\ UNCHANGED <<clients_, childs_, ours>>
  BY <1>6 DEF CloseClient
<1>8. OnlyTouches(d)
  BY <1>6, <1>7 DEF CoreInv, TypeOK, OnlyTouches, Registered, Children
<1>9. ours'[d] /\ ~watching'[d] /\ closed'[d] = 1 /\ life'[d] = "live"
  BY <1>3, <1>4, <1>5, <1>6, <1>7 DEF CoreInv, TypeOK
<1>10. FrameIsSound(F("Closed", d))' /\ FrameIsSound(F("CloseClient", d))'
  BY <1>3, <1>9 DEF FrameIsSound, F
<1>11. PICK K, K1 : K = Calls /\ K1 = <<F("CloseClient", d)>> \o K
  OBVIOUS
<1>12. /\ CallsAreSound' /\ ObjectsAreSound' /\ Calls' = K1
       /\ stack' \in Seq(Frame)
  <2>1. "Closed" \in Observer /\ "CloseClient" \in LoopFns /\ "Closed" # "DataReadyToWrite"
    BY DEF Observer, LoopFns
  <2> QED BY <1>4, <1>6, <1>7, <1>8, <1>10, <1>11, <2>1, PushCalls DEF Free
<1>13. K \in Seq(Frame) /\ Len(K) = 1 /\ K[1] = F("Stopped", NoClient)
  BY <1>1, <1>11, CallsType DEF CoreInv
<1>14. Len(K1) = 2 /\ K1[1] = F("CloseClient", d) /\ K1[2] = F("Stopped", NoClient)
  <2>1. F("CloseClient", d) \in Frame
    BY <1>4, FrameMade
  <2>2. PICK g : g = F("CloseClient", d)
    OBVIOUS
  <2>3. Len(K1) = 1 + Len(K) /\ K1[1] = g /\ \A i \in 1 .. Len(K) : K1[i + 1] = K[i]
    BY <1>11, <1>13, <2>1, <2>2, OneMore
  <2> QED BY <1>13, <2>2, <2>3
<1>15. \A i \in 1 .. Len(stack') : stack'[i].fn \in StoppingFns
  <2>1. PICK a, b, S : a = F("Closed", d) /\ b = F("CloseClient", d) /\ S = <<a, b>> \o K
    OBVIOUS
  <2>2. a \in Frame /\ b \in Frame
    BY <1>4, <2>1, FrameMade DEF Observer
  <2>3. ASSUME NEW i \in 1 .. Len(S) PROVE S[i] = a \/ S[i] = b \/ S[i] = K[1]
    <3>1. \A j \in 1 .. Len(K) : j = 1
      BY <1>13
    <3>2. S = <<a, b>> \o K /\ K \in Seq(Frame)
      BY <1>13, <2>1
    <3>3. S[i] = a \/ S[i] = b \/ \E j \in 1 .. Len(K) : S[i] = K[j]
      BY <2>2, <3>2, TwoFramesElements
    <3> QED BY <3>1, <3>3
  <2>4. stack' = S
    BY <1>7, <1>11, <2>1
  <2>5. a.fn \in StoppingFns /\ b.fn \in StoppingFns /\ K[1].fn \in StoppingFns
    BY <1>13, <2>1 DEF StoppingFns, F
  <2> QED BY <2>2, <2>3, <2>4, <2>5
<1>16. \A i, j \in 1 .. Len(snapshot) : snapshot[i] = snapshot[j] => i = j
  BY <1>1 DEF CoreInv, StoppingIsSound
<1>17. ASSUME NEW i \in 1 .. Len(sn)
       PROVE  /\ sn[i] \in Client /\ sn[i] # d /\ watching[sn[i]]
              /\ \A j \in 1 .. Len(sn) : sn[i] = sn[j] => i = j
  <2>1. i + 1 \in 1 .. Len(snapshot) /\ sn[i] = snapshot[i + 1] /\ i + 1 # 1
    BY <1>3
  <2>2. snapshot[i + 1] # snapshot[1] /\ watching[snapshot[i + 1]]
    BY <1>1, <1>3, <1>16, <2>1 DEF CoreInv, StoppingIsSound
  <2>3. ASSUME NEW j \in 1 .. Len(sn), sn[i] = sn[j] PROVE i = j
    <3>1. j + 1 \in 1 .. Len(snapshot) /\ sn[j] = snapshot[j + 1]
      BY <1>3
    <3>2. i + 1 = j + 1
      BY <1>16, <2>1, <2>3, <3>1
    <3> QED BY <3>2
  <2> QED BY <1>3, <2>1, <2>2, <2>3
<1>18. ASSUME NEW i \in 1 .. Len(sn) PROVE watching'[sn[i]] /\ ~Busy(sn[i])'
  <2>1. PICK c : c = sn[i]
    OBVIOUS
  <2>2. c \in Client /\ c \in Object /\ c # d /\ watching[c] /\ c # NoClient
    BY <1>17, <2>1, ObserverAssumption DEF Object
  <2>3. watching'[c]
    BY <1>8, <2>2 DEF OnlyTouches
  <2>4. \A j \in 1 .. Len(K1) : K1[j].c # c
    <3>1. \A j \in 1 .. Len(K1) : j = 1 \/ j = 2
      BY <1>14
    <3>2. K1[1].c = d /\ K1[2].c = NoClient
      BY <1>14 DEF F
    <3> QED BY <2>2, <3>1, <3>2
  <2>5. ~Busy(c)'
    BY <1>12, <2>4 DEF Busy
  <2> QED BY <2>1, <2>3, <2>5
<1>19. ASSUME NEW c \in toClose
       PROVE  \/ \E i \in 1 .. Len(sn) : sn[i] = c
              \/ \E i \in 1 .. Len(K1) : K1[i] = F("CloseClient", c)
              \/ Gone(c)'
  <2>1. CASE c = d
    BY <1>14, <2>1
  <2>2. CASE c # d
    <3>1. c \in Client /\ c \in Object
      BY DEF CoreInv, TypeOK, Object
    <3>2. ~ \E i \in 1 .. Len(Calls) : Calls[i] = F("CloseClient", c)
      BY <1>1, <3>1 DEF Free, F
    <3>3. Gone(c) => Gone(c)'
      BY <1>8, <2>2, <3>1 DEF Gone, OnlyTouches
    <3>4. ASSUME NEW i \in 1 .. Len(snapshot), snapshot[i] = c
          PROVE  \E j \in 1 .. Len(sn) : sn[j] = c
      <4>1. i # 1
        BY <1>3, <2>2, <3>4
      <4>2. i - 1 \in 1 .. Len(sn) /\ snapshot[i] = sn[i - 1]
        BY <1>3, <4>1
      <4> QED BY <3>4, <4>2
    <3> QED BY <1>1, <3>2, <3>3, <3>4 DEF CoreInv, StoppingIsSound
  <2> QED BY <2>1, <2>2
<1>20. \E i \in 1 .. Len(K1) : K1[i].fn = "Stopped"
  BY <1>14 DEF F
<1>21. StoppingIsSound'
  <2>1. phase' = "stopping" /\ toClose' = toClose /\ snapshot' = sn
    BY <1>1, <1>6
  <2> QED BY <1>12, <1>15, <1>17, <1>18, <1>19, <1>20, <2>1 DEF StoppingIsSound, StoppingFns
<1>22. TypeOK'
  <2>1. watching' \in [Object -> BOOLEAN] /\ closed' \in [Client -> Nat]
    BY <1>3, <1>4, <1>7 DEF CoreInv, TypeOK
  <2> QED BY <1>3, <1>6, <1>7, <1>12, <2>1 DEF CoreInv, TypeOK
<1> QED BY <1>12, <1>21, <1>22 DEF CoreInv

\* Stopped returns: every client of the copy is gone, and the children are deleted.
LEMMA StoppedReturnStep ==
    ASSUME CoreInv, StoppedReturn
    PROVE  CoreInv'
<1>1. /\ phase = "stopping" /\ Calls = stack /\ Tail(stack) = <<>>
      /\ \A o \in Object : Free(o) /\ ~Busy(o)
  BY OnlyStopped DEF StoppedReturn
<1>2. /\ snapshot = <<>> /\ phase' = "stopped" /\ stack' = <<>>
      /\ life' = [o \in Object |-> IF o \in Children THEN "deleted" ELSE life[o]]
      /\ UNCHANGED <<accepting, clients_, childs_, ours, watching, flags, snapshot,
                     late, toClose, closed>>
  BY <1>1 DEF StoppedReturn
<1>3. Children \subseteq Child /\ \A c \in Client : c \notin Child /\ c \in Object
  BY ObserverAssumption DEF Children, CoreInv, TypeOK, Object
<1>4. \A c \in Client : life'[c] = life[c]
  BY <1>2, <1>3
<1>5. TypeOK'
  <2>1. life' \in [Object -> {"none", "live", "deleted"}]
    BY <1>2 DEF CoreInv, TypeOK
  <2>2. \A c \in Client : flags'[c] = {} <=> life'[c] = "none"
    BY <1>2, <1>4 DEF CoreInv, TypeOK
  <2>3. stack' \in Seq(Frame) /\ phase' = "stopped"
    BY <1>2
  <2>4. UNCHANGED <<accepting, clients_, childs_, ours, watching, flags, snapshot,
                    late, toClose, closed>>
    BY <1>2
  <2> QED BY <2>1, <2>2, <2>3, <2>4 DEF CoreInv, TypeOK
<1>6. Calls' = <<>>
  BY <1>2 DEF Calls
<1>7. CallsAreSound'
  BY <1>2, <1>6 DEF CallsAreSound
<1>8. ObjectsAreSound'
  <2>1. ASSUME NEW c \in Client PROVE ClientIsSound(c)'
    <3>1. ClientIsSound(c)
      BY <1>1, <1>3, FreeIsSound
    <3> QED BY <1>2, <1>4, <3>1 DEF ClientIsSound, Registered
  <2>2. ASSUME NEW k \in Child PROVE ChildIsSound(k)'
    <3>1. k \in Object
      BY DEF Object
    <3>2. ChildIsSound(k)
      BY <1>1, <3>1, FreeIsSound
    <3>3. life'[k] = "none" => life[k] = "none"
      BY <1>2, <3>1
    <3> QED BY <1>2, <3>2, <3>3 DEF ChildIsSound, Children
  <2> QED BY <1>2, <2>1, <2>2 DEF CoreInv, ObjectsAreSound
<1>9. StoppingIsSound'
  <2>1. ASSUME NEW c \in toClose PROVE Gone(c)'
    <3>1. c \in Client /\ c \in Object
      BY <1>3 DEF CoreInv, TypeOK
    <3>2. ~ \E i \in 1 .. Len(Calls) : Calls[i] = F("CloseClient", c)
      BY <1>1, <3>1 DEF Free, F
    <3>3. ~ \E i \in 1 .. Len(snapshot) : snapshot[i] = c
      BY <1>2
    <3>4. Gone(c)
      BY <1>1, <3>2, <3>3 DEF CoreInv, StoppingIsSound
    <3> QED BY <1>2, <1>4, <3>1, <3>4 DEF Gone, Registered
  <2> QED BY <1>2, <2>1 DEF StoppingIsSound
<1> QED BY <1>5, <1>7, <1>8, <1>9 DEF CoreInv

\* An event for a client or child: the observer is called on an empty stack.
LEMMA EventStep ==
    ASSUME CoreInv, phase = "looping", stack = <<>>, NEW f \in Frame, f.fn \in Observer,
           FrameIsSound(f), stack' = <<f>>,
           UNCHANGED <<phase, accepting, clients_, childs_, life, ours, watching, flags,
                       snapshot, late, toClose, closed>>
    PROVE  CoreInv'
<1>1. Calls = <<>>
  BY DEF Calls
<1>2. stack' \in Seq(Frame) /\ stack' # <<>> /\ Head(stack') = f /\ Tail(stack') = <<>>
  OBVIOUS
<1>3. Calls' = <<>> /\ Top' = f
  BY <1>2 DEF Calls, Top
<1>4. /\ \A h : FrameIsSound(h)' = FrameIsSound(h)
      /\ \A c : ClientIsSound(c)' = ClientIsSound(c) /\ ChildIsSound(c)' = ChildIsSound(c)
  BY StackOnly
<1>5. CallsAreSound'
  <2>1. FrameIsSound(f)'
    BY <1>4
  <2>2. FrameIsSound(Top)'
    BY <1>3, <2>1 DEF FrameIsSound
  <2> QED BY <1>3, <2>2 DEF CallsAreSound
<1>6. \A o : ~Busy(o) /\ ~Busy(o)'
  BY <1>1, <1>3 DEF Busy
<1>7. ObjectsAreSound'
  BY <1>4, <1>6 DEF CoreInv, ObjectsAreSound
<1>8. StoppingIsSound'
  BY DEF CoreInv, StoppingIsSound
<1>9. TypeOK'
  BY <1>2 DEF CoreInv, TypeOK
<1> QED BY <1>5, <1>7, <1>8, <1>9 DEF CoreInv

\* read_write_cb.
LEMMA ReadWriteStep ==
    ASSUME CoreInv, NEW c \in Client, NEW ev, ReadWrite(c, ev)
    PROVE  CoreInv'
<1>1. phase = "looping" /\ stack = <<>> /\ watching[c] /\ c \in Object
  BY DEF ReadWrite, Object
<1>2. UNCHANGED <<phase, accepting, clients_, childs_, life, ours, watching, flags,
                  snapshot, late, toClose, closed>>
  BY DEF ReadWrite
<1>3. Calls = <<>> /\ Free(c)
  BY <1>1 DEF Calls, Free
<1>4. ClientIsSound(c) /\ life[c] = "live" /\ ours[c]
  BY <1>1, <1>3, FreeIsSound DEF ClientIsSound
<1>5. ASSUME NEW fn \in {"DataReceived", "DataReadyToWrite", "ReadWrite"}
      PROVE  F(fn, c) \in Frame /\ FrameIsSound(F(fn, c)) /\ F(fn, c).fn = fn
  <2>1. F(fn, c) \in Frame /\ F(fn, c).fn = fn /\ F(fn, c).c = c
    BY <1>1, FrameMade DEF Observer
  <2> QED BY <1>1, <1>4, <2>1 DEF FrameIsSound
<1>6. ASSUME NEW fn \in {"DataReceived", "DataReadyToWrite"}, stack' = <<F(fn, c)>> PROVE CoreInv'
  <2>1. PICK f : f = F(fn, c)
    OBVIOUS
  <2>2. f \in Frame /\ f.fn \in Observer /\ FrameIsSound(f)
    BY <1>5, <2>1 DEF Observer
  <2> QED BY <1>1, <1>2, <1>6, <2>1, <2>2, EventStep
<1>7. ASSUME stack' = <<F("DataReceived", c), F("ReadWrite", c)>> PROVE CoreInv'
  <2>1. PICK f, g : f = F("DataReceived", c) /\ g = F("ReadWrite", c)
    OBVIOUS
  <2>2. f \in Frame /\ g \in Frame /\ FrameIsSound(f) /\ FrameIsSound(g)
    BY <1>5, <2>1
  <2>3. <<f, g>> \o <<>> = <<f, g>>
    BY <2>2
  <2>4. stack' = <<F("DataReceived", c), F("ReadWrite", c)>> \o Calls
    BY <1>3, <1>7, <2>1, <2>3
  <2>5. OnlyTouches(c)
    BY <1>2 DEF OnlyTouches, Registered, Children
  <2>6. /\ FrameIsSound(F("DataReceived", c))' /\ FrameIsSound(F("ReadWrite", c))'
        /\ ClientIsSound(c)'
    BY <1>2, <1>4, <1>5, StackOnly
  <2>7. c \notin toClose
    BY <1>1 DEF CoreInv, StoppingIsSound
  <2>8. CallsAreSound' /\ ObjectsAreSound' /\ StoppingIsSound'
    <3>1. "DataReceived" \in Observer /\ "ReadWrite" \in LoopFns
      BY DEF Observer, LoopFns
    <3> QED BY <1>1, <1>2, <1>3, <2>4, <2>5, <2>6, <2>7, <3>1, Push DEF Free
  <2>9. stack' \in Seq(Frame)
    BY <1>7, <2>1, <2>2
  <2>10. TypeOK'
    BY <1>2, <2>9 DEF CoreInv, TypeOK
  <2> QED BY <2>8, <2>10 DEF CoreInv
<1> QED BY <1>6, <1>7 DEF ReadWrite

\* child_cb: while the loop runs, a watched child is alive.
LEMMA ChildCbStep ==
    ASSUME CoreInv, NEW k \in Child, ChildCb(k)
    PROVE  CoreInv'
<1>1. stack = <<>> /\ watching[k] /\ k \in Object
  BY DEF ChildCb, Object
<1>2. UNCHANGED <<accepting, clients_, childs_, life, ours, watching, flags,
                  snapshot, toClose, closed>>
  BY DEF ChildCb
<1>3. Calls = <<>> /\ Free(k)
  BY <1>1 DEF Calls, Free
<1>4. ChildIsSound(k)
  BY <1>1, <1>3, FreeIsSound
<1>5. CASE phase = "looping" /\ stack' = <<F("ChildStatusChanged", k)>> /\ UNCHANGED <<phase, late>>
  <2>1. PICK f : f = F("ChildStatusChanged", k)
    OBVIOUS
  <2>2. f \in Frame /\ f.fn = "ChildStatusChanged" /\ f.c = k /\ f.fn \in Observer
    BY <1>1, <2>1, FrameMade DEF Observer
  <2>3. life[k] = "live"
    BY <1>1, <1>4, <1>5 DEF ChildIsSound
  <2>4. FrameIsSound(f)
    BY <2>2, <2>3 DEF FrameIsSound
  <2> QED BY <1>1, <1>2, <1>5, <2>1, <2>2, <2>4, EventStep
<1>6. CASE /\ phase = "stopped" /\ late > 0 /\ life[k] = "deleted"
           /\ late' = late - 1 /\ phase' = "dangling" /\ UNCHANGED stack
  <2>1. late' \in 0 .. MaxLate
    <3>1. late \in 0 .. MaxLate /\ MaxLate \in Nat
      BY ObserverAssumption DEF CoreInv, TypeOK
    <3> QED BY <1>6, <3>1
  <2>2. k \in Children
    BY <1>1, <1>4 DEF ChildIsSound
  <2> QED BY <1>2, <1>3, <1>6, <2>1, <2>2, DanglingStep DEF Quiet
<1> QED BY <1>5, <1>6 DEF ChildCb

\* accept_cb: a new client is registered, or closed at once.
LEMMA AcceptCbStep ==
    ASSUME CoreInv, NEW c \in Client, NEW fl \in Flags, AcceptCb(c, fl)
    PROVE  CoreInv'
<1>1. phase = "looping" /\ stack = <<>> /\ Create(c, fl) /\ c \in Object
  BY DEF AcceptCb, Object
<1>2. Calls = <<>>
  BY <1>1 DEF Calls
<1>3. Quiet /\ UNCHANGED phase
  BY DEF AcceptCb, Quiet, CoreInv, TypeOK
<1>4. CASE RegisterClient(c, <<>>)
  BY <1>1, <1>2, <1>3, <1>4, RegisterClientStep
<1>5. CASE /\ ours' = [ours EXCEPT ![c] = TRUE]
           /\ closed' = [closed EXCEPT ![c] = @ + 1]
           /\ stack' = <<F("Closed", c), F("CloseClient", c)>>
           /\ UNCHANGED <<clients_, childs_, watching>>
  <2>1. /\ flags' \in [Client -> Flags \cup {{}}]
        /\ \A d \in Client : flags'[d] = {} <=> life'[d] = "none"
        /\ life[c] = "none" /\ life'[c] = "live"
        /\ \A o \in Object : o # c => life'[o] = life[o]
        /\ life' \in [Object -> {"none", "live", "deleted"}]
    BY <1>1, CreateType DEF CoreInv
  <2>2. Free(c)
    BY <1>1, <2>1, NewIsFree
  <2>3. closed[c] = 0 /\ ~watching[c]
    BY <1>1, <2>1, <2>2, FreeIsSound DEF ClientIsSound
  <2>4. OnlyTouches(c)
    BY <1>5, <2>1 DEF CoreInv, TypeOK, OnlyTouches, Registered, Children
  <2>5. ours'[c] /\ ~watching'[c] /\ closed'[c] = 1
    BY <1>1, <1>5, <2>3 DEF CoreInv, TypeOK
  <2>6. FrameIsSound(F("Closed", c))' /\ FrameIsSound(F("CloseClient", c))'
    BY <2>1, <2>5 DEF FrameIsSound, F
  <2>7. PICK f, g : f = F("Closed", c) /\ g = F("CloseClient", c)
    OBVIOUS
  <2>8. f \in Frame /\ g \in Frame
    BY <1>1, <2>7, FrameMade DEF Observer
  <2>9. <<f, g>> \o <<>> = <<f, g>>
    BY <2>8
  <2>10. stack' = <<F("Closed", c), F("CloseClient", c)>> \o Calls
    BY <1>2, <1>5, <2>7, <2>9
  <2>11. c \notin toClose
    BY <1>1 DEF CoreInv, StoppingIsSound
  <2>12. CallsAreSound' /\ ObjectsAreSound' /\ StoppingIsSound'
    <3>1. "Closed" \in Observer /\ "CloseClient" \in LoopFns
      BY DEF Observer, LoopFns
    <3>2. UNCHANGED <<phase, clients_, childs_, snapshot, toClose>>
      BY <1>3, <1>5 DEF Quiet
    <3> QED BY <1>1, <2>2, <2>4, <2>6, <2>10, <2>11, <3>1, <3>2, Push DEF Free
  <2>13. stack' \in Seq(Frame)
    BY <1>5, <2>7, <2>8
  <2>14. TypeOK'
    <3>1. ours' \in [Object -> BOOLEAN] /\ closed' \in [Client -> Nat]
      BY <1>1, <1>5 DEF CoreInv, TypeOK
    <3>2. watching' \in [Object -> BOOLEAN]
      BY <1>5 DEF CoreInv, TypeOK
    <3> QED BY <1>3, <1>5, <2>1, <2>13, <3>1, <3>2, TypeStays DEF CoreInv
  <2> QED BY <2>12, <2>14 DEF CoreInv
<1> QED BY <1>4, <1>5 DEF AcceptCb

\* Stopped copies clients_: every client that is registered is in the copy.
LEMMA StopBeginStep ==
    ASSUME CoreInv, StopBegin
    PROVE  CoreInv'
<1>1. /\ phase = "looping" /\ stack = <<>> /\ phase' = "stopping" /\ accepting' = FALSE
      /\ snapshot' = clients_ /\ toClose' = Registered
      /\ stack' = <<F("Stopped", NoClient)>> /\ late' \in 0 .. MaxLate
      /\ UNCHANGED <<clients_, childs_, life, ours, watching, flags, closed>>
  BY DEF StopBegin
<1>2. PICK f, S : f = F("Stopped", NoClient) /\ S = <<f>>
  OBVIOUS
<1>3. f \in Frame /\ f.fn = "Stopped" /\ f.c = NoClient /\ f.fn \notin Observer
  BY <1>2 DEF F, Frame, Observer
<1>4. S \in Seq(Frame) /\ S # <<>> /\ Head(S) = f /\ Len(S) = 1 /\ S[1] = f
  BY <1>2, <1>3
<1>5. stack' = S
  BY <1>1, <1>2
<1>6. Calls' = S /\ Top' = f /\ Calls = <<>>
  BY <1>1, <1>3, <1>4, <1>5 DEF Calls, Top
<1>7. \A i \in 1 .. Len(S) : i = 1
  BY <1>4
<1>8. NoClient \notin Object
  BY ObserverAssumption DEF Object
<1>9. \A o \in Object : ~Busy(o) /\ ~Busy(o)' /\ Free(o)
  <2>1. ASSUME NEW o \in Object PROVE ~Busy(o) /\ Free(o)
    BY <1>6 DEF Busy, Free
  <2>2. ASSUME NEW o \in Object PROVE ~Busy(o)'
    <3>1. \A i \in 1 .. Len(S) : S[i].c # o
      BY <1>3, <1>4, <1>7, <1>8
    <3> QED BY <1>6, <3>1 DEF Busy
  <2> QED BY <2>1, <2>2
<1>10. CallsAreSound'
  <2>1. FrameIsSound(f)'
    BY <1>1, <1>3 DEF FrameIsSound
  <2>2. \A i \in 1 .. Len(S) : FrameIsSound(S[i])'
    <3>1. ASSUME NEW i \in 1 .. Len(S) PROVE S[i] = f
      BY <1>4, <1>7
    <3> QED BY <2>1, <3>1
  <2>3. ~(stack' # <<>> /\ Top'.fn \in Observer)
    BY <1>3, <1>6
  <2> QED BY <1>3, <1>4, <1>6, <1>7, <2>2, <2>3 DEF CallsAreSound
<1>11. ObjectsAreSound'
  <2>1. ASSUME NEW c \in Client PROVE ClientIsSound(c)'
    <3>1. ClientIsSound(c)
      BY <1>9, FreeIsSound DEF Object
    <3> QED BY <1>1, <3>1 DEF ClientIsSound, Registered
  <2>2. ASSUME NEW k \in Child PROVE ChildIsSound(k)'
    <3>1. ChildIsSound(k)
      BY <1>9, FreeIsSound DEF Object
    <3> QED BY <1>1, <3>1 DEF ChildIsSound, Children
  <2> QED BY <1>1, <2>1, <2>2 DEF CoreInv, ObjectsAreSound
<1>12. StoppingIsSound'
  <2>1. \E i \in 1 .. Len(S) : S[i].fn = "Stopped"
    BY <1>3, <1>4
  <2>2. \A i \in 1 .. Len(S) : S[i].fn \in StoppingFns
    BY <1>3, <1>4, <1>7 DEF StoppingFns
  <2>3. \A i, j \in 1 .. Len(clients_) : clients_[i] = clients_[j] => i = j
    BY DEF CoreInv, ObjectsAreSound
  <2>4. ASSUME NEW i \in 1 .. Len(clients_) PROVE watching'[clients_[i]] /\ clients_[i] \in Client
    <3>1. PICK c : c = clients_[i]
      OBVIOUS
    <3>2. c \in Client /\ c \in Registered /\ c \in Object
      BY <3>1 DEF CoreInv, TypeOK, Registered, Object
    <3>3. watching[c]
      BY <1>9, <3>2, FreeIsSound DEF ClientIsSound
    <3> QED BY <1>1, <3>1, <3>2, <3>3
  <2>5. \A i \in 1 .. Len(clients_) : watching'[clients_[i]]
    BY <2>4
  <2>6. \A c \in Client : ~Busy(c)'
    BY <1>9 DEF Object
  <2>7. PICK L : L = clients_
    OBVIOUS
  <2>8. \A i \in 1 .. Len(L) : watching'[L[i]] /\ ~Busy(L[i])'
    BY <2>4, <2>6, <2>7
  <2>9. \A c \in Registered : \E i \in 1 .. Len(L) : L[i] = c
    BY <2>7 DEF Registered
  <2>10. snapshot' = L /\ \A i, j \in 1 .. Len(L) : L[i] = L[j] => i = j
    BY <1>1, <2>3, <2>7
  <2> QED BY <1>1, <1>5, <1>6, <2>1, <2>2, <2>8, <2>9, <2>10 DEF StoppingIsSound, StoppingFns
<1>13. TypeOK'
  <2>1. Registered \subseteq Client
    BY DEF Registered, CoreInv, TypeOK
  <2> QED BY <1>1, <1>4, <1>5, <2>1 DEF CoreInv, TypeOK
<1> QED BY <1>10, <1>11, <1>12, <1>13 DEF CoreInv

\* PreLooped and PostLooped only change the phase.
LEMMA LoopedStep ==
    ASSUME CoreInv, PreLooped \/ PostLooped
    PROVE  CoreInv'
<1>1. /\ UNCHANGED <<clients_, childs_, life, ours, watching, flags, stack, snapshot,
                     late, toClose, closed>>
      /\ accepting' \in BOOLEAN
      /\ (phase = "new" /\ phase' = "looping") \/ (phase = "stopped" /\ phase' = "done")
  BY DEF PreLooped, PostLooped, CoreInv, TypeOK
<1>2. TypeOK'
  BY <1>1 DEF CoreInv, TypeOK
<1>3. PICK K, t : K = Calls /\ t = Top
  OBVIOUS
<1>4. Calls' = K /\ Top' = t
  BY <1>1, <1>3 DEF Calls, Top
<1>5. \A f : FrameIsSound(f) => f.fn # "Stopped" /\ FrameIsSound(f)'
  BY <1>1 DEF FrameIsSound, Registered, Children
<1>6. CallsAreSound'
  <2>1. \A i \in 1 .. Len(K) :
          /\ K[i].fn \notin Observer
          /\ FrameIsSound(K[i])'
          /\ K[i].fn = "Stopped" => i = Len(K)
          /\ \A j \in 1 .. Len(K) : K[i].c = K[j].c => i = j
    BY <1>3, <1>5 DEF CoreInv, CallsAreSound
  <2>2. stack # <<>> /\ t.fn \in Observer =>
          /\ FrameIsSound(t)'
          /\ t.fn = "DataReadyToWrite" => \A i \in 1 .. Len(K) : K[i].c # t.c
    BY <1>3, <1>5 DEF CoreInv, CallsAreSound
  <2> QED BY <1>1, <1>4, <2>1, <2>2 DEF CallsAreSound
<1>7. \A o : Busy(o)' = Busy(o)
  BY <1>3, <1>4 DEF Busy
<1>8. ObjectsAreSound'
  BY <1>1, <1>7 DEF CoreInv, ObjectsAreSound, ClientIsSound, ChildIsSound, Registered, Children
<1>9. \A c : Gone(c)' = Gone(c)
  BY <1>1 DEF Gone, Registered
<1>10. StoppingIsSound'
  BY <1>1, <1>9 DEF CoreInv, StoppingIsSound
<1> QED BY <1>2, <1>6, <1>8, <1>10 DEF CoreInv

(***************************************************************************)
(* The theorems.                                                           *)
(***************************************************************************)

\* In the first state there are no objects and no calls.
LEMMA InitCore ==
    ASSUME Init
    PROVE  CoreInv
<1>1. TypeOK
  <2>1. MaxLate \in Nat
    BY ObserverAssumption
  <2>2. /\ life \in [Object -> {"none", "live", "deleted"}]
        /\ ours \in [Object -> BOOLEAN] /\ watching \in [Object -> BOOLEAN]
        /\ flags \in [Client -> Flags \cup {{}}] /\ closed \in [Client -> Nat]
    BY DEF Init
  <2>3. \A c \in Client : flags[c] = {} <=> life[c] = "none"
    BY DEF Init, Object
  <2>4. /\ clients_ \in Seq(Client) /\ childs_ \in Seq(Child)
        /\ stack \in Seq(Frame) /\ snapshot \in Seq(Client)
    BY DEF Init
  <2>5. phase = "new" /\ accepting \in BOOLEAN /\ toClose \in SUBSET Client
    BY DEF Init
  <2>6. late \in 0 .. MaxLate
    BY <2>1 DEF Init
  <2> QED BY <2>2, <2>3, <2>4, <2>5, <2>6 DEF TypeOK
<1>2. Calls = <<>> /\ stack = <<>>
  BY DEF Init, Calls
<1>3. CallsAreSound
  BY <1>2 DEF CallsAreSound
<1>4. Registered = {} /\ Children = {}
  BY DEF Init, Registered, Children
<1>5. ObjectsAreSound
  <2>1. ASSUME NEW c \in Client PROVE ClientIsSound(c)
    BY <1>4 DEF Init, ClientIsSound, Object
  <2>2. ASSUME NEW k \in Child PROVE ChildIsSound(k)
    BY <1>4 DEF Init, ChildIsSound, Object
  <2>3. /\ \A i, j \in 1 .. Len(clients_) : clients_[i] = clients_[j] => i = j
        /\ \A i, j \in 1 .. Len(childs_) : childs_[i] = childs_[j] => i = j
    BY DEF Init
  <2> QED BY <2>1, <2>2, <2>3 DEF ObjectsAreSound
<1>6. StoppingIsSound
  BY DEF Init, StoppingIsSound
<1> QED BY <1>1, <1>3, <1>5, <1>6 DEF CoreInv

\* Every step keeps the invariant, by the actions above.
LEMMA NextCore ==
    ASSUME Contract, CoreInv, Next
    PROVE  CoreInv'
<1>1. phase # "dangling"
  BY DEF Next
<1>2. CASE Steps
  BY <1>1, <1>2, ObserveStep, RegisterClientReturnStep, CloseClientReturnStep,
     UnRegisterClientReturnStep, RegisterChildReturnStep, UnRegisterChildReturnStep,
     ReadWriteContinueStep, StoppedCloseStep, StoppedReturnStep DEF Steps
<1>3. CASE PreLooped \/ PostLooped
  BY <1>3, LoopedStep
<1>4. CASE \E k \in Child : ChildCb(k)
  BY <1>4, ChildCbStep
<1>5. CASE \E c \in Client, ev \in SUBSET {"read", "write"} : ReadWrite(c, ev)
  BY <1>5, ReadWriteStep
<1>6. CASE \E c \in Client, fl \in Flags : AcceptCb(c, fl)
  BY <1>6, AcceptCbStep
<1>7. CASE Posted
  BY <1>1, <1>7, PostedStep
<1>8. CASE StopBegin
  BY <1>8, StopBeginStep
<1> QED BY <1>2, <1>3, <1>4, <1>5, <1>6, <1>7, <1>8 DEF Next

\* A step that changes nothing keeps the invariant.
LEMMA StutterCore ==
    ASSUME CoreInv, UNCHANGED vars
    PROVE  CoreInv'
<1>1. TypeOK'
  BY DEF CoreInv, TypeOK, vars
<1>2. CallsAreSound'
  <2>1. PICK K, t : K = Calls /\ t = Top
    OBVIOUS
  <2>2. Calls' = K /\ Top' = t /\ stack' = stack
    BY <2>1 DEF Calls, Top, vars
  <2>3. \A f : FrameIsSound(f)' = FrameIsSound(f)
    BY StackOnly DEF vars
  <2> QED BY <2>1, <2>2, <2>3 DEF CoreInv, CallsAreSound
<1>3. ObjectsAreSound'
  BY DEF CoreInv, ObjectsAreSound, ClientIsSound, ChildIsSound, Busy, Calls, Top, Registered,
         Children, vars
<1>4. StoppingIsSound'
  <2>1. Calls' = Calls
    BY DEF Calls, Top, vars
  <2>2. \A o : Busy(o)' = Busy(o)
    BY <2>1 DEF Busy
  <2>3. \A c : Gone(c)' = Gone(c)
    BY StackOnly DEF vars
  <2>4. Children' = Children /\ UNCHANGED <<phase, toClose, stack, snapshot, watching, life>>
    BY DEF Children, vars
  <2> QED BY <2>1, <2>2, <2>3, <2>4 DEF CoreInv, StoppingIsSound
<1> QED BY <1>1, <1>2, <1>3, <1>4 DEF CoreInv

\* Between two events there is no call, so that every client and child is as
\* ObjectsAreSound says.
LEMMA RegistryFollows == CoreInv => RegistryMatchesWatchers
<1>1. SUFFICES ASSUME CoreInv, stack = <<>>
               PROVE  /\ \A c \in Client : (c \in Registered) <=> watching[c]
                      /\ \A c \in Registered : life[c] = "live" /\ ours[c]
                      /\ \A i, j \in 1 .. Len(clients_) : clients_[i] = clients_[j] => i = j
                      /\ \A k \in Child : (k \in Children) <=> watching[k]
                      /\ phase \in {"new", "looping"} =>
                            \A k \in Children : life[k] = "live" /\ ours[k]
                      /\ \A i, j \in 1 .. Len(childs_) : childs_[i] = childs_[j] => i = j
  BY DEF RegistryMatchesWatchers
<1>2. Calls = <<>>
  BY <1>1 DEF Calls
<1>3. \A o : ~Busy(o)
  BY <1>2 DEF Busy
<1>4. Registered \subseteq Client /\ Children \subseteq Child
  BY <1>1 DEF Registered, Children, CoreInv, TypeOK
<1>5. \A c \in Client : ClientIsSound(c)
  BY <1>1, <1>3 DEF CoreInv, ObjectsAreSound
<1>6. \A k \in Child : ChildIsSound(k)
  BY <1>1, <1>3 DEF CoreInv, ObjectsAreSound
<1>7. /\ \A i, j \in 1 .. Len(clients_) : clients_[i] = clients_[j] => i = j
      /\ \A i, j \in 1 .. Len(childs_) : childs_[i] = childs_[j] => i = j
  BY <1>1 DEF CoreInv, ObjectsAreSound
<1>8. /\ \A c \in Client : (c \in Registered) <=> watching[c]
      /\ \A c \in Registered : life[c] = "live" /\ ours[c]
  BY <1>4, <1>5 DEF ClientIsSound
<1>9. /\ \A k \in Child : (k \in Children) <=> watching[k]
      /\ phase \in {"new", "looping"} => \A k \in Children : life[k] = "live" /\ ours[k]
  BY <1>4, <1>6 DEF ChildIsSound
<1> QED BY <1>7, <1>8, <1>9

\* The inductive invariant holds in every state of a loop whose observer keeps the contract.
LEMMA CoreInvariance == Contract => (Spec => []CoreInv)
<1>1. SUFFICES ASSUME Contract PROVE Spec => []CoreInv
  OBVIOUS
<1>2. Init => CoreInv
  BY InitCore
<1>3. CoreInv /\ [Next]_vars => CoreInv'
  BY <1>1, NextCore, StutterCore
<1> QED BY <1>2, <1>3, PTL DEF Spec

\* IoLoop keeps its registries: between two events clients_ and childs_ list exactly
\* the watched objects, alive and owned, and in the midst of nested calls every
\* unfinished call of RegisterClient, CloseClient, UnRegisterClient and ReadWrite finds
\* its object as it left it.
THEOREM LoopInvariance == Contract => (Spec => []LoopInv)
<1>1. CoreInv => LoopInv
  BY RegistryFollows DEF CoreInv, LoopInv
<1> QED BY <1>1, CoreInvariance, PTL

\* The assertion of IoLoop::ReadWrite and its like hold at every call of the observer:
\* the client or child is alive, and in DataReceived and DataReadyToWrite its server is
\* this loop.
THEOREM CallbackClientIsOursHolds == Contract => (Spec => []CallbackClientIsOurs)
<1>1. CoreInv => CallbackClientIsOurs
  <2>1. SUFFICES ASSUME CoreInv, stack # <<>>, Top.fn \in Observer
                 PROVE  /\ life[Top.c] = "live"
                        /\ Top.fn \in {"DataReceived", "DataReadyToWrite"} => ours[Top.c]
    BY DEF CallbackClientIsOurs
  <2>2. FrameIsSound(Top)
    BY <2>1 DEF CoreInv, CallsAreSound
  <2> QED BY <2>1, <2>2 DEF FrameIsSound, Observer
<1> QED BY <1>1, CoreInvariance, PTL

\* IoLoop::Stopped closes and deletes each client of its copy exactly once and uses none
\* that is gone, however the observer's Closed nests registrations.
THEOREM StoppedClosesAllHolds == Contract => (Spec => []StoppedClosesAll)
<1>1. CoreInv => StoppedClosesAll
  BY DEF CoreInv, StoppingIsSound, StoppedClosesAll, Gone
<1> QED BY <1>1, CoreInvariance, PTL

\* CloseClient of a client that is alive and in no call: it is being watched.
LEMMA ClosesServed ==
    ASSUME CoreInv, NEW d \in Client, life[d] = "live", ours[d] => Free(d), NEW rest,
           Close(d, rest) \/ CloseClient(d, rest), NEW c \in Client, closed'[c] > closed[c]
    PROVE  watching[c]
<1>1. CASE closed' = closed
  <2>1. closed[c] \in Nat /\ ~(closed[c] > closed[c])
    BY DEF CoreInv, TypeOK
  <2> QED BY <1>1, <2>1
<1>2. CASE ours[d] /\ closed' = [closed EXCEPT ![d] = @ + 1]
  <2>1. c = d
    <3>1. ASSUME c # d PROVE FALSE
      <4>1. closed'[c] = closed[c] /\ closed[c] \in Nat
        BY <1>2, <3>1 DEF CoreInv, TypeOK
      <4> QED BY <4>1
    <3> QED BY <3>1
  <2>2. d \in Object /\ Free(d)
    BY <1>2 DEF Object
  <2> QED BY <1>2, <2>1, <2>2, FreeIsSound DEF ClientIsSound
<1> QED BY <1>1, <1>2 DEF Close, CloseClient

\* The observer's code closes only clients that are watched.
LEMMA DoCloses ==
    ASSUME CoreInv, NEW op, NEW o, Do(op, o, Calls),
           op = "close" => o \in Client /\ life[o] = "live" /\ (ours[o] => Free(o)),
           NEW c \in Client, closed'[c] > closed[c]
    PROVE  watching[c]
<1>1. CASE closed' = closed
  <2>1. closed[c] \in Nat /\ ~(closed[c] > closed[c])
    BY DEF CoreInv, TypeOK
  <2> QED BY <1>1, <2>1
<1>2. CASE op = "close" /\ Close(o, Calls)
  BY <1>2, ClosesServed
<1>3. CASE \E d \in Client : life[d] = "live" /\ ~InCall(d, Calls) /\ Close(d, Calls)
  <2>1. PICK d \in Client : life[d] = "live" /\ ~InCall(d, Calls) /\ Close(d, Calls)
    BY <1>3
  <2>2. Free(d)
    BY <2>1 DEF InCall, Free
  <2> QED BY <2>1, <2>2, ClosesServed
<1>4. closed' = closed \/ (op = "close" /\ Close(o, Calls))
      \/ \E d \in Client : life[d] = "live" /\ ~InCall(d, Calls) /\ Close(d, Calls)
  BY DEF Do, RegisterClient, RegisterChild, UnRegisterClient, UnRegisterChild
<1> QED BY <1>1, <1>2, <1>3, <1>4

\* Closed is told only of a client that this loop was watching or has just refused.
LEMMA NextCloses ==
    ASSUME Contract, CoreInv, Next, NEW c \in Client, closed'[c] > closed[c]
    PROVE  watching[c] \/ life[c] = "none"
<1>1. closed' # closed
  <2>1. closed[c] \in Nat /\ ~(closed[c] > closed[c])
    BY DEF CoreInv, TypeOK
  <2> QED BY <2>1
<1>2. CASE Observe
  BY <1>2, ObserverKeepsContract, DoCloses
<1>3. CASE Posted
  <2>1. Calls = <<>>
    BY <1>3 DEF Posted, Calls
  <2>2. PICK op \in PostedMay : Do(op, NoClient, Calls)
    BY <1>3, <2>1 DEF Posted
  <2>3. op # "close"
    BY ObserverAssumption
  <2> QED BY <2>2, <2>3, DoCloses
<1>4. CASE StoppedClose
  <2>1. PICK d : d = Head(snapshot)
    OBVIOUS
  <2>2. d \in Client
    BY <1>4, <2>1, HeadTail DEF CoreInv, TypeOK, StoppedClose
  <2>3. life[d] = "live" /\ CloseClient(d, stack)
    BY <1>1, <1>4, <2>1 DEF StoppedClose
  <2>4. Free(d)
    BY <1>4, <2>2, OnlyStopped DEF StoppedClose, Object
  <2> QED BY <2>2, <2>3, <2>4, ClosesServed
<1>5. CASE \E d \in Client, fl \in Flags : AcceptCb(d, fl)
  <2>1. PICK d \in Client, fl \in Flags : AcceptCb(d, fl)
    BY <1>5
  <2>2. life[d] = "none" /\ closed' = [closed EXCEPT ![d] = @ + 1]
    BY <1>1, <2>1 DEF AcceptCb, Create, RegisterClient
  <2>3. ASSUME c # d PROVE FALSE
    <3>1. closed'[c] = closed[c] /\ closed[c] \in Nat
      BY <2>2, <2>3 DEF CoreInv, TypeOK
    <3> QED BY <3>1
  <2> QED BY <2>2, <2>3
<1>6. Observe \/ Posted \/ StoppedClose \/ \E d \in Client, fl \in Flags : AcceptCb(d, fl)
  BY <1>1 DEF Next, Steps, RegisterClientReturn, CloseClientReturn, UnRegisterClientReturn,
     RegisterChildReturn, UnRegisterChildReturn, ReadWriteContinue, StoppedReturn, PreLooped,
     ChildCb, ReadWrite, StopBegin, PostLooped
<1> QED BY <1>2, <1>3, <1>4, <1>5, <1>6

\* The observer hears Closed only of a client the loop was serving, or has just refused in
\* accept_cb: UnRegisterClient has reset server_ before it tells Moved.
THEOREM ClosedOnlyServedHolds == Contract => (Spec => ClosedOnlyServed)
<1>1. SUFFICES ASSUME Contract PROVE Spec => ClosedOnlyServed
  OBVIOUS
<1>2. CoreInv /\ [Next]_vars =>
        [\A c \in Client : closed'[c] > closed[c] => watching[c] \/ life[c] = "none"]_vars
  BY <1>1, NextCloses
<1>3. Spec => []CoreInv
  BY <1>1, CoreInvariance
<1> QED BY <1>2, <1>3, PTL DEF Spec, ClosedOnlyServed

=============================================================================
