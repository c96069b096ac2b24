-------------------------- MODULE HttpClientProofs --------------------------
(***************************************************************************)
(* Proofs about HttpClient: the answer to a request is read to its end and *)
(* not beyond, however the bytes are cut into reads and whenever the       *)
(* server closes.                                                          *)
(***************************************************************************)
EXTENDS HttpClient, SequenceTheorems, FiniteSetTheorems, TLAPS

(***************************************************************************)
(* Parts of sequences.                                                     *)
(***************************************************************************)

\* s is the part of F after its first k and up to its m-th byte.
Slice(s, F, k, m) ==
    /\ Len(s) = m - k
    /\ \A i \in 1 .. m - k : s[i] = F[k + i]

\* What From and UpTo return.
LEMMA Parts ==
    ASSUME NEW S, NEW s \in Seq(S), NEW n \in 0 .. Len(s)
    PROVE  /\ From(s, n) \in Seq(S) /\ Len(From(s, n)) = Len(s) - n
           /\ \A i \in 1 .. Len(s) - n : From(s, n)[i] = s[n + i]
           /\ UpTo(s, n) \in Seq(S) /\ Len(UpTo(s, n)) = n
           /\ \A i \in 1 .. n : UpTo(s, n)[i] = s[i]
<1>1. Len(s) \in Nat /\ n \in Nat
  OBVIOUS
<1> QED  BY <1>1 DEF From, UpTo

\* Two sequences with the same elements are one.
LEMMA SameSeq ==
    ASSUME NEW S, NEW s \in Seq(S), NEW t \in Seq(S), Len(s) = Len(t),
           \A i \in 1 .. Len(s) : s[i] = t[i]
    PROVE  s = t
<1>1. s = [i \in 1 .. Len(s) |-> s[i]] /\ t = [i \in 1 .. Len(t) |-> t[i]]
  OBVIOUS
<1> QED  BY <1>1

\* A sequence without elements.
LEMMA NoElements ==
    ASSUME NEW S, NEW s \in Seq(S), Len(s) = 0
    PROVE  s = <<>>
  OBVIOUS

\* What is left of a part when its first n elements are taken.
LEMMA SliceFrom ==
    ASSUME NEW S, NEW s \in Seq(S), NEW F, NEW k \in Nat, NEW m \in Nat, Slice(s, F, k, m),
           NEW n \in 0 .. Len(s)
    PROVE  Slice(From(s, n), F, k + n, m)
<1>0. Len(From(s, n)) = Len(s) - n
  BY Parts
<1>1. Len(s) = m - k /\ Len(From(s, n)) = Len(s) - n /\ n \in Nat /\ n <= m - k
  BY <1>0 DEF Slice
<1>2. ASSUME NEW i \in 1 .. m - (k + n) PROVE From(s, n)[i] = F[k + n + i]
  <2>1. i \in 1 .. Len(s) - n /\ n + i \in 1 .. m - k /\ k + (n + i) = k + n + i
    BY <1>1
  <2>2. From(s, n)[i] = s[n + i]
    BY <2>1, Parts
  <2>3. s[n + i] = F[k + (n + i)]
    BY <2>1 DEF Slice
  <2> QED  BY <2>1, <2>2, <2>3
<1> QED  BY <1>1, <1>2 DEF Slice

\* Induction over the natural numbers for a set: the library's rule takes an
\* operator, which cannot be instantiated, so this one goes by the pigeonhole
\* principle on the numbers up to a counterexample.
LEMMA SetInduction ==
    ASSUME NEW S, 0 \in S, \A n \in Nat : n \in S => n + 1 \in S
    PROVE  Nat \subseteq S
<1>1. SUFFICES ASSUME NEW x \in Nat, x \notin S PROVE FALSE
  OBVIOUS
<1> DEFINE A == {y \in 0 .. x : y \notin S}
           f == [y \in A |-> y - 1]
<1>2. IsFiniteSet(A)
  <2>1. IsFiniteSet(0 .. x)
    BY FS_Interval
  <2> QED BY <2>1, FS_Subset
<1>3. x \in A
  BY <1>1
<1>4. ASSUME NEW y \in A PROVE y - 1 \in A \ {x}
  <2>1. y \in Nat /\ y <= x /\ y # 0
    OBVIOUS
  <2>2. y - 1 \in 0 .. x /\ y - 1 # x /\ y - 1 \in Nat /\ (y - 1) + 1 = y
    BY <2>1
  <2> QED BY <2>2
<1>5. f \in [A -> A \ {x}]
  BY <1>4
<1>6. \A y, z \in A : f[y] = f[z] => y = z
  OBVIOUS
<1>7. IsFiniteSet(A \ {x}) /\ Cardinality(A \ {x}) = Cardinality(A) - 1
      /\ Cardinality(A) \in Nat
  <2> HIDE DEF A
  <2> QED BY <1>2, <1>3, FS_RemoveElement, FS_CardinalityType
<1>8. \E y, z \in A : y # z /\ f[y] = f[z]
  <2> HIDE DEF A, f
  <2> QED BY <1>2, <1>5, <1>7, FS_PigeonHole
<1> QED BY <1>6, <1>8

(***************************************************************************)
(* The loop of HttpChunkedDecoder::FilterBuf.                              *)
(***************************************************************************)

\* What Find returns.
LEMMA FindFacts ==
    ASSUME NEW s \in Seq(Byte), NEW b
    PROVE  /\ Find(s, b) \in 0 .. Len(s)
           /\ Find(s, b) = 0 => \A i \in 1 .. Len(s) : s[i] # b
           /\ Find(s, b) # 0 => s[Find(s, b)] = b /\ \A i \in 1 .. Find(s, b) - 1 : s[i] # b
<1> DEFINE I == {i \in 1 .. Len(s) : s[i] = b}
<1>1. Find(s, b) = IF I # {} THEN Min(I) ELSE 0
  BY DEF Find, SelectInSeq
<1>2. CASE I = {}
  BY <1>1, <1>2
<1>3. CASE I # {}
  <2>1. PICK k \in I : \A j \in I : k <= j
    <3>1. PICK x \in I : TRUE
      BY <1>3
    <3> DEFINE T == {n \in Nat : \A i \in I : i > n}
    <3>2. 0 \in T
      OBVIOUS
    <3>3. x \in Nat /\ x \notin T
      BY <3>1
    <3>4. PICK n \in Nat : n \in T /\ n + 1 \notin T
      <4> HIDE DEF T
      <4> QED  BY <3>2, <3>3, SetInduction
    <3>5. PICK i \in I : ~(i > n + 1)
      BY <3>4
    <3>6. i \in Nat /\ i > n
      BY <3>4
    <3>7. i = n + 1 /\ \A j \in I : j > n
      BY <3>4, <3>5, <3>6
    <3> QED  BY <3>7
  <2>2. Min(I) \in I /\ \A j \in I : Min(I) <= j
    BY <2>1 DEF Min
  <2>3. Find(s, b) = Min(I)
    BY <1>1, <1>3
  <2>4. Find(s, b) \in 1 .. Len(s) /\ s[Find(s, b)] = b /\ \A j \in I : Find(s, b) <= j
    BY <2>2, <2>3
  <2>5. ASSUME NEW i \in 1 .. Find(s, b) - 1 PROVE s[i] # b
    BY <2>4
  <2> QED  BY <2>4, <2>5
<1> QED  BY <1>2, <1>3

\* What DropCR returns.
LEMMA DropFacts ==
    ASSUME NEW s \in Seq(Byte)
    PROVE  /\ DropCR(s) \in Seq(Byte)
           /\ Len(DropCR(s)) = IF Len(s) > 0 /\ s[Len(s)] = CR THEN Len(s) - 1 ELSE Len(s)
           /\ \A i \in 1 .. Len(DropCR(s)) : DropCR(s)[i] = s[i]
<1>1. CASE Len(s) > 0 /\ s[Len(s)] = CR
  <2>1. DropCR(s) = UpTo(s, Len(s) - 1) /\ Len(s) - 1 \in 0 .. Len(s)
    BY <1>1 DEF DropCR, Front, UpTo
  <2>2. PICK n \in 0 .. Len(s) : n = Len(s) - 1
    BY <2>1
  <2>3. /\ UpTo(s, n) \in Seq(Byte) /\ Len(UpTo(s, n)) = n
        /\ \A i \in 1 .. n : UpTo(s, n)[i] = s[i]
    BY Parts
  <2> QED  BY <1>1, <2>1, <2>2, <2>3
<1>2. CASE ~(Len(s) > 0 /\ s[Len(s)] = CR)
  <2>1. DropCR(s) = s
    BY <1>2 DEF DropCR
  <2> QED  BY <1>2, <2>1
<1> QED  BY <1>1, <1>2

\* The states of the loop.
Loop == Decoder \X Seq(Byte)
Stops(s) == s[2] = <<>> \/ s[1].error \/ (s[1].remaining = 0 /\ s[1].eof)
Goes(s) == Turn(s[1], s[2])

\* A line leaves a decoder, whatever it says.
LEMMA TakeLineType ==
    ASSUME NEW d \in Decoder, NEW line
    PROVE  [TakeLine(d, line) EXCEPT !.line = <<>>] \in Decoder
<1>1. PICK size : TakeLine(d, line) =
        IF d.last
        THEN [d EXCEPT !.eof = (line = <<>>)]
        ELSE IF d.terminator
        THEN [d EXCEPT !.terminator = FALSE, !.error = (line # <<>>)]
        ELSE IF line = <<>> \/ size \notin 0 .. MaxInt
        THEN [d EXCEPT !.error = TRUE]
        ELSE [d EXCEPT !.remaining = size, !.last = (size = 0)]
  BY DEF TakeLine
<1>2. 0 .. MaxInt \subseteq Nat
  BY DecoderAssumption
<1>3. TakeLine(d, line) \in Decoder
  BY <1>1, <1>2 DEF Decoder
<1>4. <<>> \in Seq(Byte)
  OBVIOUS
<1>5. ASSUME NEW e \in Decoder PROVE [e EXCEPT !.line = <<>>] \in Decoder
  BY <1>4 DEF Decoder
<1> QED  BY <1>3, <1>5

\* A turn of the loop takes at least a byte.
LEMMA TurnShortens ==
    ASSUME NEW s \in Loop, ~Stops(s)
    PROVE  Goes(s) \in Loop /\ Len(Goes(s)[2]) < Len(s[2])
<1> DEFINE d == s[1]
           buf == s[2]
<1>1. d \in Decoder /\ buf \in Seq(Byte) /\ Len(buf) > 0 /\ Len(buf) \in Nat
  BY DEF Loop, Stops
<1>2. CASE d.remaining > 0
  <2> DEFINE num == IF d.remaining < Len(buf) THEN d.remaining ELSE Len(buf)
  <2>1. num \in 1 .. Len(buf) /\ num <= d.remaining /\ d.remaining \in Nat
    BY <1>1, <1>2 DEF Decoder
  <2>2. Goes(s) = <<TakeData(d, buf, num), From(buf, num)>>
    BY <1>2 DEF Goes, Turn
  <2> HIDE DEF num, d, buf
  <2>3. /\ From(buf, num) \in Seq(Byte) /\ Len(From(buf, num)) = Len(buf) - num
        /\ UpTo(buf, num) \in Seq(Byte)
    BY <1>1, <2>1, Parts
  <2>4. TakeData(d, buf, num) \in Decoder
    <3>1. d.out \o UpTo(buf, num) \in Seq(Byte)
      BY <1>1, <2>3 DEF Decoder
    <3>2. d.remaining - num \in Nat
      BY <2>1
    <3>3. ASSUME NEW o \in Seq(Byte), NEW n \in Nat, NEW t \in BOOLEAN
          PROVE  [d EXCEPT !.remaining = n, !.out = o, !.terminator = t] \in Decoder
      BY <1>1 DEF Decoder
    <3> QED  BY <3>1, <3>2, <3>3 DEF TakeData
  <2>5. Goes(s) \in Loop /\ Goes(s)[2] = From(buf, num)
    BY <2>2, <2>3, <2>4 DEF Loop
  <2> QED  BY <1>1, <2>1, <2>3, <2>5 DEF buf
<1>3. CASE ~(d.remaining > 0)
  <2> DEFINE lf == Find(buf, LF)
             c == Consumed(buf)
  <2>1. Goes(s) = <<ScanForChunkRemaining(d, buf), From(buf, c)>>
    BY <1>3 DEF Goes, Turn
  <2>2. lf \in 0 .. Len(buf)
    BY <1>1, FindFacts
  <2>3. c \in 1 .. Len(buf)
    BY <1>1, <2>2 DEF Consumed
  <2> HIDE DEF d, buf, c
  <2>4. From(buf, c) \in Seq(Byte) /\ Len(From(buf, c)) = Len(buf) - c
    BY <1>1, <2>3, Parts
  <2>5. ScanForChunkRemaining(d, buf) \in Decoder
    <3>1. CASE lf # 0
      <4>1. ScanForChunkRemaining(d, buf)
              = [TakeLine(d, d.line \o DropCR(UpTo(buf, lf - 1))) EXCEPT !.line = <<>>]
        BY <3>1 DEF ScanForChunkRemaining
      <4> QED  BY <1>1, <4>1, TakeLineType
    <3>2. CASE lf = 0
      <4>1. ScanForChunkRemaining(d, buf) = SavePartial(d, buf)
        BY <3>2 DEF ScanForChunkRemaining
      <4>2. DropCR(buf) \in Seq(Byte)
        BY <1>1, DropFacts
      <4>3. SavePartial(d, buf) \in Decoder
        <5>1. d.line \o DropCR(buf) \in Seq(Byte)
          BY <1>1, <4>2 DEF Decoder
        <5>2. ASSUME NEW l \in Seq(Byte) PROVE [d EXCEPT !.line = l] \in Decoder
          BY <1>1 DEF Decoder
        <5>3. [d EXCEPT !.error = TRUE] \in Decoder
          BY <1>1 DEF Decoder
        <5> QED  BY <5>1, <5>2, <5>3 DEF SavePartial
      <4> QED  BY <4>1, <4>3
    <3> QED  BY <3>1, <3>2
  <2>6. Goes(s) \in Loop /\ Goes(s)[2] = From(buf, c)
    BY <2>1, <2>4, <2>5 DEF Loop
  <2> QED  BY <1>1, <2>3, <2>4, <2>6 DEF buf
<1> QED  BY <1>2, <1>3

\* What the loop returns from s when it returns f from the states that follow.
LoopOf(f, s) ==
    LET d == s[1]
        buf == s[2]
    IN IF buf = <<>> \/ d.error
       THEN d
       ELSE IF d.remaining = 0 /\ d.eof
       THEN [d EXCEPT !.after = @ + Len(buf)]
       ELSE f[Turn(d, buf)]

\* Only the state after the next turn matters.
LEMMA LoopOfSame ==
    ASSUME NEW f, NEW g, NEW s, Stops(s) \/ f[Goes(s)] = g[Goes(s)]
    PROVE  LoopOf(f, s) = LoopOf(g, s)
  BY DEF LoopOf, Stops, Goes

\* The loop for fewer than n bytes.
ShortLoop(n) == {s \in Loop : Len(s[2]) < n}
IsLoop(f, n) == f = [s \in ShortLoop(n) |-> LoopOf(f, s)]

\* Goes stays among the shorter ones.
LEMMA GoesShorter ==
    ASSUME NEW n \in Nat, NEW s \in ShortLoop(n + 1), ~Stops(s)
    PROVE  Goes(s) \in ShortLoop(n)
<1>1. s \in Loop /\ Len(s[2]) < n + 1 /\ Len(s[2]) \in Nat
  BY DEF ShortLoop, Loop
<1>2. Goes(s) \in Loop /\ Len(Goes(s)[2]) < Len(s[2]) /\ Len(Goes(s)[2]) \in Nat
  BY <1>1, TurnShortens DEF Loop
<1> QED  BY <1>1, <1>2 DEF ShortLoop

\* There is a loop for any number of bytes.
LEMMA LoopExists == \A n \in Nat : \E f : IsLoop(f, n)
<1> DEFINE S == {n \in Nat : \E f : IsLoop(f, n)}
<1>1. 0 \in S
  <2>1. ShortLoop(0) = {}
    BY DEF ShortLoop, Loop
  <2> DEFINE f == [s \in {} |-> 0]
  <2>2. f = [s \in {} |-> LoopOf(f, s)]
    <3> QED  OBVIOUS
  <2>3. IsLoop(f, 0)
    <3> HIDE DEF f
    <3> QED  BY <2>1, <2>2 DEF IsLoop
  <2> QED  BY <2>3
<1>2. ASSUME NEW n \in Nat, n \in S PROVE n + 1 \in S
  <2>1. PICK f : IsLoop(f, n)
    BY <1>2
  <2> DEFINE g == [s \in ShortLoop(n + 1) |-> LoopOf(f, s)]
  <2>2. ASSUME NEW s \in ShortLoop(n + 1) PROVE LoopOf(f, s) = LoopOf(g, s)
    <3>1. CASE Stops(s)
      BY <3>1, LoopOfSame
    <3>2. CASE ~Stops(s)
      <4>1. Goes(s) \in ShortLoop(n)
        BY <3>2, GoesShorter
      <4>2. Goes(s) \in ShortLoop(n + 1)
        BY <4>1 DEF ShortLoop, Loop
      <4>3. g[Goes(s)] = LoopOf(f, Goes(s))
        BY <4>2
      <4>4. f[Goes(s)] = LoopOf(f, Goes(s))
        BY <2>1, <4>1 DEF IsLoop
      <4> HIDE DEF g
      <4> QED  BY <4>3, <4>4, LoopOfSame
    <3> QED  BY <3>1, <3>2
  <2>3. g = [s \in ShortLoop(n + 1) |-> LoopOf(g, s)]
    <3>1. [s \in ShortLoop(n + 1) |-> LoopOf(f, s)] = [s \in ShortLoop(n + 1) |-> LoopOf(g, s)]
      <4> HIDE DEF g
      <4> QED  BY <2>2
    <3> QED  BY <3>1
  <2>4. IsLoop(g, n + 1)
    <3> HIDE DEF g
    <3> QED  BY <2>3 DEF IsLoop
  <2> QED  BY <2>4
<1>3. Nat \subseteq S
  <2> HIDE DEF S
  <2> QED  BY <1>1, <1>2, SetInduction
<1> QED  BY <1>3

\* Two loops agree where both are defined.
LEMMA LoopsAgree ==
    ASSUME NEW f, NEW m \in Nat, IsLoop(f, m), NEW g, NEW n \in Nat, IsLoop(g, n)
    PROVE  \A s \in ShortLoop(m) : s \in ShortLoop(n) => f[s] = g[s]
<1> DEFINE S == {k \in Nat : \A s \in ShortLoop(k) :
                    s \in ShortLoop(m) /\ s \in ShortLoop(n) => f[s] = g[s]}
<1>1. 0 \in S
  <2>1. ShortLoop(0) = {}
    BY DEF ShortLoop, Loop
  <2> QED  BY <2>1
<1>2. ASSUME NEW k \in Nat, k \in S PROVE k + 1 \in S
  <2>1. SUFFICES ASSUME NEW s \in ShortLoop(k + 1), s \in ShortLoop(m), s \in ShortLoop(n)
                 PROVE  f[s] = g[s]
    OBVIOUS
  <2>2. f[s] = LoopOf(f, s) /\ g[s] = LoopOf(g, s)
    BY <2>1 DEF IsLoop
  <2>3. CASE Stops(s)
    BY <2>2, <2>3, LoopOfSame
  <2>4. CASE ~Stops(s)
    <3>1. Goes(s) \in ShortLoop(k)
      BY <2>4, GoesShorter
    <3>2. Goes(s) \in Loop /\ Len(Goes(s)[2]) < Len(s[2]) /\ Len(Goes(s)[2]) \in Nat
      <4>1. s \in Loop
        BY DEF ShortLoop
      <4> QED  BY <2>4, <4>1, TurnShortens DEF Loop
    <3>3. Len(s[2]) \in Nat /\ Len(s[2]) < m /\ Len(s[2]) < n
      BY <2>1 DEF ShortLoop, Loop
    <3>4. Goes(s) \in ShortLoop(m) /\ Goes(s) \in ShortLoop(n)
      BY <3>2, <3>3 DEF ShortLoop
    <3>5. f[Goes(s)] = g[Goes(s)]
      BY <1>2, <3>1, <3>4
    <3> QED  BY <2>2, <3>5, LoopOfSame
  <2> QED  BY <2>3, <2>4
<1>3. Nat \subseteq S
  <2> HIDE DEF S
  <2> QED  BY <1>1, <1>2, SetInduction
<1>4. ASSUME NEW s \in ShortLoop(m), s \in ShortLoop(n) PROVE f[s] = g[s]
  <2>1. s \in ShortLoop(m) /\ m \in S
    BY <1>3
  <2> QED  BY <1>4, <2>1
<1> QED  BY <1>4

\* The function that Filter defines by recursion exists.
LEMMA FilterUnfolds ==
    \A s \in Loop : Filter[s] = LoopOf(Filter, s)
<1> DEFINE upto(n) == CHOOSE f : IsLoop(f, n)
           h == [s \in Loop |-> upto(Len(s[2]) + 1)[s]]
<1>1. ASSUME NEW n \in Nat PROVE IsLoop(upto(n), n)
  BY LoopExists
<1>2. ASSUME NEW s \in Loop PROVE h[s] = LoopOf(h, s)
  <2>1. PICK n \in Nat : n = Len(s[2])
    BY DEF Loop
  <2>2. PICK f : f = upto(n + 1) /\ IsLoop(f, n + 1)
    BY <1>1
  <2>3. s \in ShortLoop(n + 1)
    BY <2>1 DEF ShortLoop
  <2>4. h[s] = f[s]
    BY <2>1, <2>2
  <2>5. f[s] = LoopOf(f, s)
    BY <2>2, <2>3 DEF IsLoop
  <2>6. CASE Stops(s)
    <3> HIDE DEF h
    <3> QED  BY <2>4, <2>5, <2>6, LoopOfSame
  <2>7. CASE ~Stops(s)
    <3>1. PICK t : t = Goes(s)
      OBVIOUS
    <3>2. t \in ShortLoop(n) /\ t \in Loop
      BY <2>3, <2>7, <3>1, GoesShorter DEF ShortLoop
    <3>3. PICK k \in Nat : k = Len(t[2])
      BY <3>2 DEF Loop
    <3>4. PICK g : g = upto(k + 1) /\ IsLoop(g, k + 1)
      BY <1>1
    <3>5. h[t] = g[t]
      BY <3>2, <3>3, <3>4
    <3>6. t \in ShortLoop(k + 1) /\ t \in ShortLoop(n + 1)
      BY <3>2, <3>3 DEF ShortLoop
    <3>7. g[t] = f[t]
      <4> HIDE DEF h, upto
      <4> QED  BY <2>2, <3>4, <3>6, LoopsAgree
    <3> HIDE DEF h
    <3> QED  BY <2>4, <2>5, <3>1, <3>5, <3>7, LoopOfSame
  <2> QED  BY <2>6, <2>7
<1>3. h = [s \in Loop |-> LoopOf(h, s)]
  <2>1. h = [s \in Loop |-> h[s]]
    OBVIOUS
  <2> HIDE DEF h
  <2> QED  BY <1>2, <2>1
<1>4. \E f : f = [s \in Loop |-> LoopOf(f, s)]
  <2> HIDE DEF h
  <2> QED  BY <1>3
<1>5. Filter = CHOOSE f : f = [s \in Loop |-> LoopOf(f, s)]
  BY DEF Filter, Loop, LoopOf
<1>6. Filter = [s \in Loop |-> LoopOf(Filter, s)]
  BY <1>4, <1>5
<1> QED  BY <1>6

(***************************************************************************)
(* What a line says to the decoder.                                        *)
(***************************************************************************)

\* ParseChunkSize reads digits that only spaces follow.
LEMMA ParsedSize ==
    ASSUME NEW s \in Seq(Byte), NEW k \in 1 .. Len(s),
           \A i \in 1 .. k : s[i] < Radix,
           \A i \in k + 1 .. Len(s) : s[i] = SPACE
    PROVE  ParseChunkSize[s] = NumberOf(UpTo(s, k))
<1> DEFINE I == {i \in 1 .. Len(s) : s[i] # SPACE}
<1>1. s[k] # SPACE
  BY DecoderAssumption DEF SPACE, Byte
<1>2. k \in I /\ \A j \in I : k >= j
  BY <1>1
<1>3. Max(I) = k
  BY <1>2 DEF Max
<1>4. SelectLastInSeq(s, LAMBDA x : x # SPACE) = k
  <2>1. SelectLastInSeq(s, LAMBDA x : x # SPACE) = IF I # {} THEN Max(I) ELSE 0
    BY DEF SelectLastInSeq
  <2> QED  BY <1>2, <1>3, <2>1
<1>5. /\ UpTo(s, k) \in Seq(Byte) /\ Len(UpTo(s, k)) = k
      /\ \A i \in 1 .. k : UpTo(s, k)[i] = s[i]
  BY Parts, k \in 0 .. Len(s)
<1>6. UpTo(s, k) # <<>> /\ ~\E i \in DOMAIN UpTo(s, k) : UpTo(s, k)[i] >= Radix
  <2>1. ASSUME NEW i \in 1 .. k PROVE ~(s[i] >= Radix)
    BY DecoderAssumption DEF Byte
  <2> QED  BY <1>5, <2>1
<1> QED  BY <1>4, <1>6 DEF ParseChunkSize

\* What comes before the extension.
LEMMA BeforeExtension ==
    ASSUME NEW line \in Seq(Byte), NEW m \in 1 .. Len(line),
           \A i \in 1 .. m : line[i] # SEMICOLON,
           m < Len(line) => line[m + 1] = SEMICOLON
    PROVE  (IF Find(line, SEMICOLON) = 0 THEN line ELSE UpTo(line, Find(line, SEMICOLON) - 1))
              = UpTo(line, m)
<1> DEFINE f == Find(line, SEMICOLON)
<1>1. /\ f \in 0 .. Len(line)
      /\ f = 0 => \A i \in 1 .. Len(line) : line[i] # SEMICOLON
      /\ f # 0 => line[f] = SEMICOLON /\ \A i \in 1 .. f - 1 : line[i] # SEMICOLON
  BY FindFacts
<1> HIDE DEF f
<1>2. CASE m < Len(line)
  <2>1. f # 0
    BY <1>1, <1>2
  <2>2. ~(f <= m) /\ ~(m + 1 <= f - 1)
    BY <1>1, <1>2, <2>1
  <2>3. f = m + 1 /\ f - 1 = m
    BY <1>1, <2>2
  <2> QED  BY <2>1, <2>3 DEF f
<1>3. CASE m = Len(line)
  <2>1. f = 0
    BY <1>1, <1>3
  <2>2. UpTo(line, m) = line
    BY <1>3 DEF UpTo
  <2> QED  BY <2>1, <2>2 DEF f
<1> QED  BY <1>2, <1>3

\* The decoder that has read the size n.
Sized(d, n) == [d EXCEPT !.remaining = n, !.last = (n = 0)]

\* A size line sets the size of the chunk.
LEMMA SizeIsTaken ==
    ASSUME NEW line \in Seq(Byte), NEW n \in 0 .. MaxInt, IsSize(line, n),
           NEW d, ~d.last, ~d.terminator
    PROVE  TakeLine(d, line) = Sized(d, n)
<1>0. PICK k \in 1 .. Len(line) : \E m \in k .. Len(line) :
        /\ \A i \in 1 .. k : line[i] < Radix
        /\ \A i \in k + 1 .. m : line[i] = SPACE
        /\ m < Len(line) => line[m + 1] = SEMICOLON
        /\ NumberOf(UpTo(line, k)) = n
  BY DEF IsSize
<1>1. PICK m \in k .. Len(line) :
        /\ \A i \in 1 .. k : line[i] < Radix
        /\ \A i \in k + 1 .. m : line[i] = SPACE
        /\ m < Len(line) => line[m + 1] = SEMICOLON
        /\ NumberOf(UpTo(line, k)) = n
  BY <1>0
<1>2. m \in 1 .. Len(line) /\ m \in 0 .. Len(line) /\ k \in 0 .. Len(line) /\ k <= m
  OBVIOUS
<1>3. ASSUME NEW i \in 1 .. m PROVE line[i] # SEMICOLON
  <2>1. CASE i <= k
    <3>1. line[i] < Radix /\ line[i] \in Nat
      BY <1>1, <1>2, <2>1 DEF Byte
    <3> QED  BY <3>1, DecoderAssumption DEF SEMICOLON
  <2>2. CASE i > k
    BY <1>1, <1>2, <2>2 DEF SPACE, SEMICOLON
  <2> QED  BY <1>2, <2>1, <2>2
<1> DEFINE s == UpTo(line, m)
<1>4. s \in Seq(Byte) /\ Len(s) = m /\ \A i \in 1 .. m : s[i] = line[i]
  BY <1>2, Parts
<1>5. (IF Find(line, SEMICOLON) = 0 THEN line ELSE UpTo(line, Find(line, SEMICOLON) - 1)) = s
  BY <1>1, <1>2, <1>3, BeforeExtension
<1>6. UpTo(s, k) = UpTo(line, k)
  <2>1. k \in 0 .. Len(s)
    BY <1>2, <1>4
  <2>2. /\ UpTo(s, k) \in Seq(Byte) /\ Len(UpTo(s, k)) = k
        /\ \A i \in 1 .. k : UpTo(s, k)[i] = s[i]
    BY <1>4, <2>1, Parts
  <2>3. /\ UpTo(line, k) \in Seq(Byte) /\ Len(UpTo(line, k)) = k
        /\ \A i \in 1 .. k : UpTo(line, k)[i] = line[i]
    BY <1>2, Parts
  <2>4. \A i \in 1 .. k : s[i] = line[i]
    BY <1>2, <1>4
  <2> HIDE DEF s
  <2> QED  BY <2>2, <2>3, <2>4, SameSeq
<1>7. ParseChunkSize[s] = n
  <2>1. k \in 1 .. Len(s) /\ \A i \in 1 .. k : s[i] < Radix
    BY <1>1, <1>2, <1>4
  <2>2. \A i \in k + 1 .. Len(s) : s[i] = SPACE
    BY <1>1, <1>2, <1>4
  <2> HIDE DEF s
  <2>3. ParseChunkSize[s] = NumberOf(UpTo(s, k))
    BY <1>4, <2>1, <2>2, ParsedSize
  <2> QED  BY <1>1, <1>6, <2>3
<1>8. line # <<>>
  BY <1>1
<1> HIDE DEF s
<1> QED  BY <1>5, <1>7, <1>8 DEF TakeLine, Sized

(***************************************************************************)
(* The decoder in a coded body.                                            *)
(***************************************************************************)

\* The decoder d after the first p bytes of W, which end in the part x.
Within(d, W, B, x, p) ==
    /\ x.from <= p /\ p < x.to
    /\ d \in Decoder /\ ~d.error /\ ~d.eof /\ d.after = 0
    /\ d.terminator = (x.kind = "end") /\ d.last = (x.kind = "trailer")
    /\ IF x.kind = "data"
       THEN /\ d.remaining = x.to - p
            /\ d.line = <<>>
            /\ Slice(d.out, B, 0, x.done + (p - x.from))
       ELSE /\ d.remaining = 0
            /\ Slice(d.line, W, x.from, LineEnd(W, x.from, p))
            /\ Slice(d.out, B, 0, x.done)

\* The decoder after all of the coded body.
Finished(d, B) ==
    d \in Decoder /\ ~d.error /\ d.eof /\ d.after = 0 /\ d.remaining = 0 /\ d.out = B

\* The decoder after the first p bytes of W.
Follow(d, W, B, parts, p) ==
    \/ \E i \in DOMAIN parts : Within(d, W, B, parts[i], p)
    \/ p = Len(W) /\ Finished(d, B)

\* The decoder at the beginning of a part.
LEMMA EnterPart ==
    ASSUME NEW W, NEW B, NEW x \in Part, x.from < x.to,
           NEW d \in Decoder, ~d.error, ~d.eof, d.after = 0, d.line = <<>>,
           d.terminator = (x.kind = "end"), d.last = (x.kind = "trailer"),
           d.remaining = IF x.kind = "data" THEN x.to - x.from ELSE 0,
           Slice(d.out, B, 0, x.done)
    PROVE  Within(d, W, B, x, x.from)
<1>1. x.from \in Nat /\ x.to \in Nat /\ x.done \in Nat
  BY DEF Part
<1>2. LineEnd(W, x.from, x.from) = x.from
  BY <1>1 DEF LineEnd
<1>3. Slice(<<>>, W, x.from, x.from)
  BY <1>1 DEF Slice
<1>4. x.done + (x.from - x.from) = x.done
  BY <1>1
<1> QED  BY <1>1, <1>2, <1>3, <1>4 DEF Within

\* A slice and the one that follows it.
LEMMA SliceConcat ==
    ASSUME NEW S, NEW s \in Seq(S), NEW t \in Seq(S), NEW F,
           NEW j \in Nat, NEW k \in Nat, NEW m \in Nat, j <= k, k <= m,
           Slice(s, F, j, k), Slice(t, F, k, m)
    PROVE  s \o t \in Seq(S) /\ Slice(s \o t, F, j, m)
<1>1. Len(s) = k - j /\ Len(t) = m - k
  BY DEF Slice
<1>2. s \o t \in Seq(S) /\ Len(s \o t) = Len(s) + Len(t)
  OBVIOUS
<1>3. Len(s \o t) = m - j
  BY <1>1, <1>2
<1>4. ASSUME NEW i \in 1 .. m - j PROVE (s \o t)[i] = F[j + i]
  <2>0. i \in 1 .. Len(s) + Len(t)
    BY <1>1
  <2>1. CASE i <= k - j
    <3>1. (s \o t)[i] = s[i]
      BY <1>1, <2>0, <2>1
    <3>2. i \in 1 .. k - j
      BY <2>1
    <3>3. s[i] = F[j + i]
      BY <3>2 DEF Slice
    <3> QED  BY <3>1, <3>3
  <2>2. CASE i > k - j
    <3>1. PICK h \in 1 .. m - k : h = i - (k - j) /\ k + h = j + i
      BY <2>2
    <3>2. (s \o t)[i] = t[h]
      BY <1>1, <2>0, <2>2, <3>1
    <3>3. t[h] = F[k + h]
      BY DEF Slice
    <3> QED  BY <3>1, <3>2, <3>3
  <2>3. i \in Nat /\ k - j \in Int
    OBVIOUS
  <2>4. i <= k - j \/ i > k - j
    BY <2>3
  <2> QED  BY <2>1, <2>2, <2>4
<1> QED  BY <1>2, <1>3, <1>4 DEF Slice

\* The bytes of a piece are those of the coded body.
LEMMA SliceUpTo ==
    ASSUME NEW S, NEW s \in Seq(S), NEW F, NEW k \in Nat, NEW m \in Nat, Slice(s, F, k, m),
           NEW n \in 0 .. Len(s)
    PROVE  UpTo(s, n) \in Seq(S) /\ Slice(UpTo(s, n), F, k, k + n)
<1>1. Len(s) = m - k /\ n \in Nat /\ n <= m - k
  BY DEF Slice
<1>2. /\ UpTo(s, n) \in Seq(S) /\ Len(UpTo(s, n)) = n
      /\ \A i \in 1 .. n : UpTo(s, n)[i] = s[i]
  BY Parts
<1> QED  BY <1>1, <1>2 DEF Slice

\* The decoder e, with the bytes left over from a piece up to q, is still in the
\* data x or just behind it.
AfterData(e, left, W, B, x, p, q) ==
    \E r \in Nat :
        /\ p < r /\ r <= q /\ Slice(left, W, r, q)
        /\ \/ Within(e, W, B, x, r)
           \/ /\ r = x.to
              /\ ~e.error /\ ~e.eof /\ e.after = 0 /\ e.line = <<>>
              /\ e.terminator /\ ~e.last /\ e.remaining = 0
              /\ Slice(e.out, B, 0, x.done + (x.to - x.from))

\* A turn in the data of a chunk.
LEMMA DataTurn ==
    ASSUME NEW W, NEW B, NEW x \in Part, IsPart(W, B, x), x.kind = "data",
           NEW p \in Nat, NEW q \in Nat, p < q, NEW d, Within(d, W, B, x, p),
           NEW buf \in Seq(Byte), Slice(buf, W, p, q),
           NEW e, NEW left, Turn(d, buf) = <<e, left>>, e \in Decoder
    PROVE  AfterData(e, left, W, B, x, p, q)
<1>0. PICK a \in Nat, z \in Nat, c \in Nat : a = x.from /\ z = x.to /\ c = x.done
  BY DEF Part
<1>1. /\ a <= p /\ p < z
      /\ d \in Decoder /\ ~d.error /\ ~d.eof /\ d.after = 0 /\ ~d.last /\ ~d.terminator
      /\ d.remaining = z - p /\ d.line = <<>>
      /\ Slice(d.out, B, 0, c + (p - a))
  BY <1>0 DEF Within
<1>2. Len(buf) = q - p
  BY DEF Slice
<1>3. PICK num \in Nat :
        /\ num \in 0 .. Len(buf) /\ num > 0 /\ num <= z - p
        /\ e = TakeData(d, buf, num) /\ left = From(buf, num)
  <2> DEFINE num == IF d.remaining < Len(buf) THEN d.remaining ELSE Len(buf)
  <2>1. num \in Nat /\ num \in 0 .. Len(buf) /\ num > 0 /\ num <= z - p
    BY <1>1, <1>2
  <2>2. e = TakeData(d, buf, num) /\ left = From(buf, num)
    BY <1>1 DEF Turn
  <2> HIDE DEF num
  <2> QED  BY <2>1, <2>2
<1>4. PICK r \in Nat : r = p + num /\ p < r /\ r <= q /\ r <= z
  BY <1>2, <1>3
<1>5. Slice(left, W, r, q)
  BY <1>3, <1>4, SliceFrom
<1>6. /\ e.remaining = d.remaining - num /\ e.out = d.out \o UpTo(buf, num)
      /\ e.terminator <=> (d.remaining = num)
      /\ e.error = d.error /\ e.eof = d.eof /\ e.after = d.after /\ e.last = d.last
      /\ e.line = d.line
  BY <1>1, <1>3 DEF TakeData, Decoder
<1>7. e.remaining = z - r /\ (e.terminator <=> r = z)
  BY <1>1, <1>3, <1>4, <1>6
<1>8. Slice(e.out, B, 0, c + (r - a))
  <2>1. UpTo(buf, num) \in Seq(Byte) /\ Slice(UpTo(buf, num), W, p, r)
    BY <1>3, <1>4, SliceUpTo
  <2>2. PICK k \in Nat, m \in Nat : k = c + (p - a) /\ m = c + (r - a) /\ k <= m /\ m - k = r - p
    <3>1. a <= p /\ p < r /\ a <= r
      BY <1>1, <1>4
    <3>2. c + (p - a) \in Nat /\ c + (r - a) \in Nat
      BY <3>1
    <3>3. c + (p - a) <= c + (r - a) /\ (c + (r - a)) - (c + (p - a)) = r - p
      BY <3>1
    <3> QED  BY <3>2, <3>3
  <2>3. ASSUME NEW i \in 1 .. m - k PROVE UpTo(buf, num)[i] = B[k + i]
    <3>1. UpTo(buf, num)[i] = W[p + i]
      BY <2>1, <2>2 DEF Slice
    <3>2. PICK h \in 1 .. z - a : h = (p - a) + i /\ a + h = p + i /\ c + h = k + i
      BY <1>1, <1>4, <2>2
    <3>3. W[a + h] = B[c + h]
      BY <1>0 DEF IsPart
    <3> QED  BY <3>1, <3>2, <3>3
  <2>4. Slice(UpTo(buf, num), B, k, m)
    BY <2>1, <2>2, <2>3 DEF Slice
  <2>5. d.out \in Seq(Byte) /\ Slice(d.out, B, 0, k)
    BY <1>1, <2>2 DEF Decoder
  <2>6. Slice(d.out \o UpTo(buf, num), B, 0, m)
    BY <2>1, <2>2, <2>4, <2>5, SliceConcat
  <2> QED  BY <1>6, <2>2, <2>6
<1>9. /\ ~e.error /\ ~e.eof /\ e.after = 0 /\ ~e.last /\ e.line = <<>>
      /\ e.last \in BOOLEAN /\ e.terminator \in BOOLEAN
  BY <1>1, <1>6 DEF Decoder
<1>10. CASE r < z
  <2>1. ~e.terminator /\ a <= r
    BY <1>1, <1>4, <1>7, <1>10
  <2>2. e.terminator = (x.kind = "end") /\ e.last = (x.kind = "trailer")
    BY <1>9, <2>1
  <2>3. Within(e, W, B, x, r)
    BY <1>0, <1>7, <1>8, <1>9, <1>10, <2>1, <2>2 DEF Within
  <2> QED  BY <1>4, <1>5, <2>3 DEF AfterData
<1>11. CASE r = z
  <2>1. e.terminator /\ e.remaining = 0 /\ r = x.to
    BY <1>0, <1>7, <1>11
  <2>2. Slice(e.out, B, 0, x.done + (x.to - x.from))
    BY <1>0, <1>8, <1>11
  <2> QED  BY <1>4, <1>5, <1>9, <2>1, <2>2 DEF AfterData
<1> QED  BY <1>4, <1>10, <1>11

\* A piece without the CR it may end in.
LEMMA SliceDrop ==
    ASSUME NEW s \in Seq(Byte), NEW F, NEW k \in Nat, NEW m \in Nat, k < m, Slice(s, F, k, m)
    PROVE  /\ DropCR(s) \in Seq(Byte) /\ LineEnd(F, k, m) \in Nat
           /\ k <= LineEnd(F, k, m) /\ Slice(DropCR(s), F, k, LineEnd(F, k, m))
<1>1. Len(s) = m - k /\ Len(s) > 0 /\ Len(s) \in 1 .. m - k /\ k + Len(s) = m
  BY DEF Slice
<1>2. s[Len(s)] = F[m]
  <2>1. \A i \in 1 .. m - k : s[i] = F[k + i]
    BY DEF Slice
  <2> QED  BY <1>1, <2>1
<1>3. PICK n \in Nat : n = LineEnd(F, k, m) /\ k <= n /\ n <= m
                       /\ n = IF F[m] = CR THEN m - 1 ELSE m
  BY DEF LineEnd
<1>4. /\ DropCR(s) \in Seq(Byte)
      /\ Len(DropCR(s)) = IF Len(s) > 0 /\ s[Len(s)] = CR THEN Len(s) - 1 ELSE Len(s)
      /\ \A i \in 1 .. Len(DropCR(s)) : DropCR(s)[i] = s[i]
  BY DropFacts
<1>5. Len(DropCR(s)) = n - k
  BY <1>1, <1>2, <1>3, <1>4
<1>6. ASSUME NEW i \in 1 .. n - k PROVE DropCR(s)[i] = F[k + i]
  <2>1. i \in 1 .. m - k
    BY <1>3
  <2>2. s[i] = F[k + i]
    BY <2>1 DEF Slice
  <2> QED  BY <1>4, <1>5, <2>2
<1> QED  BY <1>3, <1>4, <1>5, <1>6 DEF Slice

\* In a line, before its last byte: no CR was dropped yet but one that the LF
\* follows.
LEMMA LineSoFar ==
    ASSUME NEW W, NEW x \in Part, IsLine(W, x), NEW p \in Nat, x.from <= p, p < x.to
    PROVE  \/ LineEnd(W, x.from, p) = p
           \/ p = x.to - 1 /\ p > x.from /\ LineEnd(W, x.from, p) = p - 1 /\ W[p] = CR
<1>1. x.from \in Nat /\ x.to \in Nat
  BY DEF Part
<1>2. CASE p > x.from /\ W[p] = CR
  <2>1. p \in x.from + 1 .. x.to - 1
    BY <1>1, <1>2
  <2>2. p = x.to - 1
    BY <1>2, <2>1 DEF IsLine
  <2> QED  BY <1>2, <2>2 DEF LineEnd
<1>3. CASE ~(p > x.from /\ W[p] = CR)
  BY <1>3 DEF LineEnd
<1> QED  BY <1>2, <1>3

\* Where the line ends, in the piece or after it.
LEMMA LineFeedAt ==
    ASSUME NEW W, NEW x \in Part, IsLine(W, x), NEW p \in Nat, x.from <= p, p < x.to,
           NEW q \in Nat, p < q, NEW buf \in Seq(Byte), Slice(buf, W, p, q)
    PROVE  Find(buf, LF) = IF q < x.to THEN 0 ELSE x.to - p
<1>0. PICK a \in Nat, z \in Nat : a = x.from /\ z = x.to
  BY DEF Part
<1>1. Len(buf) = q - p /\ \A i \in 1 .. q - p : buf[i] = W[p + i]
  BY DEF Slice
<1>2. W[z] = LF /\ \A i \in a + 1 .. z - 1 : W[i] # LF
  BY <1>0 DEF IsLine
<1> DEFINE f == Find(buf, LF)
<1>3. /\ f \in 0 .. Len(buf)
      /\ f = 0 => \A i \in 1 .. Len(buf) : buf[i] # LF
      /\ f # 0 => buf[f] = LF /\ \A i \in 1 .. f - 1 : buf[i] # LF
  BY FindFacts
<1> HIDE DEF f
<1>4. ASSUME f # 0 PROVE f >= z - p
  <2>1. W[p + f] = LF /\ f \in Nat
    BY <1>1, <1>3, <1>4
  <2>2. SUFFICES ASSUME ~(f >= z - p) PROVE FALSE
    OBVIOUS
  <2>3. p + f \in a + 1 .. z - 1
    <3>1. f \in Nat /\ f # 0 /\ a <= p
      BY <1>0, <1>4, <2>1
    <3> QED  BY <2>2, <3>1
  <2> QED  BY <1>2, <2>1, <2>3
<1>5. CASE q < z
  <2>1. f = 0
    BY <1>1, <1>3, <1>4, <1>5
  <2> QED  BY <1>0, <1>5, <2>1 DEF f
<1>6. CASE ~(q < z)
  <2>1. PICK h \in 1 .. Len(buf) : h = z - p /\ p + h = z
    <3>1. p < z /\ z <= q /\ Len(buf) = q - p
      BY <1>0, <1>1, <1>6
    <3>2. z - p \in 1 .. q - p /\ p + (z - p) = z
      BY <3>1
    <3> QED  BY <3>1, <3>2
  <2>2. buf[h] = LF
    BY <1>1, <1>2, <2>1
  <2>3. f # 0 /\ ~(h \in 1 .. f - 1)
    BY <1>3, <2>2
  <2>4. f = h
    BY <1>3, <1>4, <2>1, <2>3
  <2> QED  BY <1>0, <1>6, <2>1, <2>4 DEF f
<1> QED  BY <1>5, <1>6

\* The line of a part.
LEMMA LineFacts ==
    ASSUME NEW W \in Seq(Byte), NEW x \in Part, x.from < x.to, x.to <= Len(W)
    PROVE  /\ Line(W, x) \in Seq(Byte) /\ LineEnd(W, x.from, x.to - 1) \in Nat
           /\ x.from <= LineEnd(W, x.from, x.to - 1) /\ LineEnd(W, x.from, x.to - 1) < x.to
           /\ Slice(Line(W, x), W, x.from, LineEnd(W, x.from, x.to - 1))
<1>0. PICK a \in Nat, z \in Nat : a = x.from /\ z = x.to
  BY DEF Part
<1>1. PICK n \in Nat : n = LineEnd(W, a, z - 1) /\ a <= n /\ n < z /\ n <= Len(W)
  BY <1>0 DEF LineEnd
<1>2. Line(W, x) = SubSeq(W, a + 1, n)
  BY <1>0, <1>1 DEF Line
<1>3. /\ SubSeq(W, a + 1, n) \in Seq(Byte) /\ Len(SubSeq(W, a + 1, n)) = n - a
      /\ \A i \in 1 .. n - a : SubSeq(W, a + 1, n)[i] = W[a + i]
  <2>1. \A i \in a + 1 .. n : i \in 1 .. Len(W)
    BY <1>1
  <2>2. SubSeq(W, a + 1, n) = [i \in 1 .. n - a |-> W[a + i]]
    BY <1>1, <2>1
  <2>3. \A i \in 1 .. n - a : W[a + i] \in Byte
    BY <1>1
  <2> QED  BY <1>1, <2>2, <2>3
<1>4. Slice(SubSeq(W, a + 1, n), W, a, n)
  BY <1>3 DEF Slice
<1> QED  BY <1>0, <1>1, <1>2, <1>3, <1>4

\* A turn in a line that does not end in the piece.
LEMMA PartialTurn ==
    ASSUME NEW W \in Seq(Byte), NEW B, NEW x \in Part, IsPart(W, B, x), x.kind # "data",
           NEW p \in Nat, NEW q \in Nat, p < q, q < x.to, NEW d, Within(d, W, B, x, p),
           NEW buf \in Seq(Byte), Slice(buf, W, p, q),
           NEW e, NEW left, Turn(d, buf) = <<e, left>>, e \in Decoder
    PROVE  Slice(left, W, q, q) /\ Within(e, W, B, x, q)
<1>0. PICK a \in Nat, z \in Nat : a = x.from /\ z = x.to
  BY DEF Part
<1>1. /\ a <= p /\ p < z /\ a < z /\ z <= Len(W) /\ IsLine(W, x)
      /\ d \in Decoder /\ ~d.error /\ ~d.eof /\ d.after = 0
      /\ d.terminator = (x.kind = "end") /\ d.last = (x.kind = "trailer")
      /\ d.remaining = 0
      /\ Slice(d.line, W, a, LineEnd(W, a, p)) /\ Slice(d.out, B, 0, x.done)
      /\ d.line \in Seq(Byte)
  BY <1>0 DEF Within, IsPart, Decoder
<1>2. Find(buf, LF) = 0
  BY <1>0, <1>1, LineFeedAt
<1>3. e = SavePartial(d, buf) /\ left = From(buf, Len(buf))
  BY <1>1, <1>2 DEF Turn, ScanForChunkRemaining, Consumed
<1>4. Slice(left, W, q, q)
  <2>1. Len(buf) \in 0 .. Len(buf) /\ p + Len(buf) = q
    BY DEF Slice
  <2> QED  BY <1>3, <2>1, SliceFrom
<1>5. Slice(d.line, W, a, p)
  <2>1. ~(p = z - 1)
    BY <1>0
  <2>2. LineEnd(W, a, p) = p
    BY <1>0, <1>1, <2>1, LineSoFar
  <2> QED  BY <1>1, <2>2
<1>6. PICK n \in Nat : n = LineEnd(W, p, q) /\ p <= n /\ Slice(DropCR(buf), W, p, n)
                       /\ DropCR(buf) \in Seq(Byte)
  BY SliceDrop
<1>7. n = LineEnd(W, a, q)
  BY <1>1, <1>6 DEF LineEnd
<1>8. d.line \o DropCR(buf) \in Seq(Byte) /\ Slice(d.line \o DropCR(buf), W, a, n)
  BY <1>1, <1>5, <1>6, SliceConcat
<1>9. Len(d.line) + Len(DropCR(buf)) <= MaxLineBuf
  <2>1. PICK k \in Nat : k = LineEnd(W, a, z - 1) /\ Slice(Line(W, x), W, a, k)
    BY <1>0, <1>1, LineFacts
  <2>2. Len(Line(W, x)) = k - a /\ k - a <= MaxLineBuf
    BY <1>1, <2>1 DEF Slice, IsLine
  <2>3. n <= k
    <3>1. CASE q = z - 1
      BY <1>7, <2>1, <3>1
    <3>2. CASE q # z - 1
      <4>1. n <= q
        BY <1>7 DEF LineEnd
      <4>2. k >= (z - 1) - 1
        BY <2>1 DEF LineEnd
      <4>3. q <= (z - 1) - 1
        BY <1>0, <3>2
      <4> QED  BY <4>1, <4>2, <4>3
    <3> QED  BY <3>1, <3>2
  <2>4. Len(d.line) = p - a /\ Len(DropCR(buf)) = n - p
    BY <1>5, <1>6 DEF Slice
  <2> QED  BY <2>2, <2>3, <2>4, DecoderAssumption
<1>10. e = [d EXCEPT !.line = d.line \o DropCR(buf)]
  <2>1. ~(Len(d.line) + Len(DropCR(buf)) > MaxLineBuf)
    <3>1. Len(d.line) + Len(DropCR(buf)) \in Nat /\ MaxLineBuf \in Nat
      BY <1>1, <1>6, DecoderAssumption
    <3> QED  BY <1>9, <3>1
  <2> QED  BY <1>3, <2>1 DEF SavePartial
<1>11. /\ e.line = d.line \o DropCR(buf) /\ e.remaining = 0 /\ e.out = d.out
       /\ e.error = d.error /\ e.eof = d.eof /\ e.after = d.after
       /\ e.terminator = d.terminator /\ e.last = d.last
  BY <1>1, <1>10 DEF Decoder
<1>12. x.from <= q
  BY <1>0, <1>1
<1> QED  BY <1>0, <1>1, <1>4, <1>7, <1>8, <1>11, <1>12 DEF Within

\* A turn in a line that ends in the piece.
LEMMA LineTurn ==
    ASSUME NEW W \in Seq(Byte), NEW B, NEW x \in Part, IsPart(W, B, x), x.kind # "data",
           NEW p \in Nat, NEW q \in Nat, p < q, x.to <= q, NEW d, Within(d, W, B, x, p),
           NEW buf \in Seq(Byte), Slice(buf, W, p, q),
           NEW e, NEW left, Turn(d, buf) = <<e, left>>
    PROVE  /\ Slice(left, W, x.to, q) /\ p < x.to
           /\ e = [TakeLine(d, Line(W, x)) EXCEPT !.line = <<>>]
<1>0. PICK a \in Nat, z \in Nat : a = x.from /\ z = x.to
  BY DEF Part
<1>1. /\ a <= p /\ p < z /\ a < z /\ z <= Len(W) /\ IsLine(W, x)
      /\ d \in Decoder /\ d.remaining = 0
      /\ Slice(d.line, W, a, LineEnd(W, a, p)) /\ d.line \in Seq(Byte)
  BY <1>0 DEF Within, IsPart, Decoder
<1>2. PICK f \in 0 .. Len(buf) : f = Find(buf, LF) /\ f = z - p /\ f # 0 /\ p + f = z
                                 /\ f - 1 \in 0 .. Len(buf)
  <2>1. Find(buf, LF) = z - p
    BY <1>0, <1>1, LineFeedAt
  <2>2. Len(buf) = q - p
    BY DEF Slice
  <2> QED  BY <1>0, <1>1, <2>1, <2>2
<1>3. /\ e = [TakeLine(d, d.line \o DropCR(UpTo(buf, f - 1))) EXCEPT !.line = <<>>]
      /\ left = From(buf, f)
  BY <1>1, <1>2 DEF Turn, ScanForChunkRemaining, Consumed
<1>4. Slice(left, W, z, q)
  BY <1>2, <1>3, SliceFrom
<1>5. d.line \o DropCR(UpTo(buf, f - 1)) = Line(W, x)
  <2> DEFINE t == UpTo(buf, f - 1)
  <2>1. PICK k \in Nat : /\ k = LineEnd(W, a, z - 1) /\ a <= k
                         /\ Slice(Line(W, x), W, a, k) /\ Line(W, x) \in Seq(Byte)
    BY <1>0, <1>1, LineFacts
  <2>2. PICK y \in Nat : y = z - 1 /\ y = p + (f - 1) /\ p <= y /\ a <= y
    BY <1>1, <1>2
  <2>3. t \in Seq(Byte) /\ Slice(t, W, p, y)
    BY <1>2, <2>2, SliceUpTo
  <2> HIDE DEF t
  <2>4. d.line \o DropCR(t) \in Seq(Byte) /\ Slice(d.line \o DropCR(t), W, a, k)
    <3>1. CASE p = y
      <4>1. k = LineEnd(W, a, p)
        BY <2>1, <2>2, <3>1
      <4>2. t = <<>>
        BY <2>3, <3>1, NoElements DEF Slice
      <4>3. DropCR(t) = <<>>
        BY <4>2 DEF DropCR
      <4>4. d.line \o DropCR(t) = d.line
        BY <1>1, <4>3
      <4> QED  BY <1>1, <4>1, <4>4
    <3>2. CASE p # y
      <4>1. p < y /\ LineEnd(W, a, p) = p
        BY <1>0, <1>1, <2>2, <3>2, LineSoFar
      <4>2. /\ DropCR(t) \in Seq(Byte) /\ LineEnd(W, p, y) \in Nat
            /\ p <= LineEnd(W, p, y) /\ Slice(DropCR(t), W, p, LineEnd(W, p, y))
        BY <2>3, <4>1, SliceDrop
      <4>3. LineEnd(W, p, y) = k
        BY <1>1, <2>1, <2>2, <4>1 DEF LineEnd
      <4>4. p <= k /\ Slice(DropCR(t), W, p, k) /\ Slice(d.line, W, a, p)
        BY <1>1, <4>1, <4>2, <4>3
      <4> QED  BY <1>1, <4>2, <4>4, SliceConcat
    <3> QED  BY <3>1, <3>2
  <2>5. Len(d.line \o DropCR(t)) = Len(Line(W, x))
    BY <2>1, <2>4 DEF Slice
  <2>6. \A i \in 1 .. Len(Line(W, x)) : (d.line \o DropCR(t))[i] = Line(W, x)[i]
    BY <2>1, <2>4 DEF Slice
  <2>7. d.line \o DropCR(t) = Line(W, x)
    BY <2>1, <2>4, <2>5, <2>6, SameSeq
  <2> QED  BY <2>7 DEF t
<1> QED  BY <1>0, <1>1, <1>3, <1>4, <1>5

\* A line that was taken leads to the next part, or to the end.
LEMMA LineLeadsOn ==
    ASSUME NEW W \in Seq(Byte), NEW B \in Seq(Byte), NEW parts \in Seq(Part),
           IsCoding(W, B, parts), NEW i \in DOMAIN parts, parts[i].kind # "data",
           NEW p \in Nat, NEW d, Within(d, W, B, parts[i], p),
           NEW e \in Decoder, e = [TakeLine(d, Line(W, parts[i])) EXCEPT !.line = <<>>]
    PROVE  Follow(e, W, B, parts, parts[i].to)
<1> DEFINE x == parts[i]
           line == Line(W, x)
<1>1. x \in Part /\ IsPart(W, B, x) /\ x.from < x.to /\ x.to <= Len(W)
  BY DEF IsCoding, IsPart
<1>2. /\ d \in Decoder /\ ~d.error /\ ~d.eof /\ d.after = 0
      /\ d.terminator = (x.kind = "end") /\ d.last = (x.kind = "trailer")
      /\ d.remaining = 0 /\ Slice(d.out, B, 0, x.done)
  BY DEF Within
<1>3. line \in Seq(Byte)
  BY <1>1, LineFacts
<1>4. CASE i = Len(parts)
  <2>1. x.kind = "trailer" /\ line = <<>> /\ x.to = Len(W) /\ x.done = Len(B)
    BY <1>4 DEF IsCoding, IsLast
  <2> HIDE DEF x, line
  <2>2. e = [[d EXCEPT !.eof = TRUE] EXCEPT !.line = <<>>]
    BY <1>2, <2>1 DEF TakeLine, x, line
  <2>3. ~e.error /\ e.eof /\ e.after = 0 /\ e.remaining = 0 /\ e.out = d.out
    BY <1>2, <2>2 DEF Decoder
  <2>4. d.out = B
    <3>1. d.out \in Seq(Byte) /\ Len(B) \in Nat
      BY <1>2 DEF Decoder
    <3>2. Len(d.out) = Len(B) /\ \A j \in 1 .. Len(B) : d.out[j] = B[j]
      <4>1. Slice(d.out, B, 0, Len(B))
        BY <1>2, <2>1
      <4>2. Len(d.out) = Len(B) - 0 /\ \A j \in 1 .. Len(B) - 0 : d.out[j] = B[0 + j]
        BY <4>1 DEF Slice
      <4>3. Len(B) - 0 = Len(B) /\ \A j \in 1 .. Len(B) : 0 + j = j
        BY <3>1
      <4> QED  BY <4>2, <4>3
    <3> QED  BY <3>1, <3>2, SameSeq
  <2>5. Finished(e, B)
    BY <2>3, <2>4 DEF Finished
  <2> QED  BY <2>1, <2>5 DEF Follow, x
<1>5. CASE i # Len(parts)
  <2>0. i \in Nat /\ i + 1 \in DOMAIN parts
    BY <1>5
  <2> DEFINE y == parts[i + 1]
  <2>1. y \in Part /\ IsPart(W, B, y) /\ Follows(W, x, y)
    BY <1>5, <2>0 DEF IsCoding
  <2>2. /\ y.from < y.to /\ y.from = x.to /\ y.done = x.done
        /\ y.from \in Nat /\ y.to \in Nat
    BY <2>1 DEF IsPart, Follows, Part
  <2>3. /\ e.line = <<>> /\ e.after = 0 /\ e.out = d.out
        /\ ~e.error /\ ~e.eof
        /\ e.remaining = IF y.kind = "data" THEN y.to - y.from ELSE 0
        /\ e.terminator = (y.kind = "end") /\ e.last = (y.kind = "trailer")
    <3>1. CASE x.kind = "size" /\ (y.kind = "data" \/ y.kind = "trailer")
      <4>1. PICK n \in 0 .. MaxInt : /\ IsSize(line, n)
                                     /\ y.kind = "data" => n = y.to - y.from /\ n # 0
                                     /\ y.kind = "trailer" => n = 0
        <5>1. CASE y.kind = "data"
          <6>1. y.to - y.from \in 0 .. MaxInt /\ y.to - y.from # 0
            BY <2>1, <2>2, <5>1, DecoderAssumption DEF IsPart
          <6>2. IsSize(line, y.to - y.from)
            BY <2>1, <3>1, <5>1 DEF Follows
          <6> QED  BY <5>1, <6>1, <6>2
        <5>2. CASE y.kind = "trailer"
          <6>1. 0 \in 0 .. MaxInt
            BY DecoderAssumption
          <6>2. IsSize(line, 0)
            BY <2>1, <3>1, <5>2 DEF Follows
          <6> QED  BY <5>2, <6>1, <6>2
        <5> QED  BY <3>1, <5>1, <5>2
      <4>2. ~d.last /\ ~d.terminator
        BY <1>2, <3>1
      <4> HIDE DEF x, y, line
      <4>3. TakeLine(d, line) = Sized(d, n)
        BY <1>3, <4>1, <4>2, SizeIsTaken
      <4>4. /\ e.line = <<>> /\ e.after = d.after /\ e.out = d.out /\ e.error = d.error
            /\ e.eof = d.eof /\ e.remaining = n /\ e.terminator = d.terminator
            /\ e.last <=> (n = 0)
        BY <1>2, <4>3 DEF Decoder, Sized, x, line
      <4>5. e.last = (y.kind = "trailer") /\ e.terminator = (y.kind = "end")
        <5>1. e.last \in BOOLEAN /\ e.terminator \in BOOLEAN
          BY DEF Decoder
        <5> QED  BY <3>1, <4>1, <4>2, <4>4, <5>1
      <4> QED  BY <1>2, <3>1, <4>1, <4>4, <4>5
    <3>2. CASE x.kind = "end" /\ y.kind = "size" /\ line = <<>>
      <4>1. d.terminator /\ ~d.last
        BY <1>2, <3>2
      <4> HIDE DEF x, y, line
      <4>2. TakeLine(d, line) = [d EXCEPT !.terminator = FALSE, !.error = (line # <<>>)]
        BY <4>1 DEF TakeLine
      <4>3. /\ e.line = <<>> /\ e.after = d.after /\ e.out = d.out /\ ~e.error
            /\ e.eof = d.eof /\ e.remaining = d.remaining /\ ~e.terminator /\ e.last = d.last
        BY <1>2, <3>2, <4>2 DEF Decoder, x, line
      <4>4. e.last \in BOOLEAN /\ e.terminator \in BOOLEAN
        BY DEF Decoder
      <4> QED  BY <1>2, <3>2, <4>1, <4>3, <4>4
    <3>3. CASE x.kind = "trailer" /\ y.kind = "trailer" /\ line # <<>>
      <4>1. ~d.terminator /\ d.last
        BY <1>2, <3>3
      <4> HIDE DEF x, y, line
      <4>2. TakeLine(d, line) = [d EXCEPT !.eof = (line = <<>>)]
        BY <4>1 DEF TakeLine
      <4>3. /\ e.line = <<>> /\ e.after = d.after /\ e.out = d.out /\ e.error = d.error
            /\ ~e.eof /\ e.remaining = d.remaining /\ e.terminator = d.terminator
            /\ e.last = d.last
        BY <1>2, <3>3, <4>2 DEF Decoder, x, line
      <4>4. e.last \in BOOLEAN /\ e.terminator \in BOOLEAN
        BY DEF Decoder
      <4> QED  BY <1>2, <3>3, <4>1, <4>3, <4>4
    <3> QED  BY <2>1, <3>1, <3>2, <3>3 DEF Follows
  <2> HIDE DEF x, y
  <2>4. Within(e, W, B, y, y.from)
    BY <1>2, <2>1, <2>2, <2>3, EnterPart
  <2> QED  BY <2>0, <2>2, <2>4 DEF Follow, x, y
<1> QED  BY <1>4, <1>5

\* One turn of the loop in a coded body.
LEMMA TurnFollows ==
    ASSUME NEW W \in Seq(Byte), NEW B \in Seq(Byte), NEW parts \in Seq(Part),
           IsCoding(W, B, parts), NEW p \in Nat, NEW q \in Nat, p < q, q <= Len(W),
           NEW buf \in Seq(Byte), Slice(buf, W, p, q),
           NEW d, Follow(d, W, B, parts, p)
    PROVE  /\ <<d, buf>> \in Loop /\ ~Stops(<<d, buf>>)
           /\ \E e \in Decoder, left \in Seq(Byte), r \in Nat :
                 /\ Turn(d, buf) = <<e, left>> /\ p < r /\ r <= q
                 /\ Slice(left, W, r, q) /\ Follow(e, W, B, parts, r)
<1>1. PICK i \in DOMAIN parts : Within(d, W, B, parts[i], p)
  <2>1. Len(W) \in Nat /\ p # Len(W)
    OBVIOUS
  <2> QED  BY <2>1 DEF Follow
<1> DEFINE x == parts[i]
<1>2. x \in Part /\ IsPart(W, B, x) /\ x.from \in Nat /\ x.to \in Nat /\ x.from <= p /\ p < x.to
  <2>1. x \in Part /\ IsPart(W, B, x)
    BY DEF IsCoding
  <2>2. x.from <= p /\ p < x.to
    BY <1>1 DEF Within
  <2> QED  BY <2>1, <2>2 DEF Part
<1>3. d \in Decoder /\ ~d.error /\ ~d.eof
  BY <1>1 DEF Within
<1>4. <<d, buf>> \in Loop /\ ~Stops(<<d, buf>>)
  <2>1. buf # <<>>
    BY DEF Slice
  <2> QED  BY <1>3, <2>1 DEF Loop, Stops
<1>5. PICK e \in Decoder, left \in Seq(Byte) : Turn(d, buf) = <<e, left>>
  <2>1. Goes(<<d, buf>>) \in Loop
    BY <1>4, TurnShortens
  <2>2. Turn(d, buf) \in Decoder \X Seq(Byte)
    BY <2>1 DEF Goes, Loop
  <2> QED  BY <2>2
<1> HIDE DEF x
<1>6. CASE x.kind = "data"
  <2>1. PICK r \in Nat :
             /\ p < r /\ r <= q /\ Slice(left, W, r, q)
             /\ \/ Within(e, W, B, x, r)
                \/ /\ r = x.to
                   /\ ~e.error /\ ~e.eof /\ e.after = 0 /\ e.line = <<>>
                   /\ e.terminator /\ ~e.last /\ e.remaining = 0
                   /\ Slice(e.out, B, 0, x.done + (x.to - x.from))
    <3>1. Within(d, W, B, x, p)
      BY <1>1 DEF x
    <3>2. AfterData(e, left, W, B, x, p, q)
      BY <1>2, <1>5, <1>6, <3>1, DataTurn
    <3> QED  BY <3>2 DEF AfterData
  <2>2. Follow(e, W, B, parts, r)
    <3>1. CASE Within(e, W, B, x, r)
      BY <3>1 DEF Follow, x
    <3>2. CASE ~Within(e, W, B, x, r)
      <4>0. i # Len(parts)
        BY <1>6 DEF IsCoding, IsLast, x
      <4>1. i + 1 \in DOMAIN parts
        BY <4>0
      <4> DEFINE y == parts[i + 1]
      <4>2. y \in Part /\ IsPart(W, B, y) /\ Follows(W, x, y)
        BY <4>0, <4>1 DEF IsCoding, x
      <4>3. /\ y.from < y.to /\ y.from = x.to /\ y.kind = "end"
            /\ y.done = x.done + (x.to - x.from)
        BY <1>6, <4>2 DEF IsPart, Follows
      <4>4. e.terminator = (y.kind = "end") /\ e.last = (y.kind = "trailer")
        <5>1. e.last \in BOOLEAN /\ e.terminator \in BOOLEAN
          BY DEF Decoder
        <5> QED  BY <2>1, <3>2, <4>3, <5>1
      <4> HIDE DEF y
      <4>5. Within(e, W, B, y, y.from)
        BY <2>1, <3>2, <4>2, <4>3, <4>4, EnterPart
      <4> QED  BY <2>1, <3>2, <4>1, <4>3, <4>5 DEF Follow, y
    <3> QED  BY <3>1, <3>2
  <2> QED  BY <1>4, <1>5, <2>1, <2>2
<1>7. CASE x.kind # "data" /\ q < x.to
  <2>1. Slice(left, W, q, q) /\ Within(e, W, B, x, q)
    <3>1. Within(d, W, B, x, p)
      BY <1>1 DEF x
    <3> QED  BY <1>2, <1>5, <1>7, <3>1, PartialTurn
  <2>2. Follow(e, W, B, parts, q)
    BY <2>1 DEF Follow, x
  <2> QED  BY <1>4, <1>5, <2>1, <2>2
<1>8. CASE x.kind # "data" /\ ~(q < x.to)
  <2>0. Within(d, W, B, x, p) /\ x.to <= q
    BY <1>1, <1>2, <1>8 DEF x
  <2>1. /\ Slice(left, W, x.to, q) /\ p < x.to
        /\ e = [TakeLine(d, Line(W, x)) EXCEPT !.line = <<>>]
    BY <1>2, <1>5, <1>8, <2>0, LineTurn
  <2>2. Follow(e, W, B, parts, x.to)
    BY <1>8, <2>0, <2>1, LineLeadsOn DEF x
  <2> QED  BY <1>2, <1>4, <1>5, <2>0, <2>1, <2>2
<1> QED  BY <1>6, <1>7, <1>8

\* A piece without bytes changes nothing.
LEMMA FilterNothing ==
    ASSUME NEW d \in Decoder
    PROVE  Filter[<<d, <<>>>>] = d
<1>0. <<>> \in Seq(Byte)
  OBVIOUS
<1>1. <<d, <<>>>> \in Loop
  BY <1>0 DEF Loop
<1>2. LoopOf(Filter, <<d, <<>>>>) = d
  BY DEF LoopOf
<1> QED  BY <1>1, <1>2, FilterUnfolds

\* A turn of the loop in Filter.
LEMMA FilterGoesOn ==
    ASSUME NEW d, NEW buf, <<d, buf>> \in Loop, ~Stops(<<d, buf>>)
    PROVE  Filter[<<d, buf>>] = Filter[Turn(d, buf)]
<1>1. LoopOf(Filter, <<d, buf>>) = Filter[Turn(d, buf)]
  BY DEF LoopOf, Stops
<1> QED  BY <1>1, FilterUnfolds

\* FilterBuf takes the decoder from any place in a coded body to any later one.
LEMMA FilterFollows ==
    ASSUME NEW W \in Seq(Byte), NEW B \in Seq(Byte), NEW parts \in Seq(Part),
           IsCoding(W, B, parts), NEW p \in Nat, NEW q \in Nat, p <= q, q <= Len(W),
           NEW buf \in Seq(Byte), Slice(buf, W, p, q),
           NEW d, Follow(d, W, B, parts, p)
    PROVE  Follow(FilterBuf(d, buf), W, B, parts, q)
<1> DEFINE Holds(k, e, b) ==
             k <= q /\ Slice(b, W, k, q) /\ Follow(e, W, B, parts, k)
                => Follow(Filter[<<e, b>>], W, B, parts, q)
           S == {n \in Nat : \A k \in Nat : \A e \in Decoder : \A b \in Seq(Byte) :
                    q - k <= n => Holds(k, e, b)}
<1>1. ASSUME NEW k \in Nat, k = q, NEW e \in Decoder, NEW b \in Seq(Byte)
      PROVE  Holds(k, e, b)
  <2>1. SUFFICES ASSUME Slice(b, W, k, q), Follow(e, W, B, parts, k)
                 PROVE  Follow(Filter[<<e, b>>], W, B, parts, q)
    OBVIOUS
  <2>2. b = <<>>
    BY <1>1, <2>1, NoElements DEF Slice
  <2> QED  BY <1>1, <2>1, <2>2, FilterNothing
<1>2. 0 \in S
  <2>1. SUFFICES ASSUME NEW k \in Nat, NEW e \in Decoder, NEW b \in Seq(Byte), q - k <= 0, k <= q
                 PROVE  Holds(k, e, b)
    <3> HIDE DEF Holds
    <3>1. ASSUME NEW k \in Nat, NEW e \in Decoder, NEW b \in Seq(Byte), ~(k <= q)
          PROVE  Holds(k, e, b)
      BY <3>1 DEF Holds
    <3> QED  BY <3>1
  <2>2. k = q
    BY <2>1
  <2> HIDE DEF Holds
  <2> QED  BY <1>1, <2>2
<1>3. ASSUME NEW n \in Nat, n \in S PROVE n + 1 \in S
  <2>1. SUFFICES ASSUME NEW k \in Nat, NEW e \in Decoder, NEW b \in Seq(Byte), q - k <= n + 1
                 PROVE  Holds(k, e, b)
    <3> HIDE DEF Holds
    <3> QED  OBVIOUS
  <2>2. CASE k = q
    <3> HIDE DEF Holds
    <3> QED  BY <1>1, <2>2
  <2>3. CASE k < q
    <3>1. SUFFICES ASSUME Slice(b, W, k, q), Follow(e, W, B, parts, k)
                   PROVE  Follow(Filter[<<e, b>>], W, B, parts, q)
      OBVIOUS
    <3>2. /\ <<e, b>> \in Loop /\ ~Stops(<<e, b>>)
          /\ \E f \in Decoder, left \in Seq(Byte), r \in Nat :
                /\ Turn(e, b) = <<f, left>> /\ k < r /\ r <= q
                /\ Slice(left, W, r, q) /\ Follow(f, W, B, parts, r)
      BY <2>3, <3>1, TurnFollows
    <3>3. PICK f \in Decoder, left \in Seq(Byte), r \in Nat :
                /\ Turn(e, b) = <<f, left>> /\ k < r /\ r <= q
                /\ Slice(left, W, r, q) /\ Follow(f, W, B, parts, r)
      BY <3>2
    <3>4. Filter[<<e, b>>] = Filter[<<f, left>>]
      BY <3>2, <3>3, FilterGoesOn
    <3>5. q - r <= n
      BY <2>1, <3>3
    <3>6. Holds(r, f, left)
      <4> HIDE DEF Holds
      <4> QED  BY <1>3, <3>5
    <3> QED  BY <3>3, <3>4, <3>6
  <2>4. CASE k > q
    BY <2>4
  <2> QED  BY <2>2, <2>3, <2>4
<1>4. Nat \subseteq S
  <2> HIDE DEF S
  <2> QED  BY <1>2, <1>3, SetInduction
<1>5. PICK n \in Nat : n = q - p
  OBVIOUS
<1>6. d \in Decoder
  BY DEF Follow, Within, Finished
<1>7. Holds(p, d, buf)
  <2>1. n \in S
    <3> HIDE DEF S
    <3> QED  BY <1>4
  <2>2. q - p <= n
    BY <1>5
  <2> HIDE DEF Holds
  <2> QED  BY <1>6, <2>1, <2>2
<1> QED  BY <1>7 DEF FilterBuf

\* A new decoder stands at the beginning.
LEMMA StartFollows ==
    ASSUME NEW W \in Seq(Byte), NEW B \in Seq(Byte), NEW parts \in Seq(Part),
           IsCoding(W, B, parts)
    PROVE  Follow(NewDecoder, W, B, parts, 0)
<1>1. 1 \in DOMAIN parts
  BY DEF IsCoding
<1> DEFINE x == parts[1]
<1>2. x \in Part /\ x.from < x.to /\ x.kind = "size" /\ x.from = 0 /\ x.done = 0
  BY <1>1 DEF IsCoding, IsFirst, IsPart
<1>3. NewDecoder \in Decoder
  BY DEF NewDecoder, Decoder, Byte
<1>4. Slice(<<>>, B, 0, 0)
  BY DEF Slice
<1> HIDE DEF x
<1>5. Within(NewDecoder, W, B, x, x.from)
  <2> DEFINE d == NewDecoder
  <2>1. /\ ~d.error /\ ~d.eof /\ d.after = 0 /\ d.line = <<>> /\ d.remaining = 0
        /\ d.terminator = FALSE /\ d.last = FALSE /\ d.out = <<>>
    BY DEF NewDecoder
  <2> HIDE DEF d
  <2>2. d.terminator = (x.kind = "end") /\ d.last = (x.kind = "trailer")
    BY <1>2, <2>1
  <2>3. d \in Decoder
    BY <1>3 DEF d
  <2>4. Within(d, W, B, x, x.from)
    BY <1>2, <1>4, <2>1, <2>2, <2>3, EnterPart
  <2> QED  BY <2>4 DEF d
<1> QED  BY <1>1, <1>2, <1>5 DEF Follow, x

\* What the decoder has put out is the beginning of the body, and all of it at
\* the end.
LEMMA FollowOut ==
    ASSUME NEW W \in Seq(Byte), NEW B \in Seq(Byte), NEW parts \in Seq(Part),
           IsCoding(W, B, parts), NEW p \in Nat, NEW d, Follow(d, W, B, parts, p)
    PROVE  /\ IsPrefix(d.out, B)
           /\ p = Len(W) => Finished(d, B)
<1>1. CASE Finished(d, B)
  BY <1>1 DEF Finished, IsPrefix
<1>2. ASSUME NEW i \in DOMAIN parts, Within(d, W, B, parts[i], p)
      PROVE  IsPrefix(d.out, B) /\ p # Len(W)
  <2>0. parts[i] \in Part /\ IsPart(W, B, parts[i])
    BY DEF IsCoding
  <2>1. PICK a \in Nat, z \in Nat, c \in Nat :
          a = parts[i].from /\ z = parts[i].to /\ c = parts[i].done
    BY <2>0 DEF Part
  <2>2. a <= p /\ p < z /\ z <= Len(W) /\ c <= Len(B) /\ d.out \in Seq(Byte)
    BY <1>2, <2>0, <2>1 DEF Within, IsPart, Decoder
  <2>3. PICK n \in Nat : Slice(d.out, B, 0, n) /\ n <= Len(B)
    <3>1. CASE parts[i].kind = "data"
      <4>1. Slice(d.out, B, 0, c + (p - a)) /\ c + (z - a) <= Len(B)
        BY <1>2, <2>0, <2>1, <3>1 DEF Within, IsPart
      <4>2. c + (p - a) \in Nat /\ c + (p - a) <= Len(B)
        BY <2>2, <4>1
      <4> QED  BY <4>1, <4>2
    <3>2. CASE parts[i].kind # "data"
      BY <1>2, <2>1, <2>2, <3>2 DEF Within
    <3> QED  BY <3>1, <3>2
  <2>4. Len(d.out) = n /\ \A j \in 1 .. n : d.out[j] = B[j]
    <3>1. Len(d.out) = n - 0 /\ \A j \in 1 .. n - 0 : d.out[j] = B[0 + j]
      BY <2>3 DEF Slice
    <3>2. n - 0 = n /\ \A j \in 1 .. n : 0 + j = j
      OBVIOUS
    <3> QED  BY <3>1, <3>2
  <2>5. IsPrefix(d.out, B)
    <3>1. n \in 0 .. Len(d.out) /\ n \in 0 .. Len(B)
      BY <2>3, <2>4
    <3>2. /\ UpTo(d.out, n) \in Seq(Byte) /\ Len(UpTo(d.out, n)) = n
          /\ \A j \in 1 .. n : UpTo(d.out, n)[j] = d.out[j]
      BY <2>2, <3>1, Parts
    <3>3. /\ UpTo(B, n) \in Seq(Byte) /\ Len(UpTo(B, n)) = n
          /\ \A j \in 1 .. n : UpTo(B, n)[j] = B[j]
      BY <3>1, Parts
    <3>4. UpTo(d.out, n) = UpTo(B, n)
      <4>1. PICK s \in Seq(Byte), t \in Seq(Byte) : s = UpTo(d.out, n) /\ t = UpTo(B, n)
        BY <3>2, <3>3
      <4>2. Len(s) = n /\ Len(t) = n /\ \A j \in 1 .. n : s[j] = t[j]
        BY <2>4, <3>2, <3>3, <4>1
      <4>3. s = t
        BY <4>2, SameSeq
      <4> QED  BY <4>1, <4>3
    <3> QED  BY <2>3, <2>4, <3>4 DEF IsPrefix, UpTo
  <2> QED  BY <2>2, <2>5
<1> QED  BY <1>1, <1>2 DEF Follow

(***************************************************************************)
(* The inductive invariant.                                                *)
(***************************************************************************)

\* All the bytes of the answer r to a request.
SentFor(r, req) == HeadOf(r) \o (IF req = "head" THEN <<>> ELSE Bytes(Responses[r].wire))
Sent == SentFor(answer, last_request_)

\* After k bytes were read: what has arrived follows them, and what the server
\* has still to send follows that, unless it closed in the middle.
FlowOf(w, t, c, F, k) ==
    \E m \in Nat :
        /\ k <= m /\ m <= Len(F)
        /\ Slice(w, F, k, m)
        /\ IF c THEN t = <<>> ELSE Slice(t, F, m, Len(F))
Flow(k) == FlowOf(wire, todo, cut, Sent, k)

WireByte == ({"start", "end"} \X Nat) \cup ({"body"} \X Byte)
Locations == {"down", "idle", "sent", "failed", "noerror"} \cup Reading

HttpTypeOK ==
    /\ pc \in Locations
    /\ last_request_ \in Request \cup {"none"}
    /\ wire \in Seq(WireByte) /\ todo \in Seq(WireByte)
    /\ closed \in BOOLEAN /\ cut \in BOOLEAN
    /\ answer \in {0} \cup DOMAIN Responses
    /\ parsed \in {0} \cup DOMAIN Responses
    /\ body \in Seq(Byte) /\ rest \in Nat

\* A server that closed sends no more, and no result is kept but when idle.
Quiet ==
    /\ closed => todo = <<>>
    /\ cut => closed
    /\ pc \in {"down", "idle"} => wire = <<>> /\ todo = <<>>
    /\ pc \notin {"idle", "failed"} => result = <<>>
    /\ pc = "failed" => result \in {<<>>, <<"error">>}

\* Nothing of the answer was read yet.
Unread ==
    pc \in {"sent", "head"} =>
        /\ answer = 0 => wire = <<>> /\ todo = <<>>
        /\ answer # 0 => Flow(0)

\* The bytes of the body so far are the first of the answer's.
Begins(b, w) == Len(b) <= Len(w) /\ \A i \in 1 .. Len(b) : b[i] = w[i]
Partly ==
    pc \in {"drain", "length"} =>
        /\ answer # 0 /\ parsed = answer /\ last_request_ # "head"
        /\ Begins(body, Responses[answer].wire)
        /\ Flow(2 + Len(body))
        /\ pc = "drain" => Responses[answer].length = -1
        /\ pc = "length" => ~Responses[answer].chunked
                            /\ Responses[answer].length = Len(body) + rest

HttpInv == HttpTypeOK /\ Quiet /\ Unread /\ Partly

(***************************************************************************)
(* The answer.                                                             *)
(***************************************************************************)

\* A response and its fields.
LEMMA ResponseFacts ==
    ASSUME NEW r \in DOMAIN Responses
    PROVE  /\ r \in Nat \ {0}
           /\ Responses[r].length \in Int /\ Responses[r].chunked \in BOOLEAN
           /\ Responses[r].body \in Seq(Byte) /\ Responses[r].wire \in Seq(Byte)
           /\ Responses[r].parts \in Seq(Part)
           /\ Responses[r].chunked => Responses[r].length = -1
           /\ ~Responses[r].chunked => /\ Responses[r].wire = Responses[r].body
                                      /\ Responses[r].length \in {-1, Len(Responses[r].body)}
<1> DEFINE R == [length : Int, chunked : BOOLEAN, body : Seq(Byte), wire : Seq(Byte),
                 parts : Seq(Part)]
<1>1. Responses \in Seq(R)
  BY ResponsesAssumption
<1>2. r \in Nat \ {0} /\ Responses[r] \in R
  <2> HIDE DEF R
  <2> QED  BY <1>1
<1>3. IF Responses[r].chunked THEN Responses[r].length = -1
      ELSE Responses[r].wire = Responses[r].body
           /\ Responses[r].length \in {-1, Len(Responses[r].body)}
  BY ResponsesAssumption
<1> QED  BY <1>2, <1>3

\* The bytes of an answer, one by one.
LEMMA SentFacts ==
    ASSUME NEW r \in DOMAIN Responses, NEW req
    PROVE  LET F == SentFor(r, req)
               w == Responses[r].wire
           IN /\ F \in Seq(WireByte)
              /\ Len(F) = IF req = "head" THEN 2 ELSE 2 + Len(w)
              /\ F[1] = <<"start", r>> /\ F[2] = <<"end", r>>
              /\ req # "head" => \A i \in 1 .. Len(w) : F[2 + i] = <<"body", w[i]>>
<1> DEFINE w == Responses[r].wire
           H == HeadOf(r)
           B == IF req = "head" THEN <<>> ELSE Bytes(w)
<1>1. w \in Seq(Byte) /\ r \in Nat
  BY ResponseFacts
<1>2. H \in Seq(WireByte) /\ Len(H) = 2 /\ H[1] = <<"start", r>> /\ H[2] = <<"end", r>>
  <2>1. <<"start", r>> \in WireByte /\ <<"end", r>> \in WireByte
    BY <1>1 DEF WireByte
  <2> QED  BY <2>1 DEF HeadOf
<1>3. B \in Seq(WireByte) /\ Len(B) = (IF req = "head" THEN 0 ELSE Len(w))
      /\ (req # "head" => \A i \in 1 .. Len(w) : B[i] = <<"body", w[i]>>)
  <2>1. CASE req = "head"
    BY <2>1
  <2>2. CASE req # "head"
    <3>1. \A i \in 1 .. Len(w) : <<"body", w[i]>> \in WireByte
      BY <1>1 DEF WireByte
    <3>2. B = [i \in 1 .. Len(w) |-> <<"body", w[i]>>]
      BY <1>1, <2>2 DEF Bytes
    <3>3. B \in Seq(WireByte) /\ Len(B) = Len(w)
      <4>1. Len(w) \in Nat
        BY <1>1
      <4> HIDE DEF B, w
      <4>2. B \in [1 .. Len(w) -> WireByte]
        BY <3>1, <3>2
      <4> QED  BY <4>1, <4>2
    <3> QED  BY <2>2, <3>2, <3>3
  <2> QED  BY <2>1, <2>2
<1>4. SentFor(r, req) = H \o B
  BY DEF SentFor
<1> HIDE DEF H, B
<1>5. /\ H \o B \in Seq(WireByte) /\ Len(H \o B) = 2 + Len(B)
      /\ (H \o B)[1] = H[1] /\ (H \o B)[2] = H[2]
      /\ \A i \in 1 .. Len(B) : (H \o B)[2 + i] = B[i]
  <2>1. /\ H \o B \in Seq(WireByte) /\ Len(H \o B) = 2 + Len(B) /\ Len(B) \in Nat
        /\ \A i \in 1 .. 2 + Len(B) : (H \o B)[i] = IF i <= 2 THEN H[i] ELSE B[i - 2]
    <3>1. /\ H \o B \in Seq(WireByte) /\ Len(H \o B) = Len(H) + Len(B)
          /\ \A i \in 1 .. Len(H) + Len(B) :
                (H \o B)[i] = IF i <= Len(H) THEN H[i] ELSE B[i - Len(H)]
      <4>1. H \in Seq(WireByte) /\ B \in Seq(WireByte)
        BY <1>2, <1>3
      <4> QED  BY <4>1, ConcatProperties
    <3>2. Len(B) \in Nat
      BY <1>3
    <3> QED  BY <1>2, <3>1, <3>2
  <2> QED  BY <2>1
<1>6. Len(w) \in Nat
  BY <1>1
<1>7. req # "head" => \A i \in 1 .. Len(w) : (H \o B)[2 + i] = <<"body", w[i]>>
  BY <1>3, <1>5
<1> QED  BY <1>2, <1>3, <1>4, <1>5, <1>6, <1>7

(***************************************************************************)
(* The flow of the bytes.                                                  *)
(***************************************************************************)

\* A byte arrives.
LEMMA FlowSend ==
    ASSUME NEW w \in Seq(WireByte), NEW t \in Seq(WireByte), t # <<>>,
           NEW F \in Seq(WireByte), NEW k \in Nat, FlowOf(w, t, FALSE, F, k)
    PROVE  FlowOf(Append(w, t[1]), Tail(t), FALSE, F, k)
<1>1. PICK m \in Nat : k <= m /\ m <= Len(F) /\ Slice(w, F, k, m) /\ Slice(t, F, m, Len(F))
  BY DEF FlowOf
<1>2. /\ Len(w) = m - k /\ Len(t) = Len(F) - m /\ Len(t) > 0 /\ Len(F) \in Nat
      /\ t[1] = F[m + 1]
  BY <1>1 DEF Slice
<1>3. Slice(Append(w, t[1]), F, k, m + 1)
  <2>1. Len(Append(w, t[1])) = m + 1 - k
    BY <1>2
  <2>2. ASSUME NEW i \in 1 .. m + 1 - k PROVE Append(w, t[1])[i] = F[k + i]
    <3>0. /\ \A j \in 1 .. Len(w) : Append(w, t[1])[j] = w[j]
          /\ Append(w, t[1])[Len(w) + 1] = t[1]
      BY <1>2, AppendProperties
    <3>1. CASE i <= m - k
      BY <1>1, <1>2, <3>0, <3>1 DEF Slice
    <3>2. CASE i > m - k
      <4>1. i = Len(w) + 1 /\ k + i = m + 1
        BY <1>2, <3>2
      <4> QED  BY <1>2, <3>0, <4>1
    <3> QED  BY <1>2, <3>1, <3>2
  <2> QED  BY <2>1, <2>2 DEF Slice
<1>4. Slice(Tail(t), F, m + 1, Len(F))
  <2>1. Len(Tail(t)) = Len(F) - (m + 1)
    BY <1>2
  <2>2. ASSUME NEW i \in 1 .. Len(F) - (m + 1) PROVE Tail(t)[i] = F[m + 1 + i]
    <3>1. i + 1 \in 1 .. Len(F) - m /\ m + (i + 1) = m + 1 + i
      BY <1>2
    <3>2. Tail(t)[i] = t[i + 1]
      BY <1>2
    <3> QED  BY <1>1, <3>1, <3>2 DEF Slice
  <2> QED  BY <2>1, <2>2 DEF Slice
<1>5. k <= m + 1 /\ m + 1 <= Len(F) /\ m + 1 \in Nat
  BY <1>1, <1>2
<1> QED  BY <1>3, <1>4, <1>5 DEF FlowOf

\* The server closes, after its last byte or before it.
LEMMA FlowClose ==
    ASSUME NEW w, NEW t \in Seq(WireByte), NEW F \in Seq(WireByte), NEW k \in Nat,
           FlowOf(w, t, FALSE, F, k)
    PROVE  FlowOf(w, <<>>, t # <<>>, F, k)
<1>1. PICK m \in Nat : k <= m /\ m <= Len(F) /\ Slice(w, F, k, m) /\ Slice(t, F, m, Len(F))
  BY DEF FlowOf
<1>2. CASE t = <<>>
  BY <1>1, <1>2 DEF FlowOf
<1>3. CASE t # <<>>
  BY <1>1, <1>3 DEF FlowOf
<1> QED  BY <1>2, <1>3

\* n bytes are read: they are the next ones of F, and the flow goes on after them.
Taken(w, t, c, F, k, n) ==
    /\ FlowOf(From(w, n), t, c, F, k + n)
    /\ k + n <= Len(F)
    /\ \A i \in 1 .. n : w[i] = F[k + i]

\* A read takes the next bytes.
LEMMA FlowRead ==
    ASSUME NEW w \in Seq(WireByte), NEW t, NEW c \in BOOLEAN, NEW F \in Seq(WireByte),
           NEW k \in Nat, FlowOf(w, t, c, F, k), NEW n \in 1 .. Len(w)
    PROVE  Taken(w, t, c, F, k, n)
<1>1. PICK m \in Nat : /\ k <= m /\ m <= Len(F) /\ Slice(w, F, k, m)
                      /\ IF c THEN t = <<>> ELSE Slice(t, F, m, Len(F))
  BY DEF FlowOf
<1>2. Len(w) = m - k /\ n \in 0 .. Len(w) /\ n \in Nat /\ Len(F) \in Nat /\ n <= m - k
  BY <1>1 DEF Slice
<1>3. Slice(From(w, n), F, k + n, m)
  BY <1>1, <1>2, SliceFrom
<1>4. k + n <= m /\ k + n <= Len(F)
  BY <1>1, <1>2
<1>5. \A i \in 1 .. n : w[i] = F[k + i]
  BY <1>1, <1>2 DEF Slice
<1>6. FlowOf(From(w, n), t, c, F, k + n)
  BY <1>1, <1>3, <1>4 DEF FlowOf
<1> QED  BY <1>4, <1>5, <1>6 DEF Taken

\* When nothing has arrived that was not read and nothing is to come, all was
\* read, unless the server closed in the middle.
LEMMA FlowEnd ==
    ASSUME NEW F \in Seq(WireByte), NEW k \in Nat, NEW c \in BOOLEAN,
           FlowOf(<<>>, <<>>, c, F, k), ~c
    PROVE  k = Len(F)
<1>1. PICK m \in Nat : Slice(<<>>, F, k, m) /\ Slice(<<>>, F, m, Len(F))
  BY DEF FlowOf
<1>2. m - k = 0 /\ Len(F) - m = 0 /\ Len(F) \in Nat
  BY <1>1 DEF Slice
<1> QED  BY <1>2

\* When all was read, nothing is on its way.
LEMMA FlowAll ==
    ASSUME NEW w \in Seq(WireByte), NEW t \in Seq(WireByte), NEW c \in BOOLEAN,
           NEW F \in Seq(WireByte), NEW k \in Nat, k = Len(F), FlowOf(w, t, c, F, k)
    PROVE  w = <<>> /\ t = <<>>
<1>1. PICK m \in Nat : /\ k <= m /\ m <= Len(F) /\ Slice(w, F, k, m)
                      /\ IF c THEN t = <<>> ELSE Slice(t, F, m, Len(F))
  BY DEF FlowOf
<1>2. Len(w) = 0 /\ (~c => Len(t) = 0)
  BY <1>1 DEF Slice
<1> QED  BY <1>1, <1>2, NoElements

(***************************************************************************)
(* One lemma per action.                                                   *)
(***************************************************************************)

\* The sequence of an answer has a type.
LEMMA AnswerFacts ==
    ASSUME HttpTypeOK, answer # 0
    PROVE  answer \in DOMAIN Responses /\ Sent \in Seq(WireByte)
<1>1. answer \in DOMAIN Responses
  BY DEF HttpTypeOK
<1> QED  BY <1>1, SentFacts DEF Sent

\* Nothing changes for the invariant.
LEMMA HttpStutter ==
    ASSUME HttpInv, UNCHANGED vars
    PROVE  HttpInv'
<1>1. UNCHANGED <<pc, last_request_, parsed, body, rest, result, requests, todo, closed,
                  answer, cut, wire>>
  BY DEF vars, client, server
<1>2. Sent' = Sent
  BY <1>1 DEF Sent
<1> QED  BY <1>1, <1>2 DEF HttpInv, HttpTypeOK, Quiet, Unread, Partly, Flow

\* A byte of the answer arrives.
LEMMA ServerSendKeeps ==
    ASSUME HttpInv, ServerSend
    PROVE  HttpInv'
<1>1. /\ todo # <<>> /\ wire' = Append(wire, todo[1]) /\ todo' = Tail(todo)
      /\ UNCHANGED <<pc, last_request_, parsed, body, rest, result, requests, closed, answer, cut>>
  BY DEF ServerSend, client
<1>2. HttpTypeOK /\ wire \in Seq(WireByte) /\ todo \in Seq(WireByte)
  BY DEF HttpInv, HttpTypeOK
<1>3. wire' \in Seq(WireByte) /\ todo' \in Seq(WireByte)
  BY <1>1, <1>2
<1>4. ~closed /\ cut = FALSE /\ pc \notin {"down", "idle"}
  BY <1>1 DEF HttpInv, Quiet, HttpTypeOK
<1>5. Sent' = Sent
  BY <1>1 DEF Sent
<1>6. ASSUME NEW k \in Nat, answer # 0, Flow(k) PROVE Flow(k)'
  <2>1. FlowOf(wire, todo, FALSE, Sent, k) /\ Sent \in Seq(WireByte)
    BY <1>2, <1>4, <1>6, AnswerFacts DEF Flow
  <2>2. FlowOf(Append(wire, todo[1]), Tail(todo), FALSE, Sent, k)
    BY <1>1, <1>2, <2>1, FlowSend
  <2> QED  BY <1>1, <1>4, <1>5, <2>2 DEF Flow
<1>7. HttpTypeOK'
  BY <1>1, <1>2, <1>3 DEF HttpTypeOK
<1>8. Quiet'
  BY <1>1, <1>4 DEF HttpInv, Quiet
<1>9. Unread'
  BY <1>1, <1>6 DEF HttpInv, Unread
<1>10. Partly'
  <2>1. 2 + Len(body) \in Nat
    BY <1>2 DEF HttpTypeOK
  <2> QED  BY <1>1, <1>6, <2>1 DEF HttpInv, Partly
<1> QED  BY <1>7, <1>8, <1>9, <1>10 DEF HttpInv

\* The server closes the connection.
LEMMA ServerCloseKeeps ==
    ASSUME HttpInv, ServerClose
    PROVE  /\ HttpInv'
           /\ pc = "idle" => cut' = cut
<1>1. /\ pc # "down" /\ ~closed /\ closed' = TRUE /\ todo' = <<>>
      /\ cut' = (cut \/ todo # <<>>)
      /\ UNCHANGED <<pc, last_request_, parsed, body, rest, result, requests, answer, wire>>
  BY DEF ServerClose, client
<1>2. HttpTypeOK /\ wire \in Seq(WireByte) /\ todo \in Seq(WireByte)
  BY DEF HttpInv, HttpTypeOK
<1>3. cut = FALSE /\ cut' = (todo # <<>>)
  BY <1>1 DEF HttpInv, Quiet, HttpTypeOK
<1>4. Sent' = Sent
  BY <1>1 DEF Sent
<1>5. ASSUME NEW k \in Nat, answer # 0, Flow(k) PROVE Flow(k)'
  <2>1. FlowOf(wire, todo, FALSE, Sent, k) /\ Sent \in Seq(WireByte)
    BY <1>2, <1>3, <1>5, AnswerFacts DEF Flow
  <2>2. FlowOf(wire, <<>>, todo # <<>>, Sent, k)
    BY <1>2, <2>1, FlowClose
  <2> QED  BY <1>1, <1>3, <1>4, <2>2 DEF Flow
<1>6. HttpTypeOK'
  BY <1>1, <1>2, <1>3 DEF HttpTypeOK
<1>7. Quiet'
  BY <1>1 DEF HttpInv, Quiet
<1>8. Unread'
  BY <1>1, <1>5 DEF HttpInv, Unread
<1>9. Partly'
  <2>1. 2 + Len(body) \in Nat
    BY <1>2 DEF HttpTypeOK
  <2> QED  BY <1>1, <1>5, <2>1 DEF HttpInv, Partly
<1>10. pc = "idle" => cut' = cut
  BY <1>3 DEF HttpInv, Quiet
<1> QED  BY <1>6, <1>7, <1>8, <1>9, <1>10 DEF HttpInv

\* Connecting, disconnecting and the failures before a response is read.
LEMMA ConnectionKeeps ==
    ASSUME HttpInv, Connect \/ Disconnect \/ SendFails \/ SendFileFails \/ ReadResponse
    PROVE  HttpInv'
<1>1. CASE Connect
  BY <1>1 DEF Connect, server, HttpInv, HttpTypeOK, Quiet, Unread, Partly, Locations, Reading
<1>2. CASE Disconnect
  <2>1. /\ pc' = "down" /\ wire' = <<>> /\ todo' = <<>> /\ closed' = FALSE
        /\ answer' = 0 /\ cut' = FALSE /\ result' = <<>>
        /\ UNCHANGED <<last_request_, parsed, body, rest>>
    BY <1>2 DEF Disconnect
  <2>2. HttpTypeOK'
    <3>1. /\ last_request_ \in Request \cup {"none"} /\ parsed \in {0} \cup DOMAIN Responses
          /\ body \in Seq(Byte) /\ rest \in Nat
      BY DEF HttpInv, HttpTypeOK
    <3>2. <<>> \in Seq(WireByte) /\ "down" \in Locations
      BY DEF Locations
    <3> QED  BY <2>1, <3>1, <3>2 DEF HttpTypeOK
  <2>3. Quiet' /\ Unread' /\ Partly'
    BY <2>1 DEF Quiet, Unread, Partly
  <2> QED  BY <2>2, <2>3 DEF HttpInv
<1>3. CASE SendFails
  BY <1>3 DEF SendFails, server, HttpInv, HttpTypeOK, Quiet, Unread, Partly, Locations, Reading
<1>4. CASE SendFileFails
  BY <1>4 DEF SendFileFails, server, HttpInv, HttpTypeOK, Quiet, Unread, Partly, Locations, Reading
<1>5. CASE ReadResponse
  <2>1. /\ pc = "sent" /\ pc' = "head"
        /\ UNCHANGED <<last_request_, parsed, body, rest, result, requests, todo, closed,
                       answer, cut, wire>>
    BY <1>5 DEF ReadResponse, server
  <2>2. Sent' = Sent
    BY <2>1 DEF Sent
  <2>3. Unread'
    BY <2>1, <2>2 DEF HttpInv, Unread, Flow
  <2> QED  BY <2>1, <2>3 DEF HttpInv, HttpTypeOK, Quiet, Partly, Locations, Reading
<1> QED  BY <1>1, <1>2, <1>3, <1>4, <1>5

\* A request is sent: the answer is still to come.
LEMMA SendRequestKeeps ==
    ASSUME HttpInv, NEW req \in Request, SendRequest(req)
    PROVE  HttpInv'
<1>1. /\ pc = "idle" /\ pc' = "sent" /\ last_request_' = req /\ result' = <<>> /\ cut' = FALSE
      /\ UNCHANGED <<wire, closed, parsed, body, rest>>
      /\ \/ /\ ~closed
            /\ \E r \in DOMAIN Responses : answer' = r /\ todo' = SentFor(r, req)
         \/ answer' = 0 /\ todo' = todo
  BY DEF SendRequest, SentFor
<1>2. wire = <<>> /\ todo = <<>>
  BY <1>1 DEF HttpInv, Quiet
<1>3. CASE answer' = 0 /\ todo' = todo
  <2>1. HttpTypeOK'
    BY <1>1, <1>3 DEF HttpInv, HttpTypeOK, Locations
  <2>2. Quiet'
    BY <1>1, <1>3 DEF HttpInv, Quiet
  <2>3. Unread' /\ Partly'
    BY <1>1, <1>2, <1>3 DEF Unread, Partly
  <2> QED  BY <2>1, <2>2, <2>3 DEF HttpInv
<1>4. ASSUME ~closed, NEW r \in DOMAIN Responses, answer' = r, todo' = SentFor(r, req)
      PROVE  HttpInv'
  <2>1. r # 0 /\ r \in Nat
    BY ResponseFacts
  <2>2. Sent' = SentFor(r, req) /\ SentFor(r, req) \in Seq(WireByte)
    BY <1>1, <1>4, SentFacts DEF Sent
  <2>3. PICK F \in Seq(WireByte) : F = SentFor(r, req)
    BY <2>2
  <2>4. FlowOf(<<>>, F, FALSE, F, 0)
    <3>1. Slice(<<>>, F, 0, 0) /\ Slice(F, F, 0, Len(F)) /\ Len(F) \in Nat
      BY DEF Slice
    <3> QED  BY <3>1 DEF FlowOf
  <2>5. Flow(0)'
    BY <1>1, <1>2, <1>4, <2>2, <2>3, <2>4 DEF Flow
  <2>6. HttpTypeOK'
    BY <1>1, <1>4, <2>2 DEF HttpInv, HttpTypeOK, Locations
  <2>7. Unread'
    BY <1>4, <2>1, <2>5 DEF Unread
  <2> QED  BY <1>1, <1>4, <2>6, <2>7 DEF HttpInv, Quiet, Partly
<1> QED  BY <1>1, <1>3, <1>4

\* What holds after a return: with an error the client will disconnect, with a
\* success nothing is left of the answer.
LEMMA ReturnKeeps ==
    ASSUME HttpInv, NEW res, Return(res), pc \in Reading,
           \/ res = <<"error">>
           \/ \E x : res = <<"ok", x>> /\ wire' = <<>> /\ todo = <<>>,
           wire' \in Seq(WireByte), UNCHANGED <<last_request_, requests, server>>
    PROVE  HttpInv'
<1>1. /\ result' = res /\ body' = <<>> /\ rest' = 0 /\ parsed' = 0
      /\ UNCHANGED <<last_request_, todo, closed, answer, cut>>
  BY DEF Return, server
<1>2. HttpTypeOK' /\ pc' \in {"idle", "failed"}
  <2>1. pc' \in {"idle", "failed"}
    BY DEF Return
  <2> QED  BY <1>1, <2>1 DEF HttpInv, HttpTypeOK, Locations
<1>3. CASE res = <<"error">>
  <2>1. pc' = "failed"
    BY <1>3 DEF Return
  <2> QED  BY <1>1, <1>2, <1>3, <2>1 DEF HttpInv, Quiet, Unread, Partly
<1>4. CASE \E x : res = <<"ok", x>> /\ wire' = <<>> /\ todo = <<>>
  <2>1. pc' = "idle"
    BY <1>4 DEF Return
  <2> QED  BY <1>1, <1>2, <1>4, <2>1 DEF HttpInv, Quiet, Unread, Partly
<1> QED  BY <1>3, <1>4

\* The ends of the stream where the code gives up.
LEMMA FailuresKeep ==
    ASSUME HttpInv, HeadFails \/ HeadEof \/ LengthEof
    PROVE  HttpInv'
<1>1. CASE HeadFails \/ LengthEof
  <2>1. Return(<<"error">>) /\ pc \in Reading /\ UNCHANGED <<last_request_, requests, server, wire>>
    BY <1>1 DEF HeadFails, LengthEof, Reading
  <2>2. wire' \in Seq(WireByte)
    BY <2>1 DEF HttpInv, HttpTypeOK
  <2> QED  BY <2>1, <2>2, ReturnKeeps
<1>2. CASE HeadEof
  BY <1>2 DEF HeadEof, Die, server, HttpInv, HttpTypeOK, Quiet, Unread, Partly, Locations, Reading
<1> QED  BY <1>1, <1>2

(***************************************************************************)
(* ReadResponse.                                                           *)
(***************************************************************************)

\* The bytes w follow the head in F, and s is n of the bytes of F, after the head
\* and j more.
Carries(F, w) == \A i \in 1 .. Len(w) : F[2 + i] = <<"body", w[i]>>
PieceOf(s, F, j, n) ==
    /\ Len(s) = n /\ DOMAIN s = 1 .. n
    /\ \A i \in 1 .. n : s[i] = F[2 + j + i]

\* The n bytes b of w behind the first j.
Cuts(b, w, j, n) ==
    /\ b \in Seq(Byte) /\ Len(b) = n
    /\ \A i \in 1 .. n : b[i] = w[j + i]

\* The bytes of the body among those of the answer.
LEMMA ContentFacts ==
    ASSUME NEW w \in Seq(Byte), NEW F, Carries(F, w),
           NEW j \in Nat, NEW n \in Nat, j + n <= Len(w), NEW s, PieceOf(s, F, j, n)
    PROVE  Cuts(Content(s), w, j, n)
<1>1. Content(s) = [i \in 1 .. n |-> s[i][2]]
  BY DEF Content, PieceOf
<1>2. ASSUME NEW i \in 1 .. n PROVE s[i][2] = w[j + i] /\ w[j + i] \in Byte
  <2>1. j + i \in 1 .. Len(w) /\ 2 + j + i = 2 + (j + i)
    OBVIOUS
  <2>2. s[i] = <<"body", w[j + i]>>
    BY <2>1 DEF Carries, PieceOf
  <2> QED  BY <2>1, <2>2
<1>3. Content(s) \in [1 .. n -> Byte]
  BY <1>1, <1>2
<1>4. Content(s) \in Seq(Byte) /\ Len(Content(s)) = n
  BY <1>3
<1> QED  BY <1>1, <1>2, <1>4 DEF Cuts

\* A beginning of the body that is followed by n bytes more.
LEMMA BeginsMore ==
    ASSUME NEW w \in Seq(Byte), NEW b \in Seq(Byte), Begins(b, w), NEW c \in Seq(Byte),
           Len(b) + Len(c) <= Len(w), \A i \in 1 .. Len(c) : c[i] = w[Len(b) + i]
    PROVE  b \o c \in Seq(Byte) /\ Len(b \o c) = Len(b) + Len(c) /\ Begins(b \o c, w)
<1>1. /\ b \o c \in Seq(Byte) /\ Len(b \o c) = Len(b) + Len(c)
      /\ \A i \in 1 .. Len(b) + Len(c) : (b \o c)[i] = IF i <= Len(b) THEN b[i] ELSE c[i - Len(b)]
  BY ConcatProperties
<1>2. Len(b) \in Nat /\ Len(c) \in Nat
  OBVIOUS
<1>3. ASSUME NEW i \in 1 .. Len(b) + Len(c) PROVE (b \o c)[i] = w[i]
  <2>1. CASE i <= Len(b)
    BY <1>1, <1>2, <2>1 DEF Begins
  <2>2. CASE i > Len(b)
    <3>1. i - Len(b) \in 1 .. Len(c) /\ Len(b) + (i - Len(b)) = i
      BY <1>2, <2>2
    <3> QED  BY <1>1, <2>2, <3>1
  <2> QED  BY <1>2, <2>1, <2>2
<1> QED  BY <1>1, <1>3 DEF Begins

\* A beginning of the body that is as long as the body.
LEMMA BeginsAll ==
    ASSUME NEW w \in Seq(Byte), NEW b \in Seq(Byte), Begins(b, w), Len(b) = Len(w)
    PROVE  b = w
  BY SameSeq DEF Begins

\* The reads of the body: the next n bytes of the answer are added to it.
LEMMA BodyReads ==
    ASSUME HttpInv, pc \in {"drain", "length"}, NEW n \in 1 .. Len(wire), wire' = From(wire, n),
           body' = body \o Content(UpTo(wire, n)), UNCHANGED <<last_request_, server>>
    PROVE  /\ body' \in Seq(Byte) /\ Len(body') = Len(body) + n /\ wire' \in Seq(WireByte)
           /\ Begins(body', Responses[answer].wire)
           /\ Flow(2 + Len(body))'
<1> DEFINE w == Responses[answer].wire
           piece == UpTo(wire, n)
<1>1. /\ answer \in DOMAIN Responses /\ answer # 0 /\ last_request_ # "head" /\ Begins(body, w)
      /\ Flow(2 + Len(body)) /\ Sent \in Seq(WireByte)
      /\ body \in Seq(Byte) /\ wire \in Seq(WireByte) /\ cut \in BOOLEAN
  BY AnswerFacts DEF HttpInv, HttpTypeOK, Partly
<1>2. w \in Seq(Byte) /\ Len(Sent) = 2 + Len(w)
      /\ \A i \in 1 .. Len(w) : Sent[2 + i] = <<"body", w[i]>>
  BY <1>1, ResponseFacts, SentFacts DEF Sent
<1>3. n \in Nat /\ n \in 0 .. Len(wire) /\ Len(body) \in Nat /\ 2 + Len(body) \in Nat /\ Len(w) \in Nat
  BY <1>1, <1>2
<1>4. /\ FlowOf(From(wire, n), todo, cut, Sent, 2 + Len(body) + n)
      /\ 2 + Len(body) + n <= Len(Sent)
      /\ \A i \in 1 .. n : wire[i] = Sent[2 + Len(body) + i]
  <2>1. PICK k \in Nat, F \in Seq(WireByte) : k = 2 + Len(body) /\ F = Sent
    BY <1>1, <1>3
  <2>2. FlowOf(wire, todo, cut, F, k)
    BY <1>1, <2>1 DEF Flow
  <2>3. /\ FlowOf(From(wire, n), todo, cut, F, k + n) /\ k + n <= Len(F)
        /\ \A i \in 1 .. n : wire[i] = F[k + i]
    <3>1. wire \in Seq(WireByte) /\ cut \in BOOLEAN
      BY <1>1
    <3>2. Taken(wire, todo, cut, F, k, n)
      BY <2>2, <3>1, FlowRead
    <3> QED  BY <3>2 DEF Taken
  <2> QED  BY <2>1, <2>3
<1>5. /\ piece \in Seq(WireByte) /\ Len(piece) = n /\ DOMAIN piece = 1 .. n
      /\ \A i \in 1 .. n : piece[i] = Sent[2 + Len(body) + i]
      /\ From(wire, n) \in Seq(WireByte)
  <2>1. /\ piece \in Seq(WireByte) /\ Len(piece) = n /\ From(wire, n) \in Seq(WireByte)
        /\ \A i \in 1 .. n : piece[i] = wire[i]
    BY <1>1, <1>3, Parts
  <2> HIDE DEF piece
  <2>2. DOMAIN piece = 1 .. n
    BY <2>1
  <2>3. \A i \in 1 .. n : piece[i] = Sent[2 + Len(body) + i]
    BY <1>4, <2>1
  <2> QED  BY <2>1, <2>2, <2>3
<1> HIDE DEF w, piece
<1>6. Len(body) + n <= Len(w)
  BY <1>2, <1>3, <1>4
<1>7. /\ Content(piece) \in Seq(Byte) /\ Len(Content(piece)) = n
      /\ \A i \in 1 .. n : Content(piece)[i] = w[Len(body) + i]
  <2>1. PICK j \in Nat, F \in {Sent} : j = Len(body) /\ F = Sent
    BY <1>3
  <2>2. Carries(F, w) /\ PieceOf(piece, F, j, n) /\ j + n <= Len(w)
    BY <1>2, <1>5, <1>6, <2>1 DEF Carries, PieceOf
  <2>3. Cuts(Content(piece), w, j, n)
    <3>1. w \in Seq(Byte) /\ n \in Nat
      BY <1>2, <1>3
    <3> QED  BY <2>2, <3>1, ContentFacts
  <2> QED  BY <2>1, <2>3 DEF Cuts
<1>8. /\ body \o Content(piece) \in Seq(Byte)
      /\ Len(body \o Content(piece)) = Len(body) + n
      /\ Begins(body \o Content(piece), w)
  BY <1>1, <1>2, <1>6, <1>7, BeginsMore
<1>9. body' = body \o Content(piece) /\ answer' = answer
  BY DEF piece, server
<1>10. Flow(2 + Len(body))'
  <2>1. Sent' = Sent /\ todo' = todo /\ cut' = cut
    BY DEF Sent, server
  <2>2. Len(body') = Len(body) + n
    BY <1>8, <1>9
  <2>3. (2 + Len(body))' = 2 + Len(body) + n
    BY <1>3, <2>2
  <2> QED  BY <1>4, <2>1, <2>3 DEF Flow
<1> QED  BY <1>5, <1>8, <1>9, <1>10 DEF w

\* The reads up to the end of the stream and up to the Content-Length.
LEMMA BodyReadsKeep ==
    ASSUME HttpInv, NEW n \in 1 .. Len(wire), ReadDrain(n) \/ ReadLength(n)
    PROVE  HttpInv'
<1>1. /\ pc \in {"drain", "length"} /\ wire' = From(wire, n)
      /\ body' = body \o Content(UpTo(wire, n))
      /\ UNCHANGED <<pc, last_request_, parsed, result, server>>
      /\ \/ pc = "drain" /\ rest' = rest
         \/ pc = "length" /\ n <= rest /\ rest' = rest - n
  BY DEF ReadDrain, ReadLength, Read
<1>2. /\ body' \in Seq(Byte) /\ Len(body') = Len(body) + n /\ wire' \in Seq(WireByte)
      /\ Begins(body', Responses[answer].wire)
      /\ Flow(2 + Len(body))'
  BY <1>1, BodyReads
<1>3. UNCHANGED <<todo, closed, answer, cut>>
  BY <1>1 DEF server
<1>4. n \in Nat /\ rest \in Nat /\ Len(body) \in Nat
  <2>1. body \in Seq(Byte) /\ wire \in Seq(WireByte) /\ rest \in Nat
    BY DEF HttpInv, HttpTypeOK
  <2> QED  BY <2>1
<1>5. HttpTypeOK'
  BY <1>1, <1>2, <1>3, <1>4 DEF HttpInv, HttpTypeOK
<1>6. Quiet' /\ Unread'
  BY <1>1, <1>3 DEF HttpInv, Quiet, Unread
<1>7. Partly'
  <2>1. CASE pc = "drain"
    BY <1>1, <1>2, <1>3, <2>1 DEF HttpInv, Partly
  <2>2. CASE pc = "length"
    <3>1. Responses[answer].length = Len(body) + rest
      BY <2>2 DEF HttpInv, Partly
    <3>2. Responses[answer].length = Len(body') + rest'
      BY <1>1, <1>2, <1>4, <2>2, <3>1
    <3> QED  BY <1>1, <1>2, <1>3, <2>2, <3>2 DEF HttpInv, Partly
  <2> QED  BY <1>1, <2>1, <2>2
<1> QED  BY <1>5, <1>6, <1>7 DEF HttpInv

\* What ReadResponse returns when it succeeds.
Success(x) ==
    /\ pc' = "idle" /\ result' = <<"ok", x>>
    /\ UNCHANGED <<last_request_, answer, cut>>

\* All of the Content-Length was read.
LEMMA LengthDoneKeeps ==
    ASSUME HttpInv, LengthDone
    PROVE  HttpInv' /\ last_request_ # "head" /\ answer # 0 /\ Success(Responses[answer].body)
<1>1. /\ pc = "length" /\ rest = 0 /\ Return(<<"ok", body>>)
      /\ UNCHANGED <<last_request_, requests, server, wire>>
  BY DEF LengthDone
<1> DEFINE r == Responses[answer]
<1>2. /\ answer # 0 /\ answer \in DOMAIN Responses /\ last_request_ # "head"
      /\ Begins(body, r.wire) /\ Flow(2 + Len(body)) /\ ~r.chunked /\ r.length = Len(body) + rest
      /\ body \in Seq(Byte) /\ wire \in Seq(WireByte) /\ todo \in Seq(WireByte) /\ cut \in BOOLEAN
      /\ Sent \in Seq(WireByte)
  BY <1>1, AnswerFacts DEF HttpInv, HttpTypeOK, Partly
<1>3. r.wire \in Seq(Byte) /\ r.wire = r.body /\ r.length \in {-1, Len(r.body)}
  BY <1>2, ResponseFacts
<1>4. Len(Sent) = 2 + Len(r.wire)
  BY <1>2, SentFacts DEF Sent
<1> HIDE DEF r
<1>5. Len(body) = Len(r.wire) /\ Len(body) \in Nat
  BY <1>1, <1>2, <1>3
<1>6. body = r.body
  BY <1>2, <1>3, <1>5, BeginsAll
<1>7. wire = <<>> /\ todo = <<>>
  <2>1. 2 + Len(body) = Len(Sent) /\ 2 + Len(body) \in Nat
    BY <1>4, <1>5
  <2> QED  BY <1>2, <2>1, FlowAll DEF Flow
<1>8. HttpInv'
  BY <1>1, <1>2, <1>7, ReturnKeeps DEF Reading
<1> QED  BY <1>1, <1>2, <1>6, <1>8 DEF Return, Success, server, r

\* The end of the stream: all that was sent is there, or the beginning of it.
LEMMA DrainEofKeeps ==
    ASSUME HttpInv, DrainEof
    PROVE  /\ HttpInv' /\ last_request_ # "head" /\ answer \in DOMAIN Responses
           /\ Begins(body, Responses[answer].wire) /\ body \in Seq(Byte)
           /\ ~cut => body = Responses[answer].wire
           /\ Responses[answer].length = -1
           /\ \/ pc' = "failed"
              \/ Responses[answer].chunked /\ Success(FilterBuf(NewDecoder, body).out)
              \/ ~Responses[answer].chunked /\ Success(body)
<1> DEFINE r == Responses[answer]
           dec == FilterBuf(NewDecoder, body)
           res == IF r.chunked THEN Decoded(dec) ELSE <<"ok", body>>
<1>1. /\ pc = "drain" /\ wire = <<>> /\ closed /\ UNCHANGED <<last_request_, requests, server, wire>>
      /\ \E d \in {FilterBuf(NewDecoder, body)} :
          Return(IF Responses[parsed].chunked THEN Decoded(d) ELSE <<"ok", body>>)
  BY DEF DrainEof, AtEof
<1>2. /\ answer # 0 /\ answer \in DOMAIN Responses /\ last_request_ # "head" /\ parsed = answer
      /\ Begins(body, r.wire) /\ Flow(2 + Len(body)) /\ r.length = -1
      /\ body \in Seq(Byte) /\ wire \in Seq(WireByte) /\ todo = <<>> /\ cut \in BOOLEAN
      /\ Sent \in Seq(WireByte)
  BY <1>1, AnswerFacts DEF HttpInv, HttpTypeOK, Partly, Quiet
<1>3. Return(res)
  BY <1>1, <1>2
<1>4. res = <<"error">> \/ \E x : res = <<"ok", x>>
  BY DEF Decoded
<1>5. HttpInv'
  <2> HIDE DEF res
  <2> QED  BY <1>1, <1>2, <1>3, <1>4, ReturnKeeps DEF Reading
<1>6. ASSUME ~cut PROVE body = r.wire
  <2>1. r.wire \in Seq(Byte) /\ Len(Sent) = 2 + Len(r.wire)
    BY <1>2, ResponseFacts, SentFacts DEF Sent
  <2>2. Len(body) \in Nat /\ 2 + Len(body) \in Nat /\ Len(r.wire) \in Nat
    BY <1>2, <2>1
  <2>3. 2 + Len(body) = Len(Sent)
    BY <1>1, <1>2, <1>6, <2>2, FlowEnd DEF Flow
  <2>4. Len(body) = Len(r.wire)
    BY <2>1, <2>2, <2>3
  <2> HIDE DEF r
  <2> QED  BY <1>2, <2>1, <2>4, BeginsAll
<1>7. UNCHANGED <<last_request_, answer, cut>>
  BY <1>1 DEF server
<1>8. \/ pc' = "failed"
      \/ r.chunked /\ Success(dec.out)
      \/ ~r.chunked /\ Success(body)
  <2>1. CASE ~r.chunked
    BY <1>3, <1>7, <2>1 DEF Return, Success
  <2>2. CASE r.chunked /\ Decoded(dec) = <<"error">>
    <3>1. Return(<<"error">>)
      BY <1>3, <2>2
    <3> QED  BY <3>1 DEF Return
  <2>3. CASE r.chunked /\ Decoded(dec) = <<"ok", dec.out>>
    <3>1. Return(<<"ok", dec.out>>)
      BY <1>3, <2>3
    <3> QED  BY <1>7, <2>3, <3>1 DEF Return, Success
  <2>4. Decoded(dec) = <<"error">> \/ Decoded(dec) = <<"ok", dec.out>>
    BY DEF Decoded
  <2> QED  BY <2>1, <2>2, <2>3, <2>4
<1> QED  BY <1>2, <1>5, <1>6, <1>8

\* After the head was parsed, with the bytes b that came with it: the body is
\* there, or it is read on from where b ends.
LEMMA AfterHeadKeeps ==
    ASSUME HttpInv, pc = "head", answer # 0, NEW b \in Seq(Byte),
           last_request_ = "head" => b = <<>>,
           last_request_ # "head" => Begins(b, Responses[answer].wire),
           wire' \in Seq(WireByte), FlowOf(wire', todo, cut, Sent, 2 + Len(b)),
           AfterHead(answer, b), UNCHANGED <<last_request_, requests, server>>
    PROVE  /\ HttpInv'
           /\ pc' = "idle" => Success(IF last_request_ = "head" THEN <<>>
                                      ELSE Responses[answer].body)
<1> DEFINE r == Responses[answer]
           full == Len(b) = r.length
           left == NotParsed(answer, b)
<1>1. /\ answer \in DOMAIN Responses /\ Sent \in Seq(WireByte) /\ todo \in Seq(WireByte)
      /\ cut \in BOOLEAN /\ result = <<>> /\ rest \in Nat
  BY AnswerFacts DEF HttpInv, HttpTypeOK, Quiet
<1>2. /\ r.length \in Int /\ r.chunked \in BOOLEAN /\ r.body \in Seq(Byte) /\ r.wire \in Seq(Byte)
      /\ r.chunked => r.length = -1
      /\ ~r.chunked => r.wire = r.body /\ r.length \in {-1, Len(r.body)}
  BY <1>1, ResponseFacts
<1>3. Len(Sent) = IF last_request_ = "head" THEN 2 ELSE 2 + Len(r.wire)
  BY <1>1, SentFacts DEF Sent
<1>4. Len(b) \in Nat /\ 2 + Len(b) \in Nat /\ Len(r.wire) \in Nat
  BY <1>2
<1>5. left = IF full THEN 0 ELSE Len(b)
  BY DEF NotParsed
<1>6. UNCHANGED <<todo, closed, answer, cut>>
  BY DEF server
<1>7. ASSUME 2 + Len(b) = Len(Sent) PROVE wire' = <<>> /\ todo = <<>>
  BY <1>1, <1>4, <1>7, FlowAll
<1>8. ASSUME NEW x, Return(<<"ok", x>>), wire' = <<>>, todo = <<>>,
             x = IF last_request_ = "head" THEN <<>> ELSE r.body
      PROVE  /\ HttpInv'
             /\ pc' = "idle" => Success(IF last_request_ = "head" THEN <<>> ELSE r.body)
  <2>1. HttpInv'
    BY <1>8, ReturnKeeps DEF Reading
  <2> QED  BY <1>6, <1>8, <2>1 DEF Return, Success
<1>9. CASE last_request_ = "head"
  <2>1. Len(b) = 0 /\ b = <<>>
    BY <1>9
  <2>2. Return(<<"ok", <<>>>>)
    BY <1>9, <2>1 DEF AfterHead, NoBody
  <2> QED  BY <1>3, <1>4, <1>7, <1>8, <1>9, <2>1, <2>2
<1>10. CASE last_request_ # "head" /\ full /\ b # <<>>
  <2>1. Return(<<"ok", b>>)
    BY <1>5, <1>10 DEF AfterHead, NoBody
  <2>2. ~r.chunked /\ r.length = Len(r.wire) /\ r.wire = r.body
    BY <1>2, <1>4, <1>10
  <2>3. b = r.body
    <3> HIDE DEF r
    <3> QED  BY <1>2, <1>10, <2>2, BeginsAll DEF r
  <2> QED  BY <1>3, <1>4, <1>7, <1>8, <1>10, <2>1, <2>2, <2>3
<1>11. ASSUME last_request_ # "head", ~(full /\ b # <<>>) PROVE left = Len(b) /\ From(b, Len(b) - left) = b
  <2>1. left = Len(b)
    BY <1>4, <1>5, <1>11
  <2>2. Len(b) - left = 0 /\ 0 \in 0 .. Len(b)
    BY <1>4, <2>1
  <2>3. /\ From(b, 0) \in Seq(Byte) /\ Len(From(b, 0)) = Len(b)
        /\ \A i \in 1 .. Len(b) : From(b, 0)[i] = b[i]
    BY <1>4, <2>2, Parts
  <2>4. From(b, 0) = b
    BY <2>3, SameSeq
  <2> QED  BY <2>1, <2>2, <2>4
<1>12. ASSUME last_request_ # "head", pc' \in {"drain", "length"}, parsed' = answer, body' = b,
              rest' \in Nat, result' = result,
              pc' = "drain" => r.length = -1,
              pc' = "length" => ~r.chunked /\ r.length = Len(b) + rest'
       PROVE  HttpInv'
  <2>1. Sent' = Sent
    BY <1>6 DEF Sent
  <2>2. (2 + Len(body))' = 2 + Len(b)
    BY <1>12
  <2>3. Flow(2 + Len(body))'
    BY <1>6, <2>1, <2>2 DEF Flow
  <2>4. HttpTypeOK'
    BY <1>1, <1>6, <1>12 DEF HttpInv, HttpTypeOK, Locations, Reading
  <2>5. Quiet' /\ Unread'
    BY <1>1, <1>6, <1>12 DEF HttpInv, Quiet, Unread
  <2>6. Partly'
    BY <1>6, <1>12, <2>3 DEF Partly
  <2> QED  BY <2>4, <2>5, <2>6 DEF HttpInv
<1>13. CASE last_request_ # "head" /\ ~(full /\ b # <<>>) /\ (r.chunked \/ r.length = -1)
  <2>1. pc' = "drain" /\ parsed' = answer /\ body' = b /\ rest' = rest /\ result' = result
    BY <1>11, <1>13 DEF AfterHead, NoBody
  <2> QED  BY <1>1, <1>2, <1>12, <1>13, <2>1
<1>14. CASE last_request_ # "head" /\ ~(full /\ b # <<>>) /\ ~r.chunked /\ r.length # -1
  <2>1. r.length = Len(r.body) /\ r.wire = r.body /\ Len(b) <= r.length
    BY <1>2, <1>14 DEF Begins
  <2>2. CASE r.length = 0
    <3>1. Return(<<"ok", <<>>>>)
      BY <1>14, <2>2 DEF AfterHead, NoBody
    <3>2. Len(b) = 0 /\ r.body = <<>>
      <4>1. Len(b) = 0 /\ Len(r.body) = 0
        BY <1>4, <2>1, <2>2
      <4>2. r.body \in Seq(Byte)
        BY <1>2
      <4> QED  BY <4>1, <4>2, NoElements
    <3> QED  BY <1>3, <1>4, <1>7, <1>8, <1>14, <2>1, <2>2, <3>1, <3>2
  <2>3. CASE r.length # 0
    <3>1. /\ parsed' = answer /\ body' = b /\ rest' = r.length - Len(b) /\ result' = result
          /\ pc' = IF Len(b) > r.length THEN "overflow" ELSE "length"
      BY <1>11, <1>14, <2>3 DEF AfterHead, NoBody
    <3>2. pc' = "length" /\ rest' \in Nat /\ r.length = Len(b) + rest'
      BY <1>2, <1>4, <2>1, <3>1
    <3> QED  BY <1>12, <1>14, <3>1, <3>2
  <2> QED  BY <2>2, <2>3
<1> QED  BY <1>9, <1>10, <1>13, <1>14

\* Where the head ends: not in a single byte, else after the second one.
EndOf(s) == SelectInSeq(s, LAMBDA x : x[1] = "end")
LEMMA HeadEnds ==
    ASSUME NEW n \in Nat \ {0}, NEW s, Len(s) = n, NEW r, s[1] = <<"start", r>>,
           n >= 2 => s[2] = <<"end", r>>
    PROVE  EndOf(s) = IF n = 1 THEN 0 ELSE 2
<1> DEFINE I == {i \in 1 .. Len(s) : s[i][1] = "end"}
<1>1. EndOf(s) = IF I # {} THEN Min(I) ELSE 0
  BY DEF EndOf, SelectInSeq
<1>2. 1 \notin I
  OBVIOUS
<1>3. CASE n = 1
  <2>1. I = {}
    BY <1>2, <1>3
  <2> QED  BY <1>1, <1>3, <2>1
<1>4. CASE n # 1
  <2>1. 2 \in I /\ \A y \in I : y \in Nat /\ 2 <= y
    BY <1>2, <1>4
  <2> HIDE DEF I
  <2>2. Min(I) \in I /\ \A y \in I : Min(I) <= y
    BY <2>1 DEF Min
  <2>3. Min(I) = 2
    BY <2>1, <2>2
  <2> QED  BY <1>1, <1>4, <2>1, <2>3
<1> QED  BY <1>3, <1>4

\* The first read of ReadResponse.
LEMMA ReadHeadKeeps ==
    ASSUME HttpInv, NEW n \in 1 .. Len(wire), ReadHead(n)
    PROVE  /\ HttpInv'
           /\ pc' = "idle" => /\ answer # 0
                             /\ Success(IF last_request_ = "head" THEN <<>>
                                        ELSE Responses[answer].body)
<1> DEFINE w == Responses[answer].wire
           piece == UpTo(wire, n)
           b == Content(From(piece, 2))
<1>1. /\ pc = "head" /\ wire' = From(wire, n) /\ UNCHANGED <<last_request_, requests, server>>
      /\ IF EndOf(piece) = 0 \/ piece[1][1] # "start"
         THEN Return(<<"error">>)
         ELSE AfterHead(piece[1][2], Content(From(piece, EndOf(piece))))
  BY DEF ReadHead, Read, EndOf
<1>2. /\ wire \in Seq(WireByte) /\ wire # <<>> /\ cut \in BOOLEAN
  BY DEF HttpInv, HttpTypeOK
<1>3. answer # 0 /\ Flow(0)
  BY <1>1, <1>2 DEF HttpInv, Unread
<1>4. answer \in DOMAIN Responses /\ Sent \in Seq(WireByte)
  BY <1>3, AnswerFacts DEF HttpInv
<1>5. /\ w \in Seq(Byte) /\ Len(Sent) = IF last_request_ = "head" THEN 2 ELSE 2 + Len(w)
      /\ Sent[1] = <<"start", answer>> /\ Sent[2] = <<"end", answer>>
      /\ last_request_ # "head" => Carries(Sent, w)
  <2>1. w \in Seq(Byte)
    BY <1>4, ResponseFacts
  <2>2. /\ Len(Sent) = IF last_request_ = "head" THEN 2 ELSE 2 + Len(w)
        /\ Sent[1] = <<"start", answer>> /\ Sent[2] = <<"end", answer>>
        /\ last_request_ # "head" => \A i \in 1 .. Len(w) : Sent[2 + i] = <<"body", w[i]>>
    BY <1>4, SentFacts DEF Sent
  <2> QED  BY <2>1, <2>2 DEF Carries
<1>6. n \in Nat \ {0} /\ n \in 0 .. Len(wire) /\ Len(w) \in Nat
  BY <1>2, <1>5
<1>7. /\ FlowOf(From(wire, n), todo, cut, Sent, n) /\ n <= Len(Sent)
      /\ \A i \in 1 .. n : wire[i] = Sent[i]
  <2>1. FlowOf(wire, todo, cut, Sent, 0)
    BY <1>3 DEF Flow
  <2>2. PICK k \in Nat, F \in Seq(WireByte) : k = 0 /\ F = Sent
    BY <1>4
  <2>3. /\ FlowOf(From(wire, n), todo, cut, F, k + n) /\ k + n <= Len(F)
        /\ \A i \in 1 .. n : wire[i] = F[k + i]
    <3>1. wire \in Seq(WireByte) /\ cut \in BOOLEAN
      BY <1>2
    <3>2. FlowOf(wire, todo, cut, F, k)
      BY <2>1, <2>2
    <3>3. Taken(wire, todo, cut, F, k, n)
      BY <3>1, <3>2, FlowRead
    <3> QED  BY <3>3 DEF Taken
  <2>4. k + n = n /\ F = Sent /\ \A i \in 1 .. n : k + i = i
    BY <1>6, <2>2
  <2> QED  BY <2>3, <2>4
<1>8. /\ From(wire, n) \in Seq(WireByte) /\ piece \in Seq(WireByte) /\ Len(piece) = n
      /\ \A i \in 1 .. n : piece[i] = Sent[i]
  <2>1. /\ From(wire, n) \in Seq(WireByte) /\ piece \in Seq(WireByte) /\ Len(piece) = n
        /\ \A i \in 1 .. n : piece[i] = wire[i]
    BY <1>2, <1>6, Parts
  <2> QED  BY <1>7, <2>1
<1> HIDE DEF w, piece
<1>9. EndOf(piece) = IF n = 1 THEN 0 ELSE 2
  <2>1. Len(piece) = n /\ piece[1] = <<"start", answer>> /\ (n >= 2 => piece[2] = <<"end", answer>>)
    BY <1>5, <1>6, <1>8
  <2> QED  BY <1>6, <2>1, HeadEnds
<1>10. CASE n = 1
  <2>1. Return(<<"error">>)
    BY <1>1, <1>9, <1>10
  <2>2. HttpInv'
    BY <1>1, <1>8, <2>1, ReturnKeeps DEF Reading
  <2> QED  BY <2>1, <2>2 DEF Return
<1>11. CASE n # 1
  <2>1. piece[1] = <<"start", answer>> /\ n >= 2
    BY <1>5, <1>6, <1>8, <1>11
  <2>2. AfterHead(answer, b)
    BY <1>1, <1>9, <1>11, <2>1
  <2>3. PICK m \in Nat : m = n - 2 /\ n = 2 + m
    BY <1>6, <2>1
  <2>4. /\ From(piece, 2) \in Seq(WireByte) /\ Len(From(piece, 2)) = m
        /\ \A i \in 1 .. m : From(piece, 2)[i] = piece[2 + i]
    <3>1. PICK k \in 0 .. Len(piece) : k = 2 /\ Len(piece) - k = m
      BY <1>8, <2>1, <2>3
    <3>2. piece \in Seq(WireByte)
      BY <1>8
    <3>3. /\ From(piece, k) \in Seq(WireByte) /\ Len(From(piece, k)) = Len(piece) - k
          /\ \A i \in 1 .. Len(piece) - k : From(piece, k)[i] = piece[k + i]
      BY <3>2, Parts
    <3> QED  BY <3>1, <3>3
  <2>5. PieceOf(From(piece, 2), Sent, 0, m)
    <3>1. DOMAIN From(piece, 2) = 1 .. m
      BY <2>4
    <3>2. \A i \in 1 .. m : 2 + i \in 1 .. n /\ 2 + 0 + i = 2 + i
      BY <2>3
    <3> QED  BY <1>8, <2>4, <3>1, <3>2 DEF PieceOf
  <2>6. CASE last_request_ # "head"
    <3>1. 0 + m <= Len(w) /\ 0 \in Nat
      BY <1>5, <1>6, <1>7, <2>3, <2>6
    <3>2. b \in Seq(Byte) /\ Len(b) = m /\ \A i \in 1 .. m : b[i] = w[0 + i]
      <4>1. w \in Seq(Byte) /\ Carries(Sent, w)
        BY <1>5, <2>6
      <4>2. PICK s, j : s = From(piece, 2) /\ j = 0
        OBVIOUS
      <4>3. PieceOf(s, Sent, j, m) /\ j \in Nat /\ j + m <= Len(w)
        BY <2>5, <3>1, <4>2
      <4>4. Cuts(Content(s), w, j, m)
        <5> HIDE DEF b, w
        <5>1. PICK F : F = Sent
          OBVIOUS
        <5>2. w \in Seq(Byte) /\ Carries(F, w) /\ PieceOf(s, F, j, m)
          BY <4>1, <4>3, <5>1
        <5>3. j \in Nat /\ m \in Nat /\ j + m <= Len(w)
          BY <4>3
        <5> QED  BY <5>2, <5>3, ContentFacts
      <4> QED  BY <4>2, <4>4 DEF Cuts
    <3> HIDE DEF b
    <3>3. Begins(b, w)
      BY <3>1, <3>2 DEF Begins
    <3>4. FlowOf(wire', todo, cut, Sent, 2 + Len(b))
      BY <1>1, <1>7, <2>3, <3>2
    <3> QED  BY <1>1, <1>3, <1>8, <2>2, <2>6, <3>2, <3>3, <3>4, AfterHeadKeeps DEF w
  <2>7. CASE last_request_ = "head"
    <3>1. m = 0
      BY <1>5, <1>6, <1>7, <2>3, <2>7
    <3>2. From(piece, 2) = <<>>
      BY <2>4, <3>1, NoElements
    <3>3. b = <<>>
      BY <3>2 DEF Content
    <3> HIDE DEF b
    <3>4. b \in Seq(Byte) /\ Len(b) = 0
      BY <3>3
    <3>5. FlowOf(wire', todo, cut, Sent, 2 + Len(b))
      BY <1>1, <1>7, <2>3, <3>1, <3>4
    <3> QED  BY <1>1, <1>3, <1>8, <2>2, <2>7, <3>3, <3>4, <3>5, AfterHeadKeeps
  <2> QED  BY <2>6, <2>7
<1> QED  BY <1>10, <1>11

(***************************************************************************)
(* The theorems.                                                           *)
(***************************************************************************)

\* The invariant holds at the start and every step keeps it.
LEMMA HttpInductive ==
    /\ Init => HttpInv
    /\ HttpInv /\ [Next]_vars => HttpInv'
<1>1. Init => HttpInv
  <2> SUFFICES ASSUME Init PROVE HttpInv
    OBVIOUS
  <2>1. <<>> \in Seq(WireByte) /\ <<>> \in Seq(Byte)
    OBVIOUS
  <2>2. HttpTypeOK
    BY <2>1 DEF Init, HttpTypeOK, Locations
  <2>3. Quiet /\ Unread /\ Partly
    BY DEF Init, Quiet, Unread, Partly
  <2> QED  BY <2>2, <2>3 DEF HttpInv
<1>2. ASSUME HttpInv, [Next]_vars PROVE HttpInv'
  <2>1. ASSUME ReadStep PROVE HttpInv'
    BY <1>2, <2>1, FailuresKeep, DrainEofKeeps, LengthDoneKeeps, ReadHeadKeeps, BodyReadsKeep
      DEF ReadStep
  <2> QED  BY <1>2, <2>1, HttpStutter, ServerSendKeeps, ServerCloseKeeps, ConnectionKeeps,
              SendRequestKeeps DEF Next
<1> QED  BY <1>1, <1>2

\* What a successful return promises, when all of the body was got.
LEMMA WholeBody ==
    ASSUME HttpInv, answer # 0,
           Success(IF last_request_ = "head" THEN <<>> ELSE Responses[answer].body)
    PROVE  GoodBody'
<1>1. answer \in DOMAIN Responses
  BY AnswerFacts DEF HttpInv
<1>2. Responses[answer].body \in Seq(Byte)
  BY <1>1, ResponseFacts
<1>3. IsPrefix(Responses[answer].body, Responses[answer].body)
  BY <1>2 DEF IsPrefix
<1>4. Asked' = Responses[answer]
  BY DEF Asked, Success
<1> QED  BY <1>3, <1>4 DEF GoodBody, Success

\* A chunked response is a coded body.
LEMMA CodedResponse ==
    ASSUME NEW i \in DOMAIN Responses, Responses[i].chunked
    PROVE  /\ Responses[i].wire \in Seq(Byte) /\ Responses[i].body \in Seq(Byte)
           /\ Responses[i].parts \in Seq(Part)
           /\ IsCoding(Responses[i].wire, Responses[i].body, Responses[i].parts)
<1>1. IsCoding(Responses[i].wire, Responses[i].body, Responses[i].parts)
  BY ResponsesAssumption
<1> QED  BY <1>1, ResponseFacts

\* HttpChunkedDecoder undoes the coding of the server's chunked bodies: what it
\* makes of the beginning of one is the beginning of the body.
LEMMA DecoderUndoes ==
    ASSUME NEW i \in DOMAIN Responses, Responses[i].chunked,
           NEW n \in 0 .. Len(Responses[i].wire)
    PROVE  LET dec == FilterBuf(NewDecoder, UpTo(Responses[i].wire, n)) IN
           /\ IsPrefix(dec.out, Responses[i].body)
           /\ n = Len(Responses[i].wire) => dec.out = Responses[i].body
<1>1. PICK W \in Seq(Byte), B \in Seq(Byte), parts \in Seq(Part) :
        W = Responses[i].wire /\ B = Responses[i].body /\ IsCoding(W, B, parts)
  BY CodedResponse
<1> DEFINE buf == UpTo(W, n)
           dec == FilterBuf(NewDecoder, buf)
<1>2. n \in Nat /\ n <= Len(W) /\ n \in 0 .. Len(W) /\ 0 \in Nat /\ 0 <= n
  BY <1>1
<1>3. buf \in Seq(Byte) /\ Slice(buf, W, 0, n)
  <2>1. /\ buf \in Seq(Byte) /\ Len(buf) = n
        /\ \A j \in 1 .. n : buf[j] = W[j]
    BY <1>2, Parts
  <2>2. n - 0 = n /\ \A j \in 1 .. n : 0 + j = j
    BY <1>2
  <2> QED  BY <2>1, <2>2 DEF Slice
<1> HIDE DEF buf
<1>4. Follow(dec, W, B, parts, n)
  BY <1>1, <1>2, <1>3, StartFollows, FilterFollows
<1> HIDE DEF dec
<1>5. IsPrefix(dec.out, B) /\ (n = Len(W) => dec.out = B)
  <2>1. IsPrefix(dec.out, B) /\ (n = Len(W) => Finished(dec, B))
    BY <1>1, <1>2, <1>4, FollowOut
  <2> QED  BY <2>1 DEF Finished
<1> QED  BY <1>1, <1>5 DEF dec, buf

\* What the end of the stream leaves is the beginning of the body.
LEMMA DrainedBody ==
    ASSUME HttpInv, DrainEof
    PROVE  GoodBody'
<1> DEFINE r == Responses[answer]
           dec == FilterBuf(NewDecoder, body)
<1>1. /\ HttpInv' /\ last_request_ # "head" /\ answer \in DOMAIN Responses
      /\ Begins(body, r.wire) /\ body \in Seq(Byte)
      /\ ~cut => body = r.wire
      /\ r.length = -1
      /\ \/ pc' = "failed"
         \/ r.chunked /\ Success(dec.out)
         \/ ~r.chunked /\ Success(body)
  BY DrainEofKeeps
<1>2. /\ r.body \in Seq(Byte) /\ r.wire \in Seq(Byte) /\ (~r.chunked => r.wire = r.body)
      /\ answer # 0
  BY <1>1, ResponseFacts
<1>3. Len(body) \in 0 .. Len(r.wire)
  BY <1>1, <1>2 DEF Begins
<1>4. UpTo(r.wire, Len(body)) = body
  <2>1. /\ UpTo(r.wire, Len(body)) \in Seq(Byte) /\ Len(UpTo(r.wire, Len(body))) = Len(body)
        /\ \A i \in 1 .. Len(body) : UpTo(r.wire, Len(body))[i] = r.wire[i]
    BY <1>2, <1>3, Parts
  <2> QED  BY <1>1, <2>1, SameSeq DEF Begins
<1>5. ASSUME NEW x, Success(x), IsPrefix(x, r.body), ~cut => x = r.body PROVE GoodBody'
  <2>1. Asked' = r /\ cut' = cut /\ last_request_' # "head" /\ result'[2] = x
    BY <1>1, <1>2, <1>5 DEF Asked, Success
  <2> QED  BY <1>1, <1>5, <2>1 DEF GoodBody
<1>6. CASE pc' = "failed"
  <2>1. result' \in {<<>>, <<"error">>}
    BY <1>1, <1>6 DEF HttpInv, Quiet
  <2> QED  BY <2>1 DEF GoodBody
<1>7. CASE r.chunked /\ Success(dec.out)
  <2>1. /\ IsPrefix(dec.out, r.body)
        /\ Len(body) = Len(r.wire) => dec.out = r.body
    BY <1>1, <1>3, <1>4, <1>7, DecoderUndoes
  <2> HIDE DEF r, dec
  <2> QED  BY <1>1, <1>5, <1>7, <2>1
<1>8. CASE ~r.chunked /\ Success(body)
  <2>1. IsPrefix(body, r.body)
    BY <1>2, <1>3, <1>4, <1>8, <1>1 DEF IsPrefix, UpTo
  <2> HIDE DEF r
  <2> QED  BY <1>1, <1>2, <1>5, <1>8, <2>1
<1> QED  BY <1>1, <1>6, <1>7, <1>8

\* A response that ReadResponse returns as a success has the body the server
\* sent, all of it or the beginning of it when the connection was cut, for any
\* responses, plain or chunked, any reads and any moment of the close.
THEOREM ResponsesAreGood == Spec => []GoodBody
<1>1. Init => GoodBody
  BY DEF Init, GoodBody
<1>2. ASSUME HttpInv, HttpInv', GoodBody, [Next]_vars PROVE GoodBody'
  <2>1. CASE pc' # "idle"
    <3>1. result' \in {<<>>, <<"error">>}
      BY <1>2, <2>1 DEF HttpInv, Quiet
    <3> QED  BY <3>1 DEF GoodBody
  <2>2. CASE pc' = "idle" /\ UNCHANGED <<result, last_request_, answer, cut>>
    <3>1. Asked' = Asked
      BY <2>2 DEF Asked
    <3> QED  BY <1>2, <2>2, <3>1 DEF GoodBody
  <2>3. CASE pc' = "idle" /\ ServerClose
    <3>1. UNCHANGED <<pc, result, last_request_, answer>>
      BY <2>3 DEF ServerClose, client
    <3>2. cut' = cut
      BY <1>2, <2>3, <3>1, ServerCloseKeeps
    <3> QED  BY <2>2, <2>3, <3>1, <3>2
  <2>4. CASE pc' = "idle" /\ (UNCHANGED vars \/ ServerSend \/ Connect)
    BY <2>2, <2>4 DEF vars, client, server, ServerSend, Connect
  <2>5. CASE LengthDone
    BY <1>2, <2>5, LengthDoneKeeps, WholeBody
  <2>6. CASE DrainEof
    BY <1>2, <2>6, DrainedBody
  <2>7. ASSUME NEW n \in 1 .. Len(wire), ReadHead(n), pc' = "idle" PROVE GoodBody'
    BY <1>2, <2>7, ReadHeadKeeps, WholeBody
  <2>8. \/ Disconnect \/ (\E req \in Request : SendRequest(req)) \/ SendFails \/ SendFileFails
        \/ ReadResponse \/ HeadFails \/ HeadEof \/ LengthEof
        \/ (\E n \in 1 .. Len(wire) : ReadDrain(n) \/ ReadLength(n))
        => pc' # "idle"
    BY DEF Disconnect, SendRequest, SendFails, SendFileFails, ReadResponse, HeadFails, HeadEof,
           LengthEof, ReadDrain, ReadLength, Return, Die
  <2> QED  BY <1>2, <2>1, <2>3, <2>4, <2>5, <2>6, <2>7, <2>8 DEF Next, ReadStep
<1> QED  BY <1>1, <1>2, HttpInductive, PTL DEF Spec

\* HttpChunkedDecoder gives the body of any chunked response back and stops at
\* its end, into whichever pieces the bytes are cut.
THEOREM PiecesAreJoined == Spec => []PiecesDontMatter
<1>1. ASSUME HttpInv PROVE PiecesDontMatter
  <2>1. SUFFICES ASSUME Asked.chunked,
                        NEW i \in 0 .. Len(Asked.wire), NEW j \in i .. Len(Asked.wire)
                 PROVE  LET d1 == FilterBuf(NewDecoder, UpTo(Asked.wire, i))
                            d2 == FilterBuf(d1, SubSeq(Asked.wire, i + 1, j))
                            d3 == FilterBuf(d2, From(Asked.wire, j))
                        IN d3.out = Asked.body /\ d3.eof /\ ~d3.error /\ d3.after = 0
    BY DEF PiecesDontMatter
  <2>2. PICK W \in Seq(Byte), B \in Seq(Byte), parts \in Seq(Part) :
          W = Asked.wire /\ B = Asked.body /\ IsCoding(W, B, parts)
    <3>1. answer # 0
      BY <2>1 DEF Asked
    <3>2. answer \in DOMAIN Responses /\ Asked = Responses[answer]
      BY <1>1, <3>1, AnswerFacts DEF HttpInv, Asked
    <3> QED  BY <2>1, <3>2, CodedResponse
  <2>3. /\ i \in Nat /\ j \in Nat /\ Len(W) \in Nat /\ i <= j /\ j <= Len(W)
        /\ i \in 0 .. Len(W) /\ j \in 0 .. Len(W)
    BY <2>2
  <2> DEFINE b1 == UpTo(W, i)
             b2 == SubSeq(W, i + 1, j)
             b3 == From(W, j)
             d1 == FilterBuf(NewDecoder, b1)
             d2 == FilterBuf(d1, b2)
             d3 == FilterBuf(d2, b3)
  <2>4. b1 \in Seq(Byte) /\ Slice(b1, W, 0, i)
    <3>1. b1 \in Seq(Byte) /\ Len(b1) = i /\ \A k \in 1 .. i : b1[k] = W[k]
      BY <2>3, Parts
    <3>2. i - 0 = i /\ \A k \in 1 .. i : 0 + k = k
      BY <2>3
    <3> QED  BY <3>1, <3>2 DEF Slice
  <2>5. b2 \in Seq(Byte) /\ Slice(b2, W, i, j)
    <3>1. \A k \in i + 1 .. j : k \in 1 .. Len(W)
      BY <2>3
    <3>2. b2 = [k \in 1 .. j - i |-> W[i + k]]
      BY <2>3, <3>1
    <3>3. \A k \in 1 .. j - i : W[i + k] \in Byte
      BY <2>3
    <3>4. b2 \in Seq(Byte) /\ Len(b2) = j - i
      BY <2>3, <3>2, <3>3
    <3> QED  BY <2>3, <3>2, <3>4 DEF Slice
  <2>6. b3 \in Seq(Byte) /\ Slice(b3, W, j, Len(W))
    BY <2>3, Parts DEF Slice
  <2> HIDE DEF b1, b2, b3
  <2>7. Follow(d1, W, B, parts, i)
    <3>1. 0 \in Nat /\ 0 <= i /\ i <= Len(W)
      BY <2>3
    <3> QED  BY <2>2, <2>3, <2>4, <3>1, StartFollows, FilterFollows
  <2> HIDE DEF d1
  <2>8. Follow(d2, W, B, parts, j)
    BY <2>2, <2>3, <2>5, <2>7, FilterFollows
  <2> HIDE DEF d2
  <2>9. Follow(d3, W, B, parts, Len(W))
    BY <2>2, <2>3, <2>6, <2>8, FilterFollows
  <2> HIDE DEF d3
  <2>10. d3.out = B /\ d3.eof /\ ~d3.error /\ d3.after = 0
    BY <2>2, <2>3, <2>9, FollowOut DEF Finished
  <2> QED  BY <2>2, <2>10 DEF d1, d2, d3, b1, b2, b3
<1> QED  BY <1>1, HttpInductive, PTL DEF Spec

=============================================================================
